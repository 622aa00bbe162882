------------------------------- MODULE Remote -------------------------------
(***************************************************************************)
(* A remote mount point (remote.rs) reached through a directory           *)
(* connection: the client's Open of "mnt/<rest>" on a connection with     *)
(* flags `parent` goes through BaseConnection::handle_open, whose         *)
(* check_child_connection_flags narrows the flags; the directory then     *)
(* hands the remaining path to Remote::open.  That either serves a local  *)
(* node connection (NODE_REFERENCE or NO_REMOTE, empty path) or passes    *)
(* the request to the routing function, which for remote_dir opens it on  *)
(* the remote directory proxy.                                            *)
(*                                                                         *)
(* Opens through the mount are independent of each other, so the state  *)
(* keeps the outcome of the latest one: the request the routing function *)
(* received, the local node connection served, or an error reply, each    *)
(* with the flags of the connection the client opened through.  Whether  *)
(* the mount was made by remote_dir or with a caller's routing function  *)
(* is fixed at Init.                                                       *)
(***************************************************************************)
EXTENDS VfsFlags

CONSTANTS
    ParentFlagChoices,   \* flags of the directory connection the client opens through
    OpenFlagChoices      \* flags a client may pass to Open

\* fuchsia.io OPEN_FLAG_NO_REMOTE, which only Remote inspects.
RemoteOpenFlags == Flags \cup {"NO_REMOTE"}

\* The path left after the mount point's name: empty, one name, two names.
Rest == {"", "a", "a/b"}

VARIABLES
    dirRemote,  \* the mount was made by remote_dir (a DirectoryProxy)
    outcome     \* the latest open: [kind, parent, flags, path]

vars == <<dirRemote, outcome>>

Kinds == {"none", "remote", "local", "error"}

TypeOK ==
    /\ dirRemote \in BOOLEAN
    /\ outcome \in [kind : Kinds, parent : SUBSET Flags,
                    flags : SUBSET RemoteOpenFlags, path : Rest \cup {"."}]
    \* the local node connection knows nothing of NO_REMOTE
    /\ outcome.kind = "local" => outcome.flags \subseteq Flags

Init ==
    /\ dirRemote \in BOOLEAN
    /\ outcome = [kind |-> "none", parent |-> {}, flags |-> {}, path |-> ""]

\* The routing function: remote_dir opens "." on the proxy for an empty
\* path and the path itself otherwise; a routing function given to
\* remote() receives the path as is.
Route(path) == IF dirRemote /\ path = "" THEN "." ELSE path

\* Remote::open_as_remote: the request, flags unchanged, to the routing
\* function.
OpenAsRemote(parent, flags, path) ==
    outcome' = [kind |-> "remote", parent |-> parent, flags |-> flags, path |-> Route(path)]

\* Remote::open_as_node: a local node connection (service Connection).
OpenAsNode(parent, flags) ==
    outcome' = [kind |-> "local", parent |-> parent, flags |-> flags, path |-> ""]

\* send_on_open_with_error: the client's channel gets the error.
OpenFailed(parent, flags) ==
    outcome' = [kind |-> "error", parent |-> parent, flags |-> flags, path |-> ""]

LocalOnly == {"NODE_REFERENCE", "NO_REMOTE"}

\* Mutant: NO_REMOTE is not turned into NODE_REFERENCE.
RemoteOpenNoConversion(parent, flags, path) ==
    IF flags \cap LocalOnly # {}
    THEN IF path # "" THEN OpenFailed(parent, flags)
         ELSE OpenAsNode(parent, flags)
    ELSE OpenAsRemote(parent, flags, path)

\* Remote::open: a node-only request with a non-empty path fails BAD_PATH;
\* with an empty path NO_REMOTE becomes NODE_REFERENCE and a local node
\* connection is served; anything else is forwarded.
RemoteOpen(parent, flags, path) ==
    IF flags \cap LocalOnly # {}
    THEN IF path # "" THEN OpenFailed(parent, flags)
         ELSE OpenAsNode(parent, IF "NO_REMOTE" \in flags
                                 THEN (flags \ {"NO_REMOTE"}) \cup {"NODE_REFERENCE"}
                                 ELSE flags)
    ELSE OpenAsRemote(parent, flags, path)

\* BaseConnection::handle_open of "mnt/<rest>" on a connection with flags
\* `parent`: check_child_connection_flags, then the directory's open of
\* its child "mnt" with the rest of the path.
OpenThrough(parent, flags, rest) ==
    LET res == CheckChildConnectionFlags(parent, flags, "none")
    IN  /\ IF res.status = "OK"
           THEN RemoteOpen(parent, res.flags, rest)
           ELSE OpenFailed(parent, flags)
        /\ UNCHANGED dirRemote

Next ==
    \E parent \in ParentFlagChoices, flags \in OpenFlagChoices, rest \in Rest :
        OpenThrough(parent, flags, rest)

Spec == Init /\ [][Next]_vars

-----------------------------------------------------------------------------
(* Properties.                                                             *)

\* The remote gets nothing the client could not do locally: every request
\* the routing function passes on carries no right of the connection it was
\* opened through is missing, and a POSIX flag only where that connection
\* holds the matching right, so the remote's own POSIX expansion cannot
\* raise rights (check_child_connection_flags before Remote::open, which
\* does no validation of its own).
ForwardedWithinParentRights ==
    LET r == outcome IN
    r.kind = "remote" =>
        /\ RightsOf(r.flags) \subseteq RightsOf(r.parent)
        /\ "POSIX_DEPRECATED" \notin r.flags
        /\ "POSIX_WRITABLE" \in r.flags => "RIGHT_WRITABLE" \in RightsOf(r.parent)
        /\ "POSIX_EXECUTABLE" \in r.flags => "RIGHT_EXECUTABLE" \in RightsOf(r.parent)

=============================================================================
