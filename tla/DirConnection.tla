---------------------------- MODULE DirConnection ----------------------------
(***************************************************************************)
(* Connections to pseudo-directories: the request loop of                *)
(* directory/connection/io1.rs (BaseConnection) extended by               *)
(* directory/mutable/connection/io1.rs (MutableConnection) for the nodes  *)
(* in MutableNodes and by directory/immutable/connection/io1.rs           *)
(* (ImmutableConnection) for the others.                                  *)
(*                                                                         *)
(* Every live connection is a slot of Conn holding the node it serves and *)
(* the flags it was created with.  A client may attach to the root node   *)
(* from outside (the server end handed to create_connection), and every   *)
(* other connection is made by Open or Clone on a live one.  The ghost    *)
(* variable rootRights records, for each connection, the rights of the    *)
(* external connection it descends from: the rights a client was given,  *)
(* which no chain of Open and Clone may exceed.                           *)
(*                                                                         *)
(* Every connection task runs on one execution scope, which may be shut   *)
(* down.  After the shutdown no new task is spawned: scope.spawn and     *)
(* spawn_with_shutdown both refuse it.  ImmutableConnection's loop ends   *)
(* on the signal; MutableConnection's loop (BaseConnection's              *)
(* handle_requests) has no shutdown branch, and what the scope does to a  *)
(* task already running is outside this tree, so the model lets a        *)
(* mutable directory's connection go on serving: more behaviours, never   *)
(* fewer.                                                                  *)
(***************************************************************************)
EXTENDS VfsFlags

CONSTANTS
    Conn,              \* connection slots (bounds the number of live connections)
    Nodes,             \* directory nodes
    MutableNodes,      \* nodes that are mutable directories
    RootNode,          \* the node external clients attach to
    Children,          \* Children[n]: the nodes initially linked in directory n
    RootFlagChoices,   \* flags an external client may attach with
    OpenFlagChoices,   \* flags a client may pass to Open
    CloneFlagChoices   \* flags a client may pass to Clone

ASSUME RootNode \in Nodes /\ MutableNodes \subseteq Nodes /\ Children \in [Nodes -> SUBSET Nodes]

\* Paths as Open and Unlink classify them: "/" and "" are rejected, "." and
\* "./" name the directory itself, "x" and "x/" name a child (the trailing
\* slash sets MODE_TYPE_DIRECTORY), "a/../b" fails Path::validate_and_split,
\* "x/y" names a grandchild (which Unlink does not traverse to).
Paths == {"", "/", ".", "./", "x", "x/", "a/../b", "x/y"}

NoNode == "NoNode"

VARIABLES
    conn,        \* conn[c]: [live, node, flags] of connection slot c
    tree,        \* tree[n]: the entries currently linked in directory n
    rootRights,  \* ghost: rights of the external connection c descends from
    shutdown     \* the execution scope's shutdown signal has fired

vars == <<conn, tree, rootRights, shutdown>>

FreeConn == [live |-> FALSE, node |-> NoNode, flags |-> {}]

TypeOK ==
    /\ conn \in [Conn -> [live : BOOLEAN, node : Nodes \cup {NoNode},
                          flags : SUBSET Flags]]
    /\ tree \in [Nodes -> SUBSET Nodes]
    /\ rootRights \in [Conn -> SUBSET Rights]
    /\ shutdown \in BOOLEAN
    /\ \A c \in Conn : conn[c].live => conn[c].node \in Nodes

Init ==
    /\ conn = [c \in Conn |-> FreeConn]
    /\ tree = Children
    /\ rootRights = [c \in Conn |-> {}]
    /\ shutdown = FALSE

-----------------------------------------------------------------------------
(* Connection creation.                                                    *)

\* A new connection task serving `node` in a free slot.  `ceiling` is the
\* ghost value handed down to it.
Serve(node, flags, ceiling) ==
    \E s \in Conn :
        /\ ~conn[s].live
        /\ conn' = [conn EXCEPT ![s] = [live |-> TRUE, node |-> node, flags |-> flags]]
        /\ rootRights' = [rootRights EXCEPT ![s] = ceiling]

\* MutableConnection::create_connection: validate the flags (an error is
\* reported on the new server end only, so the state is unchanged), then
\* scope.spawn the request loop; once the scope is shut down the spawn
\* fails, the error is ignored and the server end is dropped.
MutableCreateConnection(node, flags, ceiling) ==
    LET res == NewConnectionValidateFlags(flags)
    IN  IF res.status = "OK" /\ ~shutdown THEN Serve(node, res.flags, ceiling)
        ELSE UNCHANGED <<conn, rootRights>>

\* Mutant: ImmutableConnection's task spawned after the scope's shutdown.
ImmutableCreateIgnoringShutdown(node, flags, ceiling) ==
    LET res == NewConnectionValidateFlags(flags)
    IN  IF res.status = "OK" THEN Serve(node, res.flags, ceiling)
        ELSE UNCHANGED <<conn, rootRights>>

\* ImmutableConnection::create_connection: the same validation, then
\* spawn_with_shutdown, which after the scope's shutdown drops the task
\* (and with it the server end) instead of running it.
ImmutableCreateConnection(node, flags, ceiling) ==
    MutableCreateConnection(node, flags, ceiling)

\* The directory's open() creates the connection of its own kind.
CreateConnection(node, flags, ceiling) ==
    IF node \in MutableNodes THEN MutableCreateConnection(node, flags, ceiling)
    ELSE ImmutableCreateConnection(node, flags, ceiling)

\* An external client attaches to the root directory.
Attach(flags) ==
    /\ \E s \in Conn : ~conn[s].live
    /\ LET res == NewConnectionValidateFlags(flags)
       IN  CreateConnection(RootNode, flags, RightsOf(res.flags))
    /\ UNCHANGED <<tree, shutdown>>

\* Mutant: Clone without inherit_rights_for_clone.
HandleCloneNoInherit(c, flags) == CreateConnection(conn[c].node, flags, rootRights[c])

\* BaseConnection::handle_clone: rights are inherited from this connection,
\* then a new connection to the same directory is created.
HandleClone(c, flags) ==
    LET res == InheritRightsForClone(conn[c].flags, flags)
    IN  IF res.status = "OK"
        THEN CreateConnection(conn[c].node, res.flags, rootRights[c])
        ELSE UNCHANGED <<conn, rootRights>>

\* A directory's open() for a one-component path (the pseudo-directory
\* implementations are not in this tree): look the child up and
\* open a connection to it; a missing child goes to entry_not_found, which
\* fails NOT_FOUND or NOT_SUPPORTED: ImmutableConnection's always, and
\* MutableConnection's because the scope has no entry constructor.
DirectoryOpen(c, flags, child) ==
    IF child \in tree[conn[c].node]
    THEN CreateConnection(child, flags, rootRights[c])
    ELSE UNCHANGED <<conn, rootRights>>

\* BaseConnection::handle_open.
HandleOpen(c, flags, path, child) ==
    CASE path \in {"/", ""}      -> UNCHANGED <<conn, rootRights>>
      [] path \in {".", "./"}    -> HandleClone(c, flags)
      [] path \in {"a/../b", "x/y"} -> UNCHANGED <<conn, rootRights>>
      [] OTHER ->
            LET mode == IF path = "x/" THEN "dir" ELSE "none"
                res == CheckChildConnectionFlags(conn[c].flags, flags, mode)
            IN  IF res.status = "OK"
                THEN DirectoryOpen(c, res.flags, child)
                ELSE UNCHANGED <<conn, rootRights>>

-----------------------------------------------------------------------------
(* Requests on a live connection.                                          *)

Open(c) ==
    /\ conn[c].live
    /\ \E flags \in OpenFlagChoices, path \in Paths,
          child \in Nodes \cup {NoNode} :
          HandleOpen(c, flags, path, child)
    /\ UNCHANGED <<tree, shutdown>>

Clone(c) ==
    /\ conn[c].live
    /\ \E flags \in CloneFlagChoices : HandleClone(c, flags)
    /\ UNCHANGED <<tree, shutdown>>

\* Close: respond and leave the request loop; the slot is free again.
Close(c) ==
    /\ conn[c].live
    /\ conn' = [conn EXCEPT ![c] = FreeConn]
    /\ rootRights' = [rootRights EXCEPT ![c] = {}]
    /\ UNCHANGED <<tree, shutdown>>

\* Mutant: handle_unlink without the RIGHT_WRITABLE check.
UnlinkNoRightsCheck(c) ==
    /\ conn[c].live
    /\ \E path \in Paths, child \in Nodes :
          IF /\ conn[c].node \in MutableNodes
             /\ path \notin {"/", "", ".", "./", "a/../b", "x/y"}
             /\ child \in tree[conn[c].node]
          THEN tree' = [tree EXCEPT ![conn[c].node] = @ \ {child}]
          ELSE UNCHANGED tree
    /\ UNCHANGED <<conn, rootRights, shutdown>>

\* MutableConnection::handle_unlink: needs RIGHT_WRITABLE on the
\* connection; rejects the directory itself and multi-component paths;
\* then asks the directory to unlink the entry.  Unlink is a derived
\* request: on an ImmutableConnection no handler removes anything.
Unlink(c) ==
    /\ conn[c].live
    /\ \E path \in Paths, child \in Nodes :
          IF /\ conn[c].node \in MutableNodes
             /\ "RIGHT_WRITABLE" \in conn[c].flags
             /\ path \notin {"/", "", ".", "./", "a/../b", "x/y"}
             /\ child \in tree[conn[c].node]
          THEN tree' = [tree EXCEPT ![conn[c].node] = @ \ {child}]
          ELSE UNCHANGED tree
    /\ UNCHANGED <<conn, rootRights, shutdown>>

\* Requests that answer from the connection's own state and change nothing:
\* Describe, Sync, GetAttr, SetAttr, GetFlags, SetFlags, Rewind-free reads.
Query(c) ==
    /\ conn[c].live
    /\ UNCHANGED vars

\* ExecutionScope::shutdown fires the signal of every task spawned with
\* spawn_with_shutdown.
Shutdown ==
    /\ ~shutdown
    /\ shutdown' = TRUE
    /\ UNCHANGED <<conn, tree, rootRights>>

\* The request loop ImmutableConnection spawns with spawn_with_shutdown
\* ends when the signal fires, also while it waits for a request.
ObserveShutdown(c) ==
    /\ conn[c].live
    /\ conn[c].node \notin MutableNodes
    /\ shutdown
    /\ conn' = [conn EXCEPT ![c] = FreeConn]
    /\ rootRights' = [rootRights EXCEPT ![c] = {}]
    /\ UNCHANGED <<tree, shutdown>>

Next ==
    \/ \E flags \in RootFlagChoices : Attach(flags)
    \/ Shutdown
    \/ \E c \in Conn : \/ Open(c) \/ Clone(c) \/ Close(c) \/ Unlink(c) \/ Query(c)
                       \/ ObserveShutdown(c)

\* The executor keeps polling a task whose shutdown signal has fired, and
\* select! polls its branches in random order.  Clients get no fairness.
DirFairness == \A c \in Conn : WF_vars(ObserveShutdown(c))

Spec == Init /\ [][Next]_vars /\ DirFairness

-----------------------------------------------------------------------------
(* Properties.                                                             *)

\* Rights only narrow: whatever chain of Open and Clone requests produced a
\* live connection, its rights are among those of the external connection
\* it descends from (check_child_connection_flags, inherit_rights_for_clone
\* and new_connection_validate_flags together).
RightsNeverEscalate ==
    \A c \in Conn : conn[c].live => RightsOf(conn[c].flags) \subseteq rootRights[c]

\* Only a connection descending from a writable external connection ever
\* removes an entry from a directory (handle_unlink's rights check, through
\* every connection derived by Open and Clone).
UnlinkOnlyWithGrantedWrite ==
    [][\A c \in Conn : (Unlink(c) /\ tree' # tree) => "RIGHT_WRITABLE" \in rootRights[c]]_vars

\* After the scope's shutdown every connection to an immutable directory
\* ends and none is served again, although connections to mutable
\* directories may go on serving (no shutdown branch in BaseConnection's
\* loop) and keep opening and cloning their immutable children:
\* spawn_with_shutdown and the shutdown branch of the loop
\* ImmutableConnection runs.
ImmutableServingEndsAfterShutdown ==
    shutdown ~> [](\A c \in Conn : conn[c].live => conn[c].node \in MutableNodes)
=============================================================================
