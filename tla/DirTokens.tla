------------------------------ MODULE DirTokens ------------------------------
(***************************************************************************)
(* The token protocol of directory connections, composed with the         *)
(* connection model of DirConnection: GetToken (MutableConnection) mints  *)
(* a token for the connection's directory; Link (BaseConnection) and      *)
(* Rename (MutableConnection) name their destination directory by such a  *)
(* token, so the client that moves or links an entry holds a connection   *)
(* to the source and only a token for the destination.                    *)
(*                                                                         *)
(* Entries are abstracted to the nodes they name.  Directory entries are  *)
(* DirConnection's `tree`; file entries, which can be hard-linked, are    *)
(* `files`.  A token is recorded with the node it is bound to and, as a   *)
(* ghost, the rights granted to the client of the connection that minted  *)
(* it.  The token registry itself is outside this tree: get_container may *)
(* also fail (an unknown or expired token), which changes nothing.        *)
(***************************************************************************)
EXTENDS DirConnection

LOCAL INSTANCE Relation

CONSTANTS
    FileNodes,         \* file nodes
    FileChildren,      \* FileChildren[n]: the files initially linked in directory n
    HasTokenRegistry,  \* whether the execution scope exposes a token registry
    HasEntryConstructor, \* whether the execution scope has an entry constructor
    SpareNodes,        \* nodes not yet constructed, which CREATE opens may make
    CreateFlagChoices  \* flags of Open requests that carry CREATE

ASSUME /\ FileNodes \cap Nodes = {} /\ FileChildren \in [Nodes -> SUBSET FileNodes]
       /\ SpareNodes \subseteq (Nodes \cup FileNodes) \ {RootNode}
       /\ \A f \in CreateFlagChoices : "CREATE" \in f
       \* Open requests with CREATE are the OpenCreate action's; DirConnection's
       \* Open is the one for a scope without an entry constructor.
       /\ HasEntryConstructor => \A f \in OpenFlagChoices : "CREATE" \notin f

VARIABLES
    files,   \* files[n]: the file entries currently linked in directory n
    tokens,  \* tokens minted so far: [node, granted]
    fresh    \* the spare nodes no entry constructor has made yet

tokVars == <<conn, tree, rootRights, shutdown, files, tokens, fresh>>

\* All entries of directory n.
Entries(n) == tree[n] \cup files[n]

TokTypeOK ==
    /\ TypeOK
    /\ files \in [Nodes -> SUBSET FileNodes]
    /\ tokens \subseteq [node : MutableNodes, granted : SUBSET Rights]
    /\ fresh \subseteq SpareNodes

TokInit ==
    /\ Init
    /\ files = FileChildren
    /\ tokens = {}
    /\ fresh = SpareNodes

\* Mutant: GetToken answered on every connection, immutable ones included.
GetTokenAnyConnection(c) ==
    /\ conn[c].live
    /\ IF "RIGHT_WRITABLE" \in conn[c].flags /\ HasTokenRegistry
       THEN tokens' = tokens \cup {[node |-> conn[c].node, granted |-> rootRights[c]]}
       ELSE UNCHANGED tokens
    /\ UNCHANGED <<conn, tree, rootRights, files, fresh>>

\* Mutant: GetToken without the RIGHT_WRITABLE check.
GetTokenNoRightsCheck(c) ==
    /\ conn[c].live
    /\ IF conn[c].node \in MutableNodes /\ HasTokenRegistry
       THEN tokens' = tokens \cup {[node |-> conn[c].node, granted |-> rootRights[c]]}
       ELSE UNCHANGED tokens
    /\ UNCHANGED <<conn, tree, rootRights, files, fresh>>

\* MutableConnection::handle_get_token: ACCESS_DENIED without
\* RIGHT_WRITABLE, NOT_SUPPORTED without a registry, else the registry's
\* token for this directory.  On an ImmutableConnection the derived request
\* falls through BaseConnection::handle_request unanswered.
GetToken(c) ==
    /\ conn[c].live
    /\ IF /\ conn[c].node \in MutableNodes
          /\ "RIGHT_WRITABLE" \in conn[c].flags
          /\ HasTokenRegistry
       THEN tokens' = tokens \cup {[node |-> conn[c].node, granted |-> rootRights[c]]}
       ELSE UNCHANGED tokens
    /\ UNCHANGED <<conn, tree, rootRights, files, fresh>>

\* The directories a token held by the client can resolve to.
TokenDirs == {t.node : t \in tokens}

\* Mutant: Link without the can_hardlink check.
LinkAnyEntry(c) ==
    /\ conn[c].live
    /\ \E src \in Nodes \cup FileNodes, dst \in Nodes :
          IF /\ HasTokenRegistry
             /\ src \in Entries(conn[c].node)
             /\ dst \in TokenDirs
          THEN IF src \in FileNodes
               THEN /\ files' = [files EXCEPT ![dst] = @ \cup {src}]
                    /\ UNCHANGED tree
               ELSE /\ tree' = [tree EXCEPT ![dst] = @ \cup {src}]
                    /\ UNCHANGED files
          ELSE UNCHANGED <<tree, files>>
    /\ UNCHANGED <<conn, rootRights, tokens, fresh>>

\* BaseConnection::handle_link: NOT_SUPPORTED without a registry; the
\* source entry is looked up in this connection's directory (get_entry);
\* only an entry that can_hardlink (a file) may be linked, else NOT_FILE;
\* the destination directory is the token's container, and its link adds
\* the entry.  No rights of this connection are checked.
Link(c) ==
    /\ conn[c].live
    /\ \E src \in Nodes \cup FileNodes, dst \in Nodes :
          IF /\ HasTokenRegistry
             /\ src \in Entries(conn[c].node)
             /\ src \in FileNodes
             /\ dst \in TokenDirs
          THEN files' = [files EXCEPT ![dst] = @ \cup {src}]
          ELSE UNCHANGED files
    /\ UNCHANGED <<conn, tree, rootRights, tokens, fresh>>

\* SimpleFilesystem::rename of entry `src` from directory `from` into
\* directory `to`, whichever lock order it takes (the Rename module checks
\* the locking): the entry leaves `from` and is linked in `to`.
MoveEntry(from, src, to) ==
    IF src \in FileNodes
    THEN /\ files' = [files EXCEPT ![from] = @ \ {src}, ![to] = @ \cup {src}]
         /\ UNCHANGED tree
    ELSE /\ tree' = [tree EXCEPT ![from] = @ \ {src}, ![to] = @ \cup {src}]
         /\ UNCHANGED files

\* MutableConnection::handle_rename: ACCESS_DENIED without RIGHT_WRITABLE,
\* NOT_SUPPORTED without a registry, NOT_FOUND when the token resolves to
\* nothing; then the filesystem moves `src` from this connection's
\* directory to the token's (NOT_FOUND if it is not there).
RenameReq(c) ==
    /\ conn[c].live
    /\ \E src \in Nodes \cup FileNodes, dst \in Nodes :
          IF /\ conn[c].node \in MutableNodes
             /\ "RIGHT_WRITABLE" \in conn[c].flags
             /\ HasTokenRegistry
             /\ dst \in TokenDirs
             /\ src \in Entries(conn[c].node)
          THEN MoveEntry(conn[c].node, src, dst)
          ELSE UNCHANGED <<tree, files>>
    /\ UNCHANGED <<conn, rootRights, tokens, fresh>>

\* ImmutableConnection::entry_not_found: NOT_FOUND, or NOT_SUPPORTED for a
\* CREATE request; nothing is made.
ImmutableEntryNotFound == UNCHANGED <<conn, tree, rootRights, files, fresh>>

\* NewEntryType::from_flags_and_mode: a directory when the request says so
\* by OPEN_FLAG_DIRECTORY or by a path ending in "/", a file otherwise.
NewEntryIsDir(flags, isDir) == isDir \/ "DIRECTORY" \in flags

\* MutableConnection::entry_not_found: NOT_FOUND without CREATE,
\* NOT_SUPPORTED when the scope has no entry constructor, else the
\* constructor's create_entry makes a new node; the directory links it
\* under the name and opens it with the same flags (a directory
\* connection for a directory; a file's connection is not in this model).
\* The spare nodes bound how many entries are made.
MutableEntryNotFound(c, flags, isDir) ==
    IF "CREATE" \in flags /\ HasEntryConstructor
    THEN \E new \in fresh :
            /\ (new \in Nodes) = NewEntryIsDir(flags, isDir)
            /\ fresh' = fresh \ {new}
            /\ IF new \in Nodes
               THEN /\ tree' = [tree EXCEPT ![conn[c].node] = @ \cup {new}]
                    /\ CreateConnection(new, flags, rootRights[c])
                    /\ UNCHANGED files
               ELSE /\ files' = [files EXCEPT ![conn[c].node] = @ \cup {new}]
                    /\ UNCHANGED <<tree, conn, rootRights>>
    ELSE UNCHANGED <<conn, tree, rootRights, files, fresh>>

\* BaseConnection::handle_open of a one-name path ("x", or "x/" which sets
\* MODE_TYPE_DIRECTORY) with CREATE among the flags:
\* check_child_connection_flags, then the directory's open, which opens an
\* existing entry and otherwise calls the connection's entry_not_found.
OpenCreate(c) ==
    /\ conn[c].live
    /\ \E flags \in CreateFlagChoices, isDir \in BOOLEAN,
          child \in Entries(conn[c].node) \cup {NoNode} :
          LET res == CheckChildConnectionFlags(conn[c].flags, flags,
                                               IF isDir THEN "dir" ELSE "none")
          IN  CASE res.status # "OK" ->
                     UNCHANGED <<conn, tree, rootRights, files, fresh>>
                [] child \in Nodes ->
                     DirectoryOpen(c, res.flags, child) /\ UNCHANGED <<tree, files, fresh>>
                [] child \in FileNodes ->
                     UNCHANGED <<conn, tree, rootRights, files, fresh>>
                [] conn[c].node \in MutableNodes ->
                     MutableEntryNotFound(c, res.flags, isDir)
                [] OTHER -> ImmutableEntryNotFound
    /\ UNCHANGED tokens

\* The requests of DirConnection leave files and tokens alone.
TokNext ==
    \/ Next /\ UNCHANGED <<files, tokens, fresh>>
    \/ /\ \E c \in Conn : GetToken(c) \/ Link(c) \/ RenameReq(c) \/ OpenCreate(c)
       /\ UNCHANGED shutdown

\* DirConnection's fairness: a task observes the shutdown signal.
TokFairness ==
    \A c \in Conn : WF_tokVars(ObserveShutdown(c) /\ UNCHANGED <<files, tokens, fresh>>)

TokSpec == TokInit /\ [][TokNext]_tokVars /\ TokFairness

-----------------------------------------------------------------------------
(* Properties.                                                             *)

\* Directories are never hard-linked: whatever Links and Renames clients
\* send, every directory is an entry of at most one directory
\* (handle_link's can_hardlink check, and rename removing the entry from
\* its source as it links it into the destination).
DirectoryHasOneParent ==
    \A d \in Nodes : \A p, q \in Nodes : (d \in tree[p] /\ d \in tree[q]) => p = q

\* "A directory that can not be modified by the client, no matter what
\* permissions the client has": no Link, Rename or Unlink through any token
\* or connection changes an immutable directory's entries.
ImmutableEntriesNeverChange ==
    [][\A n \in Nodes \ MutableNodes : Entries(n)' = Entries(n)]_tokVars

\* A directory only gains entries on behalf of a client that was granted
\* write access: by Link or Rename through a token minted for it by such a
\* client (Link takes no rights on the source connection, so GetToken's
\* RIGHT_WRITABLE check is what stands in the way), or by a CREATE open on
\* a connection to it that descends from such a client
\* (check_child_connection_flags' CREATE check, through every Open and
\* Clone that led to the connection).
GainOnlyWithGrantedWrite ==
    [][\A n \in Nodes :
         ~(Entries(n)' \subseteq Entries(n)) =>
            \/ \E t \in tokens : t.node = n /\ "RIGHT_WRITABLE" \in t.granted
            \/ \E c \in Conn : /\ conn[c].live /\ conn[c].node = n
                               /\ "RIGHT_WRITABLE" \in rootRights[c]
                               /\ OpenCreate(c)]_tokVars

\* The directory graph stays a tree: no directory is, through its
\* entries, inside itself.  Stated for rename(src_dir, src, dst_dir, dst)
\* when dst_dir lies below src.
NoDirectoryCycle ==
    LET contains == [p \in Nodes \X Nodes |-> p[2] \in tree[p[1]]]
    IN  IsIrreflexive(TransitiveClosure(contains, Nodes), Nodes)
=============================================================================
