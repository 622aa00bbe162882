# TLA+ models of the Rust VFS (`src/lib/storage/vfs/rust/src`)

This directory holds TLA+ models of the Fuchsia Rust pseudo-filesystem
library and of the ramdisk client next to it. The models cover:

- the connection state machines;
- the open-time flag arithmetic;
- the token protocol (GetToken, Link, Rename);
- the lock-ordered rename;
- paginated directory listing;
- remote mount points.

TLC checks them. Each module names the functions it translates, and
`PROJECT.json` maps every definition to its source lines.

## The system

| Part | Source | What it does |
|---|---|---|
| Flag/rights validator | `directory/common.rs` | `new_connection_validate_flags` normalises a new directory connection's flags. `check_child_connection_flags` checks a child's flags against its parent's, including the POSIX soft-fail. |
| Dirents encoder | `directory/common.rs` (`encode_dirent`) | Packs entries into the `max_bytes` budget of a ReadDirents page. |
| Base directory connection | `directory/connection/io1.rs` | One request loop per connection. It handles Open, Clone, Close, the queries, ReadDirents, Rewind, Link and Watch, and hands Unlink, GetToken and Rename to the derived connection. |
| Mutable directory connection | `directory/mutable/connection/io1.rs` | `create_connection`, `entry_not_found`, Unlink, GetToken and Rename. |
| Immutable directory connection | `directory/immutable/connection/io1.rs` | The same loop. Derived requests fall through unanswered. |
| Rename lock ordering | `filesystem/simple.rs` | Chooses `rename_from`, `rename_within` or `rename_to` by comparing the two directories' addresses. |
| File connection | `file/connection/io1.rs` | One task per connection. It owns the flags and a 64-bit seek, serves the file requests, and stops on shutdown. |
| Remote node | `remote.rs` | A mount point. It serves node-only opens locally and forwards everything else to a routing function. |
| Ramdisk client | `ramdevice_client/src/lib.rs` | Creates a ramdisk through the C library and destroys it through `destroy()` or `Drop`. |

**How the parts interact.**

- A directory's Open classifies the path. For `.` it clones.
  Otherwise it checks the child flags and lets the directory open the
  child. The child may be a directory, a file or a remote.
- A directory child's open creates a directory connection, which
  validates its flags again. A file child's open creates a file
  connection. A remote child forwards the request.
- GetToken on a writable, mutable connection mints a token for that
  directory. Link (on any connection) and Rename (on a writable, mutable
  connection) then name their destination directory by that token.
- Rename ends in `SimpleFilesystem::rename`, which takes one or two
  directory locks.
- Every connection is an independent task on a shared execution scope.

## Modules

- **`VfsFlags`**: the flag arithmetic. A flags word is a set of bit
  names, so `flags & F != 0` becomes `F \in flags`.
  - `NewConnectionValidateFlags` and `CheckChildConnectionFlags`
    translate `directory/common.rs` branch by branch.
  - `StricterOrSameRights` and `InheritRightsForClone` live in the
    crate's `common.rs`, which is not in this tree, so they are modelled
    from the specification (§4.1).
- **`DirConnection`**: the connection slots, the directory tree and a
  ghost.
  - Each slot is `conn[c] = [live, node, flags]`.
  - The ghost `rootRights[c]` holds the rights of the external
    connection that `c` descends from.
  - `MutableNodes` are served by `MutableConnection`. The other nodes
    are served by `ImmutableConnection`, on which Unlink changes nothing.
  - `CreateConnection` picks the directory's own kind of connection.
    `MutableCreateConnection` validates the flags and spawns the loop
    with plain `scope.spawn`, which fails once the scope is shut down
    (the comment at `mutable/connection/io1.rs:112-115`); the request is
    then ignored. `ImmutableCreateConnection` validates the same way and
    spawns with `spawn_with_shutdown`, which drops the task after the
    scope's shutdown.
  - `Shutdown` is `ExecutionScope::shutdown`. `ObserveShutdown` is the
    shutdown branch of the loop an immutable-directory connection runs.
    `BaseConnection::handle_requests` in this tree has no such branch,
    and what the scope does to a task it already runs is outside this
    tree, so the model lets a mutable-directory connection that was
    serving go on serving. That only adds behaviours.
  - `Attach` is an external `create_connection`.
  - `Open` calls `HandleOpen` with every class of path: `/` or empty, `.`,
    invalid, multi-component, and a child with or without a trailing
    slash.
  - `Clone`, `Close`, `Unlink` (`handle_unlink`) and `Query` (the
    requests that change nothing) complete the loop.
- **`DirTokens`**: extends `DirConnection` with the file entries `files`
  and the minted `tokens`. Each token records the node it is bound to
  and, as a ghost, the rights the minting client was granted.
  - `GetToken` is `handle_get_token`.
  - `Link` is `handle_link`. It looks up the source entry, checks that it
    can be hard-linked (files only), resolves the token and links the
    entry.
  - `RenameReq` is `handle_rename`. `MoveEntry` is the effect of
    `SimpleFilesystem::rename`; its locking is checked by `Rename`.
  - `OpenCreate` is an Open with CREATE: `check_child_connection_flags`
    (which refuses CREATE without write), then the child if it exists,
    else the directory's `entry_not_found`. On a mutable directory with
    an entry constructor (`HasEntryConstructor`) that is
    `MutableEntryNotFound`: a spare node from `fresh` becomes a new
    directory (then served by a new connection) or a new file. On an
    immutable directory it is `ImmutableEntryNotFound`, which changes
    nothing. Opens without CREATE go through `DirConnection`'s `Open`.
  - The token registry is outside this tree. A lookup may also fail,
    which changes nothing.
  - Entries are abstracted to the nodes they name. A rename therefore
    never replaces an entry in the destination; `Rename` models
    replacement.
- **`Rename`**: tasks serving renames over mutable directories.
  - State: the entries `dir[d][n]`, the lock `owner[d]`, a program
    counter and the current `op`.
  - The `Rename` action is the address comparison of
    `SimpleFilesystem::rename`.
  - The other actions are the lock steps of `rename_within`,
    `rename_from` and `rename_to`.
  - The directory helpers are modelled from the specification (§4.5).
- **`DirReadDirents`**: paginated listing on directory connections.
  - `EncodeDirent` is `encode_dirent`'s budget check: a record takes 10
    bytes plus the name.
  - `HandleReadDirents` is `handle_read_dirents`. The stored cursor is
    replaced by the default before the read. An error return leaves it
    there. Success stores the returned cursor.
  - `Rewind` resets the cursor.
  - The directory's traversal (`Pending`) and the sink (`Fill`, `Done`)
    are outside this tree and modelled from the specification. Names
    are integers in alphabetical order, "." is 0, and the cursor is the
    last name returned. BUFFER_TOO_SMALL is returned only when the first
    entry does not fit.
  - Other clients' `Link`/`Unlink` interleave with the pages.
- **`DirListing`**: the abstract promise of pagination.
  - Each connection has a threshold that never moves back except on
    Rewind or a failed read.
  - A page holds exactly the present names between the old and the new
    threshold.
  - `DirReadDirents` refines it: `thr <- seek`, and the page is the set
    of returned names.
- **`FileConnection`**: the file connection tasks.
  - State: task slots `fc[c] = [st, flags, seek, armed]`, the backing
    file's `size` and `attrs`, the scope's `shutdown` signal, and the
    ghosts `closes[c]` and `granted[c]`. `armed` is whether the
    `OpenFile` holder still owns the file.
  - `CreateConnection` and `Clone` spawn a task. After shutdown they do
    nothing, as `spawn_with_shutdown` does.
  - `CreateConnectionAsync` is the whole of `create_connection_async`.
  - One action per request: `Read`, `Write` (append or at the seek),
    `WriteAtOffset`, `Seek`, `Truncate`, `SetAttr`, `SetFlags` (only
    APPEND changes), `Clone`, `Close` and `Query`.
  - `Drop` is a stream end or error. `ObserveShutdown` is the `select!`
    branch that ends the loop.
  - `UnhandledRequest` is the `_ => panic!` arm of `handle_request`
    for a request it does not list. The task becomes `panicked`; the
    panic is not caught per connection, so every other spawned or
    serving task becomes `aborted`, with no reply and no close. Once
    that happens nothing is spawned and shutdown has no task to reach.
  - The seek is scaled to `W` bits, and `as u64` is `% 2^W`.
  - The backing file is modelled from the specification as a size
    bounded by `Capacity`.
- **`Remote`**: an Open of `mnt/<rest>` through a directory connection.
  `check_child_connection_flags` runs first, then `Remote::open`, which
  leads to one of three outcomes:
  - a node-only request with a path fails BAD_PATH;
  - with an empty path, NO_REMOTE becomes NODE_REFERENCE and a local
    node connection is served;
  - anything else goes to the routing function. `remote_dir`'s routing
    function sends `.` for an empty path.

  Opens through a mount are independent, so the state keeps the latest
  outcome. The kind of mount is chosen at Init.
- **`Ramdisk`**: the lifetime of each `RamdiskClient` value: none, then
  live, then gone.
  - `Build` may fail at the isolated devmgr or at `ramdisk_create`; a
    failure creates nothing.
  - `Destroy` calls `ramdisk_destroy` and then `mem::forget`.
  - `Drop` calls `ramdisk_destroy` and ignores its status.
  - `Use` covers `get_path` and `open`.

**Atomicity.** Each handler is one step. A connection's own state is
touched only by its own task. Each file handler makes one backing call,
and the backing file serialises those calls. So the interleavings that
matter are between tasks at request boundaries.

- `create_connection_async` makes up to two backing calls (open, then
  truncate), and the model merges them into one step. Another task's
  write between the two would be overwritten by the truncation either
  way.
- The rename's lock steps are separate actions, because a task holds a
  lock while it waits for the other.

## Runs

| Run | Config | Expect | Checks |
|---|---|---|---|
| dir_tokens | `MCDirTokens.cfg` | pass | `TokTypeOK`, `RightsNeverEscalate`, `DirectoryHasOneParent`, `UnlinkOnlyWithGrantedWrite`, `ImmutableEntriesNeverChange`, `GainOnlyWithGrantedWrite`, `ImmutableServingEndsAfterShutdown` |
| dir_token_cycle | `MCDirTokensCycle.cfg` | violation | `NoDirectoryCycle` |
| dir_posix_rights | `MCDirConnectionPosix.cfg` | pass | `RightsNeverEscalate` with POSIX flags |
| rename_safety | `MCRename.cfg` | pass | `TypeOK`, `NoWaitCycle`, `EntriesConserved` |
| file_connection | `MCFileConnection.cfg` | pass | `TypeOK`, `CloseExactlyOnce`, `ShutdownEndsAllTasks`, `FileModifiedOnlyWithGrantedWrite` |
| file_unhandled_panic | `MCFileConnectionPanic.cfg` | violation | `ConnectionsEndIndependently` |
| file_seek_wrap | `MCFileConnectionSeek.cfg` | violation | `SeekForwardNeverMovesBack` with the largest offset |
| dirents_listing | `MCDirReadDirents.cfg` | pass | `TypeOK`, `ListingComplete`, `ImplementsListing` (refinement of `DirListing`) |
| dirents_error_reset | `MCDirReadDirentsErr.cfg` | violation | `NoDuplicateEntries` when read_dirents may fail |
| remote_open | `MCRemote.cfg` | pass | `TypeOK`, `ForwardedWithinParentRights` |
| ramdisk_lifecycle | `MCRamdisk.cfg` | pass | `TypeOK` |

What the passing runs show:

- **dir_tokens.** However a client combines Open, Clone, Close, Unlink,
  GetToken, Link, Rename and Open with CREATE over two connections:
  - no connection gets rights beyond its client's;
  - only clients granted write unlink;
  - no directory gets two parents;
  - an immutable directory never changes;
  - a directory gains entries only through a token that a write-granted
    client minted, or by a CREATE open on a connection whose client was
    granted write. This matters because Link checks no rights on the
    source connection, a token outlives the connection that minted it,
    and only `check_child_connection_flags` stands between CREATE and
    `entry_not_found`;
  - after the scope's shutdown every connection to an immutable
    directory ends and none is served again. A mutable-directory
    connection may go on serving and opening and cloning immutable
    children, so this rests on `spawn_with_shutdown` refusing the new
    tasks as well as on the loop's shutdown branch.
- **dir_posix_rights.** With the POSIX flags among the Open and Clone
  requests, over three slots, no connection gets a right its client
  lacks. On Open the POSIX soft-fail of `check_child_connection_flags`
  drops a POSIX flag whose right the parent lacks before
  `new_connection_validate_flags` expands it; `Open(".")` takes the
  Clone path, whose inheritance (modelled from the specification) does
  not pass POSIX flags on.
- **file_connection.** Two tasks, through every request, Clone,
  SetFlags, failed opens, dropped channels, shutdown and the panic:
  - each task's backing file is closed exactly once, however it ends;
  - after shutdown every task ends (unless a panic already ended them);
  - the file changes only through connections of a writable client.
- **dirents_listing.** Under concurrent link/unlink and failing reads:
  - every page fits `max_bytes`;
  - an exhausted listing has returned every name that stayed;
  - the connection implements the abstract listing.

  `ImplementsListing` also rules out repeated names between failures and
  Rewinds.
- **remote_open.** A remote never receives rights, or a POSIX flag, that
  the opener's connection lacks, so the remote's own POSIX expansion
  cannot raise rights.
- **ramdisk_lifecycle.** Every path through build, use, `destroy()`
  and `Drop` runs; the client's life cycle is sequential, so only the
  type invariant is checked (a failed build leaves no live client).

Every property of a passing run has a mutant in `PROJECT.json`. The
mutant is a plausible bug in the mapped code, and TLC finds the property
violated under the run's own configuration.

**Findings.**

1. **Forward seeks can wrap past `u64::MAX`.** `handle_seek` stores its
   i128 sum with `as u64` (`file_seek_wrap`: Start+3, Current+3,
   Current+3 gives 1 at W=3).
2. **A failed ReadDirents restarts the listing.** `handle_read_dirents`
   moves the cursor out before calling the directory and does not put it
   back on `Err`. The next ReadDirents returns "." and every name again
   without a Rewind (`dirents_error_reset`). The specification does not
   say what a failed read does to the cursor.
3. **Rename can move a directory into its own subtree.** A writable
   client opens a connection below `sub` to `leaf` and takes a token
   there (GetToken). It then renames `sub` from the root into `leaf`.
   Nothing in `handle_rename` or `SimpleFilesystem::rename` checks
   ancestry. The result is that `sub` and `leaf` contain each other and
   are cut off from the root (`dir_token_cycle`). The specification lists
   no such failure.
4. **One client's unhandled file request ends every connection.**
   `handle_request` ends in `_ => panic!("Unhandled request!")` for the
   File requests it does not list. The panic leaves the task and the
   shared executor, so another client's serving connection ends with no
   reply and without closing its file (`file_unhandled_panic`, depth 6).
   The specification says client errors are statuses on the request and
   no exception crosses the connection boundary.

**Bounds.**

- **Directories.** `dir_tokens` has two slots over mutable root ⊃
  immutable `sub`, one file `f`, and the spare nodes `nd` (a mutable
  directory) and `nf` (a file) for CREATE to make. Two slots allow
  Attach → Open and Attach → Clone, two clients of different rights,
  and a token that outlives its connection. They also allow a root
  connection that outlives the shutdown to open `sub` while another
  slot is free. With three slots the run
  did not finish in 15 minutes. `dir_token_cycle` has three slots, no
  entry constructor, and the tree mutable root ⊃ immutable `sub` ⊃
  mutable `leaf`, the smallest in which a token below a moved directory
  exists and the chain Attach → Open → Open reaches it.

  The flag choices cover read-only and read-write roots, rights requests
  above a read-only parent, and a node reference. The POSIX run adds the
  POSIX flags.
- **Rename: three tasks over three directories.** That gives every lock
  order a three-way cycle could need.
- **Files.** `file_connection` has two tasks, W=2 (offsets -2..1, so
  seeks reach `u64::MAX`), capacity 2 and every flag choice but two that
  add nothing, so reads and writes hit the end of file and the capacity.
  The seek run uses W=3; the panic run needs only two serving tasks.
- **Dirents: one connection.** A cursor is private to its connection,
  so other connections only matter through link/unlink, which are
  modelled. The connection lists names {1,2,3} of lengths 1..3 with
  `max_bytes` 11 (only "." fits), 23 and 60 (everything fits).
- **Remote:** three parent rights sets and seven flag sets, including
  POSIX, NODE_REFERENCE and NO_REMOTE. The remaining paths are empty,
  one name and two names.
- **Ramdisk:** four client values, each of which can go through any
  path.

**Fairness.**

- **Rename.** No fairness is assumed and no liveness is checked. The
  Rust `Mutex` promises no fairness, so a waiting rename may be
  overtaken forever; with weak fairness of every lock step a task holding
  its source lock can still wait forever at three directories, and at two
  directories release holds only because no cycle is possible.
  `MCRename.cfg` checks deadlock freedom.
- **Directories.** `ObserveShutdown` is weakly fair, for the same
  reason as for files below. Clients get no fairness.
- **File.** `CreateConnectionAsync` and `ObserveShutdown` are weakly
  fair: spawned tasks are polled, and `select!` polls its branches in
  random order. Clients get no fairness. `MCFileConnection.cfg` turns
  off the deadlock check, because after a panic nothing can run.
- **Other modules.** The other modules state only safety.
  `MCRamdisk.cfg` turns off the deadlock check, because a client value
  that is gone is the end of the program.

## Not modelled

- **Watch.** It registers a channel in the directory's watcher set. The
  set and the events live outside this tree, and no state of the
  connection changes.
- **GetBuffer on files.** It is folded into `Query`. The VMO it hands
  out, and writes through it, are not modelled.
- **The pcb pseudo-file.** Its constructors and `init_buffer`/`update`
  callbacks are here, but the connection that calls them
  (`file::pcb::connection`) is not in this tree, so when they run
  cannot be translated. The entry types are data without state changes.
- **The loop `ImmutableConnection` passes the shutdown signal to.** It
  is a newer `handle_requests` (three arguments) than the one in this
  tree. Its shutdown branch (`ObserveShutdown`) is modelled from the
  specification's cancellation rule, and the rest of its loop as the
  base loop.
- **What shutdown does to a running mutable-directory task.** Its
  loop has no shutdown branch, and the scope that runs it is not in this
  tree. The model lets such a task go on serving, which only adds
  behaviours; no property says it ends.
- **The rest of `inherit_rights_for_clone`.** It is not in this tree and
  is modelled from the specification, which does not say whether the
  parent's APPEND or NODE_REFERENCE carry over to the clone, and says
  explicit rights with SAME_RIGHTS are ignored rather than refused.
- **`fs_management` error types, the `pseudo-fs` macro DSL and the macro
  tests.** These are boilerplate, compile-time code and tests.
