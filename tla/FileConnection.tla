--------------------------- MODULE FileConnection ---------------------------
(***************************************************************************)
(* File connections: FileConnection of file/connection/io1.rs, serving    *)
(* one backing file shared by every connection to it.                     *)
(*                                                                         *)
(* Each slot of Conn is the task of one connection.  A task is spawned    *)
(* (create_connection, or a Clone on another connection), then runs      *)
(* create_connection_async, then serves requests until Close, a dropped   *)
(* channel or the scope's shutdown signal ends it.  A request is one      *)
(* step: the connection's own state is touched only by its own task, and  *)
(* each handler makes at most one call to the backing file.               *)
(*                                                                         *)
(* The 64-bit seek is scaled to W bits: seek is in 0..2^W-1 and an i64    *)
(* offset in -2^(W-1)..2^(W-1)-1, so `as u64` is reduction mod 2^W.       *)
(* The backing file (not part of this crate) is modelled from the         *)
(* specification: a size, bounded by Capacity, that writes extend.        *)
(***************************************************************************)
EXTENDS Integers, VfsFlags

CONSTANTS
    Conn,            \* connection task slots
    W,               \* bit width of the seek position (64 in the code)
    Capacity,        \* the backing file's capacity
    MaxBuf,          \* fidl_fuchsia_io::MAX_BUF
    Readable,        \* the node supports reading
    Writable,        \* the node supports writing
    FlagChoices,     \* flags a client connects or clones with
    Counts,          \* byte counts of Read, Write and Truncate requests
    SeekOffsets      \* offsets of Seek requests

SeekMax == 2^W - 1
I64 == -(2^(W-1)) .. 2^(W-1) - 1

ASSUME /\ W \in Nat \ {0}
       /\ Capacity \in 0 .. SeekMax
       /\ SeekOffsets \subseteq I64
       /\ Counts \subseteq 0 .. SeekMax
       /\ FlagChoices \subseteq SUBSET Flags

\* Mutant: the i128 result stored without truncation.
AsU64Unwrapped(i) == i

\* `i as u64` for an i128 that is not negative: the low W bits.
AsU64(i) == i % 2^W

Status == {"free", "spawned", "serving", "done", "panicked", "aborted"}

VARIABLES
    fc,         \* fc[c]: [st, flags, seek, armed] of the task in slot c
    size,       \* the backing file's content size
    attrs,      \* the backing file's attributes were changed by set_attrs
    shutdown,   \* the execution scope's shutdown signal has fired
    closes,     \* ghost: backing close() calls made for the task in slot c
    granted     \* ghost: rights the external connection c descends from asked for

vars == <<fc, size, attrs, shutdown, closes, granted>>

TypeOK ==
    /\ fc \in [Conn -> [st : Status, flags : SUBSET Flags,
                        seek : 0 .. SeekMax, armed : BOOLEAN]]
    /\ size \in 0 .. Capacity
    /\ attrs \in BOOLEAN
    /\ shutdown \in BOOLEAN
    /\ closes \in [Conn -> 0 .. 2]
    /\ granted \in [Conn -> SUBSET Rights]

Init ==
    /\ fc = [c \in Conn |-> [st |-> "free", flags |-> {}, seek |-> 0, armed |-> FALSE]]
    /\ size = 0
    /\ attrs = FALSE
    /\ shutdown = FALSE
    /\ closes = [c \in Conn |-> 0]
    /\ granted = [c \in Conn |-> {}]

-----------------------------------------------------------------------------
(* The backing file, as the specification describes a File.               *)

\* read_at: the bytes between the offset and the end of the content.
ReadAt(offset, count) == IF offset >= size THEN 0
                         ELSE IF count < size - offset THEN count ELSE size - offset

\* write_at: as much as fits below the capacity; the content grows to the
\* end of what was written.
WriteAt(offset, count) == IF offset >= Capacity THEN 0
                          ELSE IF count < Capacity - offset THEN count
                          ELSE Capacity - offset
SizeAfterWrite(offset, n) == IF n > 0 /\ offset + n > size THEN offset + n ELSE size

\* file::common::new_connection_validate_flags for a node that is
\* `Readable`/`Writable` (append allowed).
FileValidateFlags(f0) ==
    LET f1 == IF "NODE_REFERENCE" \in f0 THEN f0 \cap AllowedWithNodeReference ELSE f0
    IN  CASE "DIRECTORY" \in f1                                -> Err("NOT_DIR")
          [] "RIGHT_READABLE" \in f1 /\ ~Readable              -> Err("ACCESS_DENIED")
          [] "RIGHT_WRITABLE" \in f1 /\ ~Writable              -> Err("ACCESS_DENIED")
          [] "TRUNCATE" \in f1 /\ "RIGHT_WRITABLE" \notin f1   -> Err("INVALID_ARGS")
          [] OTHER                                             -> Ok(f1 \ {"NOT_DIRECTORY"})

\* Mutant: close() leaves the file in the holder.
OpenFileCloseKeepsFile(r) == r

\* OpenFile, the RAII holder of the file: close() takes the file out of
\* it, so that dropping it afterwards does not close the file again.
OpenFileClose(r) == [r EXCEPT !.armed = FALSE]

\* The task ends and its OpenFile is dropped: the file is closed if the
\* holder still has it.
EndTask(c, armed) ==
    /\ fc' = [fc EXCEPT ![c].st = "done", ![c].armed = FALSE]
    /\ closes' = [closes EXCEPT ![c] = @ + (IF armed THEN 1 ELSE 0)]

FreeSlot(s) == fc[s].st \in {"free", "done"}

\* A request panicked: the executor running every connection task is gone.
Aborted == \E c \in Conn : fc[c].st \in {"panicked", "aborted"}

\* ExecutionScope::spawn_with_shutdown: after the scope's shutdown the
\* task is not spawned, and the server end is just dropped.  `rights` is
\* the ghost handed down to the new task.
SpawnTask(s, flags, rights) ==
    IF shutdown
    THEN UNCHANGED <<fc, closes, granted>>
    ELSE /\ fc' = [fc EXCEPT ![s] = [st |-> "spawned", flags |-> flags,
                                     seek |-> 0, armed |-> FALSE]]
         /\ closes' = [closes EXCEPT ![s] = 0]
         /\ granted' = [granted EXCEPT ![s] = rights]

-----------------------------------------------------------------------------
(* Connection creation.                                                    *)

\* FileConnection::create_connection, called for an external client.
CreateConnection(flags) ==
    /\ ~Aborted
    /\ \E s \in Conn : FreeSlot(s) /\ SpawnTask(s, flags, RightsOf(flags))
    /\ UNCHANGED <<size, attrs, shutdown>>

\* create_connection_async: the OpenFile is made first, so each early
\* return (invalid flags, File::open failing) drops it and closes the
\* file; TRUNCATE truncates to 0; then the request loop starts, seek 0.
CreateConnectionAsync(s) ==
    LET res == FileValidateFlags(fc[s].flags) IN
    /\ fc[s].st = "spawned"
    /\ \E openOk \in BOOLEAN :
          IF res.status # "OK" \/ ~openOk
          THEN EndTask(s, TRUE) /\ UNCHANGED size
          ELSE /\ fc' = [fc EXCEPT ![s] = [st |-> "serving", flags |-> res.flags,
                                           seek |-> 0, armed |-> TRUE]]
               /\ size' = IF "TRUNCATE" \in res.flags THEN 0 ELSE size
               /\ UNCHANGED closes
    /\ UNCHANGED <<attrs, shutdown, granted>>

-----------------------------------------------------------------------------
(* Requests, handled one at a time by a serving task.                      *)

Serving(c) == fc[c].st = "serving"
SetSeek(c, v) == fc' = [fc EXCEPT ![c].seek = v]

\* handle_read_at: BAD_HANDLE without READABLE, OUT_OF_RANGE above
\* MAX_BUF, else the backing read_at.
HandleReadAt(c, offset, n) ==
    CASE "RIGHT_READABLE" \notin fc[c].flags -> [status |-> "BAD_HANDLE", n |-> 0]
      [] n > MaxBuf                         -> [status |-> "OUT_OF_RANGE", n |-> 0]
      [] OTHER                              -> [status |-> "OK", n |-> ReadAt(offset, n)]

\* handle_write_at: BAD_HANDLE without WRITABLE, else the backing write_at.
HandleWriteAt(c, offset, n) ==
    IF "RIGHT_WRITABLE" \notin fc[c].flags THEN [status |-> "BAD_HANDLE", n |-> 0]
    ELSE [status |-> "OK", n |-> WriteAt(offset, n)]

\* Read (and ReadDeprecated): handle_read_at at the seek, then the seek
\* advances by the bytes returned (0 on an error).
Read(c) ==
    /\ Serving(c)
    /\ \E n \in Counts : SetSeek(c, fc[c].seek + HandleReadAt(c, fc[c].seek, n).n)
    /\ UNCHANGED <<size, attrs, shutdown, closes, granted>>

\* handle_write: needs WRITABLE; with APPEND the backing file appends and
\* reports the new end, which becomes the seek; otherwise handle_write_at
\* at the seek, and the seek advances by the bytes written.
HandleWrite(c, n) ==
    /\ "RIGHT_WRITABLE" \in fc[c].flags
    /\ IF "APPEND" \in fc[c].flags
       THEN LET k == WriteAt(size, n) IN
            /\ size' = size + k
            /\ SetSeek(c, size + k)
       ELSE LET r == HandleWriteAt(c, fc[c].seek, n) IN
            /\ size' = SizeAfterWrite(fc[c].seek, r.n)
            /\ SetSeek(c, fc[c].seek + r.n)

\* Write (and WriteDeprecated).
Write(c) ==
    /\ Serving(c)
    /\ \E n \in Counts : HandleWrite(c, n)
    /\ UNCHANGED <<attrs, shutdown, closes, granted>>

\* WriteAt (and WriteAtDeprecated): handle_write_at; the seek is not touched.
WriteAtOffset(c) ==
    /\ Serving(c)
    /\ \E off \in Counts, n \in Counts :
          size' = SizeAfterWrite(off, HandleWriteAt(c, off, n).n)
    /\ UNCHANGED <<fc, attrs, shutdown, closes, granted>>

\* handle_seek: origin + offset in i128; a negative result is OUT_OF_RANGE
\* and keeps the seek; any other is stored `as u64`.
Seek(c, origin, offset) ==
    LET base == CASE origin = "Start"   -> 0
                  [] origin = "Current" -> fc[c].seek
                  [] origin = "End"     -> size
        new == base + offset
    IN  /\ Serving(c)
        /\ IF "NODE_REFERENCE" \in fc[c].flags \/ new < 0
           THEN UNCHANGED fc
           ELSE SetSeek(c, AsU64(new))
        /\ UNCHANGED <<size, attrs, shutdown, closes, granted>>

\* handle_truncate (Truncate and Resize): WRITABLE; the backing file
\* refuses a length beyond its capacity.
Truncate(c) ==
    /\ Serving(c)
    /\ "RIGHT_WRITABLE" \in fc[c].flags
    /\ \E n \in Counts : size' = IF n <= Capacity THEN n ELSE size
    /\ UNCHANGED <<fc, attrs, shutdown, closes, granted>>

\* handle_set_attr: WRITABLE, then the backing set_attrs, which may fail.
SetAttr(c) ==
    /\ Serving(c)
    /\ "RIGHT_WRITABLE" \in fc[c].flags
    /\ \E ok \in BOOLEAN : attrs' = (attrs \/ ok)
    /\ UNCHANGED <<fc, size, shutdown, closes, granted>>

\* Mutant: SetFlags merges every requested bit into the flags.
SetFlagsMerge(c, f) == fc' = [fc EXCEPT ![c].flags = @ \cup f]

\* SetFlags (and SetFlagsDeprecatedUseNode): only the APPEND bit of the
\* connection's flags changes.
HandleSetFlags(c, f) ==
    fc' = [fc EXCEPT ![c].flags = (@ \ {"APPEND"}) \cup (f \cap {"APPEND"})]

SetFlags(c) ==
    /\ Serving(c)
    /\ \E f \in FlagChoices : HandleSetFlags(c, f)
    /\ UNCHANGED <<size, attrs, shutdown, closes, granted>>

\* handle_clone: inherit_rights_for_clone, then the file's open() spawns a
\* new connection task (seek 0) on the same backing file.
Clone(c) ==
    /\ Serving(c)
    /\ \E f \in FlagChoices, s \in Conn :
          /\ FreeSlot(s)
          /\ LET res == InheritRightsForClone(fc[c].flags, f)
             IN  IF res.status = "OK" THEN SpawnTask(s, res.flags, granted[c])
                 ELSE UNCHANGED <<fc, closes, granted>>
    /\ UNCHANGED <<size, attrs, shutdown>>

\* Requests answered from the connection's flags or from backing calls
\* that change nothing here: Describe, Sync, GetAttr (handle_get_attr),
\* ReadAt (handle_read_at at the given offset, the seek untouched),
\* GetFlags, GetBuffer/GetBackingMemory (handle_get_buffer), AdvisoryLock
\* (always NOT_SUPPORTED) and QueryFilesystem.
Query(c) ==
    /\ Serving(c)
    /\ UNCHANGED vars

\* Close (and CloseDeprecated): the backing file's close() through the
\* OpenFile, the reply, and the request loop ends (ConnectionState::Closed);
\* the OpenFile is then dropped with the task.
Close(c) ==
    LET r == OpenFileClose(fc[c]) IN
    /\ Serving(c)
    /\ fc' = [fc EXCEPT ![c] = [r EXCEPT !.st = "done", !.armed = FALSE]]
    /\ closes' = [closes EXCEPT ![c] = @ + 1 + (IF r.armed THEN 1 ELSE 0)]
    /\ UNCHANGED <<size, attrs, shutdown, granted>>

\* The request stream ends, a request fails to decode, or a responder
\* fails (ConnectionState::Dropped): the loop ends and the OpenFile is
\* dropped.
Drop(c) ==
    /\ Serving(c)
    /\ EndTask(c, fc[c].armed)
    /\ UNCHANGED <<size, attrs, shutdown, granted>>

\* Mutant: a request loop that does not select on the shutdown signal.
ObserveShutdownMissing(c) == FALSE

\* handle_requests' select! takes the shutdown branch.
ObserveShutdown(c) ==
    /\ Serving(c)
    /\ shutdown
    /\ EndTask(c, fc[c].armed)
    /\ UNCHANGED <<size, attrs, shutdown, granted>>

\* ExecutionScope::shutdown fires every task's shutdown signal.
Shutdown ==
    /\ ~Aborted
    /\ ~shutdown
    /\ shutdown' = TRUE
    /\ UNCHANGED <<fc, size, attrs, closes, granted>>

\* A request that handle_request does not list (the io2 methods of the
\* File protocol) reaches `_ => panic!("Unhandled request!")`.  The panic
\* is not caught in the task: it ends the executor that polls every
\* connection task (the whole process when panics abort), and every task
\* stops where it is, with no reply and no close ("panicked" marks the task
\* whose request it was).
UnhandledRequest(c) ==
    /\ Serving(c)
    /\ fc' = [d \in Conn |-> CASE d = c -> [fc[d] EXCEPT !.st = "panicked"]
                               [] fc[d].st \in {"spawned", "serving"} ->
                                     [fc[d] EXCEPT !.st = "aborted"]
                               [] OTHER -> fc[d]]
    /\ UNCHANGED <<size, attrs, shutdown, closes, granted>>

Origins == {"Start", "Current", "End"}

Next ==
    \/ \E f \in FlagChoices : CreateConnection(f)
    \/ Shutdown
    \/ \E c \in Conn :
          \/ CreateConnectionAsync(c)
          \/ Read(c) \/ Write(c) \/ WriteAtOffset(c) \/ Truncate(c)
          \/ \E o \in Origins, off \in SeekOffsets : Seek(c, o, off)
          \/ SetAttr(c) \/ SetFlags(c) \/ Clone(c) \/ Query(c)
          \/ Close(c) \/ Drop(c) \/ ObserveShutdown(c) \/ UnhandledRequest(c)

\* A spawned task is polled until it has run create_connection_async, and
\* select! polls its branches in random order, so a task waiting with the
\* shutdown signal fired takes that branch eventually.  Clients are not
\* fair: nothing forces them to send a request or drop their channel.
Fairness ==
    \A c \in Conn : WF_vars(CreateConnectionAsync(c)) /\ WF_vars(ObserveShutdown(c))

Spec == Init /\ [][Next]_vars /\ Fairness

-----------------------------------------------------------------------------
(* Properties.                                                             *)

\* The backing file is closed exactly once per connection task: never
\* twice (an explicit Close followed by the OpenFile's drop), and once
\* every task has ended, whether it ended by Close, by a dropped channel,
\* by shutdown or by failing to open.
CloseExactlyOnce ==
    \A c \in Conn : /\ closes[c] <= 1
                    /\ fc[c].st = "done" => closes[c] = 1

\* After the scope's shutdown, every connection task ends and so closes
\* its file, including tasks spawned but not yet serving and connections
\* whose clients never send another request (or a panic has stopped them
\* all).
ShutdownEndsAllTasks ==
    shutdown ~> (Aborted \/ \A c \in Conn : FreeSlot(c))

\* A Seek from the current position by a non-negative offset never moves
\* the position backwards: the i128 sum is meant to avoid overflow of the
\* unsigned 64-bit seek.
SeekForwardNeverMovesBack ==
    [][\A c \in Conn, off \in SeekOffsets :
          (off >= 0 /\ Seek(c, "Current", off)) => fc'[c].seek >= fc[c].seek]_vars

\* Only a connection descending from an external connection that asked
\* for RIGHT_WRITABLE ever changes the backing file (its size or its
\* attributes): the rights checks of the write, truncate and set_attr
\* handlers, through every Clone and SetFlags in between.
FileModifiedOnlyWithGrantedWrite ==
    [][\A c \in Conn :
         (\/ Write(c) \/ WriteAtOffset(c) \/ Truncate(c) \/ SetAttr(c)
          \/ CreateConnectionAsync(c))
         /\ <<size, attrs>>' # <<size, attrs>>
         => "RIGHT_WRITABLE" \in granted[c]]_vars

\* "No exceptions cross the connection boundary into other connections'
\* processing" (spec, error taxonomy): a serving connection stops only by
\* its own Close, its own channel ending, the scope's shutdown or a fatal
\* error of its own request, never by what another client sends.
ConnectionsEndIndependently ==
    [][\A d \in Conn :
         (Serving(d) /\ ~Serving(d)') =>
            Close(d) \/ Drop(d) \/ ObserveShutdown(d) \/ UnhandledRequest(d)]_vars

=============================================================================
