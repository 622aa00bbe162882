-------------------------- MODULE DirReadDirents --------------------------
(***************************************************************************)
(* Paginated directory enumeration on directory connections.               *)
(*                                                                         *)
(*  - `encode_dirent` (directory/common.rs) appends one record of          *)
(*    8 + 1 + 1 + len(name) bytes when it fits the budget.                 *)
(*  - `handle_read_dirents` (directory/connection/io1.rs) hands the        *)
(*    directory the stored cursor, replacing it by the default first, and  *)
(*    stores the returned cursor only when the read succeeds.              *)
(*  - The Rewind request resets the cursor.                                *)
(*                                                                         *)
(* The directory's traversal and the `read_dirents::Sink` are not in this  *)
(* tree and are modelled from the specification: an alphabetical cursor   *)
(* holding the last returned name, "." first, and BUFFER_TOO_SMALL when    *)
(* the very first entry does not fit.  Names are positive integers so that *)
(* `<` is their alphabetical order; "." is Dot = 0 and the default cursor  *)
(* (nothing returned yet) is StartPos = -1.                                *)
(***************************************************************************)
EXTENDS Integers, SequencesExt

CONSTANTS
  Conn,             \* directory connections to the same directory
  Names,            \* names other clients may link or unlink
  NameLen,          \* byte length of each name
  MaxFilename,      \* fuchsia.io MAX_FILENAME
  MaxBytesChoices,  \* the max_bytes a client may ask for
  ReadCanFail       \* whether the directory's read_dirents may return Err

Dot == 0
StartPos == -1

ASSUME Names \subseteq Nat \ {0}
\* encode_dirent asserts this; a longer name is a caller bug, not a state.
ASSUME \A n \in Names : NameLen[n] <= MaxFilename

Listable == {Dot} \cup Names
Positions == {StartPos} \cup Listable
HeaderSize == 8 + 1 + 1
NameBytes(n) == IF n = Dot THEN 1 ELSE NameLen[n]
RecordSize(n) == HeaderSize + NameBytes(n)

VARIABLES
  entries,  \* names currently in the directory
  seek,     \* seek[c]: the connection's TraversalPosition
  reply,    \* reply[c]: the last response sent on connection c
  listed,   \* ghost: how often each name was returned since the last Rewind (capped at 2)
  stable    \* ghost: names present throughout, since the last Rewind

vars == <<entries, seek, reply, listed, stable>>

NoReply(st) == [status |-> st, names |-> <<>>, bytes |-> 0, max |-> 0]
NoneListed == [n \in Listable |-> 0]

TypeOK ==
  /\ entries \subseteq Names
  /\ seek \in [Conn -> Positions]
  /\ \A c \in Conn :
       /\ reply[c].status \in {"NONE", "OK", "BUFFER_TOO_SMALL", "ERR", "REWIND"}
       /\ reply[c].names \in Seq(Listable)
       /\ reply[c].bytes \in 0..reply[c].max
  /\ listed \in [Conn -> [Listable -> 0..2]]
  /\ stable \in [Conn -> SUBSET Listable]

Init ==
  /\ entries \in SUBSET Names
  /\ seek = [c \in Conn |-> StartPos]
  /\ reply = [c \in Conn |-> NoReply("NONE")]
  /\ listed = [c \in Conn |-> NoneListed]
  /\ stable = [c \in Conn |-> {Dot} \cup entries]

\* Mutant: the budget check forgets the record header.
EncodeDirentNoHeader(used, max, n) == used + NameBytes(n) <= max

\* encode_dirent: whether the record for `n` fits after `used` bytes.
EncodeDirent(used, max, n) == used + HeaderSize + NameBytes(n) <= max

\* The traversal: listable names present after the cursor, in order.
Pending(pos) == SetToSortSeq({n \in {Dot} \cup entries : n > pos}, <)

RECURSIVE Fill(_, _, _, _)

\* Mutant: the sink records the rejected entry as the new position.
FillSkipRejected(todo, max, page, pos) ==
  IF todo = <<>> THEN [page EXCEPT !.pos = pos, !.full = FALSE]
  ELSE IF ~EncodeDirent(page.bytes, max, Head(todo))
       THEN [page EXCEPT !.pos = Head(todo), !.full = TRUE]
       ELSE Fill(Tail(todo), max,
                 [page EXCEPT !.names = Append(@, Head(todo)),
                              !.bytes = @ + RecordSize(Head(todo))],
                 Head(todo))

\* The sink: append entries while encode_dirent accepts them.  The cursor
\* is the last entry added.
Fill(todo, max, page, pos) ==
  IF todo = <<>> THEN [page EXCEPT !.pos = pos, !.full = FALSE]
  ELSE IF ~EncodeDirent(page.bytes, max, Head(todo))
       THEN [page EXCEPT !.pos = pos, !.full = TRUE]
       ELSE Fill(Tail(todo), max,
                 [page EXCEPT !.names = Append(@, Head(todo)),
                              !.bytes = @ + RecordSize(Head(todo))],
                 Head(todo))

EmptyPage == [names |-> <<>>, bytes |-> 0, pos |-> StartPos, full |-> FALSE]

\* Mutant: BUFFER_TOO_SMALL whenever the sink filled up.
DoneStatusAnyFull(pos, max) ==
  LET r == Fill(Pending(pos), max, EmptyPage, pos)
  IN [ok |-> TRUE, pos |-> r.pos, names |-> r.names, bytes |-> r.bytes,
      status |-> IF r.full THEN "BUFFER_TOO_SMALL" ELSE "OK"]

\* The sealed Done of a successful read_dirents(pos, Sink::new(max)).
Done(pos, max) ==
  LET r == Fill(Pending(pos), max, EmptyPage, pos)
  IN [ok |-> TRUE, pos |-> r.pos, names |-> r.names, bytes |-> r.bytes,
      status |-> IF r.full /\ r.names = <<>> THEN "BUFFER_TOO_SMALL" ELSE "OK"]

ErrResult == [ok |-> FALSE, pos |-> StartPos, names |-> <<>>, bytes |-> 0,
              status |-> "ERR"]

\* What directory.read_dirents may return.
ReadResults(pos, max) ==
  {Done(pos, max)} \cup (IF ReadCanFail THEN {ErrResult} ELSE {})

Counted(cnt, names) ==
  [n \in Listable |-> IF n \in ToSet(names) THEN IF cnt[n] < 2 THEN cnt[n] + 1 ELSE 2
                                           ELSE cnt[n]]

\* handle_read_dirents given the directory's result.  The cursor was
\* replaced by the default before the call: Err returns with it reset, Ok
\* stores done.pos.
HandleReadDirents(c, max, res) ==
  /\ seek' = [seek EXCEPT ![c] = IF res.ok THEN res.pos ELSE StartPos]
  /\ reply' = [reply EXCEPT ![c] = [status |-> res.status, names |-> res.names,
                                    bytes |-> res.bytes, max |-> max]]
  /\ listed' = [listed EXCEPT ![c] = Counted(@, res.names)]

\* The ReadDirents request.
ReadDirents(c, max) ==
  /\ \E res \in ReadResults(seek[c], max) : HandleReadDirents(c, max, res)
  /\ UNCHANGED <<entries, stable>>

\* The Rewind request.
Rewind(c) ==
  /\ seek' = [seek EXCEPT ![c] = StartPos]
  /\ reply' = [reply EXCEPT ![c] = NoReply("REWIND")]
  /\ listed' = [listed EXCEPT ![c] = NoneListed]
  /\ stable' = [stable EXCEPT ![c] = {Dot} \cup entries]
  /\ UNCHANGED entries

\* Another client links or unlinks a name in the directory.
Link(n) ==
  /\ n \notin entries
  /\ entries' = entries \cup {n}
  /\ UNCHANGED <<seek, reply, listed, stable>>

Unlink(n) ==
  /\ n \in entries
  /\ entries' = entries \ {n}
  /\ stable' = [c \in Conn |-> stable[c] \ {n}]
  /\ UNCHANGED <<seek, reply, listed>>

Next ==
  \/ \E c \in Conn : \/ \E max \in MaxBytesChoices : ReadDirents(c, max)
                     \/ Rewind(c)
  \/ \E n \in Names : Link(n) \/ Unlink(n)

Spec == Init /\ [][Next]_vars

-----------------------------------------------------------------------------
(* Properties *)

\* Between two Rewinds, a connection's ReadDirents pages never return the
\* same name twice, whatever other clients link and unlink in between: the
\* cursor stored by handle_read_dirents resumes after the last name sent.
NoDuplicateEntries == \A c \in Conn, n \in Listable : listed[c][n] <= 1

\* Once a connection's ReadDirents returns an empty OK page, every name
\* that stayed in the directory since its last Rewind has been returned:
\* the sink's cursor never passes an entry it did not encode.
ListingComplete ==
  \A c \in Conn :
    (reply[c].status = "OK" /\ reply[c].names = <<>>)
      => \A n \in stable[c] : listed[c][n] >= 1

\* The connection implements the abstract listing: every page holds exactly
\* the present entries between the old and the new cursor, a
\* BUFFER_TOO_SMALL page holds nothing, and the cursor only moves back on
\* Rewind or on a failed read.
Listing == INSTANCE DirListing WITH
  thr <- seek,
  out <- [c \in Conn |-> [status |-> reply[c].status,
                          names |-> ToSet(reply[c].names)]]

ImplementsListing == Listing!Spec

=============================================================================
