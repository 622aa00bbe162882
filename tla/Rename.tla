------------------------------- MODULE Rename -------------------------------
(***************************************************************************)
(* Cross-directory rename under per-directory locks:                      *)
(* SimpleFilesystem::rename (filesystem/simple.rs) picks one of three     *)
(* paths by comparing the two directories' addresses, and the directory   *)
(* helpers rename_within, rename_from and rename_to (modelled from the    *)
(* specification, section 4.5) take the locks in that order.              *)
(*                                                                         *)
(* Each task of Tasks is a connection task serving Rename requests one    *)
(* after another.  A critical section that touches a single locked        *)
(* directory is one step; a task that holds one lock and needs a second   *)
(* waits at a program counter of its own, which is where two renames in   *)
(* opposite directions could block each other.                            *)
(***************************************************************************)
EXTENDS Naturals, FiniteSets
LOCAL INSTANCE Relation

CONSTANTS
    Tasks,     \* connection tasks issuing renames
    Dirs,      \* mutable directories
    Names,     \* entry names
    Entries,   \* directory entries (nodes)
    Address,   \* Address[d]: the memory address of d, distinct per directory
    InitDir    \* InitDir[d][n]: the entry initially linked as n in d, or Nil

Nil == "Nil"

ASSUME /\ Address \in [Dirs -> Nat]
       /\ \A d1, d2 \in Dirs : Address[d1] = Address[d2] => d1 = d2
       /\ InitDir \in [Dirs -> [Names -> Entries \cup {Nil}]]

Op == [src : Dirs, srcName : Names, dst : Dirs, dstName : Names]
NoOp == [src |-> Nil, srcName |-> Nil, dst |-> Nil, dstName |-> Nil]

\* Program counters of a task: between requests, waiting for the lock of
\* the single directory (rename_within), and the two steps of rename_from
\* (src then dst) and of rename_to (dst then src).
PC == {"idle", "within", "from_src", "from_dst", "to_dst", "to_src"}

VARIABLES
    dir,         \* dir[d][n]: the entry linked as n in directory d, or Nil
    owner,       \* owner[d]: the task holding d's lock, or Nil
    pc,          \* pc[t]
    op,          \* op[t]: the rename task t is serving
    replaced     \* ghost: entries unlinked because a rename replaced them

vars == <<dir, owner, pc, op, replaced>>

TypeOK ==
    /\ dir \in [Dirs -> [Names -> Entries \cup {Nil}]]
    /\ owner \in [Dirs -> Tasks \cup {Nil}]
    /\ pc \in [Tasks -> PC]
    /\ op \in [Tasks -> Op \cup {NoOp}]
    /\ replaced \subseteq Entries
    /\ \A t \in Tasks : pc[t] = "idle" <=> op[t] = NoOp

Init ==
    /\ dir = InitDir
    /\ owner = [d \in Dirs |-> Nil]
    /\ pc = [t \in Tasks |-> "idle"]
    /\ op = [t \in Tasks |-> NoOp]
    /\ replaced = {}

Free(d) == owner[d] = Nil

\* Link `e` as `n` in `d`, replacing what was there.
Insert(d, n, e) == [dir EXCEPT ![d][n] = e]
Replacing(d, n) == IF dir[d][n] = Nil THEN {} ELSE {dir[d][n]}

-----------------------------------------------------------------------------

\* Mutant: rename without the address comparison, source lock first.
RenameSourceFirst(t) ==
    /\ pc[t] = "idle"
    /\ \E o \in Op :
          /\ op' = [op EXCEPT ![t] = o]
          /\ pc' = [pc EXCEPT ![t] = IF o.src = o.dst THEN "within" ELSE "from_src"]
    /\ UNCHANGED <<dir, owner, replaced>>

\* SimpleFilesystem::rename: compare the addresses and take one of the
\* three paths; for rename_from the source lock comes first, for rename_to
\* the destination lock.
Rename(t) ==
    /\ pc[t] = "idle"
    /\ \E o \in Op :
          /\ op' = [op EXCEPT ![t] = o]
          /\ pc' = [pc EXCEPT ![t] =
                      CASE Address[o.src] < Address[o.dst] -> "from_src"
                        [] Address[o.src] = Address[o.dst] -> "within"
                        [] OTHER                           -> "to_dst"]
    /\ UNCHANGED <<dir, owner, replaced>>

\* Mutant: the request is finished without clearing it.
FinishKeepsOp(t) == pc' = [pc EXCEPT ![t] = "idle"] /\ UNCHANGED op

Finish(t) == /\ pc' = [pc EXCEPT ![t] = "idle"]
             /\ op' = [op EXCEPT ![t] = NoOp]

\* rename_within: under the one lock, unlink the source name and link the
\* entry under the destination name; NOT_FOUND if the source is absent.
RenameWithin(t) ==
    LET o == op[t] IN
    /\ pc[t] = "within"
    /\ Free(o.src)
    /\ IF dir[o.src][o.srcName] = Nil
       THEN UNCHANGED <<dir, replaced>>
       ELSE LET e == dir[o.src][o.srcName]
                d1 == [dir EXCEPT ![o.src][o.srcName] = Nil]
            IN  /\ replaced' = replaced \cup
                      (IF d1[o.dst][o.dstName] \in {Nil, e} THEN {}
                       ELSE {d1[o.dst][o.dstName]})
                /\ dir' = [d1 EXCEPT ![o.dst][o.dstName] = e]
    /\ Finish(t)
    /\ UNCHANGED owner

\* rename_from, first step: lock the source; NOT_FOUND releases it at once.
RenameFromLockSrc(t) ==
    LET o == op[t] IN
    /\ pc[t] = "from_src"
    /\ Free(o.src)
    /\ IF dir[o.src][o.srcName] = Nil
       THEN /\ Finish(t)
            /\ UNCHANGED owner
       ELSE /\ owner' = [owner EXCEPT ![o.src] = t]
            /\ pc' = [pc EXCEPT ![t] = "from_dst"]
            /\ UNCHANGED op
    /\ UNCHANGED <<dir, replaced>>

\* Mutant: the source name is not unlinked.
RenameFromLinkKeepsSource(t) ==
    LET o == op[t]
        e == dir[o.src][o.srcName]
    IN
    /\ pc[t] = "from_dst"
    /\ Free(o.dst)
    /\ replaced' = replaced \cup Replacing(o.dst, o.dstName)
    /\ dir' = Insert(o.dst, o.dstName, e)
    /\ owner' = [owner EXCEPT ![o.src] = Nil]
    /\ Finish(t)

\* rename_from, second step: the callback links the entry into the
\* destination (dst_parent.link) under the destination lock, taken while
\* the source lock is held; the source name is unlinked; both released.
RenameFromLink(t) ==
    LET o == op[t]
        e == dir[o.src][o.srcName]
    IN
    /\ pc[t] = "from_dst"
    /\ Free(o.dst)
    /\ replaced' = replaced \cup Replacing(o.dst, o.dstName)
    /\ dir' = [Insert(o.dst, o.dstName, e) EXCEPT ![o.src][o.srcName] = Nil]
    /\ owner' = [owner EXCEPT ![o.src] = Nil]
    /\ Finish(t)

\* rename_to, first step: lock the destination.
RenameToLockDst(t) ==
    LET o == op[t] IN
    /\ pc[t] = "to_dst"
    /\ Free(o.dst)
    /\ owner' = [owner EXCEPT ![o.dst] = t]
    /\ pc' = [pc EXCEPT ![t] = "to_src"]
    /\ UNCHANGED <<dir, op, replaced>>

\* rename_to, second step: the callback locks the source and removes the
\* entry (remove_entry_impl; NOT_FOUND if absent); the entry is then linked
\* into the destination and the destination lock released.
RenameToRemove(t) ==
    LET o == op[t]
        e == dir[o.src][o.srcName]
    IN
    /\ pc[t] = "to_src"
    /\ Free(o.src)
    /\ IF e = Nil
       THEN UNCHANGED <<dir, replaced>>
       ELSE /\ replaced' = replaced \cup Replacing(o.dst, o.dstName)
            /\ dir' = [Insert(o.dst, o.dstName, e) EXCEPT ![o.src][o.srcName] = Nil]
    /\ owner' = [owner EXCEPT ![o.dst] = Nil]
    /\ Finish(t)

Next ==
    \E t \in Tasks :
        \/ Rename(t)
        \/ RenameWithin(t)
        \/ RenameFromLockSrc(t)
        \/ RenameFromLink(t)
        \/ RenameToLockDst(t)
        \/ RenameToRemove(t)

Spec == Init /\ [][Next]_vars

-----------------------------------------------------------------------------
(* Properties.                                                             *)

\* The lock a task is blocked on, if any.
WaitsOn(t) ==
    CASE pc[t] = "within"   -> op[t].src
      [] pc[t] = "from_src" -> op[t].src
      [] pc[t] = "from_dst" -> op[t].dst
      [] pc[t] = "to_dst"   -> op[t].dst
      [] pc[t] = "to_src"   -> op[t].src
      [] OTHER              -> Nil

\* t waits for u: u holds the lock t is blocked on.
WaitsFor == [p \in Tasks \X Tasks |->
                WaitsOn(p[1]) # Nil /\ owner[WaitsOn(p[1])] = p[2]]

\* No set of renaming tasks ever waits on each other in a cycle: the
\* address order of simple.rs keeps every waits-for chain acyclic, so two
\* renames in opposite directions never deadlock.
NoWaitCycle ==
    LET W == [x, y \in Tasks |-> WaitsFor[<<x, y>>]]
    IN  IsIrreflexive(TransitiveClosure(W, Tasks), Tasks)

\* Every entry is linked at most once, and an entry is unlinked only when a
\* rename replaced it: a rename never duplicates nor loses an entry, however
\* the renames of several tasks interleave.
EntriesConserved ==
    \A e \in Entries :
        LET places == {<<d, n>> \in Dirs \X Names : dir[d][n] = e}
        IN  /\ Cardinality(places) <= 1
            /\ (\E d \in Dirs, n \in Names : InitDir[d][n] = e)
                   => (places # {} \/ e \in replaced)
=============================================================================
