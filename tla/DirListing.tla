---------------------------- MODULE DirListing ----------------------------
(***************************************************************************)
(* What paginated directory enumeration promises a client, without bytes,  *)
(* budgets or a concrete cursor (spec §4.2 and the Rewind request).        *)
(*                                                                         *)
(* Each connection has a threshold `thr[c]` in the alphabetical order of   *)
(* the listable names ("." first).  A successful page carries exactly the  *)
(* entries present at that moment that lie between the old threshold and   *)
(* the new one, and the threshold never moves back.  A page reported as    *)
(* too small carries nothing and does not move.  Rewind, and a failed      *)
(* read, put the threshold back at the start.  Other clients may link and  *)
(* unlink names at any time.                                               *)
(***************************************************************************)
EXTENDS Integers

CONSTANTS Conn, Names, StartPos, Dot

Listable == {Dot} \cup Names
Positions == {StartPos} \cup Listable
Statuses == {"NONE", "OK", "BUFFER_TOO_SMALL", "ERR", "REWIND"}

VARIABLES entries, thr, out

Init ==
  /\ entries \in SUBSET Names
  /\ thr = [c \in Conn |-> StartPos]
  /\ out = [c \in Conn |-> [status |-> "NONE", names |-> {}]]

\* The present listable names strictly after `lo` and up to `hi`.
Between(lo, hi) == {n \in {Dot} \cup entries : lo < n /\ n <= hi}

Read(c) ==
  \E t \in Positions, s \in {"OK", "BUFFER_TOO_SMALL"} :
    /\ t >= thr[c]
    /\ s = "BUFFER_TOO_SMALL" => t = thr[c]
    /\ thr' = [thr EXCEPT ![c] = t]
    /\ out' = [out EXCEPT ![c] = [status |-> s, names |-> Between(thr[c], t)]]
    /\ UNCHANGED entries

Fail(c) ==
  /\ thr' = [thr EXCEPT ![c] = StartPos]
  /\ out' = [out EXCEPT ![c] = [status |-> "ERR", names |-> {}]]
  /\ UNCHANGED entries

Rewind(c) ==
  /\ thr' = [thr EXCEPT ![c] = StartPos]
  /\ out' = [out EXCEPT ![c] = [status |-> "REWIND", names |-> {}]]
  /\ UNCHANGED entries

Link(n) ==
  /\ n \notin entries
  /\ entries' = entries \cup {n}
  /\ UNCHANGED <<thr, out>>

Unlink(n) ==
  /\ n \in entries
  /\ entries' = entries \ {n}
  /\ UNCHANGED <<thr, out>>

Next ==
  \/ \E c \in Conn : Read(c) \/ Fail(c) \/ Rewind(c)
  \/ \E n \in Names : Link(n) \/ Unlink(n)

Spec == Init /\ [][Next]_<<entries, thr, out>>

=============================================================================
