------------------------------ MODULE MCRename ------------------------------
(* Model of Rename: two directories holding one entry each, two names.   *)
EXTENDS Rename, TLC

CONSTANTS t1, t2, t3, dA, dB, dC, n1, n2, e1, e2

MCAddress == [d \in Dirs |-> CASE d = dA -> 1 [] d = dB -> 2 [] OTHER -> 3]

MCInitDir == [d \in Dirs |-> [n \in Names |->
                 CASE d = dA /\ n = n1 -> e1
                   [] d = dB /\ n = n1 -> e2
                   [] OTHER            -> Nil]]
=============================================================================
