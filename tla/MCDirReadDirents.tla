------------------------- MODULE MCDirReadDirents -------------------------
(* Model-checking instance of DirReadDirents: three names of one, two and *)
(* three bytes, and budgets that fit one record, two records, or all.     *)
EXTENDS DirReadDirents, TLC

CONSTANTS c1, c2

MCNameLen == [n \in Names |-> n]

MCSymmetry == Permutations({c1, c2})
=============================================================================
