----------------------------- MODULE MCDirTokens -----------------------------
(* Model of DirTokens: connection slots over a mutable root holding     *)
(* a file and an immutable subdirectory, which holds a mutable leaf; one *)
(* spare directory and one spare file for CREATE opens to make.          *)
EXTENDS DirTokens, TLC

CONSTANTS c1, c2, c3, root, sub, leaf, f, nd, nf

MCChildren == (root :> {sub}) @@ (sub :> {leaf}) @@ (leaf :> {})

\* Without the mutable leaf, for the run with an entry constructor.
MCCreateChildren == (root :> {sub}) @@ (sub :> {}) @@ (nd :> {})

MCFileChildren == [n \in Nodes |-> IF n = root THEN {f} ELSE {}]

\* External clients attach read-only or read-write.
MCRootFlags == {{"RIGHT_READABLE"}, {"RIGHT_READABLE", "RIGHT_WRITABLE"}}

\* Open requests: plain rights, a rights request above a read-only
\* parent's, and a node reference asking for rights it drops.
MCOpenFlags ==
    {{"RIGHT_READABLE"}, {"RIGHT_READABLE", "RIGHT_WRITABLE"},
     {"NODE_REFERENCE", "RIGHT_WRITABLE"}}

\* CREATE opens: read-only, which a read-only parent's check still refuses,
\* and read-write.
MCCreateFlags ==
    {{"CREATE", "RIGHT_READABLE"}, {"CREATE", "RIGHT_READABLE", "RIGHT_WRITABLE"}}

\* Clone keeps the rights or asks to widen them.
MCCloneFlags ==
    {{"CLONE_SAME_RIGHTS"}, {"RIGHT_READABLE", "RIGHT_WRITABLE"}}
=============================================================================
