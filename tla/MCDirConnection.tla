--------------------------- MODULE MCDirConnection ---------------------------
(* Model of DirConnection: three connection slots over a mutable root     *)
(* directory with an immutable subdirectory, which holds a mutable one.   *)
EXTENDS DirConnection, TLC

CONSTANTS c1, c2, c3, root, sub, leaf

MCChildren == (root :> {sub}) @@ (sub :> {leaf}) @@ (leaf :> {})

\* External clients attach read-only or read-write.
MCRootFlags == {{"RIGHT_READABLE"}, {"RIGHT_READABLE", "RIGHT_WRITABLE"}}

\* Open requests: plain rights, a rights request above the parent's,
\* CREATE, a directory-only open and a node reference.
MCOpenFlags ==
    {{"RIGHT_READABLE"}, {"RIGHT_READABLE", "RIGHT_WRITABLE"},
     {"RIGHT_READABLE", "DIRECTORY"}, {"CREATE", "RIGHT_READABLE"},
     {"NODE_REFERENCE", "RIGHT_WRITABLE"}}

\* The same, with the POSIX compatibility flags a POSIX client library sends.
MCOpenPosixFlags ==
    MCOpenFlags \cup {{"RIGHT_READABLE", "POSIX_WRITABLE"}, {"POSIX_DEPRECATED"}}

\* Clone requests without the POSIX flags (see MCDirConnectionPosix.cfg).
MCCloneFlags ==
    {{"CLONE_SAME_RIGHTS"}, {"RIGHT_READABLE"},
     {"RIGHT_READABLE", "RIGHT_WRITABLE"}}

\* Clone requests that carry a POSIX flag, as a POSIX client library sends.
MCClonePosixFlags == MCCloneFlags \cup {{"RIGHT_READABLE", "POSIX_WRITABLE"}}
=============================================================================
