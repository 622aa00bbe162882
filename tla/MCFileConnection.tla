-------------------------- MODULE MCFileConnection --------------------------
(* Model-checking instance of FileConnection: two tasks on one file,      *)
(* the seek width and the capacity are set by each .cfg.                *)
EXTENDS FileConnection, TLC

CONSTANTS c1, c2

\* Client flags: read-only, read-write, append-only and truncating opens,
\* a same-rights clone, a node reference and a directory open (refused).
MCFlags == {{"RIGHT_READABLE"},
            {"RIGHT_READABLE", "RIGHT_WRITABLE"},
            {"RIGHT_WRITABLE", "APPEND"},
            {"RIGHT_WRITABLE", "TRUNCATE"},
            {"CLONE_SAME_RIGHTS"},
            {"NODE_REFERENCE"},
            {"DIRECTORY"}}

\* Flags for the general run: MCFlags without the read-only open, whose
\* rights-less case the node reference already gives, and without the
\* directory open, whose early return File::open failing already takes.
MCAllFlags == MCFlags \ {{"RIGHT_READABLE"}, {"DIRECTORY"}}

\* Flags for the panic run: read-only, read-write and append-only
\* clients, and a clone keeping the parent's rights.
MCRightsFlags == {{"RIGHT_READABLE"},
                  {"RIGHT_READABLE", "RIGHT_WRITABLE"},
                  {"RIGHT_WRITABLE", "APPEND"},
                  {"CLONE_SAME_RIGHTS"}}

\* Offsets for the seek-overflow run: the largest i64 offset, scaled.
MCSeekOffsets == {-1, 1, 3}

\* Offsets for the panic run: one backwards, one forwards.
MCOffsets == {-1, 2}

\* Offsets for the general run, at a 2-bit seek (i64 scaled to -2..1).
MCSmallOffsets == {-1, 1}
=============================================================================
