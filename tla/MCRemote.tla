------------------------------- MODULE MCRemote -------------------------------
(* Model of Remote: clients open through read-only, read-write and        *)
(* read-write-execute directory connections, with plain, POSIX and        *)
(* node-only flags.                                                       *)
EXTENDS Remote, TLC

MCParentFlags ==
    {{"RIGHT_READABLE"}, {"RIGHT_READABLE", "RIGHT_WRITABLE"},
     {"RIGHT_READABLE", "RIGHT_WRITABLE", "RIGHT_EXECUTABLE"}}

MCOpenFlags ==
    {{"RIGHT_READABLE"}, {"RIGHT_READABLE", "RIGHT_WRITABLE"},
     {"RIGHT_READABLE", "POSIX_WRITABLE"}, {"POSIX_DEPRECATED"},
     {"NODE_REFERENCE"}, {"RIGHT_READABLE", "NO_REMOTE"},
     {"RIGHT_READABLE", "DIRECTORY"}}
=============================================================================
