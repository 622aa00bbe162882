------------------------------ MODULE VfsFlags ------------------------------
(***************************************************************************)
(* Open-time flag arithmetic of the VFS (directory/common.rs and the      *)
(* crate's common.rs).  A fuchsia.io flags word is a bit mask; here it is *)
(* the set of the names of its set bits, so `flags & F != 0` is           *)
(* `F \in flags`, `flags &= !F` is `flags \ {F}` and `flags |= F` is      *)
(* `flags \cup {F}`.  Each operator returns a result record: status "OK"  *)
(* with the adjusted flags, or an error status.                           *)
(***************************************************************************)
EXTENDS FiniteSets

\* The bits of the fuchsia.io open-flags word that the VFS inspects.
Rights == {"RIGHT_READABLE", "RIGHT_WRITABLE", "RIGHT_EXECUTABLE"}
PosixFlags == {"POSIX_DEPRECATED", "POSIX_WRITABLE", "POSIX_EXECUTABLE"}
Flags == Rights \cup PosixFlags \cup
         {"NODE_REFERENCE", "DESCRIBE", "CREATE", "CREATE_IF_ABSENT",
          "DIRECTORY", "NOT_DIRECTORY", "APPEND", "TRUNCATE",
          "CLONE_SAME_RIGHTS"}

\* The type field of the `mode` argument (MODE_TYPE_MASK bits).
Modes == {"none", "dir", "file"}

\* fuchsia.io OPEN_FLAGS_ALLOWED_WITH_NODE_REFERENCE.
AllowedWithNodeReference == {"NODE_REFERENCE", "DIRECTORY", "NOT_DIRECTORY", "DESCRIBE"}

Ok(f) == [status |-> "OK", flags |-> f, mode |-> "none"]
OkMode(f, m) == [status |-> "OK", flags |-> f, mode |-> m]
Err(s) == [status |-> s, flags |-> {}, mode |-> "none"]

RightsOf(f) == f \cap Rights

\* common::stricter_or_same_rights: the rights of `flags` do not exceed
\* those of `parent_flags`.
StricterOrSameRights(parentFlags, flags) == RightsOf(flags) \subseteq RightsOf(parentFlags)

\* directory::common::new_connection_validate_flags.
NewConnectionValidateFlags(f0) ==
    LET f1 == IF "NODE_REFERENCE" \in f0 THEN f0 \cap AllowedWithNodeReference ELSE f0
        f2 == f1 \ {"DIRECTORY"}
        f3 == IF "POSIX_DEPRECATED" \in f2
              THEN f2 \cup {"POSIX_WRITABLE", "POSIX_EXECUTABLE"} ELSE f2
        f4 == IF f3 \cap {"POSIX_DEPRECATED", "POSIX_EXECUTABLE"} # {}
              THEN f3 \cup {"RIGHT_EXECUTABLE"} ELSE f3
        f5 == IF f4 \cap {"POSIX_DEPRECATED", "POSIX_WRITABLE"} # {}
              THEN f4 \cup {"RIGHT_WRITABLE"} ELSE f4
        f6 == f5 \ PosixFlags
        allowed == Rights \cup {"NODE_REFERENCE", "DESCRIBE", "CREATE",
                                "CREATE_IF_ABSENT", "DIRECTORY"}
    IN  CASE "NOT_DIRECTORY" \in f2           -> Err("NOT_FILE")
          [] f6 \cap {"APPEND", "TRUNCATE"} # {} -> Err("INVALID_ARGS")
          [] f6 \ allowed # {}                 -> Err("NOT_SUPPORTED")
          [] OTHER                             -> Ok(f6)

\* Mutant: check_child_connection_flags without the POSIX soft-fail.
CheckChildNoSoftFail(parentFlags, f0, mode0) ==
    LET f1 == IF "POSIX_DEPRECATED" \in f0
              THEN (f0 \cup {"POSIX_WRITABLE", "POSIX_EXECUTABLE"}) \ {"POSIX_DEPRECATED"}
              ELSE f0
    IN  IF StricterOrSameRights(parentFlags, f1) THEN OkMode(f1, mode0) ELSE Err("ACCESS_DENIED")

\* Mutant: check_child_connection_flags without the CREATE check on the
\* parent's RIGHT_WRITABLE.
CheckChildCreateUnchecked(parentFlags, f0, mode0) ==
    LET f1 == IF "POSIX_DEPRECATED" \in f0
              THEN (f0 \cup {"POSIX_WRITABLE", "POSIX_EXECUTABLE"}) \ {"POSIX_DEPRECATED"}
              ELSE f0
        f3 == IF "RIGHT_WRITABLE" \notin parentFlags THEN f1 \ {"POSIX_WRITABLE"} ELSE f1
    IN  IF StricterOrSameRights(parentFlags, f3) THEN OkMode(f3, mode0) ELSE Err("ACCESS_DENIED")

\* directory::common::check_child_connection_flags.
CheckChildConnectionFlags(parentFlags, f0, mode0) ==
    LET dirMismatch == /\ mode0 # "none"
                       /\ \/ "DIRECTORY" \in f0 /\ mode0 # "dir"
                          \/ "NOT_DIRECTORY" \in f0 /\ mode0 = "dir"
        mode1 == IF mode0 = "none" /\ "DIRECTORY" \in f0 THEN "dir" ELSE mode0
        f1 == IF "POSIX_DEPRECATED" \in f0
              THEN (f0 \cup {"POSIX_WRITABLE", "POSIX_EXECUTABLE"}) \ {"POSIX_DEPRECATED"}
              ELSE f0
        f2 == IF "RIGHT_EXECUTABLE" \notin parentFlags THEN f1 \ {"POSIX_EXECUTABLE"} ELSE f1
        f3 == IF "RIGHT_WRITABLE" \notin parentFlags THEN f2 \ {"POSIX_WRITABLE"} ELSE f2
    IN  CASE dirMismatch                                  -> Err("INVALID_ARGS")
          [] {"DIRECTORY", "NOT_DIRECTORY"} \subseteq f0  -> Err("INVALID_ARGS")
          [] "CREATE_IF_ABSENT" \in f0 /\ "CREATE" \notin f0 -> Err("INVALID_ARGS")
          [] "CLONE_SAME_RIGHTS" \in f0                   -> Err("INVALID_ARGS")
          [] "CREATE" \in f3 /\ "RIGHT_WRITABLE" \notin parentFlags -> Err("ACCESS_DENIED")
          [] ~StricterOrSameRights(parentFlags, f3)       -> Err("ACCESS_DENIED")
          [] OTHER                                        -> OkMode(f3, mode1)

\* common::inherit_rights_for_clone (the crate's common.rs, not in this
\* tree), as the specification describes it: with CLONE_SAME_RIGHTS the
\* clone takes the parent's rights in place of any it names; otherwise
\* the rights it names must be the parent's or fewer.  The POSIX flags are
\* not passed on: the specification has rights narrow at every Clone, and
\* a POSIX flag that reached new_connection_validate_flags would become a
\* right the parent may lack.  The specification says nothing of the
\* parent's APPEND or NODE_REFERENCE being carried over, nor of an error
\* for SAME_RIGHTS with explicit rights (it says those are ignored), so
\* the clone has exactly the mode flags it names.
InheritRightsForClone(parentFlags, f0) ==
    LET f1 == IF "CLONE_SAME_RIGHTS" \in f0
              THEN (f0 \ (Rights \cup {"CLONE_SAME_RIGHTS"})) \cup RightsOf(parentFlags)
              ELSE f0
    IN  IF StricterOrSameRights(parentFlags, f1) THEN Ok(f1 \ PosixFlags)
        ELSE Err("ACCESS_DENIED")
=============================================================================
