------------------------------ MODULE Ramdisk ------------------------------
(***************************************************************************)
(* RamdiskClient of src/lib/storage/ramdevice_client: a safe owner of one  *)
(* ramdisk created through the ramdevice C library.                        *)
(*                                                                         *)
(* Each slot of Clients is one RamdiskClient value over its lifetime:     *)
(* "none" before RamdiskClientBuilder::build succeeds for it, "live"      *)
(* while the value owns the ramdisk pointer, "gone" once destroy() has    *)
(* consumed it or it was dropped.  Rust's move semantics are the guards:  *)
(* only a live value can be used, destroyed or dropped, and only once.    *)
(* `device[s]` is whether the ramdisk device of slot s exists in the      *)
(* driver; the ghost `destroys[s]` counts ramdisk_destroy calls on its    *)
(* pointer.                                                                *)
(***************************************************************************)
EXTENDS Naturals

CONSTANTS Clients

VARIABLES client, device, destroys

vars == <<client, device, destroys>>

TypeOK ==
  /\ client \in [Clients -> {"none", "live", "gone"}]
  /\ device \in [Clients -> BOOLEAN]
  /\ destroys \in [Clients -> 0..2]
  /\ \A s \in Clients : client[s] # "gone" => destroys[s] = 0
  /\ \A s \in Clients : client[s] = "live" => device[s]

Init ==
  /\ client = [s \in Clients |-> "none"]
  /\ device = [s \in Clients |-> FALSE]
  /\ destroys = [s \in Clients |-> 0]

\* Mutant: build() without the `zx::Status::ok(status)?` check, handing out
\* a client whose pointer was never set.
BuildIgnoringStatus(s) ==
  /\ client[s] = "none"
  /\ \E isolated \in BOOLEAN, devmgrOk \in BOOLEAN, createOk \in BOOLEAN :
       IF isolated /\ ~devmgrOk
       THEN UNCHANGED vars
       ELSE /\ client' = [client EXCEPT ![s] = "live"]
            /\ device' = [device EXCEPT ![s] = createOk]
            /\ UNCHANGED destroys

\* RamdiskClientBuilder::build (RamdiskClient::create is build with no
\* dev_root and no GUID).  With an isolated dev root the devmgr service is
\* opened first, and that may fail; then one of the four ramdisk_create
\* calls, which may fail.  Either failure returns Err and creates nothing.
\* The GUID only picks the C function and is left out.
Build(s) ==
  /\ client[s] = "none"
  /\ \E isolated \in BOOLEAN, devmgrOk \in BOOLEAN, createOk \in BOOLEAN :
       IF (isolated /\ ~devmgrOk) \/ ~createOk
       THEN UNCHANGED vars
       ELSE /\ client' = [client EXCEPT ![s] = "live"]
            /\ device' = [device EXCEPT ![s] = TRUE]
            /\ UNCHANGED destroys

\* ramdisk_destroy on the slot's pointer: the device goes away when the
\* call succeeds.
RamdiskDestroy(s, ok) ==
  /\ device' = [device EXCEPT ![s] = IF ok THEN FALSE ELSE @]
  /\ destroys' = [destroys EXCEPT ![s] = @ + 1]

\* RamdiskClient::destroy: ramdisk_destroy, then mem::forget(self) so that
\* Drop does not run; the status is returned to the caller.
Destroy(s) ==
  /\ client[s] = "live"
  /\ \E ok \in BOOLEAN : RamdiskDestroy(s, ok)
  /\ client' = [client EXCEPT ![s] = "gone"]

\* Drop for RamdiskClient: ramdisk_destroy, its status ignored.
Drop(s) ==
  /\ client[s] = "live"
  /\ \E ok \in BOOLEAN : RamdiskDestroy(s, ok)
  /\ client' = [client EXCEPT ![s] = "gone"]

\* get_path, open (a channel cloned from the block fd) and wait_for_device
\* read the live ramdisk and change nothing.
Use(s) ==
  /\ client[s] = "live"
  /\ UNCHANGED vars

Next == \E s \in Clients : Build(s) \/ Destroy(s) \/ Drop(s) \/ Use(s)

Spec == Init /\ [][Next]_vars

=============================================================================
