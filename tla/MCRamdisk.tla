----------------------------- MODULE MCRamdisk -----------------------------
(* Model-checking instance of Ramdisk: four RamdiskClient values.          *)
EXTENDS Ramdisk, TLC

CONSTANTS r1, r2, r3, r4
=============================================================================
