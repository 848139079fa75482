------------------------- MODULE MCComputerStorage -------------------------
(* Small instances of ComputerStorage for TLC.                             *)
EXTENDS ComputerStorage

CONSTANTS local, e2b, daytona, k1, k2, w1, w2, t1, t2
=============================================================================
