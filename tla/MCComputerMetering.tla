------------------------- MODULE MCComputerMetering -------------------------
(* Small instances of ComputerMetering for TLC.                            *)
EXTENDS ComputerMetering

CONSTANTS e2b, daytona, u1, u2
=============================================================================
