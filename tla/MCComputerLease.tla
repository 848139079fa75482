-------------------------- MODULE MCComputerLease --------------------------
(* Small instances of ComputerLease for TLC.                               *)
EXTENDS ComputerLease

CONSTANTS ann, bob, t1, t2, s1, s2
=============================================================================
