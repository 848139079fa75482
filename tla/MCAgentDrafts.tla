---------------------------- MODULE MCAgentDrafts ----------------------------
(* Small instances of AgentDrafts for TLC.                                  *)
EXTENDS AgentDrafts, TLC

CONSTANTS t1, t2

(* The tabs differ in nothing. *)
Symmetry == Permutations(Tabs)
=============================================================================
