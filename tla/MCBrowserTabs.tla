---------------------------- MODULE MCBrowserTabs ----------------------------
(* Small instances of BrowserTabs for TLC.                                  *)
EXTENDS BrowserTabs, TLC

CONSTANTS t1, t2, t3

(* The turns differ in nothing. *)
Symmetry == Permutations(Turns)
=============================================================================
