--------------------------- MODULE MCPluginSignIn ---------------------------
(* Small instances of PluginSignIn for TLC.                                 *)
EXTENDS PluginSignIn, TLC

CONSTANTS t1, c1, c2

(* Two pages of the callback are interchangeable. *)
Symmetry == Permutations(Callbacks)
=============================================================================
