--------------------------- MODULE MCAutomations ---------------------------
(* Small instances of Automations for TLC.                                 *)
EXTENDS Automations

CONSTANTS ann, bob, r1, e1

Trigger(t, o, c) == [trigger |-> t, overlap |-> o, catchUp |-> c]
MCSetups == {Trigger("schedule", "skip", TRUE), Trigger("webhook", "queue", FALSE)}
=============================================================================
