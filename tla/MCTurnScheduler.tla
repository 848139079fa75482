-------------------------- MODULE MCTurnScheduler --------------------------
(* Small instances of TurnScheduler for TLC: a group of two bots, the      *)
(* direct room of one of them, and the direct room of a third bot.         *)
EXTENDS TurnScheduler

CONSTANTS ann, bob, cat, group, dm, other

MCKind == [r \in Rooms |-> IF r = group THEN "group" ELSE "dm"]
MCMembers == [r \in Rooms |-> CASE r = group -> <<ann, bob>>
                                [] r = dm -> <<ann>>
                                [] r = other -> <<cat>>]

Mentioned(b) == [id |-> b, handoff |-> FALSE]
MCMentions == {<<>>, <<Mentioned(bob)>>}
MCAutomations == {<<bob, ann>>}
MCMentionBob == {<<Mentioned(bob)>>}
=============================================================================
