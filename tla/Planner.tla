------------------------------ MODULE Planner ------------------------------
(***************************************************************************)
(* Which bots answer a message, in which order and how: planTurns of       *)
(* src/apps/server/src/rooms/planner.ts.                                   *)
(*                                                                         *)
(* The code returns a list of {botId, replyMode, handoffDepth} without     *)
(* duplicate bots.  Here the list is a function from the bots to their     *)
(* plan, whose `slot` is the place the code's filters keep: the planned    *)
(* bots by ascending slot are the list.                                    *)
(***************************************************************************)
EXTENDS Integers, Sequences, FiniteSets, SequencesExt

CONSTANT Bots,              \* every bot of the workspace
         MaxHandoffDepth    \* MAX_HANDOFF_DEPTH of packages/shared

ASSUME PlannerAssumption == /\ IsFiniteSet(Bots)
                            /\ MaxHandoffDepth \in Nat

AuthorKinds == {"user", "bot", "system"}
RoomKinds == {"dm", "group"}
ReplyModes == {"direct", "optional"}

(* A mention names a bot (mentions of people plan nothing); `handoff` is   *)
(* set by the handoff tool and by nothing else.                            *)
Mention == [id : Bots, handoff : BOOLEAN]

(* The place a list gives x: the first, as findIndex and indexOf count.    *)
FirstPlace(s, x) == Min({i \in DOMAIN s : s[i] = x})

(* Mentions the planner honours: the bot is in the room and, when the      *)
(* author is itself a bot, the mention is an explicit handoff.             *)
Honoured(author, members, mentions) ==
    {i \in DOMAIN mentions : /\ mentions[i].id \in Range(members)
                             /\ author = "bot" => mentions[i].handoff}

(* An unplanned bot keeps the reply mode "none".                           *)
Plan == [replyMode : ReplyModes \cup {"none"}, handoffDepth : 0 .. MaxHandoffDepth, slot : Nat]

Direct(depth, slot) == [replyMode |-> "direct", handoffDepth |-> depth, slot |-> slot]
Optional(depth, slot) == [replyMode |-> "optional", handoffDepth |-> depth, slot |-> slot]
Unplanned == [replyMode |-> "none", handoffDepth |-> 0, slot |-> 0]

Planned(plan) == {b \in Bots : plan[b].replyMode # "none"}

(* The first honoured mention of a bot fixes its place among the mentioned.*)
MentionSlot(honoured, mentions, b) == Min({i \in honoured : mentions[i].id = b})

PlanTurns(kind, author, members, mentions, depth, automationBots) ==
    LET honoured == Honoured(author, members, mentions)
        mentioned == {mentions[i].id : i \in honoured}
        here == Range(members)
    IN  [b \in Bots |->
           IF author = "system"
           THEN IF b \in here \cap Range(automationBots)
                THEN Direct(depth, FirstPlace(automationBots, b)) ELSE Unplanned
           ELSE IF author = "bot"
           THEN IF b \in mentioned /\ depth < MaxHandoffDepth
                THEN Direct(depth + 1, MentionSlot(honoured, mentions, b)) ELSE Unplanned
           ELSE IF kind = "dm"
           THEN IF members # <<>> /\ b = members[1] THEN Direct(depth, 1) ELSE Unplanned
           ELSE IF b \in mentioned THEN Direct(depth, MentionSlot(honoured, mentions, b))
           ELSE IF b \in here THEN Optional(depth, Len(mentions) + FirstPlace(members, b))
           ELSE Unplanned]
=============================================================================
