--------------------------- MODULE TurnLifecycle ---------------------------
(***************************************************************************)
(* What a member is promised about turns (docs/ARCHITECTURE.md 4.2, 4.6    *)
(* and 4.7; the statuses of the turns table), with nothing of how          *)
(* TurnScheduler keeps the promise: which status follows which, that a     *)
(* stop is final, and that the turns being worked on are of different      *)
(* rooms and bots and no more than the cap.                                *)
(***************************************************************************)
EXTENDS Naturals, FiniteSets

CONSTANTS Turn,                \* records with fields room and bot
          MaxConcurrentTurns

VARIABLES status,    \* the turns table
          working    \* the turns being worked on

Ended == {"done", "skipped", "failed", "cancelled"}
Open == {"queued", "running", "waiting_approval"}

Init == /\ status = [t \in Turn |-> "none"]
        /\ working = {}

Become(S, s) == status' = [t \in Turn |-> IF t \in S THEN s ELSE status[t]]

(* A message plans its turns; /connect makes one that waits at once.       *)
Unborn(r) == {t \in Turn : t.room = r /\ status[t] = "none"}
Plan(S) == S # {} /\ Become(S, "queued") /\ UNCHANGED working
Connect(t) == status[t] = "none" /\ Become({t}, "waiting_approval") /\ UNCHANGED working

Take(t) ==
    /\ status[t] = "queued"
    /\ \A u \in working : u.room # t.room /\ u.bot # t.bot
    /\ Cardinality(working) < MaxConcurrentTurns
    /\ working' = working \cup {t} /\ UNCHANGED status

Work(t, from, to) ==
    /\ t \in working /\ status[t] = from
    /\ Become({t}, to) /\ UNCHANGED working

Leave(t) == t \in working /\ working' = working \ {t} /\ UNCHANGED status

Answered(t, to) == status[t] = "waiting_approval" /\ Become({t}, to) /\ UNCHANGED working
Waiting == {t \in Turn : status[t] = "waiting_approval"}
Expired(S) == S # {} /\ Become(S, "failed") /\ UNCHANGED working

Stop(t) == status[t] \in Open /\ Become({t}, "cancelled") /\ UNCHANGED working

(* The process ends: nothing is worked on; what was running has failed.    *)
Restart == working' = {} /\ UNCHANGED status
Recover(t) == /\ working = {} /\ status[t] = "running"
              /\ Become({t}, "failed") /\ UNCHANGED working

Next ==
    \/ \E t \in Turn : \E S \in SUBSET Unborn(t.room) : Plan(S)
    \/ \E S \in SUBSET Waiting : Expired(S)
    \/ \E t \in Turn :
          \/ Connect(t) \/ Take(t) \/ Leave(t) \/ Stop(t) \/ Recover(t)
          \/ \E to \in {"running", "skipped"} : Work(t, "queued", to)
          \/ \E to \in {"done", "skipped", "failed", "waiting_approval"} :
                Work(t, "running", to)
          \/ \E to \in {"queued", "done", "skipped"} : Answered(t, to)
    \/ Restart

Spec == Init /\ [][Next]_<<status, working>>
=============================================================================
