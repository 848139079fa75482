---------------------------- MODULE Automations ----------------------------
(***************************************************************************)
(* One automation of a room: AutomationService fires it on a schedule, by  *)
(* hand or by webhook, sweeps its invocations for failures and pauses it   *)
(* after too many, while members pause, resume and edit it, bots are       *)
(* deleted, and the process crashes (src/apps/server/src/automations/).    *)
(*                                                                         *)
(* As in TurnScheduler an action is what runs between two awaits.  Two     *)
(* awaits are one action where nothing that another handler can do between *)
(* them is seen by the second: the reads of fire(), the claim of the sweep *)
(* with the read after it, and the notice after the last write.            *)
(***************************************************************************)
EXTENDS Naturals, FiniteSets

CONSTANTS
    Bots,            \* targetBotIds
    Setups,          \* the automations to consider: trigger, overlap, catchUp
    Requests,        \* manual runs and webhook deliveries
    Keys,            \* idempotency keys of webhook deliveries
    Editors,         \* members who PATCH the automation
    FailureLimit,    \* AUTOMATION_FAILURE_LIMIT
    MaxInvocations,  \* BOUND: firings that get as far as a row
    MaxTime,         \* BOUND: minutes
    MaxCrashes       \* BOUND: ends of the process

Setup == [trigger : {"schedule", "webhook"}, overlap : {"skip", "queue"}, catchUp : BOOLEAN]

ASSUME AutomationsAssumption ==
    /\ Setups \subseteq Setup
    /\ Keys \subseteq Nat \ {0}
    /\ FailureLimit \in Nat \ {0}
    /\ MaxInvocations \in Nat /\ MaxTime \in Nat /\ MaxCrashes \in Nat
    /\ {"tick", "boot"} \cap Requests = {}

Invocation == 1 .. MaxInvocations
Never == 0            \* no nextRunAt, no key: a minute and a key are positive
Call == {"tick", "boot"} \cup Requests
Reason == {"none", "manual", "failures", "missing_member"}
Active == "active"    \* queued, running or waiting_approval
TurnStatus == {"none", Active, "done", "skipped", "failed"}   \* cancelled counts as done

Row == [enabled : BOOLEAN, reason : Reason, strikes : Nat, nextRun : Nat]
Fresh == [made |-> FALSE, token |-> Never, known |-> FALSE, counted |-> FALSE]

----------------------------------------------------------------------------
(* The database.                                                           *)
VARIABLE setup     \* the columns of the automation nobody changes here
VARIABLE row       \* its other columns
VARIABLE inv       \* its invocations: `token` is scheduledAt or triggerKey,
                   \* `known` says that messageId or skipReason is set
VARIABLE turn      \* per invocation and bot, the turn it caused
VARIABLE members   \* bots of the room

(* The process.                                                            *)
VARIABLE server    \* "down", "booting" or "up"
VARIABLE job       \* whether `jobs` holds a cron job
VARIABLE ticked    \* the minute the job last ticked, or was made
VARIABLE call      \* per call of fire(), where it awaits and its locals
VARIABLE sweep     \* the one running sweepPending(), and its locals
VARIABLE edit      \* per call of update(), the change and the row it read

VARIABLE now       \* the minute
VARIABLE crashes

dbVars == <<setup, row, inv, turn, members>>
memVars == <<server, job, ticked, call, sweep, edit>>
vars == <<dbVars, memVars, now, crashes>>

Idle == [at |-> "idle", token |-> Never, id |-> 0, targets |-> {}, start |-> {}]
NoSweep == [at |-> "idle", todo |-> {}, status |-> "running",
            seen |-> [enabled |-> FALSE, reason |-> "manual", strikes |-> 0, nextRun |-> Never]]
NoEdit == [change |-> "none", seen |-> NoSweep.seen]

Scheduled == setup.trigger = "schedule"

(* nextRun() of a cron job for every minute, and the nextRunAt of update(). *)
NextRun == now + 1
NextRunWheneverEnabled(enabled) == IF enabled THEN NextRun ELSE Never   \* slip: forgets the trigger
NextRunIf(enabled) == IF Scheduled /\ enabled THEN NextRun ELSE Never

Init ==
    /\ setup \in Setups
    /\ now = 1
    /\ row = [enabled |-> TRUE, reason |-> "none", strikes |-> 0,
              nextRun |-> IF Scheduled THEN 2 ELSE Never]
    /\ inv = [i \in Invocation |-> Fresh]
    /\ turn = [i \in Invocation |-> [b \in Bots |-> "none"]]
    /\ members = Bots
    /\ server = "up"
    /\ job = Scheduled /\ ticked = 1
    /\ call = [c \in Call |-> Idle]
    /\ sweep = NoSweep
    /\ edit = [e \in Editors |-> NoEdit]
    /\ crashes = 0

----------------------------------------------------------------------------
(* sweep() and sweepPending().                                             *)

JoinSweep == IF sweep.at = "idle" THEN [sweep EXCEPT !.at = "list"] ELSE sweep

(* The timer, or a member who lists automations or reads their history.    *)
StartSweep ==
    /\ server = "up" /\ sweep.at = "idle"
    /\ sweep' = JoinSweep
    /\ UNCHANGED <<dbVars, server, job, ticked, call, edit, now, crashes>>

SweepableAtOnce(i) == inv[i].made /\ ~inv[i].counted   \* slip: also what is being admitted
Sweepable(i) == inv[i].made /\ ~inv[i].counted /\ inv[i].known

(* When the sweep ends, the calls that joined it go on to their queue.     *)
SweepTo(s) ==
    LET done == s.at = "next" /\ s.todo = {} IN
    /\ sweep' = IF done THEN NoSweep ELSE s
    /\ call' = [c \in Call |-> IF done /\ call[c].at = "sweep"
                               THEN [call[c] EXCEPT !.at = "queue"] ELSE call[c]]

SweepList ==
    /\ sweep.at = "list"
    /\ SweepTo([sweep EXCEPT !.at = "next", !.todo = {i \in Invocation : Sweepable(i)}])
    /\ UNCHANGED <<dbVars, server, job, ticked, edit, now, crashes>>

(* deriveInvocationStatus() of the runs that hydrateInvocation() reads: a  *)
(* run has a turn only once it is recorded, and is skipped without one.    *)
Runs(i) == {b \in Bots : inv[i].known /\ turn[i][b] \notin {"none", "skipped"}}
InvocationStatus(i) ==
    CASE Runs(i) = {} -> "skipped"
      [] \E b \in Runs(i) : turn[i][b] = Active -> "running"
      [] \A b \in Runs(i) : turn[i][b] = "failed" -> "failed"
      [] OTHER -> IF \E b \in Runs(i) : turn[i][b] = "failed" THEN "partial_failed" ELSE "completed"

PassOverAll(i) == {}      \* slip: a running invocation ends the sweep
PassOver(i) == sweep.todo \ {i}

(* The order of the query is not said.                                     *)
SweepRunning(i) ==
    /\ sweep.at = "next" /\ i \in sweep.todo /\ InvocationStatus(i) = "running"
    /\ SweepTo([sweep EXCEPT !.todo = PassOver(i)])
    /\ UNCHANGED <<dbVars, server, job, ticked, edit, now, crashes>>

(* The claim, and the row read after it.                                   *)
SweepClaim(i) ==
    /\ sweep.at = "next" /\ i \in sweep.todo /\ InvocationStatus(i) # "running"
    /\ inv' = [inv EXCEPT ![i].counted = TRUE]
    /\ sweep' = [at |-> "write", todo |-> sweep.todo \ {i},
                 status |-> InvocationStatus(i), seen |-> row]
    /\ UNCHANGED <<setup, row, turn, members, server, job, ticked, call, edit, now, crashes>>

Strikes ==
    CASE sweep.status \in {"failed", "partial_failed"} -> sweep.seen.strikes + 1
      [] sweep.status = "completed" -> 0
      [] OTHER -> sweep.seen.strikes

AutoPauseLate == Strikes > FailureLimit /\ sweep.seen.enabled   \* slip: off by one
AutoPause == Strikes >= FailureLimit /\ sweep.seen.enabled

(* The write of what was read, a paused job's end, and the notice.         *)
SweepWrite ==
    /\ sweep.at = "write"
    /\ row' = IF AutoPause
              THEN [enabled |-> FALSE, reason |-> "failures", strikes |-> Strikes, nextRun |-> Never]
              ELSE [sweep.seen EXCEPT !.strikes = Strikes]
    /\ job' = (job /\ ~AutoPause)
    /\ SweepTo([sweep EXCEPT !.at = "next"])
    /\ UNCHANGED <<setup, inv, turn, members, server, ticked, edit, now, crashes>>

----------------------------------------------------------------------------
(* fire().                                                                 *)

Calling == {c \in Call : call[c].at # "idle"}
Room == Cardinality({i \in Invocation : inv[i].made}) + Cardinality(Calling) < MaxInvocations

(* It begins by sweeping, or joins the sweep that runs.                    *)
Begin(c, token) ==
    /\ call[c].at = "idle" /\ Room
    /\ call' = [call EXCEPT ![c] = [Idle EXCEPT !.at = "sweep", !.token = token]]
    /\ sweep' = JoinSweep

(* The cron job's callback: the slot it fires for is the row's nextRunAt.  *)
(* `protect` lets no tick begin while another runs; here the ticks of a    *)
(* job that update() has replaced count as another.                        *)
Tick ==
    /\ server = "up" /\ job /\ ticked < now
    /\ ticked' = now
    /\ Begin("tick", IF row.nextRun # Never THEN row.nextRun ELSE now)
    /\ UNCHANGED <<dbVars, server, job, edit, now, crashes>>

Manual(c) ==
    /\ server = "up" /\ Begin(c, Never)
    /\ UNCHANGED <<dbVars, server, job, ticked, edit, now, crashes>>

Webhook(c, key) ==
    /\ server = "up" /\ ~Scheduled /\ row.enabled /\ Begin(c, key)
    /\ UNCHANGED <<dbVars, server, job, ticked, edit, now, crashes>>

(* KeyedSerialQueue: what fire() does after the sweep, one call at a time. *)
Holding == {c \in Call : call[c].at \in {"missing", "advance", "insert", "busy", "post", "record"}}
FreeAlways == TRUE                         \* slip: no queue
QueueFree == Holding = {}

ByHand(c) == call[c].token = Never
OnSchedule(c) == c \in {"tick", "boot"}
End(c) == call' = [call EXCEPT ![c] = Idle]
Goto(c, at) == call' = [call EXCEPT ![c].at = at]

FireDisabled(c) ==
    /\ call[c].at = "queue" /\ QueueFree
    /\ ~row.enabled /\ ~ByHand(c)
    /\ End(c)
    /\ UNCHANGED <<dbVars, server, job, ticked, sweep, edit, now, crashes>>

FireTargets(c) ==
    /\ call[c].at = "queue" /\ QueueFree
    /\ row.enabled \/ ByHand(c)
    /\ call' = [call EXCEPT ![c].targets = Bots \cap members,
                            ![c].at = IF Bots \cap members = {} THEN "missing"
                                      ELSE IF OnSchedule(c) THEN "advance" ELSE "insert"]
    /\ UNCHANGED <<dbVars, server, job, ticked, sweep, edit, now, crashes>>

FireMissing(c) ==
    /\ call[c].at = "missing"
    /\ row' = [row EXCEPT !.enabled = FALSE, !.reason = "missing_member", !.nextRun = Never]
    /\ job' = FALSE
    /\ End(c)
    /\ UNCHANGED <<setup, inv, turn, members, server, ticked, sweep, edit, now, crashes>>

FireAdvance(c) ==
    /\ call[c].at = "advance"
    /\ row' = [row EXCEPT !.nextRun = NextRun]
    /\ Goto(c, "insert")
    /\ UNCHANGED <<setup, inv, turn, members, server, job, ticked, sweep, edit, now, crashes>>

(* The unique indexes on (automation, scheduledAt) and on (automation,     *)
(* triggerKey); a manual run has neither.                                  *)
Duplicate(c) == ~ByHand(c) /\ \E i \in Invocation : inv[i].made /\ inv[i].token = call[c].token

FireDuplicate(c) ==
    /\ call[c].at = "insert" /\ Duplicate(c)
    /\ End(c)
    /\ UNCHANGED <<dbVars, server, job, ticked, sweep, edit, now, crashes>>

FireInsert(c, i) ==
    /\ call[c].at = "insert" /\ ~Duplicate(c)
    /\ ~inv[i].made /\ \A j \in 1 .. i - 1 : inv[j].made
    /\ inv' = [inv EXCEPT ![i].made = TRUE, ![i].token = call[c].token]
    /\ call' = [call EXCEPT ![c].at = "busy", ![c].id = i]
    /\ UNCHANGED <<setup, row, turn, members, server, job, ticked, sweep, edit, now, crashes>>

(* A target is busy with this automation's turns, or with others.          *)
Works(b) == \E i \in Invocation : turn[i][b] = Active
BusySets(c) ==
    IF setup.overlap = "queue" THEN {{}}
    ELSE {busy \in SUBSET call[c].targets : {b \in call[c].targets : Works(b)} \subseteq busy}

FireSkipped(c) ==
    /\ call[c].at = "busy" /\ call[c].targets \in BusySets(c)
    /\ inv' = [inv EXCEPT ![call[c].id].known = TRUE]
    /\ End(c)
    /\ UNCHANGED <<setup, row, turn, members, server, job, ticked, sweep, edit, now, crashes>>

FireBusy(c) ==
    /\ call[c].at = "busy"
    /\ \E busy \in BusySets(c) :
        /\ busy # call[c].targets
        /\ call' = [call EXCEPT ![c].start = call[c].targets \ busy, ![c].at = "post"]
    /\ UNCHANGED <<dbVars, server, job, ticked, sweep, edit, now, crashes>>

(* post() commits the message and one direct turn per bot that is still a  *)
(* member; beforeEnqueue then records them; the scheduler gets them after. *)
FirePost(c) ==
    /\ call[c].at = "post"
    /\ turn' = [turn EXCEPT ![call[c].id] =
                   [b \in Bots |-> IF b \in call[c].start \cap members THEN Active ELSE @[b]]]
    /\ Goto(c, "record")
    /\ UNCHANGED <<setup, row, inv, members, server, job, ticked, sweep, edit, now, crashes>>

FireRecord(c) ==
    /\ call[c].at = "record"
    /\ inv' = [inv EXCEPT ![call[c].id].known = TRUE]
    /\ End(c)
    /\ UNCHANGED <<setup, row, turn, members, server, job, ticked, sweep, edit, now, crashes>>

Fire(c) ==
    \/ FireDisabled(c) \/ FireTargets(c) \/ FireMissing(c) \/ FireAdvance(c)
    \/ FireDuplicate(c) \/ (\E i \in Invocation : FireInsert(c, i))
    \/ FireSkipped(c) \/ FireBusy(c) \/ FirePost(c) \/ FireRecord(c)

----------------------------------------------------------------------------
(* update(): reads the row, validates, writes all of it; schedule() makes  *)
(* the job and, after an await, writes nextRunAt once more.                *)

(* A target that is gone makes every PATCH fail.                           *)
EditRead(e) ==
    /\ server = "up" /\ edit[e].change = "none" /\ members = Bots
    /\ \E change \in {"pause", "resume", "other"} :
           edit' = [edit EXCEPT ![e] = [change |-> change, seen |-> row]]
    /\ UNCHANGED <<dbVars, server, job, ticked, call, sweep, now, crashes>>

Edited(change, seen) ==
    LET enabled == IF change = "other" THEN seen.enabled ELSE change = "resume"
        enabling == change = "resume" /\ ~seen.enabled
        disabling == change = "pause" /\ seen.enabled
    IN [enabled |-> enabled,
        reason |-> IF enabling THEN "none" ELSE IF disabling THEN "manual" ELSE seen.reason,
        strikes |-> IF enabling THEN 0 ELSE seen.strikes,
        nextRun |-> NextRunIf(enabled)]

EditWrite(e) ==
    /\ edit[e].change \in {"pause", "resume", "other"}
    /\ row' = Edited(edit[e].change, edit[e].seen)
    /\ job' = (Scheduled /\ row'.enabled)
    /\ ticked' = IF job' THEN now ELSE ticked
    /\ edit' = [edit EXCEPT ![e] = IF job' THEN [change |-> "schedule", seen |-> row'] ELSE NoEdit]
    /\ UNCHANGED <<setup, inv, turn, members, server, call, sweep, now, crashes>>

EditSchedule(e) ==
    /\ edit[e].change = "schedule"
    /\ row' = [row EXCEPT !.nextRun = edit[e].seen.nextRun]
    /\ edit' = [edit EXCEPT ![e] = NoEdit]
    /\ UNCHANGED <<setup, inv, turn, members, server, job, ticked, call, sweep, now, crashes>>

----------------------------------------------------------------------------
(* Around it: turns end, bots are deleted with their turns, time passes,   *)
(* the process ends and starts.                                            *)

Recorded(i) == inv[i].known \/ \A c \in Call : call[c].at = "record" => call[c].id # i

(* A turn the scheduler does not yet have can only be cancelled.           *)
TurnEnds(i, b) ==
    /\ server # "down" /\ turn[i][b] = Active
    /\ \E s \in {"done", "skipped", "failed"} :
        /\ s = "done" \/ Recorded(i)
        /\ turn' = [turn EXCEPT ![i][b] = s]
    /\ UNCHANGED <<setup, row, inv, members, memVars, now, crashes>>

BotDeleted(b) ==
    /\ server = "up" /\ b \in members
    /\ members' = members \ {b}
    /\ turn' = [i \in Invocation |-> [turn[i] EXCEPT ![b] = "none"]]
    /\ UNCHANGED <<setup, row, inv, memVars, now, crashes>>

Minute ==
    /\ now < MaxTime
    /\ now' = now + 1
    /\ UNCHANGED <<dbVars, memVars, crashes>>

Crash ==
    /\ server # "down" /\ crashes < MaxCrashes
    /\ server' = "down" /\ crashes' = crashes + 1
    /\ job' = FALSE
    /\ call' = [c \in Call |-> Idle]
    /\ sweep' = NoSweep
    /\ edit' = [e \in Editors |-> NoEdit]
    /\ UNCHANGED <<dbVars, ticked, now>>

(* start(): one missed run is caught up before the job is scheduled.       *)
Missed == row.enabled /\ Scheduled /\ setup.catchUp /\ row.nextRun # Never /\ row.nextRun <= now

Boot ==
    /\ server = "down"
    /\ server' = "booting"
    /\ IF Missed /\ Room THEN Begin("boot", row.nextRun) ELSE UNCHANGED <<call, sweep>>
    /\ UNCHANGED <<dbVars, job, ticked, edit, now, crashes>>

Booted ==
    /\ server = "booting" /\ call["boot"].at = "idle"
    /\ server' = "up"
    /\ job' = (Scheduled /\ row.enabled)
    /\ row' = [row EXCEPT !.nextRun = IF job' THEN NextRun ELSE @]
    /\ ticked' = now
    /\ UNCHANGED <<setup, inv, turn, members, call, sweep, edit, now, crashes>>

Next ==
    \/ StartSweep \/ SweepList \/ SweepWrite
    \/ \E i \in Invocation : SweepRunning(i) \/ SweepClaim(i)
    \/ Tick
    \/ \E c \in Requests : Manual(c) \/ (\E key \in Keys : Webhook(c, key))
    \/ \E c \in Call : Fire(c)
    \/ \E e \in Editors : EditRead(e) \/ EditWrite(e) \/ EditSchedule(e)
    \/ \E i \in Invocation, b \in Bots : TurnEnds(i, b)
    \/ \E b \in Bots : BotDeleted(b)
    \/ Minute \/ Crash \/ Boot \/ Booted

Spec == Init /\ [][Next]_vars

(* The timer sweeps again and again, and awaits of the database end; a     *)
(* dead process is started again.                                          *)
FairSpec ==
    /\ Spec
    /\ WF_vars(StartSweep) /\ WF_vars(SweepList) /\ WF_vars(SweepWrite)
    /\ \A i \in Invocation : WF_vars(SweepRunning(i)) /\ WF_vars(SweepClaim(i))
    /\ WF_vars(Fire("boot"))
    /\ WF_vars(Boot) /\ WF_vars(Booted)

----------------------------------------------------------------------------
CallLabel == {"idle", "sweep", "queue", "missing", "advance", "insert", "busy", "post", "record"}

(* Types; only a schedule has a next run.                                  *)
TypeOK ==
    /\ setup \in Setup
    /\ row \in Row /\ (~Scheduled => row.nextRun = Never)
    /\ inv \in [Invocation -> [made : BOOLEAN, token : Nat, known : BOOLEAN, counted : BOOLEAN]]
    /\ turn \in [Invocation -> [Bots -> TurnStatus]]
    /\ members \subseteq Bots
    /\ server \in {"down", "booting", "up"}
    /\ job \in BOOLEAN /\ ticked \in Nat /\ now \in Nat /\ crashes \in Nat
    /\ call \in [Call -> [at : CallLabel, token : Nat, id : Nat,
                          targets : SUBSET Bots, start : SUBSET Bots]]
    /\ sweep \in [at : {"idle", "list", "next", "write"}, todo : SUBSET Invocation,
                  status : {"running", "skipped", "failed", "partial_failed", "completed"}, seen : Row]
    /\ edit \in [Editors -> [change : {"none", "pause", "resume", "other", "schedule"}, seen : Row]]

(* The row is consistent however stale the reads it was computed from: it  *)
(* is enabled iff it gives no reason for a pause, and with as many strikes *)
(* as the limit it is paused (service.ts:128-132, 194, 271-281).           *)
Consistent(r) ==
    /\ r.enabled <=> r.reason = "none"
    /\ r.strikes >= FailureLimit => ~r.enabled
StrikesPause == Consistent(row)

(* A failure is counted when all is over: an invocation that was counted   *)
(* has recorded its runs and none of their turns is active, so that no     *)
(* failure comes after the count (service.ts:256-268).                     *)
CountedWhenOver ==
    \A i \in Invocation : inv[i].counted =>
        inv[i].known /\ \A b \in Bots : turn[i][b] # Active

(* An automation that skips busy bots never has two active turns of one    *)
(* bot, though it looks at the turns long before it posts and any number   *)
(* of calls run at once (service.ts:184, 216-222).                         *)
SkipNeverStacks ==
    setup.overlap = "skip" =>
        \A i, j \in Invocation, b \in Bots :
            turn[i][b] = Active /\ turn[j][b] = Active => i = j

(* A failure is eventually counted: an invocation whose turns have all     *)
(* ended is counted, also when the process dies before it, or when another *)
(* invocation waits for a person for ever (service.ts:256-268).            *)
Over(i) == inv[i].known /\ \A b \in Bots : turn[i][b] # Active
FailuresAreCounted == \A i \in Invocation : Over(i) ~> inv[i].counted
=============================================================================
