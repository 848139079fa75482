--------------------------- MODULE TurnScheduler ---------------------------
(***************************************************************************)
(* How OpenStaff runs the turns of its rooms: AdmissionService commits a   *)
(* message with the turns planTurns gives it, TurnScheduler executes the   *)
(* turns, approvals pause and resume them, members stop them, the process  *)
(* crashes and recovers them (src/apps/server/src/rooms/ and agent/).      *)
(*                                                                         *)
(* The server is one Node process.  An action is what runs between two     *)
(* awaits, so handlers interleave at exactly the points where the code     *)
(* gives up the event loop; a database transaction is one action.  The     *)
(* database survives a crash, the scheduler's fields do not.               *)
(***************************************************************************)
EXTENDS Planner

CONSTANTS
    Rooms,
    Kind,                \* Rooms -> RoomKinds
    Members,             \* Rooms -> sequence of bots, in order of joinedAt
    MaxConcurrentTurns,  \* the concurrency cap
    Mentions,            \* the lists of mentions a member may write
    Slots,               \* the approvals one turn may ask for, over all its runs
    Decisions,           \* outcomes of the reply decision offered to the model
    Automations,         \* the lists of bots an automation may fire for
    Connects,            \* whether members may type /connect
    MaxSeq,              \* BOUND: messages per room that plan turns
    MaxStops,            \* BOUND: turns on which Stop is pressed
    MaxCrashes           \* BOUND: ends of the process

ASSUME SchedulerAssumption ==
    /\ Kind \in [Rooms -> RoomKinds]
    /\ Members \in [Rooms -> Seq(Bots)]
    /\ IsFiniteSet(Rooms)
    /\ MaxConcurrentTurns \in Nat \ {0}
    /\ Mentions \subseteq Seq(Mention)
    /\ Decisions \subseteq {"reply", "decline", "error", "nokey"}
    /\ Automations \subseteq Seq(Bots)
    /\ Connects \in BOOLEAN
    /\ MaxSeq \in Nat /\ MaxStops \in Nat /\ MaxCrashes \in Nat

(* A message plans at most one turn for a bot, so a turn is named by its   *)
(* trigger and its bot.                                                    *)
TurnId == [room : Rooms, seq : 1 .. MaxSeq, bot : Bots]

Final == {"done", "skipped", "failed"}
Stoppable == {"queued", "running", "waiting_approval"}
Status == Stoppable \cup Final \cup {"cancelled", "none"}
ApprovalStatus == {"none", "pending", "approved", "denied", "expired"}

----------------------------------------------------------------------------
(* The database.                                                           *)
VARIABLE messages    \* per room, the messages that plan turns
VARIABLE status      \* turns.status; "none" before the turn's row exists
VARIABLE started     \* turns whose startedAt is set
VARIABLE errors      \* turns whose error is set
VARIABLE approval    \* per turn and slot, approvals.status
VARIABLE botStatus   \* bots.status
VARIABLE replies     \* how many messages carry this turn's turnId
VARIABLE notices     \* decision-error notices about a trigger message

(* The process.                                                            *)
VARIABLE server      \* "down", "up" or "stopping"
VARIABLE pending     \* TurnScheduler.pending
VARIABLE controllers \* the keys of TurnScheduler.controllers
VARIABLE activeRooms
VARIABLE activeBots
VARIABLE pumping     \* "idle", "scheduled" (the microtask is queued), "draining"
VARIABLE pc          \* where execute() of a turn stands
VARIABLE aborted     \* turns whose AbortController has fired
VARIABLE admitting   \* per room, turns committed by the post that holds the
                     \* room's queue and not yet handed to the scheduler
VARIABLE resuming    \* turns re-queued by a decision whose handler has yet to enqueue
VARIABLE cancelling  \* where cancel() of a turn stands
VARIABLE crashes     \* how often the process has ended
(* History, read by the bound and by the properties only.                  *)
VARIABLE stopped     \* turns on which somebody pressed Stop

dbVars == <<messages, status, started, errors, approval, botStatus, replies, notices>>
memVars == <<server, pending, controllers, activeRooms, activeBots, pumping, pc,
             aborted, admitting, resuming, cancelling>>
vars == <<dbVars, memVars, stopped, crashes>>

Row == [author : AuthorKinds, command : BOOLEAN, plan : [Bots -> Plan]]

PlanOf(t) == messages[t.room][t.seq].plan[t.bot]
TurnsOf(r, n) == {t \in TurnId : t.room = r /\ t.seq = n /\ status[t] # "none"}
Asked(t) == \E a \in Slots : approval[t][a] # "none"
Free(t) == {a \in Slots : approval[t][a] = "none"}

Init ==
    /\ messages = [r \in Rooms |-> <<>>]
    /\ status = [t \in TurnId |-> "none"]
    /\ started = {} /\ errors = {}
    /\ approval = [t \in TurnId |-> [a \in Slots |-> "none"]]
    /\ botStatus = [b \in Bots |-> "idle"]
    /\ replies = [t \in TurnId |-> 0]
    /\ notices = [r \in Rooms |-> [n \in 1 .. MaxSeq |-> 0]]
    /\ server = "up"
    /\ pending = <<>>
    /\ controllers = {} /\ activeRooms = {} /\ activeBots = {}
    /\ pumping = "idle"
    /\ pc = [t \in TurnId |-> "none"]
    /\ aborted = {} /\ resuming = {}
    /\ admitting = [r \in Rooms |-> {}]
    /\ cancelling = [t \in TurnId |-> "no"]
    /\ stopped = {} /\ crashes = 0

----------------------------------------------------------------------------
(* enqueue(), pump() and start().                                          *)

(* The order in which turns of one room were planned.                      *)
Before(t, u) == t.room = u.room =>
    \/ t.seq < u.seq
    \/ t.seq = u.seq /\ PlanOf(t).slot < PlanOf(u).slot

Lists(S) == {q \in [1 .. Cardinality(S) -> S] :
                \A i, j \in DOMAIN q : i < j => q[i] # q[j]}
InOrder(S) == {q \in Lists(S) : \A i, j \in DOMAIN q : i < j => Before(q[i], q[j])}

(* Handlers and executions go on while the process lives, except in the    *)
(* middle of the pump's microtask, which nothing interrupts.               *)
Live == server # "down" /\ pumping # "draining"

(* pump() queues one microtask however often it is called.                 *)
WakePumpEarly ==    \* slip: looks before the new turns are pushed
    pumping' = IF pumping = "idle" /\ server = "up" /\ pending # <<>> THEN "scheduled" ELSE pumping
WakePump == pumping' = IF pumping = "idle" /\ server = "up" THEN "scheduled" ELSE pumping

(* A turn that is pending or still executing is not added again.           *)
Addable(turns) == turns \ (Range(pending) \cup controllers)

Enqueue(turns) ==
    /\ IF server = "up"
       THEN \E q \in InOrder(Addable(turns)) : pending' = pending \o q
       ELSE pending' = pending
    /\ WakePump

(* First of its room in `pending`, the room and the bot at rest.           *)
StartableOverBots(i) ==     \* slip: bots are not held across rooms
    /\ \A j \in 1 .. i - 1 : pending[j].room # pending[i].room
    /\ pending[i].room \notin activeRooms
StartableOverRooms(i) ==    \* slip: rooms are not held
    /\ \A j \in 1 .. i - 1 : pending[j].room # pending[i].room
    /\ pending[i].bot \notin activeBots
StartableInAnyOrder(i) ==   \* slip: not only the first of a room
    pending[i].room \notin activeRooms /\ pending[i].bot \notin activeBots
Startable(i) ==
    /\ \A j \in 1 .. i - 1 : pending[j].room # pending[i].room
    /\ pending[i].room \notin activeRooms
    /\ pending[i].bot \notin activeBots

CanStart ==
    /\ server = "up"
    /\ Cardinality(controllers) < MaxConcurrentTurns
    /\ \E i \in DOMAIN pending : Startable(i)

Start(i) ==
    /\ pumping # "idle" /\ CanStart
    /\ Startable(i) /\ \A j \in 1 .. i - 1 : ~Startable(j)
    /\ pumping' = "draining"
    /\ pending' = RemoveAt(pending, i)
    /\ controllers' = controllers \cup {pending[i]}
    /\ activeRooms' = activeRooms \cup {pending[i].room}
    /\ activeBots' = activeBots \cup {pending[i].bot}
    /\ pc' = [pc EXCEPT ![pending[i]] = "read"]
    /\ UNCHANGED <<dbVars, server, aborted, admitting, resuming, cancelling, stopped, crashes>>

PumpDone ==
    /\ pumping # "idle" /\ ~CanStart
    /\ pumping' = "idle"
    /\ UNCHANGED <<dbVars, server, pending, controllers, activeRooms, activeBots, pc,
                   aborted, admitting, resuming, cancelling, stopped, crashes>>

----------------------------------------------------------------------------
(* AdmissionService.post for messages that plan turns.  The room's queue   *)
(* is held from the commit until the new turns are enqueued, whichever     *)
(* handler posts.  Messages that plan nothing (replies, notes, cards) only *)
(* need the queue to be free.                                              *)
Post(r, author, mentions, depth, automationBots) ==
    LET plan == PlanTurns(Kind[r], author, Members[r], mentions, depth, automationBots)
        n == Len(messages[r]) + 1
        born == {[room |-> r, seq |-> n, bot |-> b] : b \in Planned(plan)}
    IN  /\ admitting[r] = {} /\ n <= MaxSeq /\ born # {}
        /\ messages' = [messages EXCEPT ![r] =
                            Append(@, [author |-> author, command |-> FALSE, plan |-> plan])]
        /\ status' = [t \in TurnId |-> IF t \in born THEN "queued" ELSE status[t]]
        /\ admitting' = [admitting EXCEPT ![r] = born]

(* POST /rooms/:id/messages, and an automation that fires for its bots.    *)
PostMessage(r) ==
    /\ Live
    /\ \/ \E m \in Mentions : Post(r, "user", m, 0, <<>>)
       \/ \E targets \in Automations : Post(r, "system", <<>>, 0, targets)
    /\ UNCHANGED <<started, errors, approval, botStatus, replies, notices, server, pending,
                   controllers, activeRooms, activeBots, pumping, pc, aborted, resuming,
                   cancelling, stopped, crashes>>

(* After the commit: broadcast, enqueue, release the room's queue.  A turn *)
(* whose handoff tool made the post goes on running.                       *)
AdmitEnqueue(r) ==
    /\ Live /\ admitting[r] # {}
    /\ Enqueue(admitting[r])
    /\ admitting' = [admitting EXCEPT ![r] = {}]
    /\ pc' = [t \in TurnId |-> IF t.room = r /\ pc[t] = "handoff" THEN "run" ELSE pc[t]]
    /\ UNCHANGED <<dbVars, server, controllers, activeRooms, activeBots, aborted, resuming,
                   cancelling, stopped, crashes>>

(* POST /rooms/:id/connect: a turn that is born waiting for its connection.*)
ConnectCommand(r) ==
    LET n == Len(messages[r]) + 1
        t == [room |-> r, seq |-> n, bot |-> Members[r][1]]
    IN  /\ Connects /\ Live /\ admitting[r] = {}
        /\ n <= MaxSeq /\ Members[r] # <<>>
        /\ messages' = [messages EXCEPT ![r] = Append(@,
                            [author |-> "user", command |-> TRUE,
                             plan |-> [b \in Bots |-> IF b = t.bot THEN Direct(0, 1)
                                                 ELSE Unplanned]])]
        /\ status' = [status EXCEPT ![t] = "waiting_approval"]
        /\ \E a \in Slots : approval' = [approval EXCEPT ![t][a] = "pending"]
        /\ UNCHANGED <<started, errors, botStatus, replies, notices, memVars, stopped, crashes>>

----------------------------------------------------------------------------
(* execute().  The labels of pc:                                           *)
(*   read     about to read the turn's row                                 *)
(*   weigh    about to read the other turns of the trigger                 *)
(*   decide   in runtime.decideReply                                       *)
(*   keyless, keynote   handling MissingApiKeyError                        *)
(*   provide  past the abort check, the running transaction not yet done   *)
(*   run      in runtime.run;  handoff  in run, in the handoff tool's post *)
(*   ask      about to commit the approvals;  cards  posting their cards   *)
(*   answer   about to post the reply                                      *)
(*   skip, skipError, done, fail   about to commit finish()                *)
(*   exit     about to run the finally of start()                          *)
Settling == {"skip", "skipError", "done", "fail"}
Label == {"none", "read", "weigh", "decide", "keyless", "keynote", "provide", "run",
          "handoff", "ask", "cards", "answer", "exit"} \cup Settling

At(t, label) == Live /\ pc[t] = label
Goto(t, label) == pc' = [pc EXCEPT ![t] = label]
Executing == <<server, pending, controllers, activeRooms, activeBots, pumping, aborted,
               admitting, resuming, cancelling, stopped, crashes>>

(* `if (signal.aborted) return`, the check before the computer provider.   *)
UnlessAborted(t, label) == Goto(t, IF t \in aborted THEN "exit" ELSE label)

ReadTurn(t) ==
    /\ At(t, "read")
    /\ IF status[t] # "queued" THEN Goto(t, "exit")
       ELSE IF PlanOf(t).replyMode = "optional" /\ ~Asked(t) THEN Goto(t, "weigh")
       ELSE UnlessAborted(t, "provide")
    /\ UNCHANGED <<dbVars, Executing>>

(* The last optional turn of a person's message answers when every other   *)
(* turn of the message was skipped without an error.                       *)
UnresolvedBoth(S) == S    \* slip: an ended turn still counts
Unresolved(S) == {u \in S : status[u] \in Stoppable}
DesignatedFallback(t) ==
    LET all == TurnsOf(t.room, t.seq)
    IN  /\ messages[t.room][t.seq].author = "user"
        /\ \A u \in all \ {t} : status[u] = "skipped" /\ u \notin errors
        /\ Unresolved(all) = {t}

WeighFallback(t) ==
    /\ At(t, "weigh")
    /\ IF DesignatedFallback(t) THEN UnlessAborted(t, "provide") ELSE Goto(t, "decide")
    /\ UNCHANGED <<dbVars, Executing>>

(* decideReply asks a model, under a timeout of its own; an abort makes it *)
(* throw.                                                                  *)
Verdicts(t) == IF t \in aborted THEN {"aborted"} ELSE Decisions
AfterVerdict(v) == IF v = "reply" THEN "provide"
                   ELSE IF v = "decline" THEN "skip"
                   ELSE IF v = "error" THEN "skipError"
                   ELSE IF v = "nokey" THEN "keyless" ELSE "exit"

DecideReply(t) ==
    /\ At(t, "decide")
    /\ \E v \in Verdicts(t) : Goto(t, AfterVerdict(v))
    /\ UNCHANGED <<dbVars, Executing>>

(* A slip in LookForNotice: the turn posts without looking.                *)
PostWithoutLooking(t) ==
    /\ At(t, "keyless")
    /\ Goto(t, "keynote")
    /\ UNCHANGED <<dbVars, Executing>>

(* One notice per trigger: look for it first, post it after.               *)
LookForNotice(t) ==
    /\ At(t, "keyless")
    /\ Goto(t, IF notices[t.room][t.seq] > 0 THEN "skipError" ELSE "keynote")
    /\ UNCHANGED <<dbVars, Executing>>

PostNotice(t) ==
    /\ At(t, "keynote") /\ admitting[t.room] = {}
    /\ notices' = [notices EXCEPT ![t.room][t.seq] = @ + 1]
    /\ Goto(t, "skipError")
    /\ UNCHANGED <<messages, status, started, errors, approval, botStatus, replies, Executing>>

(* The transaction that marks the turn running does not look at its status.*)
MarkRunning(t) ==
    /\ At(t, "provide")
    /\ status' = [status EXCEPT ![t] = "running"]
    /\ started' = started \cup {t}
    /\ botStatus' = [botStatus EXCEPT ![t.bot] = "working"]
    /\ Goto(t, "run")
    /\ UNCHANGED <<messages, errors, approval, replies, notices, Executing>>

(* The handoff tool: a bot message that plans a direct turn for one member.*)
(* The tool does not look at the signal; a call that commits only after    *)
(* its aborted run has ended is left out.                                  *)
Handoff(t) ==
    /\ At(t, "run")
    /\ \E b \in Range(Members[t.room]) :
           Post(t.room, "bot", <<[id |-> b, handoff |-> TRUE]>>, PlanOf(t).handoffDepth, <<>>)
    /\ Goto(t, "handoff")
    /\ UNCHANGED <<started, errors, approval, botStatus, replies, notices, server, pending,
                   controllers, activeRooms, activeBots, pumping, aborted, resuming,
                   cancelling, stopped, crashes>>

(* The loop ends in a text, in nothing to say, in an error, or in approval *)
(* requests; an aborted run throws, a tool call in flight or not, and the  *)
(* catch returns.                                                          *)
EndRun(t) ==
    /\ \/ (At(t, "run") \/ At(t, "handoff")) /\ t \in aborted /\ Goto(t, "exit")
       \/ /\ At(t, "run") /\ t \notin aborted
          /\ \E label \in {"answer", "skip", "fail"} : Goto(t, label)
       \/ At(t, "run") /\ t \notin aborted /\ Free(t) # {} /\ Goto(t, "ask")
    /\ UNCHANGED <<dbVars, Executing>>

(* One pending row per request and the pause of turn and bot, in one       *)
(* transaction that does not look at the turn's status either.             *)
AskApproval(t) ==
    /\ At(t, "ask")
    /\ \E S \in (SUBSET Free(t)) \ {{}} :
           approval' = [approval EXCEPT ![t] =
                            [a \in Slots |-> IF a \in S THEN "pending" ELSE @[a]]]
    /\ status' = [status EXCEPT ![t] = "waiting_approval"]
    /\ botStatus' = [botStatus EXCEPT ![t.bot] = "waiting_approval"]
    /\ Goto(t, "cards")
    /\ UNCHANGED <<messages, started, errors, replies, notices, Executing>>

(* Cards posted, MCP clients closed, the row read back for the broadcast.  *)
CardsPosted(t) ==
    /\ At(t, "cards")
    /\ Goto(t, "exit")
    /\ UNCHANGED <<dbVars, Executing>>

(* The final text mentions nobody as a handoff, so it plans nothing.       *)
PostReply(t) ==
    /\ At(t, "answer") /\ admitting[t.room] = {}
    /\ replies' = [replies EXCEPT ![t] = @ + 1]
    /\ Goto(t, "done")
    /\ UNCHANGED <<messages, status, started, errors, approval, botStatus, notices, Executing>>

OutcomeVerbatim(label) == label    \* slip: the label for the status
Outcome(label) == IF label = "done" THEN "done"
                  ELSE IF label = "fail" THEN "failed" ELSE "skipped"

(* finish(): status and error of the turn, and the bot idle, whatever else.*)
Finish(t) ==
    /\ Live /\ pc[t] \in Settling
    /\ status' = [status EXCEPT ![t] = Outcome(pc[t])]
    /\ errors' = IF pc[t] \in {"skipError", "fail"} THEN errors \cup {t} ELSE errors
    /\ botStatus' = [botStatus EXCEPT ![t.bot] = "idle"]
    /\ Goto(t, "exit")
    /\ UNCHANGED <<messages, started, approval, replies, notices, Executing>>

(* The finally of start(): release the room and the bot, pump again.  A    *)
(* cancel() that captured this controller now holds a dead one.            *)
Exit(t) ==
    /\ At(t, "exit")
    /\ controllers' = controllers \ {t}
    /\ activeRooms' = activeRooms \ {t.room}
    /\ activeBots' = activeBots \ {t.bot}
    /\ aborted' = aborted \ {t}
    /\ cancelling' = [cancelling EXCEPT ![t] = IF @ = "foundActive" THEN "found" ELSE @]
    /\ Goto(t, "none")
    /\ WakePump
    /\ UNCHANGED <<dbVars, server, pending, admitting, resuming, stopped, crashes>>

Execute(t) ==
    \/ ReadTurn(t) \/ WeighFallback(t) \/ DecideReply(t) \/ LookForNotice(t)
    \/ PostNotice(t) \/ MarkRunning(t) \/ EndRun(t) \/ AskApproval(t)
    \/ CardsPosted(t) \/ PostReply(t) \/ Finish(t) \/ Exit(t)

----------------------------------------------------------------------------
OthersForgotten(t, a) == FALSE    \* slip: every decision resumes the turn
OthersPending(t, a) == \E x \in Slots \ {a} : approval[t][x] = "pending"

(* appendApprovalResponse: one decision.  Only the last one of a turn ends *)
(* the pause: a /connect turn is settled, any other is queued again and    *)
(* its handler will enqueue it.                                            *)
Decide(t, a, verdict) ==
    /\ Live
    /\ approval[t][a] = "pending" /\ status[t] = "waiting_approval"
    /\ approval' = [approval EXCEPT ![t][a] = verdict]
    /\ IF OthersPending(t, a)
       THEN UNCHANGED <<status, errors, botStatus, resuming>>
       ELSE IF messages[t.room][t.seq].command
       THEN /\ status' = [status EXCEPT ![t] =
                              IF verdict = "approved" THEN "done" ELSE "skipped"]
            /\ UNCHANGED <<errors, botStatus, resuming>>
       ELSE /\ status' = [status EXCEPT ![t] = "queued"]
            /\ errors' = errors \ {t}
            /\ botStatus' = [botStatus EXCEPT ![t.bot] = "idle"]
            /\ resuming' = resuming \cup {t}
    /\ UNCHANGED <<messages, started, replies, notices, server, pending, controllers,
                   activeRooms, activeBots, pumping, pc, aborted, admitting, cancelling,
                   stopped, crashes>>

Resume(t) ==
    /\ Live /\ t \in resuming
    /\ Enqueue({t})
    /\ resuming' = resuming \ {t}
    /\ UNCHANGED <<dbVars, server, controllers, activeRooms, activeBots, pc, aborted,
                   admitting, cancelling, stopped, crashes>>

(* expireApprovals.  Time is abstracted: any set of turns with a pending   *)
(* approval may be overdue when a decision, the minute timer or the boot   *)
(* (after it has failed what was running) looks.  All pending approvals of *)
(* those turns expire.                                                     *)
Expire(overdue) ==
    /\ pumping # "draining"
    /\ server = "down" => \A t \in TurnId : status[t] # "running"
    /\ \A t \in overdue : \E a \in Slots : approval[t][a] = "pending"
    /\ approval' = [t \in TurnId |-> [a \in Slots |->
                       IF t \in overdue /\ approval[t][a] = "pending"
                       THEN "expired" ELSE approval[t][a]]]
    /\ LET failed == {t \in overdue : status[t] = "waiting_approval"}
       IN  /\ status' = [t \in TurnId |-> IF t \in failed THEN "failed" ELSE status[t]]
           /\ errors' = errors \cup failed
           /\ botStatus' = [b \in Bots |->
                               IF \E t \in failed : t.bot = b THEN "idle" ELSE botStatus[b]]
    /\ UNCHANGED <<messages, started, replies, notices, memVars, stopped, crashes>>

ExpireSome == \E S \in (SUBSET {t \in TurnId : Asked(t)}) \ {{}} : Expire(S)

----------------------------------------------------------------------------
(* cancel(): what it looks up, then the guarded update and the abort of    *)
(* the controller it looked up, then the bot.                              *)
WithdrawnHead(t) ==    \* slip: shift() for splice(index, 1)
    IF t \in Range(pending) THEN Tail(pending) ELSE pending
Withdrawn(t) ==
    IF t \in Range(pending) THEN RemoveAt(pending, FirstPlace(pending, t)) ELSE pending

CancelFind(t) ==
    /\ Live /\ cancelling[t] = "no"
    /\ Cardinality(stopped \cup {t}) <= MaxStops
    /\ t \in Range(pending) \/ status[t] \in Stoppable
    /\ pending' = Withdrawn(t)
    /\ cancelling' = [cancelling EXCEPT ![t] =
                          IF t \in controllers THEN "foundActive" ELSE "found"]
    /\ stopped' = stopped \cup {t}
    /\ UNCHANGED <<dbVars, server, controllers, activeRooms, activeBots, pumping, pc,
                   aborted, admitting, resuming, crashes>>

CancellableWhenFound(t) == cancelling[t] # "no"    \* slip: UPDATE without its WHERE
Cancellable(t) == status[t] \in Stoppable

CancelCommit(t) ==
    /\ Live /\ cancelling[t] \in {"found", "foundActive"}
    /\ IF Cancellable(t)
       THEN /\ status' = [status EXCEPT ![t] = "cancelled"]
            /\ aborted' = IF cancelling[t] = "foundActive" THEN aborted \cup {t} ELSE aborted
            /\ cancelling' = [cancelling EXCEPT ![t] = "release"]
       ELSE /\ cancelling' = [cancelling EXCEPT ![t] = "no"]
            /\ UNCHANGED <<status, aborted>>
    /\ UNCHANGED <<messages, started, errors, approval, botStatus, replies, notices, server,
                   pending, controllers, activeRooms, activeBots, pumping, pc, admitting,
                   resuming, stopped, crashes>>

CancelRelease(t) ==
    /\ Live /\ cancelling[t] = "release"
    /\ botStatus' = [botStatus EXCEPT ![t.bot] = "idle"]
    /\ cancelling' = [cancelling EXCEPT ![t] = "no"]
    /\ UNCHANGED <<messages, status, started, errors, approval, replies, notices, server,
                   pending, controllers, activeRooms, activeBots, pumping, pc, aborted,
                   admitting, resuming, stopped, crashes>>

----------------------------------------------------------------------------
(* The end of the process and what recover() makes of the database.        *)
(* shutdown(): nothing starts any more and every execution is aborted.     *)
Shutdown ==
    /\ Live /\ server = "up" /\ crashes < MaxCrashes
    /\ server' = "stopping"
    /\ aborted' = controllers
    /\ UNCHANGED <<dbVars, pending, controllers, activeRooms, activeBots, pumping, pc,
                   admitting, resuming, cancelling, stopped, crashes>>

Crash ==
    /\ Live /\ crashes < MaxCrashes
    /\ crashes' = crashes + 1
    /\ server' = "down"
    /\ pending' = <<>> /\ pumping' = "idle"
    /\ controllers' = {} /\ activeRooms' = {} /\ activeBots' = {}
    /\ pc' = [t \in TurnId |-> "none"]
    /\ aborted' = {} /\ resuming' = {}
    /\ admitting' = [r \in Rooms |-> {}]
    /\ cancelling' = [t \in TurnId |-> "no"]
    /\ UNCHANGED <<dbVars, stopped>>

(* recover() rewrites only rows it then no longer finds: a crash during it *)
(* is a longer "down".                                                     *)
RecoveredStatusRetry == "queued"    \* slip: runs the turn again
RecoveredStatus == "failed"

RecoverRunning(t) ==
    /\ server = "down" /\ status[t] = "running"
    /\ status' = [status EXCEPT ![t] = RecoveredStatus]
    /\ errors' = errors \cup {t}
    /\ botStatus' = [botStatus EXCEPT ![t.bot] = "idle"]
    /\ UNCHANGED <<messages, started, approval, replies, notices, memVars, stopped, crashes>>

(* The query sorts by room and message; within a message the planner is    *)
(* asked again, but without the bots of an automation, whose turns stay as *)
(* the query left them.                                                    *)
RecoveredBefore(t, u) == t.room = u.room =>
    \/ t.seq < u.seq
    \/ t.seq = u.seq /\ messages[t.room][t.seq].author = "system"
    \/ t.seq = u.seq /\ PlanOf(t).slot < PlanOf(u).slot
RoomByRoom(q) == \A i, j, k \in DOMAIN q :
                    i < j /\ j < k /\ q[i].room = q[k].room => q[j].room = q[i].room
RecoveredOrder(S) == {q \in Lists(S) :
                         /\ \A i, j \in DOMAIN q : i < j => RecoveredBefore(q[i], q[j])
                         /\ RoomByRoom(q)}

RecoverQueued ==
    /\ server = "down" /\ \A t \in TurnId : status[t] # "running"
    /\ server' = "up"
    /\ pending' \in RecoveredOrder({t \in TurnId : status[t] = "queued"})
    /\ pumping' = "scheduled"
    /\ UNCHANGED <<dbVars, controllers, activeRooms, activeBots, pc, aborted, admitting,
                   resuming, cancelling, stopped, crashes>>

----------------------------------------------------------------------------
Pump == PumpDone \/ \E i \in DOMAIN pending : Start(i)

Next ==
    \/ Pump
    \/ \E r \in Rooms : PostMessage(r) \/ AdmitEnqueue(r) \/ ConnectCommand(r)
    \/ \E t \in TurnId : Execute(t) \/ Handoff(t) \/ Resume(t)
    \/ \E t \in TurnId : CancelFind(t) \/ CancelCommit(t) \/ CancelRelease(t)
    \/ \E t \in TurnId, a \in Slots, v \in {"approved", "denied"} : Decide(t, a, v)
    \/ ExpireSome \/ Shutdown \/ Crash \/ RecoverQueued
    \/ \E t \in TurnId : RecoverRunning(t)

Spec == Init /\ [][Next]_vars

(* Every await ends, the microtask runs, handlers go on, the model answers *)
(* or times out after 900 s, a shutdown that has waited for the executions *)
(* ends the process, the process is restarted.  Nobody has to post, hand   *)
(* off, decide, press Stop or crash.                                       *)
Fairness ==
    /\ WF_vars(Pump) /\ WF_vars(RecoverQueued)
    /\ WF_vars(server = "stopping" /\ controllers = {} /\ Crash)
    /\ \A r \in Rooms : WF_vars(AdmitEnqueue(r))
    /\ \A t \in TurnId : WF_vars(\/ Execute(t) \/ Resume(t) \/ RecoverRunning(t)
                                \/ CancelCommit(t) \/ CancelRelease(t))

FairSpec == Spec /\ Fairness

----------------------------------------------------------------------------
(* What the rooms promise.                                                 *)

TypeOK ==
    /\ messages \in [Rooms -> Seq(Row)]
    /\ status \in [TurnId -> Status]
    /\ started \subseteq TurnId /\ errors \subseteq TurnId
    /\ approval \in [TurnId -> [Slots -> ApprovalStatus]]
    /\ botStatus \in [Bots -> {"idle", "working", "waiting_approval"}]
    /\ replies \in [TurnId -> Nat]
    /\ notices \in [Rooms -> [1 .. MaxSeq -> Nat]]
    /\ server \in {"up", "stopping", "down"}
    /\ pending \in Seq(TurnId)
    /\ controllers \subseteq TurnId
    /\ activeRooms \subseteq Rooms /\ activeBots \subseteq Bots
    /\ pumping \in {"idle", "scheduled", "draining"}
    /\ pc \in [TurnId -> Label]
    /\ aborted \subseteq TurnId /\ resuming \subseteq TurnId
    /\ admitting \in [Rooms -> SUBSET TurnId]
    /\ cancelling \in [TurnId -> {"no", "found", "foundActive", "release"}]
    /\ stopped \subseteq TurnId /\ crashes \in Nat

(* Turns of one room run one at a time, a bot runs one turn in all rooms   *)
(* together, and no more than maxConcurrentTurns run, whatever stops,      *)
(* pauses, resumes and crashes the turns (ARCHITECTURE 4.2).               *)
ExclusiveWork ==
    LET working == {t \in TurnId : pc[t] # "none"}
    IN  /\ \A t, u \in working : t # u => t.room # u.room /\ t.bot # u.bot
        /\ Cardinality(working) <= MaxConcurrentTurns

(* A turn is in the scheduler's hands at most once: enqueue() never makes  *)
(* it pending twice nor pending while it still executes, so no turn is     *)
(* executed again behind its own back.                                     *)
HeldOnce ==
    /\ IsInjective(pending)
    /\ Range(pending) \cap controllers = {}

(* done, skipped and failed are final: no late step of an execution, no    *)
(* decision, expiry, Stop or recovery changes such a turn again.           *)
FinalStaysFinal ==
    [][\A t \in TurnId : status[t] \in Final => status'[t] = status[t]]_vars

(* At most one message carries a turn's reply, across pauses, stops,       *)
(* crashes between the reply and finish(), and recovery.                   *)
AnswersOnce == \A t \in TurnId : replies[t] <= 1

(* A paused turn can always be answered: as long as it waits, one of its   *)
(* approvals is pending; and a pending approval belongs to a turn that     *)
(* waits or that was stopped.                                              *)
WaitingIsAnswerable ==
    \A t \in TurnId :
        LET open == \E a \in Slots : approval[t][a] = "pending"
        IN  /\ status[t] = "waiting_approval" => open
            /\ open => status[t] \in {"waiting_approval", "cancelled"}

(* A person's message is never met with silence: once all its turns have   *)
(* ended, one of them ran, recorded an error or was stopped; they did not  *)
(* all just decline (ARCHITECTURE 4.3, the designated fallback).           *)
NeverSilent ==
    \A r \in Rooms, n \in 1 .. MaxSeq :
        LET all == TurnsOf(r, n)
        IN  all # {} /\ ~messages[r][n].command
            /\ (\A t \in all : status[t] \in Final \cup {"cancelled"})
            => all \cap (started \cup errors \cup stopped) # {}

(* All the optional turns of a message that miss the provider key leave    *)
(* one notice between them, though each looks before it posts.             *)
OneNotice == \A r \in Rooms, n \in 1 .. MaxSeq : notices[r][n] <= 1

(* Turns of a room start in the order in which they were planned: while an *)
(* earlier turn of the room has not had its first start, a later one is    *)
(* not picked.  (Turns being stopped have left the queue.)                 *)
Fresh(t) == status[t] = "queued" /\ ~Asked(t) /\ cancelling[t] = "no"
PlannedOrder ==
    [][\A t, u \in TurnId :
           /\ pc[t] = "none" /\ pc'[t] = "read"
           /\ t.room = u.room /\ t # u /\ Fresh(u)
           => Before(t, u) \/ u \in admitting[u.room]]_vars

(* A queued turn that never paused is always in someone's hands: of the    *)
(* admission that committed it, of the pending list, of its execution or   *)
(* of the cancel() that took it off the list.  Restarts lose none either.  *)
FreshIsHeld ==
    server = "up" =>
        \A t \in TurnId : Fresh(t) =>
            t \in admitting[t.room] \cup Range(pending) \cup controllers

(* Every queued turn is answered, skipped or failed in the end, through    *)
(* room queues, busy bots, the cap and a restart, as long as nobody stops  *)
(* it and it asks for no approval.                                         *)
QueuedTurnsSettle ==
    \A t \in TurnId : status[t] = "queued" ~> status[t] \in Final

(* While nobody presses Stop, the scheduler implements what members are    *)
(* promised (TurnLifecycle).                                               *)
Promise == INSTANCE TurnLifecycle WITH Turn <- TurnId, working <- controllers
KeepsPromise == Promise!Spec
=============================================================================
