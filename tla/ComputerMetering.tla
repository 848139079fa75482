--------------------------- MODULE ComputerMetering ---------------------------
(* Who keeps a rented computer running, and what is noted of it: the counted  *)
(* operations, the idle timer, stops, the status cache and the rows of        *)
(* computer_sessions (computer/manager.ts, computer/sessions.ts).  Calls wake *)
(* a paused machine; only operations and initialize() note that they did.     *)
EXTENDS Naturals, FiniteSets

CONSTANTS
    Providers,      \* kinds of rented computer, all with a stop()
    Users,          \* callers of exec(), readFile(), ...: one operation at a time
    Nobody,         \* no provider
    Requests,       \* what the owner may ask for: "stop", "restart", "destroy", "switch", "credentials"
    Faults,         \* which calls may fail: "open", "stop", "call"
    MaxTurns,       \* turns at work at a time
    MaxInstances,   \* machines ever rented
    MaxCrashes, MaxFaults

ASSUME MeteringAssumption ==
    /\ Nobody \notin Providers
    /\ {"owner", "sync", "poll", "stop"} \cap Users = {}
    /\ MaxTurns \in Nat /\ MaxInstances \in Nat
    /\ MaxCrashes \in Nat /\ MaxFaults \in Nat

VARIABLES
    driver,     \* workspace.computer_driver
    row,        \* computer_instances: the external id, 0 if none
    sessions,   \* computer_sessions: the external ids of rows without an end
    machine,    \* at the provider: the id and state of its machine
    active,     \* the open computer
    opening,    \* the promise `opening`
    turns,      \* activeTurns
    timer,      \* the idle timer is set
    mayResume,  \* the next operation may wake the machine
    call,       \* where the callers of the manager await
    booting,    \* initialize() before the server listens
    bypassed,   \* noted: awake or in use past the operations, or a call that failed, since the last note
    crashes, faults

records == <<driver, row, sessions>>
process == <<active, opening, turns, timer, mayResume, call, booting>>
bounds == <<crashes, faults>>
vars == <<driver, row, sessions, machine, active, opening, turns, timer, mayResume,
          call, booting, bypassed, crashes, faults>>

(***************************************************************************)
(* Helpers                                                                 *)
(***************************************************************************)
Callers == Users \cup {"owner", "sync", "poll", "stop"}

NoComputer == [provider |-> Nobody, id |-> 0]

Idle == [at |-> "idle", kind |-> "none", resumed |-> FALSE, on |-> NoComputer]
NotOpening == [at |-> "no", on |-> NoComputer]

Running(p) == machine[p].state = "running"

Exists(computer) == computer.id # 0 /\ machine[computer.provider].id = computer.id

Awake == Exists(active) /\ Running(active.provider)

(* `operations`: uses that have begun and not come to their end. *)
Operating(c) == call[c].at \in {"waiting", "opening", "opened", "refused", "calling", "select", "insert"}
Operations == {u \in Users : Operating(u)}

Fault(kind) == kind \in Faults /\ faults < MaxFaults /\ faults' = faults + 1

Go(c, place) == [call EXCEPT ![c].at = place]

(* The same, once the computer it was given no longer matters. *)
Leave(c, place) == [call EXCEPT ![c].at = place, ![c].on = NoComputer]

(* armIdle(): the timer is set when nothing is at work on an open computer. *)
ArmIdle(others, count) == timer' = (others = {} /\ count = 0 /\ active # NoComputer)

(* Those who wait for the opening go on. *)
Served(computer) == [c \in Callers |->
    IF call[c].at # "opening" THEN call[c]
    ELSE [call[c] EXCEPT !.at = IF computer = NoComputer THEN "refused" ELSE "opened", !.on = computer]]

(* A caller joins the opening, which begins unless it is under way. *)
Resolve(calls) ==
    /\ call' = calls
    /\ opening' = IF opening.at = "no" THEN [NotOpening EXCEPT !.at = "driver"] ELSE opening

(* statusCache = undefined: the answer under way is not taken up. *)
Forget(calls) == [calls EXCEPT !["poll"] = Idle]

Init ==
    /\ driver \in Providers
    /\ row = [p \in Providers |-> 0]
    /\ sessions = [p \in Providers |-> {}]
    /\ machine = [p \in Providers |-> [id |-> 0, state |-> "none"]]
    /\ active = NoComputer
    /\ opening = [NotOpening EXCEPT !.at = "driver"]
    /\ turns = 0 /\ timer = FALSE /\ mayResume = TRUE
    /\ call = [c \in Callers |-> IF c = "owner" THEN [Idle EXCEPT !.at = "opening", !.kind = "initialize"]
                                 ELSE Idle]
    /\ booting = TRUE /\ bypassed = FALSE
    /\ crashes = 0 /\ faults = 0

(***************************************************************************)
(* open(), under the promise `opening`                                     *)
(***************************************************************************)
OpenDriver ==
    /\ opening.at = "driver"
    /\ IF active.provider = driver
       THEN call' = Served(active) /\ opening' = NotOpening
       ELSE opening' = [at |-> "connect", on |-> [NoComputer EXCEPT !.provider = driver]] /\ UNCHANGED call
    /\ UNCHANGED <<records, machine, active, turns, timer, mayResume, booting, bypassed, bounds>>

(* A machine on record is connected to, which wakes it. *)
OpenConnects ==
    LET p == opening.on.provider
    IN  /\ opening.at = "connect" /\ row[p] # 0 /\ machine[p].id = row[p]
        /\ machine' = [machine EXCEPT ![p].state = "running"]
        /\ opening' = [at |-> "opened", on |-> [provider |-> p, id |-> row[p]]]
        /\ UNCHANGED <<records, active, turns, timer, mayResume, call, booting, bypassed, bounds>>

(* Otherwise one is rented, and persist() notes it and opens its session. *)
Rented == {machine[p].id : p \in Providers} \cup {row[p] : p \in Providers}

OpenCreates(id) ==
    LET p == opening.on.provider
    IN  /\ opening.at = "connect" /\ (row[p] = 0 \/ machine[p].id # row[p])
        /\ id \in 1..MaxInstances /\ \A old \in Rented : old < id
        /\ machine' = [machine EXCEPT ![p] = [id |-> id, state |-> "running"]]
        /\ row' = [row EXCEPT ![p] = id]
        /\ sessions' = [sessions EXCEPT ![p] = {id}]
        /\ opening' = [at |-> "opened", on |-> [provider |-> p, id |-> id]]
        /\ UNCHANGED <<driver, active, turns, timer, mayResume, call, booting, bypassed, bounds>>

(* An opening that only status(), a sync or a stop asked for is not noted. *)
Noting ==
    \/ \E u \in Users : call[u].at = "opening"
    \/ call["owner"].at = "opening" /\ call["owner"].kind = "initialize"

OpenDone ==
    /\ opening.at = "opened"
    /\ active' = opening.on
    /\ call' = Served(opening.on)
    /\ opening' = NotOpening
    /\ bypassed' = (bypassed \/ ~Noting \/ opening.on.provider # driver)
    /\ UNCHANGED <<records, machine, turns, timer, mayResume, booting, bounds>>

OpenFails ==
    /\ opening.at \in {"connect", "opened"}
    /\ Fault("open")
    /\ call' = Served(NoComputer)
    /\ opening' = NotOpening
    /\ UNCHANGED <<records, machine, active, turns, timer, mayResume, booting, bypassed, crashes>>

(***************************************************************************)
(* openComputerSession(): a select, then a transaction                     *)
(***************************************************************************)
(* ensureSession() looks at the open computer of that moment. *)
Metered == active = NoComputer \/ sessions[active.provider] = {active.id}

Insert(c) ==
    LET p == call[c].on.provider
    IN  sessions' = [sessions EXCEPT ![p] = {call[c].on.id}]

(***************************************************************************)
(* use(): an operation                                                     *)
(***************************************************************************)
(* Past a stop: whether the machine may have to wake is read now. *)
Proceed(u, calls) ==
    LET now == [calls EXCEPT ![u].at = "opening", ![u].resumed = mayResume]
    IN  Resolve(IF mayResume THEN Forget(now) ELSE now)

(* A slip in UseStart: the idle timer goes on. *)
UseStartTimed(u, kind) ==
    /\ ~booting /\ call[u].at = "idle" /\ call["stop"].at = "idle"
    /\ Proceed(u, [call EXCEPT ![u].kind = kind])
    /\ UNCHANGED <<records, machine, active, turns, timer, mayResume, booting, bypassed, bounds>>

UseStart(u, kind) ==
    /\ ~booting /\ call[u].at = "idle"
    /\ kind = "restart" => kind \in Requests
    /\ timer' = FALSE
    /\ LET begun == [call EXCEPT ![u].kind = kind]
           calls == IF kind = "restart" THEN Forget(begun) ELSE begun
       IN  IF call["stop"].at = "idle"
           THEN Proceed(u, calls)
           ELSE call' = [calls EXCEPT ![u].at = "waiting"] /\ UNCHANGED opening
    /\ UNCHANGED <<records, machine, active, turns, mayResume, booting, bypassed, bounds>>

UseGoesOn(u) ==
    /\ call[u].at = "waiting" /\ call["stop"].at = "idle"
    /\ Proceed(u, call)
    /\ UNCHANGED <<records, machine, active, turns, timer, mayResume, booting, bypassed, bounds>>

(* The call reaches the machine and wakes it. *)
UseCalls(u) ==
    LET computer == call[u].on
    IN  /\ call[u].at = "opened" /\ Exists(computer)
        /\ machine' = [machine EXCEPT ![computer.provider].state = "running"]
        /\ call' = Go(u, "calling")
        /\ UNCHANGED <<records, active, opening, turns, timer, mayResume, booting, bypassed, bounds>>

(* restart() sees to the session once more after its operation. *)
Over(u) == IF call[u].kind = "restart" THEN [Idle EXCEPT !.at = "again"] ELSE Idle

(* A slip in UseEnds: the timer is not set again. *)
UseEndsUnarmed(u, after, kept) ==
    /\ UNCHANGED timer
    /\ call' = [call EXCEPT ![u] = after]
    /\ bypassed' = (bypassed /\ ~(kept /\ Awake))

(* A session is noted for a computer that is no longer the open one. *)
Late(c) == call[c].at \in {"insert", "reinsert"} /\ call[c].on # active

(* The end of the operation: `finally`. *)
UseEnds(u, after, kept) ==
    LET calls == [call EXCEPT ![u] = after]
    IN  /\ ArmIdle(Operations \ {u}, turns)
        /\ call' = IF call[u].resumed \/ call[u].kind = "restart" THEN Forget(calls) ELSE calls
        /\ bypassed' = (Late(u) \/ (bypassed /\ ~(kept /\ Awake /\ active.provider = driver)))

UseReturns(u) ==
    LET computer == call[u].on
    IN  /\ call[u].at = "calling" /\ Exists(computer) /\ Running(computer.provider)
        /\ mayResume' = FALSE
        /\ IF call[u].resumed
           THEN call' = Leave(u, "select") /\ UNCHANGED <<timer, bypassed>>
           ELSE UseEnds(u, Over(u), FALSE)
        /\ UNCHANGED <<records, machine, active, opening, turns, booting, bounds>>

(* The provider resumes a machine that was paused under the call, once. *)
UseRetries(u) ==
    LET computer == call[u].on
    IN  /\ call[u].at = "calling" /\ Exists(computer) /\ ~Running(computer.provider)
        /\ machine' = [machine EXCEPT ![computer.provider].state = "running"]
        /\ UNCHANGED <<records, process, bypassed, bounds>>

UseFails(u) ==
    /\ \/ call[u].at = "refused" /\ UNCHANGED faults
       \/ call[u].at \in {"opened", "calling"} /\ ~Exists(call[u].on) /\ UNCHANGED faults
       \/ call[u].at = "calling" /\ Fault("call")
    /\ UseEnds(u, Idle, FALSE)
    /\ UNCHANGED <<records, machine, active, opening, turns, mayResume, booting, crashes>>

UseSelects(u) ==
    /\ call[u].at = "select"
    /\ IF Metered
       THEN UseEnds(u, Over(u), TRUE)
       ELSE call' = [call EXCEPT ![u].at = "insert", ![u].on = active] /\ UNCHANGED <<timer, bypassed>>
    /\ UNCHANGED <<records, machine, active, opening, turns, mayResume, booting, bounds>>

UseInserts(u) ==
    /\ call[u].at = "insert"
    /\ Insert(u)
    /\ UseEnds(u, Over(u), TRUE)
    /\ UNCHANGED <<driver, row, machine, active, opening, turns, mayResume, booting, bounds>>

RestartSelects(u) ==
    /\ call[u].at = "again"
    /\ call' = IF Metered THEN Forget([call EXCEPT ![u] = Idle])
               ELSE [call EXCEPT ![u].at = "reinsert", ![u].on = active]
    /\ UNCHANGED <<records, machine, active, opening, turns, timer, mayResume, booting, bypassed, bounds>>

RestartInserts(u) ==
    /\ call[u].at = "reinsert"
    /\ Insert(u)
    /\ call' = Forget([call EXCEPT ![u] = Idle])
    /\ bypassed' = (bypassed \/ Late(u))
    /\ UNCHANGED <<driver, row, machine, active, opening, turns, timer, mayResume, booting, bounds>>

(***************************************************************************)
(* Turns, reconciliations and the status                                   *)
(***************************************************************************)
TurnStarted ==
    /\ ~booting /\ turns < MaxTurns
    /\ turns' = turns + 1 /\ timer' = FALSE
    /\ UNCHANGED <<records, machine, active, opening, mayResume, call, booting, bypassed, bounds>>

StartSync ==
    IF call["sync"].at = "idle" THEN Resolve(Go("sync", "opening")) ELSE UNCHANGED <<call, opening>>

(* A slip in TurnFinished: a turn that is not counted is counted off. *)
TurnFinishedAnyhow ==
    /\ ~booting
    /\ turns' = turns - 1
    /\ ArmIdle(Operations, turns - 1)
    /\ StartSync
    /\ UNCHANGED <<records, machine, active, mayResume, booting, bypassed, bounds>>

TurnFinished ==
    /\ turns > 0
    /\ turns' = turns - 1
    /\ ArmIdle(Operations, turns - 1)
    /\ StartSync
    /\ UNCHANGED <<records, machine, active, mayResume, booting, bypassed, bounds>>

(* The owner's button. *)
SyncStorage ==
    /\ ~booting /\ call["sync"].at = "idle"
    /\ StartSync
    /\ UNCHANGED <<records, machine, active, turns, timer, mayResume, booting, bypassed, bounds>>

(* The inventory wakes the machine, and no operation is counted. *)
SyncScans ==
    LET computer == call["sync"].on
        p == computer.provider
    IN  /\ call["sync"].at = "opened" /\ Exists(computer)
        /\ machine' = [machine EXCEPT ![p].state = "running"]
        /\ bypassed' = (bypassed \/ ~Running(p))
        /\ call' = [call EXCEPT !["sync"] = Idle]
        /\ UNCHANGED <<records, active, opening, turns, timer, mayResume, booting, bounds>>

SyncFails ==
    /\ \/ call["sync"].at = "refused"
       \/ call["sync"].at = "opened" /\ ~Exists(call["sync"].on)
    /\ call' = [call EXCEPT !["sync"] = Idle]
    /\ UNCHANGED <<records, machine, active, opening, turns, timer, mayResume, booting, bypassed, bounds>>

(* status(), when its cache is 15 seconds old. *)
Poll ==
    /\ ~booting /\ call["poll"].at = "idle"
    /\ Resolve(Go("poll", "opening"))
    /\ UNCHANGED <<records, machine, active, turns, timer, mayResume, booting, bypassed, bounds>>

PollReads ==
    LET computer == call["poll"].on
    IN  /\ call["poll"].at \in {"opened", "refused"}
        /\ call' = Leave("poll", IF Exists(computer) /\ Running(computer.provider) THEN "ready" ELSE "unready")
        /\ UNCHANGED <<records, machine, active, opening, turns, timer, mayResume, booting, bypassed, bounds>>

PollNotes ==
    /\ call["poll"].at \in {"ready", "unready"}
    /\ mayResume' = (call["poll"].at # "ready")
    /\ call' = [call EXCEPT !["poll"] = Idle]
    /\ UNCHANGED <<records, machine, active, opening, turns, timer, booting, bypassed, bounds>>

(***************************************************************************)
(* stopFor(): by the owner or by the idle timer                            *)
(***************************************************************************)
AskStop(reason) ==
    /\ timer' = FALSE
    /\ LET calls == Forget(call)
       IN  IF call["stop"].at # "idle" THEN call' = calls /\ UNCHANGED opening
           ELSE IF active = NoComputer
           THEN Resolve([calls EXCEPT !["stop"].at = "opening", !["stop"].kind = reason])
           ELSE /\ call' = [calls EXCEPT !["stop"] = [Idle EXCEPT !.at = "opened", !.kind = reason, !.on = active]]
                /\ UNCHANGED opening

Stop ==
    /\ ~booting /\ "stop" \in Requests
    /\ AskStop("stopped")
    /\ UNCHANGED <<records, machine, active, turns, mayResume, booting, bypassed, bounds>>

TimerFires ==
    /\ timer
    /\ AskStop("idle")
    /\ UNCHANGED <<records, machine, active, turns, mayResume, booting, bypassed, bounds>>

Calling ==
    \/ \E u \in Users : call[u].at \notin {"idle", "waiting", "refused"}
    \/ call["owner"].at # "idle"

StopPauses ==
    LET computer == call["stop"].on
    IN  /\ call["stop"].at = "opened" /\ Exists(computer)
        /\ machine' = [machine EXCEPT ![computer.provider].state = "paused"]
        /\ call' = Go("stop", "close")
        /\ bypassed' = (computer # active \/ active.provider # driver \/ Calling)
        /\ UNCHANGED <<records, active, opening, turns, timer, mayResume, booting, bounds>>

(* A slip in StopCloses: the next operation is not told that it may wake. *)
StopClosesOnly ==
    /\ call["stop"].at = "close"
    /\ sessions' = IF active = NoComputer THEN sessions ELSE [sessions EXCEPT ![active.provider] = {}]
    /\ call' = Forget([call EXCEPT !["stop"] = Idle])
    /\ bypassed' = (bypassed \/ Calling \/ Running(call["stop"].on.provider) \/ Awake)
    /\ UNCHANGED <<driver, row, machine, active, opening, turns, timer, mayResume, booting, bounds>>

StopCloses ==
    /\ call["stop"].at = "close"
    /\ sessions' = IF active = NoComputer THEN sessions ELSE [sessions EXCEPT ![active.provider] = {}]
    /\ mayResume' = TRUE
    /\ call' = Forget([call EXCEPT !["stop"] = Idle])
    /\ bypassed' = (bypassed \/ Calling \/ Running(call["stop"].on.provider) \/ Awake)
    /\ UNCHANGED <<driver, row, machine, active, opening, turns, timer, booting, bounds>>

(* A stop that fails is reported to those who wait for it, and not repeated. *)
StopFails ==
    /\ \/ call["stop"].at = "refused" /\ UNCHANGED faults
       \/ call["stop"].at = "opened" /\ ~Exists(call["stop"].on) /\ UNCHANGED faults
       \/ call["stop"].at = "opened" /\ Fault("stop")
    /\ call' = Forget([c \in Callers |-> IF c = "stop" THEN Idle
                       ELSE IF call[c].at \in {"waiting", "stopping"} THEN [call[c] EXCEPT !.at = "refused"]
                       ELSE call[c]])
    /\ bypassed' = TRUE
    /\ UNCHANGED <<records, machine, active, opening, turns, timer, mayResume, booting, crashes>>

(***************************************************************************)
(* destroy(), setProvider(), setCredentials(), clearCredentials()          *)
(***************************************************************************)
Ask(kind) ==
    /\ ~booting /\ call["owner"].at = "idle" /\ kind \in Requests
    /\ kind = "switch" => turns = 0
    /\ kind = "credentials" => active.provider # Nobody
    /\ timer' = IF kind = "destroy" THEN FALSE ELSE timer
    /\ call' = [call EXCEPT !["owner"].kind = kind,
                            !["owner"].at = IF kind = "destroy" THEN "waiting" ELSE "release"]
    /\ UNCHANGED <<records, machine, active, opening, turns, mayResume, booting, bypassed, bounds>>

DestroyResolves ==
    /\ call["owner"].at = "waiting" /\ call["stop"].at = "idle"
    /\ Resolve(Go("owner", "opening"))
    /\ UNCHANGED <<records, machine, active, turns, timer, mayResume, booting, bypassed, bounds>>

Destroys ==
    LET computer == call["owner"].on
        p == computer.provider
    IN  /\ call["owner"].at = "opened" /\ call["owner"].kind = "destroy" /\ Exists(computer)
        /\ machine' = [machine EXCEPT ![p] = [id |-> 0, state |-> "none"]]
        /\ call' = Go("owner", "close")
        /\ bypassed' = (bypassed \/ Operations # {})
        /\ UNCHANGED <<records, active, opening, turns, timer, mayResume, booting, bounds>>

(* The session is closed, the row deleted. *)
DestroyCloses ==
    LET p == call["owner"].on.provider
    IN  /\ call["owner"].at = "close"
        /\ sessions' = [sessions EXCEPT ![p] = {}]
        /\ row' = [row EXCEPT ![p] = 0]
        /\ call' = [Leave("owner", "release") EXCEPT !["owner"].kind = "release"]
        /\ UNCHANGED <<driver, machine, active, opening, turns, timer, mayResume, booting, bypassed, bounds>>

(* release() awaits the opening, the stop and the reconciliation in turn. *)
Releases ==
    /\ call["owner"].at = "release"
    /\ timer' = FALSE
    /\ call' = Go("owner", IF opening.at = "no" THEN "opened" ELSE "opening")
    /\ UNCHANGED <<records, machine, active, opening, turns, mayResume, booting, bypassed, bounds>>

Releasing == call["owner"].kind \in {"release", "switch", "credentials"}

ReleaseWaits ==
    /\ Releasing
    /\ \/ call["owner"].at = "opened" /\ call' = Leave("owner", "stopping")
       \/ call["owner"].at = "stopping" /\ call["stop"].at = "idle" /\ call' = Go("owner", "syncing")
    /\ UNCHANGED <<records, machine, active, opening, turns, timer, mayResume, booting, bypassed, bounds>>

Released ==
    /\ call["owner"].at = "syncing" /\ call["sync"].at = "idle"
    /\ active' = NoComputer
    /\ mayResume' = TRUE
    /\ call' = Forget(IF call["owner"].kind = "switch" THEN Go("owner", "update")
                      ELSE [call EXCEPT !["owner"] = Idle])
    /\ bypassed' = (bypassed \/ Operations # {})
    /\ UNCHANGED <<records, machine, opening, turns, timer, booting, bounds>>

(* The provider is noted, and initialize() begins. *)
Switches(p) ==
    /\ call["owner"].at = "update"
    /\ driver' = p
    /\ Resolve([call EXCEPT !["owner"].at = "opening", !["owner"].kind = "initialize"])
    /\ UNCHANGED <<row, sessions, machine, active, turns, timer, mayResume, booting, bypassed, bounds>>

(* A slip in InitializeSelects: the session is left to the first operation. *)
InitializeArms ==
    /\ call["owner"].at = "opened" /\ call["owner"].kind = "initialize"
    /\ call' = Leave("owner", "initialized")
    /\ UNCHANGED <<records, machine, active, opening, turns, timer, mayResume, booting, bypassed, bounds>>

InitializeSelects ==
    /\ call["owner"].at = "opened" /\ call["owner"].kind = "initialize"
    /\ call' = IF Metered THEN Leave("owner", "initialized")
               ELSE [call EXCEPT !["owner"].at = "insert", !["owner"].on = active]
    /\ UNCHANGED <<records, machine, active, opening, turns, timer, mayResume, booting, bypassed, bounds>>

InitializeInserts ==
    /\ call["owner"].at = "insert"
    /\ Insert("owner")
    /\ call' = Leave("owner", "initialized")
    /\ UNCHANGED <<driver, row, machine, active, opening, turns, timer, mayResume, booting, bypassed, bounds>>

(* The first one closes what a former process left open of other machines. *)
Unresumed ==
    sessions' = IF ~booting THEN sessions
                ELSE [p \in Providers |-> {id \in sessions[p] : p = active.provider /\ id = active.id}]

Initialized ==
    /\ call["owner"].at = "initialized"
    /\ Unresumed
    /\ ArmIdle(Operations, turns)
    /\ booting' = FALSE
    /\ call' = [call EXCEPT !["owner"] = Idle]
    /\ UNCHANGED <<driver, row, machine, active, opening, turns, mayResume, bypassed, bounds>>

(* What fails after it has put the timer off does not set it again. *)
OwnerFails ==
    /\ call["owner"].at = "refused" \/ (call["owner"].at = "opened" /\ call["owner"].kind = "destroy")
    /\ Unresumed
    /\ booting' = FALSE
    /\ call' = [call EXCEPT !["owner"] = Idle]
    /\ bypassed' = (bypassed \/ call["owner"].kind # "initialize")
    /\ UNCHANGED <<driver, row, machine, active, opening, turns, timer, mayResume, bounds>>

(* The process ends; the next one calls initialize() before it listens. *)
Crash ==
    /\ crashes < MaxCrashes
    /\ crashes' = crashes + 1
    /\ active' = NoComputer
    /\ opening' = [NotOpening EXCEPT !.at = "driver"]
    /\ turns' = 0 /\ timer' = FALSE /\ mayResume' = TRUE
    /\ call' = [c \in Callers |-> IF c = "owner" THEN [Idle EXCEPT !.at = "opening", !.kind = "initialize"]
                                  ELSE Idle]
    /\ booting' = TRUE
    /\ bypassed' = FALSE
    /\ UNCHANGED <<records, machine, faults>>

OpenStep == OpenDriver \/ OpenConnects \/ OpenDone \/ OpenFails \/ \E id \in 1..MaxInstances : OpenCreates(id)

UseStep(u) ==
    \/ UseGoesOn(u) \/ UseCalls(u) \/ UseReturns(u) \/ UseRetries(u) \/ UseFails(u)
    \/ UseSelects(u) \/ UseInserts(u) \/ RestartSelects(u) \/ RestartInserts(u)

SyncStep == SyncScans \/ SyncFails
StopStep == StopPauses \/ StopCloses \/ StopFails

OwnerStep ==
    \/ DestroyResolves \/ Destroys \/ DestroyCloses
    \/ Releases \/ ReleaseWaits \/ Released
    \/ \E p \in Providers : Switches(p)
    \/ InitializeSelects \/ InitializeInserts \/ Initialized \/ OwnerFails

Next ==
    \/ OpenStep \/ SyncStep \/ StopStep \/ OwnerStep
    \/ \E u \in Users : UseStep(u) \/ \E kind \in {"exec", "restart"} : UseStart(u, kind)
    \/ TurnStarted \/ TurnFinished \/ SyncStorage
    \/ Poll \/ PollReads \/ PollNotes
    \/ Stop \/ TimerFires
    \/ \E kind \in {"destroy", "switch", "credentials"} : Ask(kind)
    \/ Crash

Spec == Init /\ [][Next]_vars

(***************************************************************************)
(* Properties                                                              *)
(***************************************************************************)
Machines == [provider : Providers, id : 1..MaxInstances]
Computers == Machines \cup {NoComputer}

Places ==
    {"idle", "waiting", "opening", "opened", "refused", "calling", "select", "insert", "again", "reinsert",
     "ready", "unready", "close", "release", "stopping", "syncing", "update", "initialized"}

Kinds == {"none", "exec", "restart", "stopped", "idle", "destroy", "release", "switch", "credentials", "initialize"}

CallState == [at : Places, kind : Kinds, resumed : BOOLEAN, on : Computers]

MachineState == [id : 0..MaxInstances, state : {"none", "running", "paused"}]

OpeningState ==
    [at : {"no", "driver", "connect", "opened"}, on : [provider : Providers \cup {Nobody}, id : 0..MaxInstances]]

(* Every variable keeps its type. *)
TypeOK ==
    /\ driver \in Providers
    /\ row \in [Providers -> 0..MaxInstances]
    /\ sessions \in [Providers -> SUBSET (1..MaxInstances)] /\ \A p \in Providers : \A a, b \in sessions[p] : a = b
    /\ machine \in [Providers -> MachineState]
    /\ active \in Computers
    /\ opening \in OpeningState
    /\ turns \in 0..MaxTurns /\ timer \in BOOLEAN /\ mayResume \in BOOLEAN
    /\ call \in [Callers -> CallState]
    /\ booting \in BOOLEAN /\ bypassed \in BOOLEAN
    /\ crashes \in 0..MaxCrashes /\ faults \in 0..MaxFaults

(* Nobody is in the middle of something, but for turns at work elsewhere. *)
Quiet == opening.at = "no" /\ \A c \in Callers \ {"poll"} : call[c].at = "idle"

(* When all is quiet, the open computer has its session exactly while its    *)
(* machine runs, so its minutes are counted (manager.ts:147, :188, :234);    *)
(* but for what bypasses the operations, for calls that fail, and for a      *)
(* session noted late, when its computer is no longer the open one.          *)
SessionFollowsMachine ==
    Quiet /\ active # NoComputer /\ ~bypassed /\ faults = 0 =>
        sessions[active.provider] = IF Running(active.provider) THEN {active.id} ELSE {}

(* When all is quiet, a machine that runs for nobody is on the timer, but    *)
(* for one that was woken past the operations or whose stop, destruction or  *)
(* release failed (manager.ts:59, :154, :190, :204, :210, :237).             *)
RunningIsTimed ==
    Quiet /\ active # NoComputer /\ ~bypassed /\ turns = 0 /\ Exists(active) /\ Running(active.provider)
        => timer

(* An idle stop never pauses the machine under an operation, however late    *)
(* the timer fires and the operation begins (manager.ts:180-183, :201-204).  *)
IdleStopSpares ==
    [][call["stop"].kind = "idle" /\ call'["stop"].at = "close" =>
        \A u \in Users : call[u].at \notin {"opened", "calling", "select", "insert"}]_vars
==============================================================================
