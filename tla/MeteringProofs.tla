--------------------------- MODULE MeteringProofs ---------------------------
(***************************************************************************)
(* ComputerMetering, for every number of providers, users, turns, machines,*)
(* crashes and faults: its types, that a machine which runs for nobody is  *)
(* on the timer, that the session follows the machine, and that an idle    *)
(* stop never pauses the machine under an operation.                       *)
(***************************************************************************)
EXTENDS ComputerMetering, TLAPS

(* Whoever is to note a session has the computer it noticed; whatever is   *)
(* being opened has a provider, and its machine when it is there.          *)
Equipped ==
    /\ \A c \in Callers : call[c].at \in {"insert", "reinsert"} => call[c].on \in Machines
    /\ opening.at = "connect" => opening.on.provider \in Providers
    /\ opening.at = "opened" => opening.on \in Machines

(* Who is idle is not in the middle of anything.                           *)
Resting == \A c \in Callers : call[c].at = "idle" => call[c].kind = "none"

(* Where a user of the computer may be.                                    *)
UserPlaces ==
    {"idle", "waiting", "opening", "opened", "refused", "calling", "select", "insert", "again", "reinsert"}
Using == \A u \in Users : call[u].at \in UserPlaces

Typed == TypeOK /\ Equipped /\ Resting /\ Using

-----------------------------------------------------------------------------
(* What is opened is of another provider than the open computer, and of    *)
(* the driver there is, unless the owner has just changed it, with no      *)
(* computer open, and waits for the opening that was under way.            *)
Initializing(places) == call["owner"].kind = "initialize" /\ call["owner"].at \in places

Opens ==
    opening.at \in {"connect", "opened"} =>
        /\ opening.on.provider # active.provider
        /\ opening.on.provider = driver \/ (active = NoComputer /\ Initializing({"opening"}))

(* The machine of the open computer, and of one just opened, has its id,   *)
(* unless the owner destroyed it.                                          *)
Known ==
    /\ opening.at = "opened" => machine[opening.on.provider].id = opening.on.id
    /\ active # NoComputer => machine[active.provider].id \in {active.id, 0}

(* Between the release and the new driver only the old one's is opened; a  *)
(* session is noted late only for another provider; what is destroyed is   *)
(* the open computer.                                                      *)
Destroying(places) == call["owner"].kind = "destroy" /\ call["owner"].at \in places

Owned ==
    /\ call["owner"].at = "update" => active = NoComputer \/ active.provider = driver
    /\ call["owner"].at = "insert" =>
        \/ call["owner"].on = active
        \/ active.provider = driver /\ call["owner"].on.provider # driver
    /\ Destroying({"opened", "close"}) => call["owner"].on = active /\ active.provider = driver
    /\ call["owner"].at = "close" => call["owner"].kind = "destroy" /\ machine[active.provider].id = 0
    /\ call["owner"].at \in {"release", "stopping", "syncing"} => Releasing
    /\ call["owner"].at = "update" => call["owner"].kind = "switch"
    /\ call["owner"].at \in {"insert", "initialized"} => call["owner"].kind = "initialize"

Structure == Opens /\ Known /\ Owned

-----------------------------------------------------------------------------
(* The timer is set only when nothing is under way, and while an idle stop *)
(* is under way every operation waits for it.                              *)
TimerAlone == timer => Operations = {}

Untouched == {"idle", "waiting", "refused", "again", "reinsert"}

StopAlone == call["stop"].kind = "idle" => \A u \in Users : call[u].at \in Untouched

(* A machine that runs is on the timer, or somebody is about to set it, to *)
(* stop the machine or to let go of it.                                    *)
Attended ==
    \/ timer \/ Operations # {} \/ call["stop"].at # "idle"
    \/ call["owner"].kind \in {"destroy", "release"}
    \/ call["owner"].kind \in {"switch", "credentials"} /\ call["owner"].at # "update"
    \/ Initializing({"opened", "insert", "initialized"})

Attention == active # NoComputer /\ ~bypassed /\ turns = 0 /\ Awake => Attended

Timing == TimerAlone /\ StopAlone /\ Attention

-----------------------------------------------------------------------------
(* Nothing bypassed the operations, and nothing failed.                    *)
Fine == ~bypassed /\ faults = 0

(* The open computer is the driver's, but for the opening that follows a   *)
(* switch; and what is just opened runs.                                   *)
OfDriver ==
    Fine => /\ active # NoComputer /\ active.provider # driver => Initializing({"opening"}) /\ opening.at # "no"
            /\ opening.at = "opened" => Running(opening.on.provider)

(* Nothing is open: every operation under way may wake what is opened.     *)
Renewed ==
    Fine /\ active = NoComputer =>
        /\ mayResume /\ call["poll"].at \in {"idle", "opening", "unready"}
        /\ \A u \in Users : /\ call[u].at \in Untouched \cup {"opening"}
                            /\ call[u].at = "opening" => call[u].resumed

(* A machine that runs has its session, or somebody is about to note it.   *)
Notes(u) ==
    \/ call[u].at \in {"opened", "calling"} /\ call[u].resumed /\ call[u].on = active
    \/ call[u].at = "select"
    \/ call[u].at = "insert" /\ call[u].on = active
OwnerNotes == Initializing({"opened"}) \/ (Initializing({"insert"}) /\ call["owner"].on = active)
Noticed == (\E u \in Users : Notes(u)) \/ OwnerNotes
Counted ==
    Fine /\ active # NoComputer /\ Awake => sessions[active.provider] = {active.id} \/ Noticed

(* A machine that does not run has none, once its stop has ended, and who  *)
(* wakes it will note that.                                                *)
Stopping == call["stop"].at = "close" /\ \A u \in Users : call[u].at \in {"idle", "waiting", "refused"}
Wakes(u) ==
    /\ call[u].at \in {"idle", "waiting", "refused", "opening", "opened", "calling"}
    /\ call[u].at \in {"opening", "opened", "calling"} => call[u].resumed
    /\ call[u].at \in {"opened", "calling"} => call[u].on = active
Stopped ==
    /\ mayResume /\ sessions[active.provider] = {}
    /\ call["poll"].at \notin {"ready", "refused"} /\ (call["poll"].at = "opened" => call["poll"].on = active)
    /\ \A u \in Users : Wakes(u)
Sleeps == active # NoComputer /\ Exists(active) /\ ~Running(active.provider)
Paused ==
    Fine /\ Sleeps =>
        /\ call["owner"].kind # "initialize" /\ call["owner"].at # "update"
        /\ Stopping \/ Stopped

(* A machine that is gone is about to be released.                         *)
Gone ==
    Fine /\ active # NoComputer /\ ~Exists(active) => call["owner"].kind \in {"destroy", "release"}

Session == OfDriver /\ Renewed /\ Counted /\ Paused /\ Gone

MeteringInv == Typed /\ Structure /\ Timing /\ Session

-----------------------------------------------------------------------------
(* The names of the callers are apart, and Nobody is no provider.          *)
LEMMA Names ==
    /\ {"owner", "sync", "poll", "stop"} \subseteq Callers /\ Users \subseteq Callers
    /\ \A u \in Users : u # "owner" /\ u # "sync" /\ u # "poll" /\ u # "stop"
    /\ \A c \in Callers : c \in Users \/ c = "owner" \/ c = "sync" \/ c = "poll" \/ c = "stop"
    /\ Nobody \notin Providers
BY MeteringAssumption DEF Callers

(* No computer is a computer, and neither a provider's nor a machine's.    *)
LEMMA NoneIsNone ==
    /\ NoComputer \in Computers /\ NoComputer \notin Machines
    /\ NoComputer.provider = Nobody /\ NoComputer.id = 0
    /\ Idle \in CallState /\ Idle.at = "idle" /\ Idle.kind = "none" /\ Idle.on = NoComputer /\ Idle.resumed = FALSE
<1>1. NoComputer.provider = Nobody /\ NoComputer.id = 0
  BY DEF NoComputer
<1>2. NoComputer \in Computers /\ NoComputer \notin Machines
  BY <1>1, Names DEF Computers, Machines
<1>3. Idle \in CallState /\ Idle.at = "idle" /\ Idle.kind = "none" /\ Idle.on = NoComputer /\ Idle.resumed = FALSE
  BY <1>2 DEF Idle, CallState, Places, Kinds
<1> QED
  BY <1>1, <1>2, <1>3

(* A machine has a provider and an id of its own.                          *)
LEMMA MachineParts ==
    ASSUME NEW m \in Machines
    PROVE  /\ m # NoComputer /\ m.provider \in Providers /\ m.provider # Nobody
           /\ m.id \in 1..MaxInstances /\ m.id \in Nat /\ m.id # 0
<1>1. m.provider \in Providers /\ m.id \in 1..MaxInstances
  BY DEF Machines
<1> QED
  BY <1>1, Names, NoneIsNone, MeteringAssumption

(* A computer that exists is a machine.                                    *)
LEMMA ExistsIsMachine ==
    ASSUME NEW m \in Computers, m.id # 0
    PROVE  m \in Machines
BY NoneIsNone DEF Computers

(* Machines with the same provider and id are the same.                    *)
LEMMA SameMachine ==
    ASSUME NEW m \in Machines, NEW n \in Machines, m.provider = n.provider, m.id = n.id
    PROVE  m = n
BY DEF Machines

(* Nobody moves but those in S, and a poll may be forgotten.               *)
Others(S) == \A c \in Callers \ S : call'[c] = call[c] \/ (c = "poll" /\ call'[c] = Idle)

Calls == [Callers -> CallState]

(* One caller moves.                                                       *)
LEMMA CallGoes ==
    ASSUME call \in Calls, NEW a \in Callers, NEW c \in CallState, call' = [call EXCEPT ![a] = c]
    PROVE  call' \in Calls /\ call'[a] = c /\ \A b \in Callers \ {a} : call'[b] = call[b]
BY DEF Calls

(* One caller moves, and the poll is forgotten.                            *)
LEMMA ForgetGoes ==
    ASSUME NEW calls \in Calls, call' = Forget(calls)
    PROVE  call' \in Calls /\ call'["poll"] = Idle /\ \A b \in Callers \ {"poll"} : call'[b] = calls[b]
BY NoneIsNone, Names DEF Calls, Forget

(* One caller goes on to another place.                                    *)
LEMMA GoGoes ==
    ASSUME call \in Calls, NEW a \in Callers, NEW place \in Places
    PROVE  /\ Go(a, place) \in Calls /\ \A b \in Callers \ {a} : Go(a, place)[b] = call[b]
           /\ Go(a, place)[a].at = place /\ Go(a, place)[a].kind = call[a].kind
           /\ Go(a, place)[a].resumed = call[a].resumed /\ Go(a, place)[a].on = call[a].on
<1> DEFINE c == [call[a] EXCEPT !.at = place]
<1>1. call[a] \in CallState
  BY DEF Calls
<1>2. c \in CallState /\ c.at = place /\ c.kind = call[a].kind /\ c.resumed = call[a].resumed /\ c.on = call[a].on
  BY <1>1 DEF CallState
<1>3. Go(a, place) = [call EXCEPT ![a] = c]
  BY DEF Go
<1> HIDE DEF c
<1> QED
  BY <1>2, <1>3 DEF Calls

(* The same, and it forgets its computer.                                  *)
LEMMA LeaveGoes ==
    ASSUME call \in Calls, NEW a \in Callers, NEW place \in Places
    PROVE  /\ Leave(a, place) \in Calls /\ \A b \in Callers \ {a} : Leave(a, place)[b] = call[b]
           /\ Leave(a, place)[a].at = place /\ Leave(a, place)[a].kind = call[a].kind
           /\ Leave(a, place)[a].resumed = call[a].resumed /\ Leave(a, place)[a].on = NoComputer
<1> DEFINE c == [call[a] EXCEPT !.at = place, !.on = NoComputer]
<1>1. call[a] \in CallState
  BY DEF Calls
<1>2. c \in CallState /\ c.at = place /\ c.kind = call[a].kind /\ c.resumed = call[a].resumed /\ c.on = NoComputer
  BY <1>1, NoneIsNone DEF CallState
<1>3. Leave(a, place) = [call EXCEPT ![a] = c]
  BY DEF Leave, Calls
<1> HIDE DEF c
<1> QED
  BY <1>2, <1>3 DEF Calls

(* What those who wait for the opening are told.                           *)
Told(calls, m) ==
    \A b \in Callers :
        IF call[b].at = "opening"
        THEN /\ calls[b].at = (IF m = NoComputer THEN "refused" ELSE "opened") /\ calls[b].on = m
             /\ calls[b].kind = call[b].kind /\ calls[b].resumed = call[b].resumed
        ELSE calls[b] = call[b]

(* The end of an opening is told to everybody who waits for it.            *)
LEMMA ServedTells ==
    ASSUME call \in Calls, NEW m \in Computers
    PROVE  Served(m) \in Calls /\ Told(Served(m), m)
<1> DEFINE c(b) == [call[b] EXCEPT !.at = IF m = NoComputer THEN "refused" ELSE "opened", !.on = m]
<1>1. ASSUME NEW b \in Callers
      PROVE  /\ c(b) \in CallState /\ c(b).at = (IF m = NoComputer THEN "refused" ELSE "opened")
             /\ c(b).on = m /\ c(b).kind = call[b].kind /\ c(b).resumed = call[b].resumed
  <2>1. call[b] \in CallState
    BY DEF Calls
  <2> QED
    BY <2>1 DEF CallState, Places
<1>2. Served(m) = [b \in Callers |-> IF call[b].at # "opening" THEN call[b] ELSE c(b)]
  BY DEF Served
<1> HIDE DEF c
<1>3. Served(m) \in Calls
  BY <1>1, <1>2 DEF Calls
<1> QED
  BY <1>1, <1>2, <1>3 DEF Told

(* An opening begins, or the one under way goes on.                        *)
Begins ==
    \/ opening' = opening
    \/ opening.at = "no" /\ opening'.at = "driver"

(* A caller that joins the opening, or begins one.                         *)
LEMMA ResolveGoes ==
    ASSUME opening \in OpeningState, NEW calls \in Calls, Resolve(calls)
    PROVE  call' = calls /\ Begins /\ opening' \in OpeningState /\ opening'.at # "no"
<1>1. NotOpening \in OpeningState /\ NotOpening.at = "no"
  <2>1. NoComputer \in [provider : Providers \cup {Nobody}, id : 0..MaxInstances]
    BY MeteringAssumption DEF NoComputer
  <2> QED
    BY <2>1 DEF NotOpening, OpeningState
<1> DEFINE new == [NotOpening EXCEPT !.at = "driver"]
<1>2. new \in OpeningState /\ new.at = "driver"
  BY <1>1 DEF OpeningState
<1>3. call' = calls /\ opening' = IF opening.at = "no" THEN new ELSE opening
  BY DEF Resolve
<1> HIDE DEF new
<1> QED
  BY <1>2, <1>3 DEF Begins

(* A machine that exists under the provider of the open computer is that.  *)
LEMMA ActiveMachine ==
    ASSUME TypeOK, Known, active # NoComputer, NEW m \in Computers, Exists(m), m.provider = active.provider
    PROVE  m = active /\ m \in Machines
<1>1. m.id # 0 /\ machine[m.provider].id = m.id
  BY DEF Exists
<1>2. m \in Machines
  BY <1>1, ExistsIsMachine
<1>3. active \in Machines
  BY DEF TypeOK, Computers
<1>4. m.id = active.id
  BY <1>1 DEF Known
<1> QED
  BY <1>2, <1>3, <1>4, SameMachine

(* What a step leaves alone that the structure is about.                   *)
LEMMA StructureStays ==
    ASSUME Typed, Structure, driver' = driver, active' = active, call'["owner"] = call["owner"],
           Begins, \A p \in Providers : machine'[p].id = machine[p].id
    PROVE  Structure'
<1>1. active # NoComputer => active.provider \in Providers
  BY MachineParts DEF Typed, TypeOK, Computers
<1>2. opening.at = "opened" => opening.on.provider \in Providers
  BY MachineParts DEF Typed, Equipped
<1>3. Opens'
  BY DEF Begins, Structure, Opens, Initializing
<1>4. Known'
  BY <1>1, <1>2 DEF Begins, Structure, Known
<1>5. Owned'
  <2>1. call["owner"].at = "close" => machine'[active.provider].id = 0
    <3>1. CASE call["owner"].at = "close"
      <4>1. call["owner"].kind = "destroy" /\ machine[active.provider].id = 0 /\ active.provider = driver
        BY <3>1 DEF Structure, Owned, Destroying, Releasing
      <4> QED
        BY <4>1 DEF Typed, TypeOK
    <3> QED
      BY <3>1
  <2> QED
    BY <2>1 DEF Structure, Owned, Destroying, Releasing
<1> QED
  BY <1>3, <1>4, <1>5 DEF Structure

(* What a step leaves alone that the timing is about.                      *)
LEMMA TimingStays ==
    ASSUME Timing, timer' = timer, turns' = turns, active' = active, bypassed' = bypassed, machine' = machine,
           \A u \in Users : call'[u] = call[u], call'["owner"] = call["owner"],
           call'["stop"].kind = call["stop"].kind, call'["stop"].at = call["stop"].at
    PROVE  Timing'
<1>1. Operations' = Operations
  BY DEF Operations, Operating
<1>2. Awake' = Awake
  BY DEF Awake, Exists, Running
<1>3. TimerAlone' /\ StopAlone'
  BY <1>1 DEF Timing, TimerAlone, StopAlone
<1>4. Attention'
  BY <1>1, <1>2 DEF Timing, Attention, Attended, Initializing
<1> QED
  BY <1>3, <1>4 DEF Timing

(* What a step leaves alone that the sessions are about.                   *)
LEMMA SessionStays ==
    ASSUME Session, driver' = driver, active' = active, machine' = machine, sessions' = sessions,
           mayResume' = mayResume, bypassed' = bypassed, faults' = faults, Begins,
           \A u \in Users : call'[u] = call[u], call'["owner"] = call["owner"],
           call'["poll"] = call["poll"] \/ call'["poll"].at \in {"idle", "opening"},
           call["stop"].at = "close" => call'["stop"].at = "close"
    PROVE  Session'
<1>1. Awake' = Awake /\ Exists(active)' = Exists(active) /\ Running(active.provider)' = Running(active.provider)
  BY DEF Awake, Exists, Running
<1>2. Fine' = Fine
  BY DEF Fine
<1>3. OfDriver'
  BY <1>2 DEF Session, OfDriver, Initializing, Begins, Running
<1>4. Renewed'
  BY <1>2 DEF Session, Renewed
<1>5. Counted'
  BY <1>1, <1>2 DEF Session, Counted, Noticed, Notes, OwnerNotes, Initializing
<1>6. Paused'
  <2>1. Stopping => Stopping'
    BY DEF Stopping
  <2>2. Stopped => Stopped'
    BY DEF Stopped, Wakes
  <2> QED
    BY <1>1, <1>2, <2>1, <2>2 DEF Session, Paused, Sleeps
<1>7. Gone'
  BY <1>1, <1>2 DEF Session, Gone
<1> QED
  BY <1>3, <1>4, <1>5, <1>6, <1>7 DEF Session

(* Who moves is equipped for it and rests when idle; the others stay.      *)
LEMMA CallersTyped ==
    ASSUME Typed, NEW a \in Callers, Others({a}), Begins,
           call'[a].at \in {"insert", "reinsert"} => call'[a].on \in Machines,
           call'[a].at = "idle" => call'[a].kind = "none",
           a \in Users => call'[a].at \in UserPlaces
    PROVE  Equipped' /\ Resting' /\ Using'
<1>1. \A c \in Callers : call'[c].at \in {"insert", "reinsert"} => call'[c].on \in Machines
  BY NoneIsNone DEF Others, Typed, Equipped
<1>2. Equipped'
  BY <1>1 DEF Begins, Typed, Equipped
<1>3. Resting'
  BY NoneIsNone DEF Others, Typed, Resting
<1>4. Using'
  BY Names DEF Others, Typed, Using
<1> QED
  BY <1>2, <1>3, <1>4

-----------------------------------------------------------------------------
(* Turns and the owner's requests that only touch the timer or the calls.  *)

(* A reconciliation begins unless one is under way.                        *)
LEMMA SyncGoes ==
    ASSUME Typed, StartSync
    PROVE  call' \in Calls /\ Others({"sync"}) /\ Begins /\ opening' \in OpeningState
           /\ (call'["sync"].at = "opening" \/ call'["sync"] = call["sync"])
<1>0. call \in Calls /\ opening \in OpeningState /\ "sync" \in Callers
  BY Names DEF Typed, TypeOK, Calls
<1>1. CASE call["sync"].at = "idle"
  <2>1. Resolve(Go("sync", "opening"))
    BY <1>1 DEF StartSync
  <2>2. "opening" \in Places
    BY DEF Places
  <2> QED
    BY <1>0, <2>1, <2>2, GoGoes, ResolveGoes DEF Others
<1>2. CASE call["sync"].at # "idle"
  BY <1>0, <1>2 DEF StartSync, Others, Begins
<1> QED
  BY <1>1, <1>2


(* A turn begins: the timer is put off.                                    *)
LEMMA TurnStartedKeeps ==
    ASSUME MeteringInv, TurnStarted
    PROVE  MeteringInv'
<1>1. /\ turns < MaxTurns /\ turns' = turns + 1 /\ timer' = FALSE
      /\ UNCHANGED <<driver, row, sessions, machine, active, opening, mayResume, call, booting, bypassed, crashes, faults>>
  BY DEF TurnStarted, records, bounds
<1>2. turns' \in 0..MaxTurns /\ turns' # 0
  BY <1>1, MeteringAssumption DEF MeteringInv, Typed, TypeOK
<1>3. Typed'
  BY <1>1, <1>2 DEF MeteringInv, Typed, TypeOK, Equipped, Resting, Using
<1>4. Structure'
  BY <1>1, StructureStays DEF MeteringInv, Begins
<1>5. Timing'
  BY <1>1, <1>2 DEF MeteringInv, Timing, TimerAlone, StopAlone, Attention
<1>6. Session'
  BY <1>1, SessionStays DEF MeteringInv, Begins
<1> QED
  BY <1>3, <1>4, <1>5, <1>6 DEF MeteringInv

(* Only the reconciliation moves, and nothing it is about.                 *)
LEMMA SyncMoves ==
    ASSUME MeteringInv, call' \in Calls, Others({"sync"}), Begins, opening' \in OpeningState,
           call'["sync"].at \in {"insert", "reinsert"} => call'["sync"].on \in Machines,
           call'["sync"].at = "idle" => call'["sync"].kind = "none",
           UNCHANGED <<driver, row, sessions, machine, active, mayResume, booting, bypassed, crashes, faults>>
    PROVE  /\ Typed' <=> (turns' \in 0..MaxTurns /\ timer' \in BOOLEAN)
           /\ Structure' /\ Session'
           /\ timer' = timer /\ turns' = turns => Timing'
<1>1. /\ \A u \in Users : call'[u] = call[u]
      /\ call'["owner"] = call["owner"] /\ call'["stop"] = call["stop"]
      /\ call'["poll"] = call["poll"] \/ call'["poll"].at = "idle"
  BY Names, NoneIsNone DEF Others
<1>2. Equipped' /\ Resting' /\ Using'
  BY Names, CallersTyped DEF MeteringInv
<1>3. Typed' <=> (turns' \in 0..MaxTurns /\ timer' \in BOOLEAN)
  BY <1>2 DEF MeteringInv, Typed, TypeOK, Calls
<1>4. Structure'
  BY <1>1, StructureStays DEF MeteringInv
<1>5. Session'
  BY <1>1, SessionStays DEF MeteringInv
<1>6. timer' = timer /\ turns' = turns => Timing'
  BY <1>1, TimingStays DEF MeteringInv
<1> QED
  BY <1>3, <1>4, <1>5, <1>6

(* A turn ends: the timer is set unless something is under way.            *)
LEMMA TurnFinishedKeeps ==
    ASSUME MeteringInv, TurnFinished
    PROVE  MeteringInv'
<1>1. /\ turns > 0 /\ turns' = turns - 1 /\ timer' = (Operations = {} /\ turns - 1 = 0 /\ active # NoComputer)
      /\ StartSync
      /\ UNCHANGED <<driver, row, sessions, machine, active, mayResume, booting, bypassed, crashes, faults>>
  BY DEF TurnFinished, ArmIdle, records, bounds
<1>2. turns' \in 0..MaxTurns /\ timer' \in BOOLEAN
  BY <1>1, MeteringAssumption DEF MeteringInv, Typed, TypeOK
<1>3. /\ call' \in Calls /\ Others({"sync"}) /\ Begins /\ opening' \in OpeningState
      /\ call'["sync"].at \in {"insert", "reinsert"} => call'["sync"].on \in Machines
      /\ call'["sync"].at = "idle" => call'["sync"].kind = "none"
  BY <1>1, SyncGoes, Names DEF MeteringInv, Typed, Equipped, Resting
<1>4. Typed' /\ Structure' /\ Session'
  BY <1>1, <1>2, <1>3, SyncMoves
<1>5. Timing'
  <2>1. \A u \in Users : call'[u] = call[u]
    BY <1>3, Names DEF Others
  <2>2. call'["stop"] = call["stop"]
    BY <1>3, Names DEF Others
  <2>3. Operations' = Operations
    BY <2>1 DEF Operations, Operating
  <2>4. TimerAlone' /\ StopAlone'
    BY <1>1, <2>1, <2>2, <2>3 DEF MeteringInv, Timing, TimerAlone, StopAlone
  <2>5. Attention'
    BY <1>1, <2>3 DEF Attention, Attended
  <2> QED
    BY <2>4, <2>5 DEF Timing
<1> QED
  BY <1>4, <1>5 DEF MeteringInv

(* The owner's reconciliation.                                             *)
LEMMA SyncStorageKeeps ==
    ASSUME MeteringInv, SyncStorage
    PROVE  MeteringInv'
<1>1. /\ StartSync
      /\ UNCHANGED <<driver, row, sessions, machine, active, turns, timer, mayResume, booting, bypassed, crashes, faults>>
  BY DEF SyncStorage, records, bounds
<1>2. /\ call' \in Calls /\ Others({"sync"}) /\ Begins /\ opening' \in OpeningState
      /\ call'["sync"].at \in {"insert", "reinsert"} => call'["sync"].on \in Machines
      /\ call'["sync"].at = "idle" => call'["sync"].kind = "none"
  BY <1>1, SyncGoes, Names DEF MeteringInv, Typed, Equipped, Resting
<1> QED
  BY <1>1, <1>2, SyncMoves DEF MeteringInv, Typed, TypeOK

(* A reconciliation that has failed.                                       *)
LEMMA SyncFailsKeeps ==
    ASSUME MeteringInv, SyncFails
    PROVE  MeteringInv'
<1>1. /\ call' = [call EXCEPT !["sync"] = Idle]
      /\ UNCHANGED <<driver, row, sessions, machine, active, opening, turns, timer, mayResume, booting, bypassed, crashes, faults>>
  BY DEF SyncFails, records, bounds
<1>2. call \in Calls /\ "sync" \in Callers /\ opening \in OpeningState
  BY Names DEF MeteringInv, Typed, TypeOK, Calls
<1>3. /\ call' \in Calls /\ Others({"sync"}) /\ Begins /\ opening' \in OpeningState
      /\ call'["sync"] = Idle
  BY <1>1, <1>2, NoneIsNone, CallGoes DEF Others, Begins
<1> QED
  BY <1>1, <1>3, NoneIsNone, SyncMoves DEF MeteringInv, Typed, TypeOK

(* A reconciliation wakes the machine past the operations.                 *)
LEMMA SyncScansKeeps ==
    ASSUME MeteringInv, SyncScans
    PROVE  MeteringInv'
<1> DEFINE m == call["sync"].on
           p == m.provider
<1>1. /\ Exists(m) /\ machine' = [machine EXCEPT ![p].state = "running"]
      /\ bypassed' = (bypassed \/ ~Running(p))
      /\ call' = [call EXCEPT !["sync"] = Idle]
      /\ UNCHANGED <<driver, row, sessions, active, opening, turns, timer, mayResume, booting, crashes, faults>>
  BY DEF SyncScans, records, bounds
<1>2. call \in Calls /\ "sync" \in Callers /\ opening \in OpeningState
  BY Names DEF MeteringInv, Typed, TypeOK, Calls
<1>3. /\ call' \in Calls /\ Others({"sync"}) /\ Begins /\ opening' \in OpeningState
      /\ call'["sync"] = Idle
  BY <1>1, <1>2, NoneIsNone, CallGoes DEF Others, Begins
<1>4. m \in Machines /\ p \in Providers
  BY <1>1, <1>2, ExistsIsMachine, MachineParts DEF Calls, CallState, Exists
<1>5. machine' \in [Providers -> MachineState] /\ \A q \in Providers : machine'[q].id = machine[q].id
  BY <1>1, <1>4 DEF MeteringInv, Typed, TypeOK, MachineState
<1>6. bypassed' \/ machine' = machine
  <2>1. CASE Running(p)
    <3>1. [machine[p] EXCEPT !.state = "running"] = machine[p]
      BY <1>4, <2>1 DEF MeteringInv, Typed, TypeOK, MachineState, Running
    <3>2. machine' = [machine EXCEPT ![p] = machine[p]]
      BY <1>1, <3>1
    <3> QED
      BY <1>4, <3>2 DEF MeteringInv, Typed, TypeOK
  <2> QED
    BY <1>1, <2>1
<1>7. Typed'
  BY <1>1, <1>3, <1>5, NoneIsNone, CallersTyped, Names DEF MeteringInv, Typed, TypeOK, Calls
<1>8. Structure'
  BY <1>1, <1>3, <1>5, StructureStays, Names DEF MeteringInv, Others
<1>9. CASE bypassed'
  <2>1. Session'
    BY <1>9 DEF Session, OfDriver, Renewed, Counted, Paused, Gone, Fine
  <2>2. TimerAlone' /\ StopAlone'
    <3>1. \A u \in Users : call'[u] = call[u]
      BY <1>3, Names DEF Others
    <3>2. call'["stop"] = call["stop"]
      BY <1>3, Names DEF Others
    <3> QED
      BY <1>1, <3>1, <3>2 DEF MeteringInv, Timing, TimerAlone, StopAlone, Operations, Operating
  <2>3. Attention'
    BY <1>9 DEF Attention
  <2> QED
    BY <1>7, <1>8, <2>1, <2>2, <2>3 DEF MeteringInv, Timing
<1>10. CASE machine' = machine /\ ~bypassed'
  <2>1. bypassed' = bypassed
    BY <1>1, <1>10 DEF MeteringInv, Typed, TypeOK
  <2> QED
    BY <1>1, <1>3, <1>10, <2>1, <1>7, NoneIsNone, SyncMoves DEF MeteringInv
<1> QED
  BY <1>6, <1>9, <1>10


-----------------------------------------------------------------------------
(* The status.                                                             *)

(* Only the poll moves.                                                    *)
LEMMA PollMoves ==
    ASSUME MeteringInv, call' \in Calls, Others({"poll"}), Begins, opening' \in OpeningState,
           call'["poll"].at \notin {"insert", "reinsert"}, call'["poll"].at = "idle" => call'["poll"].kind = "none",
           UNCHANGED <<driver, row, sessions, machine, active, turns, timer, booting, bypassed, crashes, faults>>,
           mayResume' \in BOOLEAN
    PROVE  Typed' /\ Structure' /\ Timing'
<1>1. /\ \A u \in Users : call'[u] = call[u]
      /\ call'["owner"] = call["owner"] /\ call'["stop"] = call["stop"]
  BY Names DEF Others
<1>2. Equipped' /\ Resting' /\ Using'
  BY Names, CallersTyped DEF MeteringInv
<1>3. Typed'
  BY <1>2 DEF MeteringInv, Typed, TypeOK, Calls
<1>4. Structure'
  BY <1>1, StructureStays DEF MeteringInv
<1>5. Timing'
  BY <1>1, TimingStays DEF MeteringInv
<1> QED
  BY <1>3, <1>4, <1>5

(* The status is asked for.                                                *)
LEMMA PollKeeps ==
    ASSUME MeteringInv, Poll
    PROVE  MeteringInv'
<1>1. /\ Resolve(Go("poll", "opening"))
      /\ UNCHANGED <<driver, row, sessions, machine, active, turns, timer, mayResume, booting, bypassed, crashes, faults>>
  BY DEF Poll, records, bounds
<1>2. call \in Calls /\ "poll" \in Callers /\ opening \in OpeningState /\ mayResume \in BOOLEAN /\ "opening" \in Places
  BY Names DEF MeteringInv, Typed, TypeOK, Calls, Places
<1>3. /\ call' \in Calls /\ Others({"poll"}) /\ Begins /\ opening' \in OpeningState
      /\ call'["poll"].at = "opening"
  BY <1>1, <1>2, GoGoes, ResolveGoes DEF Others
<1>4. Typed' /\ Structure' /\ Timing'
  BY <1>1, <1>2, <1>3, PollMoves
<1>5. Session'
  BY <1>1, <1>3, SessionStays, Names DEF MeteringInv, Others
<1> QED
  BY <1>4, <1>5 DEF MeteringInv

(* What a poll may do to the sessions: it learns nothing that is not so.   *)
LEMMA PollSession ==
    ASSUME Session, driver' = driver, active' = active, machine' = machine, sessions' = sessions,
           bypassed' = bypassed, faults' = faults, opening' = opening, Others({"poll"}),
           Renewed', Sleeps /\ Stopped => Stopped'
    PROVE  Session'
<1>0. /\ \A u \in Users : call'[u] = call[u]
      /\ call'["owner"] = call["owner"] /\ call'["stop"] = call["stop"]
  BY Names DEF Others
<1>1. Awake' = Awake /\ Exists(active)' = Exists(active) /\ Running(active.provider)' = Running(active.provider)
  BY DEF Awake, Exists, Running
<1>2. Fine' = Fine
  BY DEF Fine
<1>3. OfDriver'
  BY <1>0, <1>2 DEF Session, OfDriver, Initializing, Running
<1>4. Counted'
  BY <1>0, <1>1, <1>2 DEF Session, Counted, Noticed, Notes, OwnerNotes, Initializing
<1>5. Stopping => Stopping'
  BY <1>0 DEF Stopping
<1>6. Paused'
  BY <1>0, <1>1, <1>2, <1>5 DEF Session, Paused, Sleeps
<1>7. Gone'
  BY <1>0, <1>1, <1>2 DEF Session, Gone
<1> QED
  BY <1>3, <1>4, <1>6, <1>7 DEF Session

(* The status is read.                                                     *)
LEMMA PollReadsKeeps ==
    ASSUME MeteringInv, PollReads
    PROVE  MeteringInv'
<1> DEFINE m == call["poll"].on
           ready == Exists(m) /\ Running(m.provider)
           place == IF ready THEN "ready" ELSE "unready"
<1>1. /\ call["poll"].at \in {"opened", "refused"}
      /\ call' = Leave("poll", place)
      /\ UNCHANGED <<driver, row, sessions, machine, active, opening, turns, timer, mayResume, booting, bypassed, crashes, faults>>
  BY DEF PollReads, records, bounds
<1>2. call \in Calls /\ "poll" \in Callers /\ opening \in OpeningState /\ mayResume \in BOOLEAN /\ place \in Places
  BY Names DEF MeteringInv, Typed, TypeOK, Calls, Places
<1>3. place \in {"ready", "unready"} /\ (place = "ready" => ready)
  OBVIOUS
<1> HIDE DEF place
<1>4. /\ call' \in Calls /\ Others({"poll"}) /\ call'["poll"].at = place
  BY <1>1, <1>2, LeaveGoes DEF Others
<1>5. Begins /\ opening' \in OpeningState
  BY <1>1, <1>2 DEF Begins
<1>6. Typed' /\ Structure' /\ Timing'
  BY <1>1, <1>2, <1>3, <1>4, <1>5, PollMoves
<1>7. Renewed'
  <2>1. Fine /\ active = NoComputer => call["poll"].at \in {"idle", "opening", "unready"}
    BY DEF MeteringInv, Session, Renewed
  <2> QED
    BY <1>1, <2>1 DEF Renewed, Fine
<1>8. ASSUME Sleeps, Stopped
      PROVE  Stopped'
  <2>1. call["poll"].at = "opened" /\ m = active
    BY <1>1, <1>8 DEF Stopped
  <2>2. ~ready
    BY <1>8, <2>1 DEF Sleeps
  <2>3. \A u \in Users : call'[u] = call[u]
    BY <1>4, Names DEF Others
  <2> QED
    BY <1>1, <1>3, <1>4, <1>8, <2>2, <2>3 DEF Stopped, Wakes
<1>9. Session'
  BY <1>1, <1>4, <1>7, <1>8, PollSession DEF MeteringInv
<1> QED
  BY <1>6, <1>9 DEF MeteringInv

(* The answer is noted.                                                    *)
LEMMA PollNotesKeeps ==
    ASSUME MeteringInv, PollNotes
    PROVE  MeteringInv'
<1>1. /\ call["poll"].at \in {"ready", "unready"} /\ mayResume' = (call["poll"].at # "ready")
      /\ call' = [call EXCEPT !["poll"] = Idle]
      /\ UNCHANGED <<driver, row, sessions, machine, active, opening, turns, timer, booting, bypassed, crashes, faults>>
  BY DEF PollNotes, records, bounds
<1>2. call \in Calls /\ "poll" \in Callers /\ opening \in OpeningState
  BY Names DEF MeteringInv, Typed, TypeOK, Calls
<1>3. /\ call' \in Calls /\ Others({"poll"}) /\ call'["poll"] = Idle /\ Begins /\ opening' \in OpeningState
  BY <1>1, <1>2, NoneIsNone, CallGoes DEF Others, Begins
<1>4. Typed' /\ Structure' /\ Timing'
  BY <1>1, <1>3, NoneIsNone, PollMoves
<1>5. \A u \in Users : call'[u] = call[u]
  BY <1>3, Names DEF Others
<1>6. Renewed'
  <2>1. Fine /\ active = NoComputer => mayResume'
    BY <1>1 DEF MeteringInv, Session, Renewed
  <2> QED
    BY <1>1, <1>3, <1>5, <2>1, NoneIsNone DEF MeteringInv, Session, Renewed, Fine
<1>7. Stopped => Stopped'
  BY <1>1, <1>3, <1>5, NoneIsNone DEF Stopped, Wakes
<1>8. Session'
  BY <1>1, <1>3, <1>6, <1>7, PollSession DEF MeteringInv
<1> QED
  BY <1>4, <1>8 DEF MeteringInv


-----------------------------------------------------------------------------
(* Stops.                                                                  *)

(* A stop is asked for: it begins unless one is under way.                 *)
LEMMA AskStopGoes ==
    ASSUME Typed, NEW reason \in Kinds, reason # "none", AskStop(reason)
    PROVE  /\ timer' = FALSE
           /\ call' \in Calls /\ Others({"stop"}) /\ call'["poll"] = Idle /\ Begins /\ opening' \in OpeningState
           /\ \/ call["stop"].at # "idle" /\ call'["stop"] = call["stop"]
              \/ /\ call["stop"].at = "idle" /\ call'["stop"].kind = reason
                 /\ call'["stop"].at \in {"opening", "opened"}
<1>0. call \in Calls /\ opening \in OpeningState /\ "stop" \in Callers /\ "poll" \in Callers /\ active \in Computers
  BY Names DEF Typed, TypeOK, Calls
<1> DEFINE calls == Forget(call)
<1>1. calls \in Calls /\ calls["poll"] = Idle /\ \A b \in Callers \ {"poll"} : calls[b] = call[b]
  BY <1>0, NoneIsNone DEF Calls, Forget
<1>2. timer' = FALSE
  BY DEF AskStop
<1>3. CASE call["stop"].at # "idle"
  <2>1. call' = calls /\ opening' = opening
    BY <1>3 DEF AskStop
  <2> HIDE DEF calls
  <2> QED
    BY <1>0, <1>1, <1>2, <1>3, <2>1 DEF Others, Begins
<1>4. CASE call["stop"].at = "idle" /\ active = NoComputer
  <2> DEFINE c == [calls["stop"] EXCEPT !.at = "opening", !.kind = reason]
             new == [calls EXCEPT !["stop"] = c]
  <2>1. calls["stop"] \in CallState
    BY <1>0, <1>1 DEF Calls
  <2>2. c \in CallState /\ c.at = "opening" /\ c.kind = reason
    BY <2>1 DEF CallState, Places
  <2>3. Resolve(new)
    BY <1>4 DEF AskStop
  <2> HIDE DEF calls, c
  <2>4. new \in Calls /\ new["stop"] = c /\ \A b \in Callers \ {"stop"} : new[b] = calls[b]
    BY <1>0, <1>1, <2>2 DEF Calls
  <2> HIDE DEF new
  <2>5. call' = new /\ Begins /\ opening' \in OpeningState
    BY <1>0, <2>3, <2>4, ResolveGoes
  <2> QED
    BY <1>0, <1>1, <1>2, <1>4, <2>2, <2>4, <2>5 DEF Others
<1>5. CASE call["stop"].at = "idle" /\ active # NoComputer
  <2> DEFINE c == [Idle EXCEPT !.at = "opened", !.kind = reason, !.on = active]
  <2>1. c \in CallState /\ c.at = "opened" /\ c.kind = reason
    BY <1>0, NoneIsNone DEF CallState, Places
  <2>2. call' = [calls EXCEPT !["stop"] = c] /\ opening' = opening
    BY <1>5 DEF AskStop
  <2> HIDE DEF calls, c
  <2>3. call' \in Calls /\ call'["stop"] = c /\ \A b \in Callers \ {"stop"} : call'[b] = calls[b]
    BY <1>0, <1>1, <2>1, <2>2 DEF Calls
  <2> QED
    BY <1>0, <1>1, <1>2, <1>5, <2>1, <2>2, <2>3 DEF Others, Begins
<1> QED
  BY <1>3, <1>4, <1>5

(* Whoever asks for a stop, everything is kept.                            *)
LEMMA AskStopKeeps ==
    ASSUME MeteringInv, NEW reason \in {"stopped", "idle"}, AskStop(reason),
           reason = "idle" => timer,
           UNCHANGED <<driver, row, sessions, machine, active, turns, mayResume, booting, bypassed, crashes, faults>>
    PROVE  MeteringInv'
<1>0. reason \in Kinds /\ reason # "none"
  BY DEF Kinds
<1>1. /\ timer' = FALSE
      /\ call' \in Calls /\ Others({"stop"}) /\ call'["poll"] = Idle /\ Begins /\ opening' \in OpeningState
      /\ \/ call["stop"].at # "idle" /\ call'["stop"] = call["stop"]
         \/ /\ call["stop"].at = "idle" /\ call'["stop"].kind = reason
            /\ call'["stop"].at \in {"opening", "opened"}
  BY <1>0, AskStopGoes DEF MeteringInv
<1>2. /\ \A u \in Users : call'[u] = call[u]
      /\ call'["owner"] = call["owner"]
  BY <1>1, Names DEF Others
<1>3. Typed'
  <2>1. Equipped' /\ Resting' /\ Using'
    BY <1>1, Names, CallersTyped DEF MeteringInv, Typed, Equipped, Resting
  <2> QED
    BY <1>1, <2>1 DEF MeteringInv, Typed, TypeOK, Calls
<1>4. Structure'
  BY <1>1, <1>2, StructureStays DEF MeteringInv
<1>5. Timing'
  <2>1. timer => \A u \in Users : call[u].at \in Untouched
    BY DEF MeteringInv, Typed, Using, UserPlaces, Timing, TimerAlone, Operations, Operating, Untouched
  <2>2. StopAlone'
    BY <1>1, <1>2, <2>1 DEF MeteringInv, Timing, StopAlone
  <2>3. call'["stop"].at # "idle"
    BY <1>1
  <2> QED
    BY <1>1, <2>2, <2>3 DEF Timing, TimerAlone, Attention, Attended
<1>6. Session'
  BY <1>1, <1>2, NoneIsNone, SessionStays DEF MeteringInv
<1> QED
  BY <1>3, <1>4, <1>5, <1>6 DEF MeteringInv

(* The owner stops the computer.                                           *)
LEMMA StopKeeps ==
    ASSUME MeteringInv, Stop
    PROVE  MeteringInv'
BY AskStopKeeps DEF Stop, records, bounds

(* The idle timer fires.                                                   *)
LEMMA TimerFiresKeeps ==
    ASSUME MeteringInv, TimerFires
    PROVE  MeteringInv'
BY AskStopKeeps DEF TimerFires, records, bounds


(* The stop pauses the machine.                                            *)
LEMMA StopPausesKeeps ==
    ASSUME MeteringInv, StopPauses
    PROVE  MeteringInv'
<1> DEFINE m == call["stop"].on
           p == m.provider
<1>1. /\ call["stop"].at = "opened" /\ Exists(m)
      /\ machine' = [machine EXCEPT ![p].state = "paused"]
      /\ call' = Go("stop", "close")
      /\ bypassed' = (m # active \/ active.provider # driver \/ Calling)
      /\ UNCHANGED <<driver, row, sessions, active, opening, turns, timer, mayResume, booting, crashes, faults>>
  BY DEF StopPauses, records, bounds
<1>2. call \in Calls /\ "stop" \in Callers /\ opening \in OpeningState /\ "close" \in Places
  BY Names DEF MeteringInv, Typed, TypeOK, Calls, Places
<1>3. /\ call' \in Calls /\ Others({"stop"}) /\ call'["stop"].at = "close" /\ call'["stop"].kind = call["stop"].kind
  BY <1>1, <1>2, GoGoes DEF Others
<1>4. Begins
  BY <1>1 DEF Begins
<1>5. m \in Machines /\ p \in Providers
  BY <1>1, <1>2, ExistsIsMachine, MachineParts DEF Calls, CallState, Exists
<1>6. /\ machine' \in [Providers -> MachineState] /\ \A q \in Providers : machine'[q].id = machine[q].id
      /\ machine'[p].state = "paused"
  BY <1>1, <1>5 DEF MeteringInv, Typed, TypeOK, MachineState
<1>7. /\ \A u \in Users : call'[u] = call[u]
      /\ call'["owner"] = call["owner"]
  BY <1>3, Names DEF Others
<1>8. Typed'
  <2>1. Equipped' /\ Resting' /\ Using'
    BY <1>2, <1>3, <1>4, Names, CallersTyped DEF MeteringInv
  <2>2. bypassed' \in BOOLEAN
    BY <1>1
  <2> QED
    BY <1>1, <1>2, <1>3, <1>6, <2>1, <2>2 DEF MeteringInv, Typed, TypeOK, Calls
<1>9. Structure'
  BY <1>1, <1>4, <1>6, <1>7, StructureStays DEF MeteringInv
<1>10. Timing'
  <2>1. TimerAlone' /\ StopAlone'
    BY <1>1, <1>3, <1>7 DEF MeteringInv, Timing, TimerAlone, StopAlone, Operations, Operating
  <2>2. Attended'
    BY <1>3 DEF Attended
  <2> QED
    BY <2>1, <2>2 DEF Timing, Attention
<1>11. Session'
  <2>1. CASE bypassed'
    BY <2>1 DEF Session, OfDriver, Renewed, Counted, Paused, Gone, Fine
  <2>2. CASE ~bypassed'
    <3>1. m = active /\ active.provider = driver /\ ~Calling
      BY <1>1, <2>2
    <3>2. active # NoComputer /\ p = active.provider
      BY <1>5, <3>1, MachineParts
    <3>3. opening.at # "opened"
      BY <3>1, <3>2 DEF MeteringInv, Structure, Opens
    <3>4. OfDriver'
      BY <1>1, <3>1, <3>3 DEF OfDriver
    <3>5. Renewed'
      BY <1>1, <3>2 DEF Renewed
    <3>6. Counted'
      BY <1>1, <1>6, <3>2 DEF Counted, Awake, Running
    <3>7. Paused'
      <4>1. call["owner"].at = "idle" /\ \A u \in Users : call[u].at \in {"idle", "waiting", "refused"}
        BY <3>1 DEF Calling
      <4>2. call["owner"].kind = "none"
        BY <4>1, Names DEF MeteringInv, Typed, Resting
      <4>3. Stopping'
        BY <1>3, <1>7, <4>1 DEF Stopping
      <4> QED
        BY <1>7, <4>1, <4>2, <4>3 DEF Paused
    <3>8. Gone'
      BY <1>1, <1>5, <1>6, <3>1 DEF Gone, Exists
    <3> QED
      BY <3>4, <3>5, <3>6, <3>7, <3>8 DEF Session
  <2> QED
    BY <2>1, <2>2
<1> QED
  BY <1>8, <1>9, <1>10, <1>11 DEF MeteringInv

(* The stop closes the session.                                            *)
LEMMA StopClosesKeeps ==
    ASSUME MeteringInv, StopCloses
    PROVE  MeteringInv'
<1> DEFINE calls == [call EXCEPT !["stop"] = Idle]
<1>1. /\ call["stop"].at = "close"
      /\ sessions' = IF active = NoComputer THEN sessions ELSE [sessions EXCEPT ![active.provider] = {}]
      /\ mayResume' = TRUE
      /\ call' = Forget(calls)
      /\ bypassed' = (bypassed \/ Calling \/ Running(call["stop"].on.provider) \/ Awake)
      /\ UNCHANGED <<driver, row, machine, active, opening, turns, timer, booting, crashes, faults>>
  BY DEF StopCloses, records, bounds
<1>2. call \in Calls /\ "stop" \in Callers /\ opening \in OpeningState
  BY Names DEF MeteringInv, Typed, TypeOK, Calls
<1>3. calls \in Calls /\ calls["stop"] = Idle /\ \A b \in Callers \ {"stop"} : calls[b] = call[b]
  BY <1>2, NoneIsNone DEF Calls
<1> HIDE DEF calls
<1>4. call' \in Calls /\ Others({"stop"}) /\ call'["stop"] = Idle /\ call'["poll"] = Idle
  BY <1>1, <1>2, <1>3, ForgetGoes DEF Others
<1>5. Begins
  BY <1>1 DEF Begins
<1>6. /\ \A u \in Users : call'[u] = call[u]
      /\ call'["owner"] = call["owner"]
  BY <1>4, Names DEF Others
<1>7. active # NoComputer => active.provider \in Providers
  BY MachineParts DEF MeteringInv, Typed, TypeOK, Computers
<1>8. Typed'
  <2>1. Equipped' /\ Resting' /\ Using'
    BY <1>2, <1>4, <1>5, Names, NoneIsNone, CallersTyped DEF MeteringInv
  <2>2. bypassed' \in BOOLEAN /\ mayResume' \in BOOLEAN
    BY <1>1
  <2>3. sessions' \in [Providers -> SUBSET (1..MaxInstances)] /\ \A p \in Providers : \A a, b \in sessions'[p] : a = b
    BY <1>1, <1>7 DEF MeteringInv, Typed, TypeOK
  <2> QED
    BY <1>1, <1>2, <1>4, <2>1, <2>2, <2>3 DEF MeteringInv, Typed, TypeOK, Calls
<1>9. Structure'
  BY <1>1, <1>5, <1>6, StructureStays DEF MeteringInv
<1>10. Awake' = Awake /\ Sleeps' = Sleeps /\ Exists(active)' = Exists(active)
  BY <1>1 DEF Awake, Sleeps, Exists, Running
<1>11. Timing'
  <2>1. TimerAlone' /\ StopAlone'
    BY <1>1, <1>4, <1>6, NoneIsNone DEF MeteringInv, Timing, TimerAlone, StopAlone, Operations, Operating
  <2>2. Attention'
    BY <1>1, <1>10 DEF Attention
  <2> QED
    BY <2>1, <2>2 DEF Timing
<1>12. Session'
  <2>1. CASE bypassed'
    BY <2>1 DEF Session, OfDriver, Renewed, Counted, Paused, Gone, Fine
  <2>2. CASE ~bypassed'
    <3>1. ~Awake /\ (Fine' => Fine)
      BY <1>1, <2>2 DEF Fine
    <3>2. OfDriver'
      BY <1>1, <1>6, <3>1 DEF MeteringInv, Session, OfDriver, Initializing, Running
    <3>3. Renewed'
      BY <1>1, <1>4, <1>6, <3>1, NoneIsNone DEF MeteringInv, Session, Renewed
    <3>4. Counted'
      BY <1>10, <3>1 DEF Counted
    <3>5. Paused'
      <4>1. ASSUME Sleeps, Fine
            PROVE  Stopped'
        <5>1. sessions'[active.provider] = {}
          BY <1>1, <1>7, <4>1 DEF Sleeps, MeteringInv, Typed, TypeOK
        <5>2. \A u \in Users : Wakes(u)
          BY <4>1 DEF MeteringInv, Session, Paused, Stopping, Stopped, Wakes
        <5> QED
          BY <1>1, <1>4, <1>6, <5>1, <5>2, NoneIsNone DEF Stopped, Wakes
      <4> QED
        BY <1>6, <1>10, <3>1, <4>1 DEF MeteringInv, Session, Paused
    <3>6. Gone'
      BY <1>1, <1>6, <1>10, <3>1 DEF MeteringInv, Session, Gone
    <3> QED
      BY <3>2, <3>3, <3>4, <3>5, <3>6 DEF Session
  <2> QED
    BY <2>1, <2>2
<1> QED
  BY <1>8, <1>9, <1>11, <1>12 DEF MeteringInv

(* The stop fails, and so does who waits for it.                           *)
LEMMA StopFailsKeeps ==
    ASSUME MeteringInv, StopFails
    PROVE  MeteringInv'
<1> DEFINE c(b) == [call[b] EXCEPT !.at = "refused"]
           calls == [b \in Callers |-> IF b = "stop" THEN Idle
                     ELSE IF call[b].at \in {"waiting", "stopping"} THEN c(b) ELSE call[b]]
<1>1. /\ call' = Forget(calls) /\ bypassed' = TRUE
      /\ UNCHANGED <<driver, row, sessions, machine, active, opening, turns, timer, mayResume, booting, crashes>>
  BY DEF StopFails, records
<1>2. faults' \in 0..MaxFaults
  <2>1. faults' = faults \/ Fault("stop")
    BY DEF StopFails
  <2> QED
    BY <2>1, MeteringAssumption DEF MeteringInv, Typed, TypeOK, Fault
<1>3. call \in Calls /\ "stop" \in Callers
  BY Names DEF MeteringInv, Typed, TypeOK, Calls
<1>4. ASSUME NEW b \in Callers
      PROVE  c(b) \in CallState /\ c(b).at = "refused" /\ c(b).kind = call[b].kind
  <2>1. call[b] \in CallState
    BY <1>3 DEF Calls
  <2> QED
    BY <2>1 DEF CallState, Places
<1> HIDE DEF c
<1>5. calls \in Calls
  BY <1>3, <1>4, NoneIsNone DEF Calls
<1>6. \A b \in Callers : calls[b] = IF b = "stop" THEN Idle
                                    ELSE IF call[b].at \in {"waiting", "stopping"} THEN c(b) ELSE call[b]
  OBVIOUS
<1> HIDE DEF calls
<1>7. /\ call' \in Calls /\ call'["stop"] = Idle /\ call'["poll"] = Idle
      /\ \A b \in Callers \ {"stop", "poll"} :
            IF call[b].at \in {"waiting", "stopping"} THEN call'[b].at = "refused" /\ call'[b].kind = call[b].kind
            ELSE call'[b] = call[b]
  BY <1>1, <1>3, <1>4, <1>5, <1>6, ForgetGoes
<1>8. Typed'
  <2>1. Equipped'
    BY <1>1, <1>7, NoneIsNone DEF MeteringInv, Typed, Equipped
  <2>2. Resting'
    BY <1>7, NoneIsNone DEF MeteringInv, Typed, Resting
  <2>3. Using'
    BY <1>7, Names DEF MeteringInv, Typed, Using, UserPlaces
  <2> QED
    BY <1>1, <1>2, <1>7, <2>1, <2>2, <2>3 DEF MeteringInv, Typed, TypeOK, Calls
<1>9. Structure'
  <2>1. call'["owner"] = call["owner"] \/ (call'["owner"].at = "refused" /\ call["owner"].at \in {"waiting", "stopping"})
    BY <1>7, Names
  <2>2. CASE call'["owner"] = call["owner"]
    BY <1>1, <2>2, StructureStays DEF MeteringInv, Begins
  <2>3. CASE call'["owner"].at = "refused" /\ call["owner"].at \in {"waiting", "stopping"}
    <3>1. Opens'
      BY <1>1, <2>3 DEF MeteringInv, Structure, Opens, Initializing
    <3>2. Known'
      BY <1>1 DEF MeteringInv, Structure, Known
    <3>3. Owned'
      BY <1>1, <2>3 DEF Owned, Destroying, Releasing
    <3> QED
      BY <3>1, <3>2, <3>3 DEF Structure
  <2> QED
    BY <2>1, <2>2, <2>3
<1>10. Timing'
  <2>1. ASSUME NEW u \in Users
        PROVE  Operating(u)' <=> Operating(u)
    <3>1. u \in Callers \ {"stop", "poll"}
      BY Names
    <3>2. CASE call[u].at = "waiting"
      BY <1>7, <3>1, <3>2 DEF Operating
    <3>3. CASE call[u].at = "stopping"
      BY <3>3 DEF MeteringInv, Typed, Using, UserPlaces
    <3>4. CASE call[u].at \notin {"waiting", "stopping"}
      BY <1>7, <3>1, <3>4 DEF Operating
    <3> QED
      BY <3>2, <3>3, <3>4
  <2>2. TimerAlone'
    BY <1>1, <2>1 DEF MeteringInv, Timing, TimerAlone, Operations
  <2>3. StopAlone'
    BY <1>7, NoneIsNone DEF StopAlone
  <2> QED
    BY <1>1, <2>2, <2>3 DEF Timing, Attention
<1>11. Session'
  BY <1>1 DEF Session, OfDriver, Renewed, Counted, Paused, Gone, Fine
<1> QED
  BY <1>8, <1>9, <1>10, <1>11 DEF MeteringInv


-----------------------------------------------------------------------------
(* Operations.                                                             *)

(* Past a stop: the caller waits for the opening, and knows whether the    *)
(* machine may have to wake.                                               *)
LEMMA ProceedGoes ==
    ASSUME Typed, NEW u \in Users, NEW calls \in Calls, Proceed(u, calls)
    PROVE  /\ call' \in Calls /\ Begins /\ opening' \in OpeningState
           /\ call'[u].at = "opening" /\ call'[u].kind = calls[u].kind /\ call'[u].resumed = mayResume
           /\ \A b \in Callers \ {u} : call'[b] = calls[b] \/ (b = "poll" /\ call'[b] = Idle)
<1> DEFINE c == [calls[u] EXCEPT !.at = "opening", !.resumed = mayResume]
           now == [calls EXCEPT ![u] = c]
           then == IF mayResume THEN Forget(now) ELSE now
<1>1. u \in Callers /\ u # "poll" /\ "poll" \in Callers /\ opening \in OpeningState /\ mayResume \in BOOLEAN
  BY Names DEF Typed, TypeOK
<1>2. calls[u] \in CallState
  BY <1>1 DEF Calls
<1>3. c \in CallState /\ c.at = "opening" /\ c.kind = calls[u].kind /\ c.resumed = mayResume
  BY <1>1, <1>2 DEF CallState, Places
<1>4. Resolve(then)
  BY DEF Proceed
<1> HIDE DEF c
<1>5. now \in Calls /\ now[u] = c /\ \A b \in Callers \ {u} : now[b] = calls[b]
  BY <1>1, <1>3 DEF Calls
<1> HIDE DEF now
<1>6. then \in Calls /\ then[u] = c /\ \A b \in Callers \ {u} : then[b] = calls[b] \/ (b = "poll" /\ then[b] = Idle)
  BY <1>1, <1>3, <1>5, NoneIsNone DEF Calls, Forget
<1> HIDE DEF then
<1> QED
  BY <1>1, <1>3, <1>4, <1>6, ResolveGoes

(* A user that moves does not touch the structure.                         *)
LEMMA UserStructure ==
    ASSUME MeteringInv, NEW u \in Users, Others({u}), Begins, driver' = driver, active' = active,
           \A p \in Providers : machine'[p].id = machine[p].id
    PROVE  Structure'
BY StructureStays, Names DEF MeteringInv, Others

(* A user that has begun, or goes on, and is counted.                      *)
LEMMA OperatesTiming ==
    ASSUME MeteringInv, NEW u \in Users, Others({u}), Operating(u)', timer' = FALSE,
           call'[u].at \in Untouched \/ call["stop"].kind # "idle"
    PROVE  Timing'
<1>1. u \in Operations'
  BY DEF Operations
<1>2. StopAlone'
  BY Names DEF MeteringInv, Timing, StopAlone, Others
<1> QED
  BY <1>1, <1>2 DEF Timing, TimerAlone, Attention, Attended

(* Who is counted has put the timer off.                                   *)
LEMMA OperatesUntimed ==
    ASSUME MeteringInv, NEW u \in Users, Operating(u)
    PROVE  timer = FALSE
<1>1. u \in Operations
  BY DEF Operations
<1> QED
  BY <1>1 DEF MeteringInv, Timing, TimerAlone, Typed, TypeOK

(* A user waits for the stop, or past one for the opening.                 *)
LEMMA WaitsSession ==
    ASSUME MeteringInv, NEW u \in Users, Others({u}), Begins, call[u].at \in {"idle", "waiting"},
           \/ call'[u].at = "waiting"
           \/ call'[u].at = "opening" /\ call'[u].resumed = mayResume /\ call["stop"].at = "idle",
           UNCHANGED <<driver, sessions, machine, active, mayResume, bypassed, faults>>
    PROVE  Session'
<1>1. /\ call'["owner"] = call["owner"] /\ call'["stop"] = call["stop"]
      /\ call'["poll"] = call["poll"] \/ call'["poll"] = Idle
      /\ \A v \in Users \ {u} : call'[v] = call[v]
  BY Names DEF Others
<1>2. Awake' = Awake /\ Sleeps' = Sleeps /\ Exists(active)' = Exists(active) /\ Fine' = Fine
  BY DEF Awake, Sleeps, Exists, Running, Fine
<1>3. OfDriver'
  BY <1>1, <1>2 DEF MeteringInv, Session, OfDriver, Initializing, Begins, Running
<1>4. Renewed'
  BY <1>1, <1>2, NoneIsNone DEF MeteringInv, Session, Renewed, Untouched
<1>5. Counted'
  <2>1. Noticed => Noticed'
    BY <1>1 DEF Noticed, Notes, OwnerNotes, Initializing
  <2> QED
    BY <1>2, <2>1 DEF MeteringInv, Session, Counted
<1>6. Paused'
  <2>1. Stopping => Stopping'
    BY <1>1 DEF Stopping
  <2>2. Stopped => Stopped'
    BY <1>1, NoneIsNone DEF Stopped, Wakes
  <2> QED
    BY <1>1, <1>2, <2>1, <2>2 DEF MeteringInv, Session, Paused
<1>7. Gone'
  BY <1>1, <1>2 DEF MeteringInv, Session, Gone
<1> QED
  BY <1>3, <1>4, <1>5, <1>6, <1>7 DEF Session

(* An operation begins.                                                    *)
LEMMA UseStartKeeps ==
    ASSUME MeteringInv, NEW u \in Users, NEW kind \in {"exec", "restart"}, UseStart(u, kind)
    PROVE  MeteringInv'
<1> DEFINE c == [call[u] EXCEPT !.kind = kind]
           begun == [call EXCEPT ![u] = c]
           calls == IF kind = "restart" THEN Forget(begun) ELSE begun
<1>1. /\ call[u].at = "idle" /\ timer' = FALSE
      /\ IF call["stop"].at = "idle" THEN Proceed(u, calls)
         ELSE call' = [calls EXCEPT ![u].at = "waiting"] /\ UNCHANGED opening
      /\ UNCHANGED <<driver, row, sessions, machine, active, turns, mayResume, booting, bypassed, crashes, faults>>
  BY DEF UseStart, records, bounds
<1>2. call \in Calls /\ opening \in OpeningState /\ mayResume \in BOOLEAN /\ u \in Callers /\ u # "poll" /\ u # "stop"
      /\ {"poll", "stop"} \subseteq Callers
  BY Names DEF MeteringInv, Typed, TypeOK, Calls
<1>3. c \in CallState /\ c.kind = kind /\ c.at = "idle"
  <2>1. call[u] \in CallState
    BY <1>2 DEF Calls
  <2> QED
    BY <1>1, <2>1 DEF CallState, Kinds
<1> HIDE DEF c
<1>4. begun \in Calls /\ begun[u] = c /\ \A b \in Callers \ {u} : begun[b] = call[b]
  BY <1>2, <1>3 DEF Calls
<1> HIDE DEF begun
<1>5. calls \in Calls /\ calls[u] = c /\ \A b \in Callers \ {u} : calls[b] = call[b] \/ (b = "poll" /\ calls[b] = Idle)
  BY <1>2, <1>3, <1>4, NoneIsNone DEF Calls, Forget
<1> HIDE DEF calls
<1>6. /\ call' \in Calls /\ Others({u}) /\ Begins /\ opening' \in OpeningState
      /\ \/ call'[u].at = "waiting" /\ call["stop"].at # "idle"
         \/ call'[u].at = "opening" /\ call'[u].resumed = mayResume /\ call["stop"].at = "idle"
  <2>1. CASE call["stop"].at = "idle"
    BY <1>1, <1>2, <1>5, <2>1, ProceedGoes DEF MeteringInv, Others
  <2>2. CASE call["stop"].at # "idle"
    <3> DEFINE d == [c EXCEPT !.at = "waiting"]
    <3>1. d \in CallState /\ d.at = "waiting"
      BY <1>3 DEF CallState, Places
    <3>2. call' = [calls EXCEPT ![u] = d] /\ opening' = opening
      BY <1>1, <1>5, <2>2
    <3> HIDE DEF d
    <3> QED
      BY <1>2, <1>5, <2>2, <3>1, <3>2 DEF Calls, Others, Begins
  <2> QED
    BY <2>1, <2>2
<1>7. Typed'
  <2>1. Equipped' /\ Resting' /\ Using'
    BY <1>2, <1>6, CallersTyped DEF MeteringInv, UserPlaces
  <2> QED
    BY <1>1, <1>6, <2>1 DEF MeteringInv, Typed, TypeOK, Calls
<1>8. Structure'
  BY <1>1, <1>6, UserStructure
<1>9. Timing'
  <2>1. call["stop"].at = "idle" => call["stop"].kind = "none"
    BY <1>2 DEF MeteringInv, Typed, Resting
  <2> QED
    BY <1>1, <1>6, <2>1, OperatesTiming DEF Operating, Untouched
<1>10. Session'
  BY <1>1, <1>6, WaitsSession
<1> QED
  BY <1>7, <1>8, <1>9, <1>10 DEF MeteringInv

(* The stop is over, and the operation goes on.                            *)
LEMMA UseGoesOnKeeps ==
    ASSUME MeteringInv, NEW u \in Users, UseGoesOn(u)
    PROVE  MeteringInv'
<1>1. /\ call[u].at = "waiting" /\ call["stop"].at = "idle" /\ Proceed(u, call)
      /\ UNCHANGED <<driver, row, sessions, machine, active, turns, timer, mayResume, booting, bypassed, crashes, faults>>
  BY DEF UseGoesOn, records, bounds
<1>2. call \in Calls /\ u \in Callers /\ "stop" \in Callers
  BY Names DEF MeteringInv, Typed, TypeOK, Calls
<1>3. /\ call' \in Calls /\ Others({u}) /\ Begins /\ opening' \in OpeningState
      /\ call'[u].at = "opening" /\ call'[u].resumed = mayResume
  BY <1>1, <1>2, ProceedGoes DEF MeteringInv, Others
<1>4. Typed'
  <2>1. Equipped' /\ Resting' /\ Using'
    BY <1>2, <1>3, CallersTyped DEF MeteringInv, UserPlaces
  <2> QED
    BY <1>1, <1>3, <2>1 DEF MeteringInv, Typed, TypeOK, Calls
<1>5. Structure'
  BY <1>1, <1>3, UserStructure
<1>6. Timing'
  <2>1. call["stop"].kind = "none" /\ timer = FALSE
    BY <1>1, <1>2, OperatesUntimed DEF MeteringInv, Typed, Resting, Operating
  <2> QED
    BY <1>1, <1>3, <2>1, OperatesTiming DEF Operating
<1>7. Session'
  BY <1>1, <1>3, WaitsSession
<1> QED
  BY <1>4, <1>5, <1>6, <1>7 DEF MeteringInv


(* A user neither changes whose the open computer is nor puts it to sleep. *)
LEMMA UserFrame ==
    ASSUME MeteringInv, NEW u \in Users, Others({u}), opening' = opening, driver' = driver, active' = active,
           \A p \in Providers : machine'[p].id = machine[p].id /\ (Running(p) => Running(p)'), Fine' => Fine
    PROVE  OfDriver' /\ Gone'
<1>1. call'["owner"] = call["owner"]
  BY Names DEF Others
<1>2. opening.at = "opened" => opening.on.provider \in Providers
  BY MachineParts DEF MeteringInv, Typed, Equipped
<1>3. active # NoComputer => active.provider \in Providers
  BY MachineParts DEF MeteringInv, Typed, TypeOK, Computers
<1>4. OfDriver'
  <2>1. ASSUME Fine
        PROVE  /\ active # NoComputer /\ active.provider # driver => Initializing({"opening"})' /\ opening.at # "no"
               /\ opening.at = "opened" => Running(opening.on.provider)'
    BY <1>1, <1>2, <2>1 DEF MeteringInv, Session, OfDriver, Initializing, Running
  <2> QED
    BY <2>1 DEF OfDriver, Running
<1>5. Gone'
  BY <1>1, <1>3 DEF MeteringInv, Session, Gone, Exists
<1> QED
  BY <1>4, <1>5

(* The call reaches the machine, once or again, and wakes it.              *)
LEMMA WakesKeeps ==
    ASSUME MeteringInv, NEW u \in Users, call[u].at \in {"opened", "calling"}, Exists(call[u].on),
           machine' = [machine EXCEPT ![call[u].on.provider].state = "running"],
           call' = Go(u, "calling"),
           UNCHANGED <<driver, row, sessions, active, opening, turns, timer, mayResume, booting, bypassed, crashes, faults>>
    PROVE  MeteringInv'
<1> DEFINE m == call[u].on
           p == m.provider
<1>1. call \in Calls /\ u \in Callers /\ opening \in OpeningState /\ "calling" \in Places
  BY Names DEF MeteringInv, Typed, TypeOK, Calls, Places
<1>2. /\ call' \in Calls /\ Others({u}) /\ call'[u].at = "calling"
      /\ call'[u].on = m /\ call'[u].resumed = call[u].resumed
  BY <1>1, GoGoes DEF Others
<1>3. Begins
  BY DEF Begins
<1>4. m \in Computers
  BY <1>1 DEF Calls, CallState
<1>5. m \in Machines /\ p \in Providers
  BY <1>4, ExistsIsMachine, MachineParts DEF Exists
<1>6. /\ machine' \in [Providers -> MachineState]
      /\ \A q \in Providers : machine'[q].id = machine[q].id /\ (q # p => machine'[q] = machine[q])
      /\ machine'[p].state = "running"
  <2> DEFINE c == [machine[p] EXCEPT !.state = "running"]
  <2>1. machine[p] \in MachineState
    BY <1>5 DEF MeteringInv, Typed, TypeOK
  <2>2. c \in MachineState /\ c.id = machine[p].id /\ c.state = "running"
    BY <2>1 DEF MachineState
  <2>3. machine' = [machine EXCEPT ![p] = c]
    OBVIOUS
  <2> HIDE DEF c
  <2>4. machine' \in [Providers -> MachineState] /\ machine'[p] = c /\ \A q \in Providers \ {p} : machine'[q] = machine[q]
    BY <1>5, <2>2, <2>3 DEF MeteringInv, Typed, TypeOK
  <2> QED
    BY <2>2, <2>4
<1>7. \A q \in Providers : Running(q) => Running(q)'
  BY <1>6 DEF Running
<1>8. Typed'
  <2>1. Equipped' /\ Resting' /\ Using'
    BY <1>1, <1>2, <1>3, CallersTyped DEF MeteringInv, UserPlaces
  <2> QED
    BY <1>1, <1>2, <1>6, <2>1 DEF MeteringInv, Typed, TypeOK, Calls
<1>9. Structure'
  BY <1>2, <1>3, <1>6, UserStructure
<1>10. Operating(u) /\ Operating(u)'
  BY <1>2 DEF Operating
<1>11. Timing'
  <2>1. call["stop"].kind # "idle"
    BY DEF MeteringInv, Timing, StopAlone, Untouched
  <2> QED
    BY <1>2, <1>10, <2>1, OperatesUntimed, OperatesTiming
<1>12. Fine' = Fine
  BY DEF Fine
<1>13. OfDriver' /\ Gone'
  BY <1>2, <1>6, <1>7, <1>12, UserFrame
<1>14. Fine => active # NoComputer
  BY DEF MeteringInv, Session, Renewed, Untouched
<1>15. Fine /\ Sleeps => m = active /\ call[u].resumed
  BY DEF MeteringInv, Session, Paused, Stopping, Stopped, Wakes
<1>16. Exists(active)' = Exists(active) \/ active = NoComputer
  <2>1. active # NoComputer => active.provider \in Providers
    BY MachineParts DEF MeteringInv, Typed, TypeOK, Computers
  <2> QED
    BY <1>6, <2>1 DEF Exists
<1>17. Counted'
  <2>1. ASSUME Fine, Awake', active # NoComputer
        PROVE  sessions[active.provider] = {active.id} \/ Noticed'
    <3>1. Exists(active)
      BY <1>16, <2>1 DEF Awake
    <3>2. CASE Sleeps
      BY <1>2, <1>15, <2>1, <3>2 DEF Noticed, Notes
    <3>3. CASE ~Sleeps
      <4>1. Awake
        BY <2>1, <3>1, <3>3 DEF Sleeps, Awake
      <4>2. Noticed => Noticed'
        BY <1>2, Names DEF Noticed, Notes, OwnerNotes, Initializing, Others
      <4> QED
        BY <2>1, <4>1, <4>2 DEF MeteringInv, Session, Counted
    <3> QED
      BY <3>2, <3>3
  <2> QED
    BY <1>12, <2>1 DEF Counted
<1>18. Paused'
  <2>1. ASSUME Fine, Sleeps'
        PROVE  FALSE
    <3>1. active.provider \in Providers
      BY <1>14, <2>1, MachineParts DEF MeteringInv, Typed, TypeOK, Computers
    <3>2. Sleeps
      BY <1>7, <1>14, <1>16, <2>1, <3>1 DEF Sleeps, Running
    <3>3. p = active.provider
      BY <1>15, <2>1, <3>2
    <3> QED
      BY <1>6, <2>1, <3>3 DEF Sleeps, Running
  <2> QED
    BY <1>12, <2>1 DEF Paused
<1>19. Renewed'
  BY <1>12, <1>14 DEF Renewed
<1> QED
  BY <1>8, <1>9, <1>11, <1>13, <1>17, <1>18, <1>19 DEF MeteringInv, Session

(* The call reaches the machine.                                           *)
LEMMA UseCallsKeeps ==
    ASSUME MeteringInv, NEW u \in Users, UseCalls(u)
    PROVE  MeteringInv'
BY WakesKeeps DEF UseCalls, records, bounds

(* The provider resumes the machine under the call.                        *)
LEMMA UseRetriesKeeps ==
    ASSUME MeteringInv, NEW u \in Users, UseRetries(u)
    PROVE  MeteringInv'
<1>1. /\ call[u].at = "calling" /\ Exists(call[u].on)
      /\ machine' = [machine EXCEPT ![call[u].on.provider].state = "running"]
      /\ UNCHANGED <<driver, row, sessions, active, opening, turns, timer, mayResume, call, booting, bypassed, crashes, faults>>
  BY DEF UseRetries, records, process, bounds
<1>2. call \in Calls /\ u \in Callers
  BY Names DEF MeteringInv, Typed, TypeOK, Calls
<1>3. call' = Go(u, "calling")
  <2>1. [call[u] EXCEPT !.at = "calling"] = call[u]
    BY <1>1, <1>2 DEF Calls, CallState
  <2>2. Go(u, "calling") = [call EXCEPT ![u] = call[u]]
    BY <2>1 DEF Go
  <2> QED
    BY <1>1, <1>2, <2>2 DEF Calls
<1> QED
  BY <1>1, <1>3, WakesKeeps


(* What an operation leaves its caller with.                               *)
LEMMA OverState ==
    ASSUME NEW u \in Users
    PROVE  Over(u) \in CallState /\ Over(u).at \in {"idle", "again"} /\ Over(u).kind = "none"
<1> DEFINE again == [Idle EXCEPT !.at = "again"]
<1>1. again \in CallState /\ again.at = "again" /\ again.kind = "none"
  BY NoneIsNone DEF CallState, Places
<1>2. Over(u) = again \/ Over(u) = Idle
  BY DEF Over
<1> HIDE DEF again
<1> QED
  BY <1>1, <1>2, NoneIsNone

(* The end of an operation: its caller goes, and the timer is set unless   *)
(* something else is under way.                                            *)
LEMMA EndsGoes ==
    ASSUME MeteringInv, NEW u \in Users, NEW after \in CallState, NEW kept \in BOOLEAN,
           after.at \in {"idle", "again"}, after.kind = "none", UseEnds(u, after, kept),
           active' = active, turns' = turns, opening' = opening
    PROVE  /\ call' \in Calls /\ Others({u}) /\ call'[u] = after /\ timer' \in BOOLEAN
           /\ Equipped' /\ Resting' /\ Using' /\ Timing'
           /\ bypassed' = (Late(u) \/ (bypassed /\ ~(kept /\ Awake /\ active.provider = driver)))
<1> DEFINE calls == [call EXCEPT ![u] = after]
<1>1. /\ timer' = (Operations \ {u} = {} /\ turns = 0 /\ active # NoComputer)
      /\ call' = calls \/ call' = Forget(calls)
      /\ bypassed' = (Late(u) \/ (bypassed /\ ~(kept /\ Awake /\ active.provider = driver)))
  BY DEF UseEnds, ArmIdle
<1>2. call \in Calls /\ u \in Callers /\ u # "poll"
  BY Names DEF MeteringInv, Typed, TypeOK, Calls
<1>3. calls \in Calls /\ calls[u] = after /\ \A b \in Callers \ {u} : calls[b] = call[b]
  BY <1>2 DEF Calls
<1> HIDE DEF calls
<1>4. call' \in Calls /\ Others({u}) /\ call'[u] = after
  BY <1>1, <1>2, <1>3, ForgetGoes DEF Others
<1>5. Equipped' /\ Resting' /\ Using'
  BY <1>2, <1>4, CallersTyped DEF MeteringInv, Begins, UserPlaces
<1>6. Operations' = Operations \ {u}
  BY <1>4, Names DEF Operations, Operating, Others
<1>7. StopAlone'
  BY <1>4, Names DEF MeteringInv, Timing, StopAlone, Others, Untouched
<1>8. Timing'
  BY <1>1, <1>6, <1>7 DEF Timing, TimerAlone, Attention, Attended
<1> QED
  BY <1>1, <1>4, <1>5, <1>8

(* Once the open computer of the driver runs and has its session, whatever *)
(* bypassed the operations no longer matters.                              *)
LEMMA ClearedSession ==
    ASSUME MeteringInv, active' = active, driver' = driver, opening' = opening, machine' = machine,
           Awake, active.provider = driver, sessions'[active.provider] = {active.id}
    PROVE  Session'
<1>1. active # NoComputer
  BY NoneIsNone DEF Awake, Exists
<1>2. opening.at # "opened"
  BY <1>1 DEF MeteringInv, Structure, Opens
<1>3. Exists(active)' /\ Running(active.provider)'
  BY DEF Awake, Exists, Running
<1>4. OfDriver'
  BY <1>2 DEF OfDriver
<1>5. Renewed' /\ Counted'
  BY <1>1 DEF Renewed, Counted
<1>6. Paused' /\ Gone'
  BY <1>3 DEF Paused, Sleeps, Gone
<1> QED
  BY <1>4, <1>5, <1>6 DEF Session

(* An operation is under way: something is open, and it does not sleep     *)
(* but for who is about to wake it.                                        *)
LEMMA UnderWay ==
    ASSUME MeteringInv, NEW u \in Users, Fine
    PROVE  /\ call[u].at \in {"opened", "calling", "select", "insert"} => active # NoComputer
           /\ call[u].at \in {"select", "insert", "again", "reinsert"} => ~Sleeps
           /\ call[u].at = "calling" /\ Sleeps => call[u].on = active
<1>1. active = NoComputer => call[u].at \in Untouched \cup {"opening"}
  BY DEF MeteringInv, Session, Renewed
<1>2. Sleeps => call[u].at \in {"idle", "waiting", "refused"} \/ Wakes(u)
  BY DEF MeteringInv, Session, Paused, Stopping, Stopped
<1> QED
  BY <1>1, <1>2 DEF Untouched, Wakes

(* The operation returns.                                                  *)
LEMMA UseReturnsKeeps ==
    ASSUME MeteringInv, NEW u \in Users, UseReturns(u)
    PROVE  MeteringInv'
<1> DEFINE m == call[u].on
<1>1. /\ call[u].at = "calling" /\ Exists(m) /\ Running(m.provider) /\ mayResume' = FALSE
      /\ IF call[u].resumed
         THEN call' = Leave(u, "select") /\ timer' = timer /\ bypassed' = bypassed
         ELSE UseEnds(u, Over(u), FALSE)
      /\ UNCHANGED <<driver, row, sessions, machine, active, opening, turns, booting, crashes, faults>>
  BY DEF UseReturns, records, bounds
<1>2. call \in Calls /\ u \in Callers /\ "select" \in Places /\ bypassed \in BOOLEAN
  BY Names DEF MeteringInv, Typed, TypeOK, Calls, Places
<1>3. /\ call' \in Calls /\ Others({u}) /\ timer' \in BOOLEAN /\ bypassed' = bypassed
      /\ Equipped' /\ Resting' /\ Using' /\ Timing'
      /\ IF call[u].resumed THEN call'[u].at = "select" ELSE call'[u].at \in {"idle", "again"}
  <2>1. CASE call[u].resumed
    <3>1. call' \in Calls /\ Others({u}) /\ call'[u].at = "select"
      BY <1>1, <1>2, <2>1, LeaveGoes DEF Others
    <3>2. Equipped' /\ Resting' /\ Using'
      BY <1>1, <1>2, <3>1, CallersTyped DEF MeteringInv, Begins, UserPlaces
    <3>3. timer = FALSE /\ call["stop"].kind # "idle"
      BY <1>1, OperatesUntimed DEF Operating, MeteringInv, Timing, StopAlone, Untouched
    <3>4. Timing'
      BY <1>1, <2>1, <3>1, <3>3, OperatesTiming DEF Operating
    <3> QED
      BY <1>1, <2>1, <3>1, <3>2, <3>3, <3>4
  <2>2. CASE ~call[u].resumed
    <3>1. ~Late(u)
      BY <1>1 DEF Late
    <3>2. UseEnds(u, Over(u), FALSE)
      BY <1>1, <2>2
    <3> QED
      BY <1>1, <1>2, <2>2, <3>1, <3>2, OverState, EndsGoes
  <2> QED
    BY <2>1, <2>2
<1>4. Typed'
  BY <1>1, <1>2, <1>3 DEF MeteringInv, Typed, TypeOK, Calls
<1>5. Structure'
  BY <1>1, <1>3, UserStructure DEF Begins
<1>6. Awake' = Awake /\ Sleeps' = Sleeps /\ Fine' = Fine
  BY <1>1, <1>3 DEF Awake, Sleeps, Exists, Running, Fine
<1>7. OfDriver' /\ Gone'
  BY <1>1, <1>3, <1>6, UserFrame DEF Running
<1>8. Renewed'
  BY <1>1, <1>6, UnderWay DEF Renewed
<1>9. Counted'
  <2>1. Noticed => Noticed'
    BY <1>1, <1>3, Names DEF Noticed, Notes, OwnerNotes, Initializing, Others
  <2> QED
    BY <1>1, <1>6, <2>1 DEF MeteringInv, Session, Counted
<1>10. Paused'
  BY <1>1, <1>6, UnderWay DEF Paused, Sleeps
<1> QED
  BY <1>3, <1>4, <1>5, <1>7, <1>8, <1>9, <1>10 DEF MeteringInv, Session

(* The operation fails.                                                    *)
LEMMA UseFailsKeeps ==
    ASSUME MeteringInv, NEW u \in Users, UseFails(u)
    PROVE  MeteringInv'
<1>1. /\ UseEnds(u, Idle, FALSE)
      /\ UNCHANGED <<driver, row, sessions, machine, active, opening, turns, mayResume, booting, crashes>>
  BY DEF UseFails, records
<1>2. /\ call[u].at \in {"refused", "opened", "calling"}
      /\ \/ faults' = faults /\ (call[u].at = "refused" \/ ~Exists(call[u].on))
         \/ faults < MaxFaults /\ faults' = faults + 1
  BY DEF UseFails, Fault
<1>3. ~Late(u)
  BY <1>2 DEF Late
<1>4. /\ call' \in Calls /\ Others({u}) /\ timer' \in BOOLEAN /\ bypassed' = bypassed
      /\ Equipped' /\ Resting' /\ Using' /\ Timing' /\ call'[u] = Idle
  BY <1>1, <1>3, NoneIsNone, EndsGoes DEF MeteringInv, Typed, TypeOK
<1>5. faults \in Nat /\ faults' \in 0..MaxFaults
  BY <1>2, MeteringAssumption DEF MeteringInv, Typed, TypeOK
<1>6. Typed'
  BY <1>1, <1>4, <1>5 DEF MeteringInv, Typed, TypeOK, Calls
<1>7. Structure'
  BY <1>1, <1>4, UserStructure DEF Begins
<1>8. Session'
  <2>1. CASE faults' = faults + 1
    <3>1. ~Fine'
      BY <1>5, <2>1 DEF Fine
    <3> QED
      BY <3>1 DEF Session, OfDriver, Renewed, Counted, Paused, Gone
  <2>2. CASE faults' = faults /\ (call[u].at = "refused" \/ ~Exists(call[u].on))
    <3>1. Awake' = Awake /\ Sleeps' = Sleeps /\ Fine' = Fine
      BY <1>1, <1>4, <2>2 DEF Awake, Sleeps, Exists, Running, Fine
    <3>2. OfDriver' /\ Gone'
      BY <1>1, <1>4, <3>1, UserFrame DEF Running
    <3>3. /\ call'["owner"] = call["owner"] /\ call'["stop"] = call["stop"]
          /\ call'["poll"] = call["poll"] \/ call'["poll"] = Idle
          /\ \A v \in Users \ {u} : call'[v] = call[v]
      BY <1>4, Names DEF Others
    <3>4. Renewed'
      BY <1>1, <1>4, <3>1, <3>3, NoneIsNone DEF MeteringInv, Session, Renewed, Untouched
    <3>5. Counted'
      <4>1. Awake /\ Noticed => Noticed'
        <5>1. Awake => ~Notes(u)
          BY <1>2, <2>2 DEF Awake, Notes
        <5>2. \A v \in Users : Notes(v) /\ v # u => Notes(v)'
          BY <1>1, <3>3 DEF Notes
        <5>3. OwnerNotes => OwnerNotes'
          BY <1>1, <3>3 DEF OwnerNotes, Initializing
        <5> QED
          BY <5>1, <5>2, <5>3 DEF Noticed
      <4> QED
        BY <1>1, <3>1, <4>1 DEF MeteringInv, Session, Counted
    <3>6. Paused'
      <4>1. Stopping => Stopping'
        BY <1>4, <3>3, NoneIsNone DEF Stopping
      <4>2. Stopped => Stopped'
        BY <1>1, <1>4, <3>3, NoneIsNone DEF Stopped, Wakes
      <4> QED
        BY <3>1, <3>3, <4>1, <4>2 DEF MeteringInv, Session, Paused
    <3> QED
      BY <3>2, <3>4, <3>5, <3>6 DEF Session
  <2> QED
    BY <1>2, <2>1, <2>2
<1> QED
  BY <1>4, <1>6, <1>7, <1>8 DEF MeteringInv


(* A caller that finds no session goes on to note it for the open computer.*)
LEMMA FindsNone ==
    ASSUME Typed, NEW u \in Callers, ~Metered, NEW place \in {"insert", "reinsert"},
           call' = [call EXCEPT ![u].at = place, ![u].on = active]
    PROVE  /\ active # NoComputer /\ active \in Machines
           /\ call' \in Calls /\ Others({u}) /\ call'[u].at = place /\ call'[u].on = active
           /\ call'[u].kind = call[u].kind
<1>1. active # NoComputer /\ active \in Machines
  BY DEF Metered, Typed, TypeOK, Computers
<1> DEFINE c == [call[u] EXCEPT !.at = place, !.on = active]
<1>2. call \in Calls /\ call[u] \in CallState
  BY DEF Typed, TypeOK, Calls
<1>3. c \in CallState /\ c.at = place /\ c.on = active /\ c.kind = call[u].kind
  BY <1>1, <1>2 DEF CallState, Places, Computers
<1>4. call' = [call EXCEPT ![u] = c]
  OBVIOUS
<1> HIDE DEF c
<1> QED
  BY <1>1, <1>2, <1>3, <1>4, CallGoes DEF Others

(* The operation looks for the session.                                    *)
LEMMA UseSelectsKeeps ==
    ASSUME MeteringInv, NEW u \in Users, UseSelects(u)
    PROVE  MeteringInv'
<1>1. /\ call[u].at = "select"
      /\ IF Metered THEN UseEnds(u, Over(u), TRUE)
         ELSE call' = [call EXCEPT ![u].at = "insert", ![u].on = active] /\ timer' = timer /\ bypassed' = bypassed
      /\ UNCHANGED <<driver, row, sessions, machine, active, opening, turns, mayResume, booting, crashes, faults>>
  BY DEF UseSelects, records, bounds
<1>2. u \in Callers /\ bypassed \in BOOLEAN /\ ~Late(u)
  BY <1>1, Names DEF MeteringInv, Typed, TypeOK, Late
<1>3. Awake' = Awake /\ Sleeps' = Sleeps
  BY <1>1 DEF Awake, Sleeps, Exists, Running
<1>4. CASE Metered
  <2>1. UseEnds(u, Over(u), TRUE)
    BY <1>1, <1>4
  <2>2. /\ call' \in Calls /\ Others({u}) /\ timer' \in BOOLEAN
        /\ bypassed' = (bypassed /\ ~(Awake /\ active.provider = driver))
        /\ Equipped' /\ Resting' /\ Using' /\ Timing' /\ call'[u] = Over(u)
    BY <1>1, <1>2, <2>1, OverState, EndsGoes
  <2>3. Typed'
    BY <1>1, <1>2, <2>2 DEF MeteringInv, Typed, TypeOK, Calls
  <2>4. Structure'
    BY <1>1, <2>2, UserStructure DEF Begins
  <2>5. CASE Awake /\ active.provider = driver
    <3>1. active # NoComputer
      BY <2>5, NoneIsNone DEF Awake, Exists
    <3>2. sessions'[active.provider] = {active.id}
      BY <1>1, <1>4, <3>1 DEF Metered
    <3>3. Session'
      BY <1>1, <2>5, <3>2, ClearedSession
    <3> QED
      BY <2>2, <2>3, <2>4, <3>3 DEF MeteringInv
  <2>6. CASE ~(Awake /\ active.provider = driver)
    <3>1. Fine' = Fine
      BY <1>1, <1>2, <2>2, <2>6 DEF Fine
    <3>2. OfDriver' /\ Gone'
      BY <1>1, <2>2, <3>1, UserFrame DEF Running
    <3>3. Renewed' /\ Paused'
      BY <1>1, <1>3, <3>1, UnderWay DEF Renewed, Paused
    <3>4. Counted'
      BY <1>1, <1>4 DEF Counted, Metered
    <3> QED
      BY <2>2, <2>3, <2>4, <3>2, <3>3, <3>4 DEF MeteringInv, Session
  <2> QED
    BY <2>5, <2>6
<1>5. CASE ~Metered
  <2>1. call' = [call EXCEPT ![u].at = "insert", ![u].on = active] /\ timer' = timer /\ bypassed' = bypassed
    BY <1>1, <1>5
  <2>2. /\ active # NoComputer /\ active \in Machines
        /\ call' \in Calls /\ Others({u}) /\ call'[u].at = "insert" /\ call'[u].on = active
    BY <1>2, <1>5, <2>1, FindsNone DEF MeteringInv
  <2>3. Equipped' /\ Resting' /\ Using'
    BY <1>1, <1>2, <2>2, CallersTyped DEF MeteringInv, Begins, UserPlaces
  <2>4. Typed'
    BY <1>1, <1>2, <2>1, <2>2, <2>3 DEF MeteringInv, Typed, TypeOK, Calls
  <2>5. Structure'
    BY <1>1, <2>2, UserStructure DEF Begins
  <2>6. Timing'
    <3>1. timer = FALSE /\ call["stop"].kind # "idle"
      BY <1>1, OperatesUntimed DEF Operating, MeteringInv, Timing, StopAlone, Untouched
    <3> QED
      BY <2>1, <2>2, <3>1, OperatesTiming DEF Operating
  <2>7. Fine' = Fine
    BY <1>1, <2>1 DEF Fine
  <2>8. OfDriver' /\ Gone'
    BY <1>1, <2>2, <2>7, UserFrame DEF Running
  <2>9. Renewed' /\ Paused'
    BY <1>1, <1>3, <2>7, UnderWay DEF Renewed, Paused
  <2>10. Counted'
    BY <1>1, <2>2 DEF Counted, Noticed, Notes
  <2> QED
    BY <2>4, <2>5, <2>6, <2>8, <2>9, <2>10 DEF MeteringInv, Session
<1> QED
  BY <1>4, <1>5

(* A session that is noted is the only one of its provider.                *)
LEMMA InsertGoes ==
    ASSUME Typed, NEW c \in Callers, call[c].on \in Machines, Insert(c)
    PROVE  /\ sessions' \in [Providers -> SUBSET (1..MaxInstances)]
           /\ \A p \in Providers : \A a, b \in sessions'[p] : a = b
           /\ sessions'[call[c].on.provider] = {call[c].on.id}
           /\ \A p \in Providers : p # call[c].on.provider => sessions'[p] = sessions[p]
<1>1. call[c].on.provider \in Providers /\ call[c].on.id \in 1..MaxInstances
  BY MachineParts
<1>2. sessions' = [sessions EXCEPT ![call[c].on.provider] = {call[c].on.id}]
  BY DEF Insert
<1> QED
  BY <1>1, <1>2 DEF Typed, TypeOK

(* The operation notes the session.                                        *)
LEMMA UseInsertsKeeps ==
    ASSUME MeteringInv, NEW u \in Users, UseInserts(u)
    PROVE  MeteringInv'
<1>1. /\ call[u].at = "insert" /\ Insert(u) /\ UseEnds(u, Over(u), TRUE)
      /\ UNCHANGED <<driver, row, machine, active, opening, turns, mayResume, booting, crashes, faults>>
  BY DEF UseInserts, bounds
<1>2. u \in Callers /\ bypassed \in BOOLEAN
  BY Names DEF MeteringInv, Typed, TypeOK
<1>3. call[u].on \in Machines
  BY <1>1, <1>2 DEF MeteringInv, Typed, Equipped
<1>4. /\ sessions' \in [Providers -> SUBSET (1..MaxInstances)]
      /\ \A p \in Providers : \A a, b \in sessions'[p] : a = b
      /\ sessions'[call[u].on.provider] = {call[u].on.id}
  BY <1>1, <1>2, <1>3, InsertGoes DEF MeteringInv
<1>5. /\ call' \in Calls /\ Others({u}) /\ timer' \in BOOLEAN
      /\ bypassed' = (Late(u) \/ (bypassed /\ ~(Awake /\ active.provider = driver)))
      /\ Equipped' /\ Resting' /\ Using' /\ Timing' /\ call'[u] = Over(u)
  BY <1>1, OverState, EndsGoes
<1>6. Typed'
  <2>1. bypassed' \in BOOLEAN
    BY <1>5
  <2> QED
    BY <1>1, <1>4, <1>5, <2>1 DEF MeteringInv, Typed, TypeOK, Calls
<1>7. Structure'
  BY <1>1, <1>5, UserStructure DEF Begins
<1>8. CASE bypassed'
  BY <1>5, <1>6, <1>7, <1>8 DEF MeteringInv, Session, OfDriver, Renewed, Counted, Paused, Gone, Fine
<1>9. CASE ~bypassed'
  <2>1. call[u].on = active
    BY <1>1, <1>5, <1>9 DEF Late
  <2>2. active # NoComputer /\ sessions'[active.provider] = {active.id}
    BY <1>3, <1>4, <2>1, MachineParts
  <2>3. CASE Awake /\ active.provider = driver
    <3>1. Session'
      BY <1>1, <2>2, <2>3, ClearedSession
    <3> QED
      BY <1>5, <1>6, <1>7, <3>1 DEF MeteringInv
  <2>4. CASE ~(Awake /\ active.provider = driver)
    <3>1. Fine' => Fine
      BY <1>1, <1>5, <1>9, <2>4 DEF Fine
    <3>2. OfDriver' /\ Gone'
      BY <1>1, <1>5, <3>1, UserFrame DEF Running
    <3>3. Sleeps' = Sleeps
      BY <1>1 DEF Sleeps, Exists, Running
    <3>4. Renewed' /\ Paused'
      BY <1>1, <3>1, <3>3, UnderWay DEF Renewed, Paused
    <3>5. Counted'
      BY <1>1, <2>2 DEF Counted
    <3> QED
      BY <1>5, <1>6, <1>7, <3>2, <3>4, <3>5 DEF MeteringInv, Session
  <2> QED
    BY <2>3, <2>4
<1> QED
  BY <1>8, <1>9

(* After a restart, the caller is not counted any more.                    *)
LEMMA AgainTiming ==
    ASSUME MeteringInv, NEW u \in Users, Others({u}), call[u].at \in {"again", "reinsert"},
           call'[u].at \in {"idle", "reinsert"}, bypassed => bypassed',
           UNCHANGED <<machine, active, turns, timer>>
    PROVE  Timing'
<1>1. Operations' = Operations
  BY Names DEF Operations, Operating, Others
<1>2. call'["owner"] = call["owner"] /\ call'["stop"] = call["stop"] /\ \A v \in Users \ {u} : call'[v] = call[v]
  BY Names DEF Others
<1>3. TimerAlone' /\ StopAlone'
  BY <1>1, <1>2 DEF MeteringInv, Timing, TimerAlone, StopAlone, Untouched
<1>4. Attention'
  BY <1>1, <1>2 DEF MeteringInv, Timing, Attention, Attended, Initializing, Awake, Exists, Running
<1> QED
  BY <1>3, <1>4 DEF Timing

(* The restart looks for the session once more.                            *)
LEMMA RestartSelectsKeeps ==
    ASSUME MeteringInv, NEW u \in Users, RestartSelects(u)
    PROVE  MeteringInv'
<1> DEFINE calls == [call EXCEPT ![u] = Idle]
<1>1. /\ call[u].at = "again"
      /\ call' = IF Metered THEN Forget(calls) ELSE [call EXCEPT ![u].at = "reinsert", ![u].on = active]
      /\ UNCHANGED <<driver, row, sessions, machine, active, opening, turns, timer, mayResume, booting, bypassed, crashes, faults>>
  BY DEF RestartSelects, records, bounds
<1>2. call \in Calls /\ u \in Callers /\ u # "poll"
  BY Names DEF MeteringInv, Typed, TypeOK, Calls
<1>3. calls \in Calls /\ calls[u] = Idle /\ \A b \in Callers \ {u} : calls[b] = call[b]
  BY <1>2, NoneIsNone DEF Calls
<1> HIDE DEF calls
<1>4. /\ call' \in Calls /\ Others({u})
      /\ \/ call'[u] = Idle
         \/ call'[u].at = "reinsert" /\ call'[u].on = active /\ active \in Machines
  <2>1. CASE Metered
    <3>1. call' = Forget(calls)
      BY <1>1, <2>1
    <3> QED
      BY <1>2, <1>3, <3>1, ForgetGoes DEF Others
  <2>2. CASE ~Metered
    BY <1>1, <1>2, <2>2, FindsNone DEF MeteringInv
  <2> QED
    BY <2>1, <2>2
<1>5. Typed'
  <2>1. Equipped' /\ Resting' /\ Using'
    BY <1>1, <1>2, <1>4, NoneIsNone, CallersTyped DEF MeteringInv, Begins, UserPlaces
  <2> QED
    BY <1>1, <1>4, <2>1 DEF MeteringInv, Typed, TypeOK, Calls
<1>6. Structure'
  BY <1>1, <1>4, UserStructure DEF Begins
<1>7. Timing'
  BY <1>1, <1>4, NoneIsNone, AgainTiming
<1>8. Fine' = Fine /\ Awake' = Awake /\ Sleeps' = Sleeps
  BY <1>1 DEF Fine, Awake, Sleeps, Exists, Running
<1>9. OfDriver' /\ Gone'
  BY <1>1, <1>4, <1>8, UserFrame DEF Running
<1>10. Renewed'
  BY <1>1, <1>4, <1>8, Names, NoneIsNone DEF MeteringInv, Session, Renewed, Others, Untouched
<1>11. Counted'
  <2>1. Noticed => Noticed'
    <3>1. call'["owner"] = call["owner"] /\ \A v \in Users \ {u} : call'[v] = call[v]
      BY <1>4, Names DEF Others
    <3>2. ~Notes(u)
      BY <1>1 DEF Notes
    <3>3. \A v \in Users : v # u /\ Notes(v) => Notes(v)'
      BY <1>1, <3>1 DEF Notes
    <3>4. OwnerNotes => OwnerNotes'
      BY <1>1, <3>1 DEF OwnerNotes, Initializing
    <3> QED
      BY <3>2, <3>3, <3>4 DEF Noticed
  <2> QED
    BY <1>1, <1>8, <2>1 DEF MeteringInv, Session, Counted
<1>12. Paused'
  BY <1>1, <1>8, UnderWay DEF Paused
<1> QED
  BY <1>5, <1>6, <1>7, <1>9, <1>10, <1>11, <1>12 DEF MeteringInv, Session

(* The restart notes the session.                                          *)
LEMMA RestartInsertsKeeps ==
    ASSUME MeteringInv, NEW u \in Users, RestartInserts(u)
    PROVE  MeteringInv'
<1> DEFINE calls == [call EXCEPT ![u] = Idle]
<1>1. /\ call[u].at = "reinsert" /\ Insert(u) /\ call' = Forget(calls)
      /\ bypassed' = (bypassed \/ Late(u))
      /\ UNCHANGED <<driver, row, machine, active, opening, turns, timer, mayResume, booting, crashes, faults>>
  BY DEF RestartInserts, bounds
<1>2. call \in Calls /\ u \in Callers /\ u # "poll"
  BY Names DEF MeteringInv, Typed, TypeOK, Calls
<1>3. calls \in Calls /\ calls[u] = Idle /\ \A b \in Callers \ {u} : calls[b] = call[b]
  BY <1>2, NoneIsNone DEF Calls
<1> HIDE DEF calls
<1>4. call' \in Calls /\ Others({u}) /\ call'[u] = Idle
  BY <1>1, <1>2, <1>3, ForgetGoes DEF Others
<1>5. call[u].on \in Machines
  BY <1>1, <1>2 DEF MeteringInv, Typed, Equipped
<1>6. /\ sessions' \in [Providers -> SUBSET (1..MaxInstances)]
      /\ \A p \in Providers : \A a, b \in sessions'[p] : a = b
      /\ sessions'[call[u].on.provider] = {call[u].on.id}
  BY <1>1, <1>2, <1>5, InsertGoes DEF MeteringInv
<1>7. Typed'
  <2>1. Equipped' /\ Resting' /\ Using'
    BY <1>1, <1>2, <1>4, NoneIsNone, CallersTyped DEF MeteringInv, Begins, UserPlaces
  <2>2. bypassed' \in BOOLEAN
    BY <1>1
  <2> QED
    BY <1>1, <1>4, <1>6, <2>1, <2>2 DEF MeteringInv, Typed, TypeOK, Calls
<1>8. Structure'
  BY <1>1, <1>4, UserStructure DEF Begins
<1>9. Timing'
  BY <1>1, <1>4, NoneIsNone, AgainTiming
<1>10. CASE bypassed'
  BY <1>7, <1>8, <1>9, <1>10 DEF MeteringInv, Session, OfDriver, Renewed, Counted, Paused, Gone, Fine
<1>11. CASE ~bypassed'
  <2>1. call[u].on = active /\ (Fine' => Fine)
    BY <1>1, <1>11 DEF Late, Fine
  <2>2. active # NoComputer /\ sessions'[active.provider] = {active.id}
    BY <1>5, <1>6, <2>1, MachineParts
  <2>3. OfDriver' /\ Gone'
    BY <1>1, <1>4, <2>1, UserFrame DEF Running
  <2>4. Sleeps' = Sleeps
    BY <1>1 DEF Sleeps, Exists, Running
  <2>5. Renewed' /\ Paused'
    BY <1>1, <2>1, <2>2, <2>4, UnderWay DEF Renewed, Paused
  <2>6. Counted'
    BY <1>1, <2>2 DEF Counted
  <2> QED
    BY <1>7, <1>8, <1>9, <2>3, <2>5, <2>6 DEF MeteringInv, Session
<1> QED
  BY <1>10, <1>11

-----------------------------------------------------------------------------
(* Openings.                                                               *)

(* After something failed or bypassed the operations.                      *)
LEMMA UnfineSession ==
    ASSUME ~Fine'
    PROVE  Session'
BY DEF Session, OfDriver, Renewed, Counted, Paused, Gone

(* A machine runs for the opening: nothing changes for the open computer.  *)
LEMMA OpenedKeeps ==
    ASSUME MeteringInv, opening.at = "connect", NEW m \in Machines, m.provider = opening.on.provider,
           opening' = [at |-> "opened", on |-> m],
           machine' \in [Providers -> MachineState], machine'[m.provider] = [id |-> m.id, state |-> "running"],
           \A q \in Providers \ {m.provider} : machine'[q] = machine[q],
           row' \in [Providers -> 0..MaxInstances], sessions' \in [Providers -> SUBSET (1..MaxInstances)],
           \A q \in Providers : \A a, b \in sessions'[q] : a = b,
           \A q \in Providers \ {m.provider} : sessions'[q] = sessions[q],
           UNCHANGED <<driver, active, turns, timer, mayResume, call, booting, bypassed, crashes, faults>>
    PROVE  MeteringInv'
<1> DEFINE p == m.provider
<1>1. p \in Providers /\ active.provider # p
  BY MachineParts DEF MeteringInv, Structure, Opens
<1>2. active # NoComputer => active.provider \in Providers \ {p}
  BY <1>1, MachineParts DEF MeteringInv, Typed, TypeOK, Computers
<1>3. active = NoComputer => ~Exists(active) /\ ~Exists(active)'
  BY NoneIsNone DEF Exists
<1>4. Awake' = Awake /\ Sleeps' = Sleeps /\ Exists(active)' = Exists(active) /\ Fine' = Fine
  BY <1>2, <1>3 DEF Awake, Sleeps, Exists, Running, Fine
<1>5. opening'.at = "opened" /\ opening'.on = m
  OBVIOUS
<1>6. Typed'
  <2>1. opening' \in OpeningState
    BY DEF OpeningState, Machines
  <2>2. Equipped'
    BY <1>5 DEF MeteringInv, Typed, Equipped
  <2> QED
    BY <2>1, <2>2 DEF MeteringInv, Typed, TypeOK, Resting, Using
<1>7. Structure'
  <2>1. Opens'
    BY <1>5 DEF MeteringInv, Structure, Opens, Initializing
  <2>2. Known'
    BY <1>2, <1>5 DEF MeteringInv, Structure, Known
  <2>3. Owned'
    <3>1. call["owner"].at = "close" => active.provider \in Providers \ {p}
      BY <1>1 DEF MeteringInv, Typed, TypeOK, Structure, Owned, Destroying, Releasing
    <3> QED
      BY <3>1 DEF MeteringInv, Structure, Owned, Destroying, Releasing
  <2> QED
    BY <2>1, <2>2, <2>3 DEF Structure
<1>8. Timing'
  BY <1>4 DEF MeteringInv, Timing, TimerAlone, StopAlone, Attention, Attended, Operations, Operating, Initializing
<1>9. Session'
  <2>1. OfDriver'
    BY <1>4, <1>5 DEF MeteringInv, Session, OfDriver, Initializing, Running
  <2>2. Renewed'
    BY <1>4 DEF MeteringInv, Session, Renewed
  <2>3. Counted'
    BY <1>2, <1>4 DEF MeteringInv, Session, Counted, Noticed, Notes, OwnerNotes, Initializing
  <2>4. Paused'
    <3>1. Stopping => Stopping'
      BY DEF Stopping
    <3>2. Sleeps /\ Stopped => Stopped'
      BY <1>2 DEF Sleeps, Stopped, Wakes
    <3> QED
      BY <1>4, <3>1, <3>2 DEF MeteringInv, Session, Paused
  <2>5. Gone'
    BY <1>4 DEF MeteringInv, Session, Gone
  <2> QED
    BY <2>1, <2>2, <2>3, <2>4, <2>5 DEF Session
<1> QED
  BY <1>6, <1>7, <1>8, <1>9 DEF MeteringInv

(* The machine on record is connected to.                                  *)
LEMMA OpenConnectsKeeps ==
    ASSUME MeteringInv, OpenConnects
    PROVE  MeteringInv'
<1> DEFINE p == opening.on.provider
           m == [provider |-> p, id |-> row[p]]
           c == [machine[p] EXCEPT !.state = "running"]
<1>1. /\ opening.at = "connect" /\ row[p] # 0 /\ machine[p].id = row[p]
      /\ machine' = [machine EXCEPT ![p] = c]
      /\ opening' = [at |-> "opened", on |-> m]
      /\ UNCHANGED <<driver, row, sessions, active, turns, timer, mayResume, call, booting, bypassed, crashes, faults>>
  BY DEF OpenConnects, records, bounds
<1>2. p \in Providers
  BY <1>1 DEF MeteringInv, Typed, Equipped
<1>3. row[p] \in 1..MaxInstances
  BY <1>1, <1>2, MeteringAssumption DEF MeteringInv, Typed, TypeOK
<1>4. m \in Machines /\ m.provider = p
  BY <1>2, <1>3 DEF Machines
<1>5. c \in MachineState /\ c = [id |-> m.id, state |-> "running"]
  <2>1. machine[p] \in MachineState
    BY <1>2 DEF MeteringInv, Typed, TypeOK
  <2> QED
    BY <1>1, <2>1 DEF MachineState
<1> HIDE DEF c
<1>6. machine' \in [Providers -> MachineState] /\ machine'[p] = c /\ \A q \in Providers \ {p} : machine'[q] = machine[q]
  BY <1>1, <1>2, <1>5 DEF MeteringInv, Typed, TypeOK
<1> QED
  BY <1>1, <1>4, <1>5, <1>6, OpenedKeeps DEF MeteringInv, Typed, TypeOK

(* A machine is rented and noted.                                          *)
LEMMA OpenCreatesKeeps ==
    ASSUME MeteringInv, NEW id \in 1..MaxInstances, OpenCreates(id)
    PROVE  MeteringInv'
<1> DEFINE p == opening.on.provider
           m == [provider |-> p, id |-> id]
           c == [id |-> id, state |-> "running"]
<1>1. /\ opening.at = "connect"
      /\ machine' = [machine EXCEPT ![p] = c]
      /\ row' = [row EXCEPT ![p] = id] /\ sessions' = [sessions EXCEPT ![p] = {id}]
      /\ opening' = [at |-> "opened", on |-> m]
      /\ UNCHANGED <<driver, active, turns, timer, mayResume, call, booting, bypassed, crashes, faults>>
  BY DEF OpenCreates, bounds
<1>2. p \in Providers
  BY <1>1 DEF MeteringInv, Typed, Equipped
<1>3. id \in 0..MaxInstances
  BY MeteringAssumption
<1>4. m \in Machines /\ m.provider = p /\ m.id = id /\ c \in MachineState
  BY <1>2, <1>3 DEF Machines, MachineState
<1>5. machine' \in [Providers -> MachineState] /\ machine'[p] = c /\ \A q \in Providers \ {p} : machine'[q] = machine[q]
  BY <1>1, <1>2, <1>4 DEF MeteringInv, Typed, TypeOK
<1>6. row' \in [Providers -> 0..MaxInstances]
  BY <1>1, <1>3 DEF MeteringInv, Typed, TypeOK
<1>7. /\ sessions' \in [Providers -> SUBSET (1..MaxInstances)] /\ sessions'[p] = {id}
      /\ \A q \in Providers \ {p} : sessions'[q] = sessions[q]
  BY <1>1, <1>2 DEF MeteringInv, Typed, TypeOK
<1>8. \A q \in Providers : \A a, b \in sessions'[q] : a = b
  BY <1>7 DEF MeteringInv, Typed, TypeOK
<1> QED
  BY <1>1, <1>4, <1>5, <1>6, <1>7, <1>8, OpenedKeeps

(* The end of an opening leaves everybody equipped and at rest.            *)
LEMMA ServedTyped ==
    ASSUME Typed, NEW m \in Computers, call' = Served(m), opening' = NotOpening
    PROVE  /\ call' \in Calls /\ Told(call', m) /\ opening' \in OpeningState /\ opening'.at = "no"
           /\ Equipped' /\ Resting' /\ Using'
<1>1. call \in Calls
  BY DEF Typed, TypeOK, Calls
<1>2. call' \in Calls /\ Told(call', m)
  BY <1>1, ServedTells
<1>3. opening' \in OpeningState /\ opening'.at = "no"
  <2>1. NoComputer \in [provider : Providers \cup {Nobody}, id : 0..MaxInstances]
    BY MeteringAssumption DEF NoComputer
  <2> QED
    BY <2>1 DEF NotOpening, OpeningState
<1>4. Equipped'
  BY <1>2, <1>3 DEF Told, Typed, Equipped
<1>5. Resting'
  BY <1>2 DEF Told, Typed, Resting
<1>6. Using'
  BY <1>2, Names DEF Told, Typed, Using, UserPlaces
<1> QED
  BY <1>2, <1>3, <1>4, <1>5, <1>6

(* Who waited for the opening goes on being counted.                       *)
LEMMA ServedTiming ==
    ASSUME MeteringInv, NEW m \in Computers, Told(call', m), timer' = timer
    PROVE  Operations' = Operations /\ TimerAlone' /\ StopAlone' /\ (Attended => Attended')
<1>1. \A u \in Users : call'[u] = call[u] \/ (call[u].at = "opening" /\ call'[u].at \in {"opened", "refused"})
  BY Names DEF Told
<1>2. Operations' = Operations
  BY <1>1 DEF Operations, Operating
<1>3. call'["stop"].kind = call["stop"].kind /\ (call["stop"].at # "idle" => call'["stop"].at # "idle")
  BY Names DEF Told
<1>4. StopAlone'
  BY <1>1, <1>3 DEF MeteringInv, Timing, StopAlone, Untouched
<1>5. /\ call'["owner"].kind = call["owner"].kind
      /\ call'["owner"].at = call["owner"].at
         \/ (call["owner"].at = "opening" /\ call'["owner"].at \in {"opened", "refused"})
  BY Names DEF Told
<1>6. Attended => Attended'
  BY <1>2, <1>3, <1>5 DEF Attended, Initializing
<1> QED
  BY <1>2, <1>4, <1>6 DEF MeteringInv, Timing, TimerAlone

(* The opening finds the driver's computer open, or begins to connect.     *)
LEMMA OpenDriverKeeps ==
    ASSUME MeteringInv, OpenDriver
    PROVE  MeteringInv'
<1>1. /\ opening.at = "driver"
      /\ UNCHANGED <<driver, row, sessions, machine, active, turns, timer, mayResume, booting, bypassed, crashes, faults>>
  BY DEF OpenDriver, records, bounds
<1>2. Awake' = Awake /\ Sleeps' = Sleeps /\ Exists(active)' = Exists(active) /\ Fine' = Fine
  BY <1>1 DEF Awake, Sleeps, Exists, Running, Fine
<1>3. CASE active.provider = driver
  <2>1. call' = Served(active) /\ opening' = NotOpening
    BY <1>3 DEF OpenDriver
  <2>2. active \in Computers /\ active # NoComputer
    BY <1>3, Names, NoneIsNone DEF MeteringInv, Typed, TypeOK
  <2>3. /\ call' \in Calls /\ Told(call', active) /\ opening' \in OpeningState /\ opening'.at = "no"
        /\ Equipped' /\ Resting' /\ Using'
    BY <2>1, <2>2, ServedTyped DEF MeteringInv
  <2>4. Typed'
    BY <1>1, <2>3 DEF MeteringInv, Typed, TypeOK, Calls
  <2>5. /\ call["owner"].at # "opening" => call'["owner"] = call["owner"]
        /\ call["owner"].at = "opening" => call'["owner"].at = "opened" /\ call'["owner"].on = active
        /\ call'["owner"].kind = call["owner"].kind
    BY <2>2, <2>3, Names DEF Told
  <2>6. Structure'
    <3>1. Opens'
      BY <2>3 DEF Opens
    <3>2. Known'
      BY <1>1, <2>3 DEF MeteringInv, Structure, Known
    <3>3. Owned'
      BY <1>1, <1>3, <2>5 DEF MeteringInv, Structure, Owned, Destroying, Releasing
    <3> QED
      BY <3>1, <3>2, <3>3 DEF Structure
  <2>7. Timing'
    BY <1>1, <1>2, <2>2, <2>3, ServedTiming DEF MeteringInv, Timing, Attention
  <2>8. \A u \in Users : /\ call[u].at # "opening" => call'[u] = call[u]
                         /\ call[u].at = "opening" =>
                              call'[u].at = "opened" /\ call'[u].on = active /\ call'[u].resumed = call[u].resumed
    BY <2>2, <2>3, Names DEF Told
  <2>9. Session'
    <3>1. OfDriver' /\ Renewed'
      BY <1>1, <1>3, <2>2, <2>3 DEF OfDriver, Renewed
    <3>2. Counted'
      <4>1. \A u \in Users : Notes(u) => Notes(u)'
        BY <1>1, <2>8 DEF Notes
      <4>2. OwnerNotes => OwnerNotes'
        BY <1>1, <2>5 DEF OwnerNotes, Initializing
      <4> QED
        BY <1>1, <1>2, <4>1, <4>2 DEF MeteringInv, Session, Counted, Noticed
    <3>3. Paused'
      <4>1. Stopping => Stopping'
        <5>1. call["stop"].at # "opening" => call'["stop"] = call["stop"]
          BY <2>3, Names DEF Told
        <5> QED
          BY <2>8, <5>1 DEF Stopping
      <4>2. Stopped => Stopped'
        <5>1. /\ call["poll"].at # "opening" => call'["poll"] = call["poll"]
              /\ call["poll"].at = "opening" => call'["poll"].at = "opened" /\ call'["poll"].on = active
          BY <2>2, <2>3, Names DEF Told
        <5>2. \A u \in Users : Wakes(u) => Wakes(u)'
          BY <1>1, <2>8 DEF Wakes
        <5> QED
          BY <1>1, <5>1, <5>2 DEF Stopped
      <4> QED
        BY <1>2, <2>5, <4>1, <4>2 DEF MeteringInv, Session, Paused
    <3>4. Gone'
      BY <1>1, <1>2, <2>5 DEF MeteringInv, Session, Gone
    <3> QED
      BY <3>1, <3>2, <3>3, <3>4 DEF Session
  <2> QED
    BY <2>4, <2>6, <2>7, <2>9 DEF MeteringInv
<1>4. CASE active.provider # driver
  <2> DEFINE none == [NoComputer EXCEPT !.provider = driver]
  <2>1. call' = call /\ opening' = [at |-> "connect", on |-> none]
    BY <1>4 DEF OpenDriver
  <2>2. none \in [provider : Providers \cup {Nobody}, id : 0..MaxInstances] /\ none.provider = driver
    BY MeteringAssumption DEF NoComputer, MeteringInv, Typed, TypeOK
  <2> HIDE DEF none
  <2>3. opening' \in OpeningState /\ opening'.at = "connect" /\ opening'.on.provider = driver
    BY <2>1, <2>2 DEF OpeningState
  <2>4. Typed'
    BY <1>1, <2>1, <2>3 DEF MeteringInv, Typed, TypeOK, Equipped, Resting, Using
  <2>5. Structure'
    <3>1. Opens'
      BY <1>1, <1>4, <2>3 DEF Opens
    <3>2. Known' /\ Owned'
      BY <1>1, <2>1, <2>3 DEF MeteringInv, Structure, Known, Owned, Destroying, Releasing
    <3> QED
      BY <3>1, <3>2 DEF Structure
  <2>6. Timing'
    BY <1>1, <2>1, TimingStays DEF MeteringInv
  <2>7. Session'
    <3>1. OfDriver'
      BY <1>1, <1>2, <2>1, <2>3 DEF MeteringInv, Session, OfDriver, Initializing
    <3>2. Renewed'
      BY <1>1, <1>2, <2>1 DEF MeteringInv, Session, Renewed
    <3>3. Counted'
      BY <1>1, <1>2, <2>1 DEF MeteringInv, Session, Counted, Noticed, Notes, OwnerNotes, Initializing
    <3>4. Paused' /\ Gone'
      BY <1>1, <1>2, <2>1 DEF MeteringInv, Session, Paused, Gone, Stopping, Stopped, Wakes
    <3> QED
      BY <3>1, <3>2, <3>3, <3>4 DEF Session
  <2> QED
    BY <2>4, <2>5, <2>6, <2>7 DEF MeteringInv
<1> QED
  BY <1>3, <1>4

(* What was opened is the open computer.                                   *)
LEMMA OpenDoneKeeps ==
    ASSUME MeteringInv, OpenDone
    PROVE  MeteringInv'
<1> DEFINE m == opening.on
           p == m.provider
<1>1. /\ opening.at = "opened" /\ active' = m /\ call' = Served(m) /\ opening' = NotOpening
      /\ bypassed' = (bypassed \/ ~Noting \/ p # driver)
      /\ UNCHANGED <<driver, row, sessions, machine, turns, timer, mayResume, booting, crashes, faults>>
  BY DEF OpenDone, records, bounds
<1>2. m \in Machines /\ m # NoComputer /\ p \in Providers /\ m \in Computers
  BY <1>1, MachineParts DEF MeteringInv, Typed, Equipped, Computers
<1>3. /\ call' \in Calls /\ Told(call', m) /\ opening' \in OpeningState /\ opening'.at = "no"
      /\ Equipped' /\ Resting' /\ Using'
  BY <1>1, <1>2, ServedTyped DEF MeteringInv
<1>4. Typed'
  <2>1. bypassed' \in BOOLEAN
    BY <1>1
  <2> QED
    BY <1>1, <1>2, <1>3, <2>1 DEF MeteringInv, Typed, TypeOK, Calls
<1>5. /\ call["owner"].at # "opening" => call'["owner"] = call["owner"]
      /\ call["owner"].at = "opening" => call'["owner"].at = "opened" /\ call'["owner"].on = m
      /\ call'["owner"].kind = call["owner"].kind
  BY <1>2, <1>3, Names DEF Told
<1>6. /\ p # active.provider
      /\ p = driver \/ (active = NoComputer /\ call["owner"].kind = "initialize" /\ call["owner"].at = "opening")
      /\ machine[p].id = m.id
  BY <1>1 DEF MeteringInv, Structure, Opens, Known, Initializing
<1>7. Structure'
  <2>1. Opens'
    BY <1>3 DEF Opens
  <2>2. Known'
    BY <1>1, <1>3, <1>6 DEF Known
  <2>3. Owned'
    <3>1. call["owner"].at = "update" => p = driver
      BY <1>6
    <3>2. call["owner"].at = "insert" => active'.provider = driver /\ call["owner"].on.provider # driver
      BY <1>1, <1>6 DEF MeteringInv, Structure, Owned
    <3>3. ~Destroying({"opened", "close"}) /\ call["owner"].at # "close"
      BY <1>6 DEF MeteringInv, Structure, Owned, Destroying, Releasing
    <3>4. call["owner"].kind = "destroy" => p = driver
      BY <1>6
    <3> QED
      <4>1. CASE call["owner"].at = "opening"
        BY <1>1, <1>5, <3>4, <4>1 DEF Owned, Destroying
      <4>2. CASE call["owner"].at # "opening"
        BY <1>1, <1>5, <3>1, <3>2, <3>3, <4>2 DEF MeteringInv, Structure, Owned, Destroying, Releasing
      <4> QED
        BY <4>1, <4>2
  <2> QED
    BY <2>1, <2>2, <2>3 DEF Structure
<1>8. \A u \in Users : /\ call[u].at # "opening" => call'[u] = call[u]
                       /\ call[u].at = "opening" =>
                            call'[u].at = "opened" /\ call'[u].on = m /\ call'[u].resumed = call[u].resumed
  BY <1>2, <1>3, Names DEF Told
<1>9. Timing'
  <2>1. Operations' = Operations /\ TimerAlone' /\ StopAlone'
    BY <1>1, <1>2, <1>3, ServedTiming
  <2>2. ASSUME ~bypassed'
        PROVE  Attended'
    <3>1. CASE \E u \in Users : call[u].at = "opening"
      <4>1. Operations # {}
        BY <3>1 DEF Operations, Operating
      <4> QED
        BY <2>1, <4>1 DEF Attended
    <3>2. CASE call["owner"].at = "opening" /\ call["owner"].kind = "initialize"
      BY <1>5, <3>2 DEF Attended, Initializing
    <3> QED
      BY <1>1, <2>2, <3>1, <3>2 DEF Noting
  <2> QED
    BY <2>1, <2>2 DEF Timing, Attention
<1>10. Session'
  <2>1. CASE ~Fine'
    BY <2>1, UnfineSession
  <2>2. CASE Fine'
    <3>1. Fine /\ Noting /\ p = driver
      BY <1>1, <2>2 DEF Fine
    <3>2. machine[p].state = "running" /\ machine[p].id = m.id /\ m.id # 0
      BY <1>1, <1>2, <1>6, <3>1, MachineParts DEF MeteringInv, Session, OfDriver, Running
    <3>3. OfDriver' /\ Renewed'
      BY <1>1, <1>2, <1>3, <3>1 DEF OfDriver, Renewed
    <3>4. Paused' /\ Gone'
      BY <1>1, <3>2 DEF Paused, Gone, Sleeps, Exists, Running
    <3>5. Counted'
      <4>1. CASE call["owner"].at = "opening" /\ call["owner"].kind = "initialize"
        BY <1>5, <4>1 DEF Counted, Noticed, OwnerNotes, Initializing
      <4>2. CASE ~(call["owner"].at = "opening" /\ call["owner"].kind = "initialize")
        <5>1. PICK u \in Users : call[u].at = "opening"
          BY <3>1, <4>2 DEF Noting
        <5>2. active = NoComputer
          BY <1>6, <3>1, <4>2 DEF MeteringInv, Session, OfDriver, Initializing
        <5>3. call[u].resumed
          BY <3>1, <5>1, <5>2 DEF MeteringInv, Session, Renewed
        <5>4. Notes(u)'
          BY <1>1, <1>8, <5>1, <5>3 DEF Notes
        <5> QED
          BY <5>4 DEF Counted, Noticed
      <4> QED
        BY <4>1, <4>2
    <3> QED
      BY <3>3, <3>4, <3>5 DEF Session
  <2> QED
    BY <2>1, <2>2
<1> QED
  BY <1>4, <1>7, <1>9, <1>10 DEF MeteringInv

(* The opening fails.                                                      *)
LEMMA OpenFailsKeeps ==
    ASSUME MeteringInv, OpenFails
    PROVE  MeteringInv'
<1>1. /\ call' = Served(NoComputer) /\ opening' = NotOpening /\ faults < MaxFaults /\ faults' = faults + 1
      /\ UNCHANGED <<driver, row, sessions, machine, active, turns, timer, mayResume, booting, bypassed, crashes>>
  BY DEF OpenFails, Fault, records
<1>2. faults \in Nat /\ faults' \in 0..MaxFaults /\ ~Fine'
  BY <1>1, MeteringAssumption DEF MeteringInv, Typed, TypeOK, Fine
<1>3. /\ call' \in Calls /\ Told(call', NoComputer) /\ opening' \in OpeningState /\ opening'.at = "no"
      /\ Equipped' /\ Resting' /\ Using'
  BY <1>1, NoneIsNone, ServedTyped DEF MeteringInv
<1>4. Typed'
  BY <1>1, <1>2, <1>3 DEF MeteringInv, Typed, TypeOK, Calls
<1>5. Structure'
  <2>1. \/ call'["owner"] = call["owner"]
        \/ call["owner"].at = "opening" /\ call'["owner"].at = "refused"
    BY <1>3, Names DEF Told
  <2>2. Opens' /\ Known'
    BY <1>1, <1>3 DEF MeteringInv, Structure, Opens, Known
  <2>3. Owned'
    BY <1>1, <2>1 DEF MeteringInv, Structure, Owned, Destroying, Releasing
  <2> QED
    BY <2>2, <2>3 DEF Structure
<1>6. Timing'
  <2>1. Awake' = Awake
    BY <1>1 DEF Awake, Exists, Running
  <2> QED
    BY <1>1, <1>3, <2>1, NoneIsNone, ServedTiming DEF MeteringInv, Timing, Attention
<1> QED
  BY <1>2, <1>4, <1>5, <1>6, UnfineSession DEF MeteringInv

-----------------------------------------------------------------------------
(* The owner's requests.                                                   *)

(* Only the owner moves: everybody stays equipped and at rest.             *)
LEMMA OwnerTyped ==
    ASSUME MeteringInv, call' \in Calls, Others({"owner"}), Begins, opening' \in OpeningState,
           call'["owner"].at \in {"insert", "reinsert"} => call'["owner"].on \in Machines,
           call'["owner"].at = "idle" => call'["owner"].kind = "none",
           timer' \in BOOLEAN, booting' \in BOOLEAN, bypassed' \in BOOLEAN,
           UNCHANGED <<driver, row, sessions, machine, active, turns, mayResume, crashes, faults>>
    PROVE  Typed'
<1>1. Equipped' /\ Resting' /\ Using'
  BY Names, CallersTyped DEF MeteringInv
<1> QED
  BY <1>1 DEF MeteringInv, Typed, TypeOK, Calls

(* Only the owner moves: the operations are the same, and the timer stays  *)
(* alone unless it is set.                                                 *)
LEMMA OwnerTiming ==
    ASSUME MeteringInv, Others({"owner"}), timer' => timer
    PROVE  Operations' = Operations /\ TimerAlone' /\ StopAlone'
<1>1. \A u \in Users : call'[u] = call[u]
  BY Names DEF Others
<1>2. call'["stop"] = call["stop"]
  BY Names DEF Others
<1>3. Operations' = Operations
  BY <1>1 DEF Operations, Operating
<1> QED
  BY <1>1, <1>2, <1>3 DEF MeteringInv, Timing, TimerAlone, StopAlone

(* Only the owner moves, and the machine is where it was.                  *)
LEMMA OwnerSession ==
    ASSUME MeteringInv, Others({"owner"}), Begins, Fine' => Fine,
           UNCHANGED <<driver, machine, active, mayResume>>,
           Fine /\ active # NoComputer /\ active.provider # driver /\ Initializing({"opening"}) =>
               Initializing({"opening"})',
           Fine /\ active # NoComputer /\ Awake =>
               (sessions[active.provider] = {active.id} => sessions'[active.provider] = {active.id}),
           Fine /\ active # NoComputer /\ Awake /\ OwnerNotes => OwnerNotes' \/ sessions'[active.provider] = {active.id},
           Fine /\ Sleeps => /\ call'["owner"].kind # "initialize" /\ call'["owner"].at # "update"
                             /\ sessions'[active.provider] = sessions[active.provider],
           Fine /\ active # NoComputer /\ ~Exists(active) => call'["owner"].kind \in {"destroy", "release"}
    PROVE  Session'
<1>1. /\ \A u \in Users : call'[u] = call[u]
      /\ call'["stop"] = call["stop"]
      /\ call'["poll"] = call["poll"] \/ call'["poll"] = Idle
  BY Names DEF Others
<1>2. Awake' = Awake /\ Sleeps' = Sleeps /\ Exists(active)' = Exists(active)
  BY DEF Awake, Sleeps, Exists, Running
<1>3. OfDriver'
  BY DEF MeteringInv, Session, OfDriver, Begins, Running
<1>4. Renewed'
  BY <1>1, NoneIsNone DEF MeteringInv, Session, Renewed
<1>5. Counted'
  <2>1. \A u \in Users : Notes(u) => Notes(u)'
    BY <1>1 DEF Notes
  <2> QED
    BY <1>2, <2>1 DEF MeteringInv, Session, Counted, Noticed
<1>6. Paused'
  <2>1. Stopping => Stopping'
    BY <1>1 DEF Stopping
  <2>2. Fine /\ Sleeps /\ Stopped => Stopped'
    BY <1>1, NoneIsNone DEF Stopped, Wakes
  <2> QED
    BY <1>2, <2>1, <2>2 DEF MeteringInv, Session, Paused
<1>7. Gone'
  BY <1>2 DEF Gone
<1> QED
  BY <1>3, <1>4, <1>5, <1>6, <1>7 DEF Session

(* The owner asks for something.                                           *)
LEMMA AskKeeps ==
    ASSUME MeteringInv, NEW kind \in {"destroy", "switch", "credentials"}, Ask(kind)
    PROVE  MeteringInv'
<1> DEFINE place == IF kind = "destroy" THEN "waiting" ELSE "release"
           c == [call["owner"] EXCEPT !.kind = kind, !.at = place]
<1>1. /\ call["owner"].at = "idle"
      /\ timer' = IF kind = "destroy" THEN FALSE ELSE timer
      /\ call' = [call EXCEPT !["owner"].kind = kind, !["owner"].at = place]
      /\ UNCHANGED <<driver, row, sessions, machine, active, opening, turns, mayResume, booting, bypassed, crashes, faults>>
  BY DEF Ask, records, bounds
<1>2. call \in Calls /\ "owner" \in Callers /\ opening \in OpeningState /\ timer \in BOOLEAN
  BY Names DEF MeteringInv, Typed, TypeOK, Calls
<1>3. c \in CallState /\ c.at = place /\ c.kind = kind
  <2>1. call["owner"] \in CallState
    BY <1>2 DEF Calls
  <2> QED
    BY <2>1 DEF CallState, Places, Kinds
<1>4. call' = [call EXCEPT !["owner"] = c]
  BY <1>1, <1>2 DEF Calls
<1>5. place \in {"waiting", "release"} /\ (place = "release" => kind \in {"switch", "credentials"})
  OBVIOUS
<1> HIDE DEF c, place
<1>6. call' \in Calls /\ Others({"owner"}) /\ call'["owner"].at = place /\ call'["owner"].kind = kind
  BY <1>2, <1>3, <1>4, CallGoes DEF Others
<1>7. Begins
  BY <1>1 DEF Begins
<1>8. Typed'
  BY <1>1, <1>2, <1>5, <1>6, <1>7, OwnerTyped DEF MeteringInv, Typed, TypeOK
<1>9. Structure'
  <2>1. Opens'
    BY <1>1 DEF MeteringInv, Structure, Opens, Initializing
  <2>2. Known'
    BY <1>1 DEF MeteringInv, Structure, Known
  <2>3. Owned'
    BY <1>5, <1>6 DEF Owned, Destroying, Releasing
  <2> QED
    BY <2>1, <2>2, <2>3 DEF Structure
<1>10. Timing'
  <2>1. Attended'
    BY <1>5, <1>6 DEF Attended
  <2> QED
    BY <1>1, <1>6, <2>1, OwnerTiming DEF Timing, Attention
<1>11. Session'
  <2>1. ~Initializing({"opening"}) /\ ~OwnerNotes
    BY <1>1 DEF Initializing, OwnerNotes
  <2>2. call["owner"].kind = "none"
    BY <1>1, <1>2 DEF MeteringInv, Typed, Resting
  <2>3. Fine /\ active # NoComputer => Exists(active)
    BY <2>2 DEF MeteringInv, Session, Gone
  <2>4. Fine' = Fine
    BY <1>1 DEF Fine
  <2> QED
    BY <1>1, <1>5, <1>6, <1>7, <2>1, <2>3, <2>4, OwnerSession
<1> QED
  BY <1>8, <1>9, <1>10, <1>11 DEF MeteringInv

(* To destroy the computer, the owner waits for the opening.               *)
LEMMA DestroyResolvesKeeps ==
    ASSUME MeteringInv, DestroyResolves
    PROVE  MeteringInv'
<1>1. /\ call["owner"].at = "waiting" /\ Resolve(Go("owner", "opening"))
      /\ UNCHANGED <<driver, row, sessions, machine, active, turns, timer, mayResume, booting, bypassed, crashes, faults>>
  BY DEF DestroyResolves, records, bounds
<1>2. call \in Calls /\ "owner" \in Callers /\ opening \in OpeningState /\ "opening" \in Places
  BY Names DEF MeteringInv, Typed, TypeOK, Calls, Places
<1>3. /\ call' \in Calls /\ Others({"owner"}) /\ Begins /\ opening' \in OpeningState
      /\ call'["owner"].at = "opening" /\ call'["owner"].kind = call["owner"].kind
  BY <1>1, <1>2, GoGoes, ResolveGoes DEF Others
<1>4. Typed'
  BY <1>1, <1>3, OwnerTyped DEF MeteringInv, Typed, TypeOK
<1>5. Structure'
  <2>1. Opens' /\ Known'
    BY <1>1, <1>3 DEF MeteringInv, Structure, Opens, Known, Begins, Initializing
  <2>2. Owned'
    BY <1>3 DEF Owned, Destroying
  <2> QED
    BY <2>1, <2>2 DEF Structure
<1>6. Timing'
  <2>1. Operations' = Operations /\ TimerAlone' /\ StopAlone'
    BY <1>1, <1>3, OwnerTiming
  <2>2. Awake' = Awake /\ call'["stop"] = call["stop"]
    BY <1>1, <1>3, Names DEF Awake, Exists, Running, Others
  <2>3. Attended => Attended'
    BY <1>1, <1>3, <2>1, <2>2 DEF Attended, Initializing
  <2> QED
    BY <1>1, <2>1, <2>2, <2>3 DEF MeteringInv, Timing, Attention
<1>7. Session'
  <2>1. ~Initializing({"opening"}) /\ ~OwnerNotes /\ Fine' = Fine
    BY <1>1 DEF Initializing, OwnerNotes, Fine
  <2>2. Fine /\ Sleeps => call["owner"].kind # "initialize"
    BY DEF MeteringInv, Session, Paused
  <2>3. Fine /\ active # NoComputer /\ ~Exists(active) => call["owner"].kind \in {"destroy", "release"}
    BY DEF MeteringInv, Session, Gone
  <2> QED
    BY <1>1, <1>3, <2>1, <2>2, <2>3, OwnerSession
<1> QED
  BY <1>4, <1>5, <1>6, <1>7 DEF MeteringInv

(* The machine is destroyed: it is the open computer's.                    *)
LEMMA DestroysKeeps ==
    ASSUME MeteringInv, Destroys
    PROVE  MeteringInv'
<1> DEFINE p == call["owner"].on.provider
<1>1. /\ call["owner"].at = "opened" /\ call["owner"].kind = "destroy" /\ Exists(call["owner"].on)
      /\ machine' = [machine EXCEPT ![p] = [id |-> 0, state |-> "none"]]
      /\ call' = Go("owner", "close")
      /\ bypassed' = (bypassed \/ Operations # {})
      /\ UNCHANGED <<driver, row, sessions, active, opening, turns, timer, mayResume, booting, crashes, faults>>
  BY DEF Destroys, records, bounds
<1>2. call \in Calls /\ "owner" \in Callers /\ opening \in OpeningState /\ "close" \in Places
  BY Names DEF MeteringInv, Typed, TypeOK, Calls, Places
<1>3. call["owner"].on = active /\ active.provider = driver
  BY <1>1 DEF MeteringInv, Structure, Owned, Destroying
<1>4. active \in Machines /\ p = active.provider /\ p \in Providers /\ active # NoComputer /\ active.id # 0
  BY <1>1, <1>3, ExistsIsMachine, MachineParts DEF Exists, MeteringInv, Typed, TypeOK
<1>5. /\ call' \in Calls /\ Others({"owner"}) /\ call'["owner"].at = "close"
      /\ call'["owner"].kind = "destroy" /\ call'["owner"].on = active
  BY <1>1, <1>2, <1>3, GoGoes DEF Others
<1>6. machine' \in [Providers -> MachineState] /\ machine'[p].id = 0 /\ \A q \in Providers \ {p} : machine'[q] = machine[q]
  <2> DEFINE none == [id |-> 0, state |-> "none"]
  <2>1. none \in MachineState /\ none.id = 0
    BY MeteringAssumption DEF MachineState
  <2>2. machine' = [machine EXCEPT ![p] = none]
    BY <1>1
  <2> HIDE DEF none
  <2> QED
    BY <1>4, <2>1, <2>2 DEF MeteringInv, Typed, TypeOK
<1>7. opening.at \notin {"connect", "opened"}
  BY <1>3, <1>4 DEF MeteringInv, Structure, Opens
<1>8. Typed'
  <2>1. Equipped' /\ Resting' /\ Using'
    BY <1>1, <1>2, <1>5, Names, CallersTyped DEF MeteringInv, Begins
  <2>2. bypassed' \in BOOLEAN
    BY <1>1
  <2> QED
    BY <1>1, <1>5, <1>6, <2>1, <2>2 DEF MeteringInv, Typed, TypeOK, Calls
<1>9. Structure'
  BY <1>1, <1>3, <1>4, <1>5, <1>6, <1>7 DEF Structure, Opens, Known, Owned, Destroying
<1>10. Timing'
  <2>1. Operations' = Operations /\ TimerAlone' /\ StopAlone'
    BY <1>1, <1>5, OwnerTiming
  <2> QED
    BY <1>5, <2>1 DEF Timing, Attention, Attended
<1>11. ~Exists(active)'
  BY <1>1, <1>4, <1>6 DEF Exists
<1>12. Session'
  BY <1>1, <1>3, <1>4, <1>5, <1>7, <1>11 DEF Session, OfDriver, Renewed, Counted, Awake, Paused, Sleeps, Gone
<1> QED
  BY <1>8, <1>9, <1>10, <1>12 DEF MeteringInv

(* Its session is closed and its row deleted.                              *)
LEMMA DestroyClosesKeeps ==
    ASSUME MeteringInv, DestroyCloses
    PROVE  MeteringInv'
<1> DEFINE p == call["owner"].on.provider
           left == Leave("owner", "release")
           c == [left["owner"] EXCEPT !.kind = "release"]
<1>1. /\ call["owner"].at = "close"
      /\ sessions' = [sessions EXCEPT ![p] = {}] /\ row' = [row EXCEPT ![p] = 0]
      /\ call' = [left EXCEPT !["owner"].kind = "release"]
      /\ UNCHANGED <<driver, machine, active, opening, turns, timer, mayResume, booting, bypassed, crashes, faults>>
  BY DEF DestroyCloses, bounds
<1>2. call \in Calls /\ "owner" \in Callers /\ opening \in OpeningState /\ "release" \in Places /\ "release" \in Kinds
  BY Names DEF MeteringInv, Typed, TypeOK, Calls, Places, Kinds
<1>3. /\ call["owner"].on = active /\ active.provider = driver /\ machine[active.provider].id = 0
      /\ p = driver /\ p \in Providers
  BY <1>1 DEF MeteringInv, Structure, Owned, Destroying, Typed, TypeOK
<1>4. active # NoComputer /\ active.id # 0
  BY <1>3, Names, NoneIsNone, MachineParts DEF MeteringInv, Typed, TypeOK, Computers
<1>5. left \in Calls /\ left["owner"].at = "release" /\ \A b \in Callers \ {"owner"} : left[b] = call[b]
  BY <1>2, LeaveGoes
<1>6. c \in CallState /\ c.at = "release" /\ c.kind = "release"
  <2>1. left["owner"] \in CallState
    BY <1>2, <1>5 DEF Calls
  <2> QED
    BY <1>2, <1>5, <2>1 DEF CallState
<1>7. call' = [left EXCEPT !["owner"] = c]
  BY <1>1
<1> HIDE DEF left, c
<1>8. call' \in Calls /\ Others({"owner"}) /\ call'["owner"].at = "release" /\ call'["owner"].kind = "release"
  BY <1>2, <1>5, <1>6, <1>7 DEF Calls, Others
<1>9. opening.at \notin {"connect", "opened"}
  BY <1>3, <1>4 DEF MeteringInv, Structure, Opens
<1>10. Typed'
  <2>1. Equipped' /\ Resting' /\ Using'
    BY <1>1, <1>2, <1>8, Names, CallersTyped DEF MeteringInv, Begins
  <2>2. row' \in [Providers -> 0..MaxInstances]
    BY <1>1, <1>3, MeteringAssumption DEF MeteringInv, Typed, TypeOK
  <2>3. sessions' \in [Providers -> SUBSET (1..MaxInstances)] /\ \A q \in Providers : \A a, b \in sessions'[q] : a = b
    BY <1>1, <1>3 DEF MeteringInv, Typed, TypeOK
  <2> QED
    BY <1>1, <1>8, <2>1, <2>2, <2>3 DEF MeteringInv, Typed, TypeOK, Calls
<1>11. Structure'
  <2>1. Opens' /\ Known'
    BY <1>1, <1>9 DEF MeteringInv, Structure, Opens, Known
  <2>2. Owned'
    BY <1>8 DEF Owned, Destroying, Releasing
  <2> QED
    BY <2>1, <2>2 DEF Structure
<1>12. Timing'
  <2>1. Operations' = Operations /\ TimerAlone' /\ StopAlone'
    BY <1>1, <1>8, OwnerTiming
  <2> QED
    BY <1>8, <2>1 DEF Timing, Attention, Attended
<1>13. ~Exists(active)'
  BY <1>1, <1>3, <1>4 DEF Exists
<1>14. Session'
  BY <1>1, <1>3, <1>4, <1>8, <1>9, <1>13 DEF Session, OfDriver, Renewed, Counted, Awake, Paused, Sleeps, Gone
<1> QED
  BY <1>10, <1>11, <1>12, <1>14 DEF MeteringInv

(* The owner waits for what is under way before it lets go.                *)
LEMMA WaitsKeeps ==
    ASSUME MeteringInv, call' \in Calls, Others({"owner"}), Releasing,
           call["owner"].at \notin {"update"}, call'["owner"].kind = call["owner"].kind,
           call'["owner"].at \in {"opening", "opened", "stopping", "syncing"},
           call["owner"].at # "opening",
           timer' \in BOOLEAN, timer' => timer,
           UNCHANGED <<driver, row, sessions, machine, active, opening, turns, mayResume, booting, bypassed, crashes, faults>>
    PROVE  MeteringInv'
<1>1. Begins
  BY DEF Begins
<1>2. Typed'
  BY <1>1, OwnerTyped DEF MeteringInv, Typed, TypeOK
<1>3. Structure'
  <2>1. Opens' /\ Known'
    BY DEF MeteringInv, Structure, Opens, Known, Initializing
  <2>2. Owned'
    BY DEF Owned, Destroying, Releasing
  <2> QED
    BY <2>1, <2>2 DEF Structure
<1>4. Timing'
  <2>1. Attended'
    BY DEF Attended, Releasing
  <2> QED
    BY <2>1, OwnerTiming DEF Timing, Attention
<1>5. Session'
  <2>1. ~Initializing({"opening"}) /\ ~OwnerNotes /\ Fine' = Fine
    BY DEF Initializing, OwnerNotes, Fine, Releasing
  <2>2. Fine /\ active # NoComputer /\ ~Exists(active) => call["owner"].kind \in {"destroy", "release"}
    BY DEF MeteringInv, Session, Gone
  <2> QED
    BY <1>1, <2>1, <2>2, OwnerSession DEF Releasing
<1> QED
  BY <1>2, <1>3, <1>4, <1>5 DEF MeteringInv

(* The owner begins to let go of the computer.                             *)
LEMMA ReleasesKeeps ==
    ASSUME MeteringInv, Releases
    PROVE  MeteringInv'
<1> DEFINE place == IF opening.at = "no" THEN "opened" ELSE "opening"
<1>1. /\ call["owner"].at = "release" /\ timer' = FALSE /\ call' = Go("owner", place)
      /\ UNCHANGED <<driver, row, sessions, machine, active, opening, turns, mayResume, booting, bypassed, crashes, faults>>
  BY DEF Releases, records, bounds
<1>2. place \in {"opened", "opening"} /\ place \in Places
  BY DEF Places
<1> HIDE DEF place
<1>3. call \in Calls /\ "owner" \in Callers
  BY Names DEF MeteringInv, Typed, TypeOK, Calls
<1>4. call' \in Calls /\ Others({"owner"}) /\ call'["owner"].at = place /\ call'["owner"].kind = call["owner"].kind
  BY <1>1, <1>2, <1>3, GoGoes DEF Others
<1>5. Releasing
  BY <1>1 DEF MeteringInv, Structure, Owned
<1> QED
  BY <1>1, <1>2, <1>4, <1>5, WaitsKeeps

(* It waits for the stop and for the reconciliation in turn.               *)
LEMMA ReleaseWaitsKeeps ==
    ASSUME MeteringInv, ReleaseWaits
    PROVE  MeteringInv'
<1>1. /\ Releasing
      /\ \/ call["owner"].at = "opened" /\ call' = Leave("owner", "stopping")
         \/ call["owner"].at = "stopping" /\ call' = Go("owner", "syncing")
      /\ UNCHANGED <<driver, row, sessions, machine, active, opening, turns, timer, mayResume, booting, bypassed, crashes, faults>>
  BY DEF ReleaseWaits, records, bounds
<1>2. call \in Calls /\ "owner" \in Callers /\ {"stopping", "syncing"} \subseteq Places
  BY Names DEF MeteringInv, Typed, TypeOK, Calls, Places
<1>3. /\ call' \in Calls /\ Others({"owner"}) /\ call'["owner"].at \in {"stopping", "syncing"}
      /\ call'["owner"].kind = call["owner"].kind
  <2>1. CASE call["owner"].at = "opened"
    BY <1>1, <1>2, <2>1, LeaveGoes DEF Others
  <2>2. CASE call["owner"].at # "opened"
    BY <1>1, <1>2, <2>2, GoGoes DEF Others
  <2> QED
    BY <2>1, <2>2
<1> QED
  BY <1>1, <1>3, WaitsKeeps DEF MeteringInv, Typed, TypeOK

(* The computer is let go of.                                              *)
LEMMA ReleasedKeeps ==
    ASSUME MeteringInv, Released
    PROVE  MeteringInv'
<1> DEFINE calls == IF call["owner"].kind = "switch" THEN Go("owner", "update") ELSE [call EXCEPT !["owner"] = Idle]
<1>1. /\ call["owner"].at = "syncing" /\ active' = NoComputer /\ mayResume' = TRUE
      /\ call' = Forget(calls)
      /\ bypassed' = (bypassed \/ Operations # {})
      /\ UNCHANGED <<driver, row, sessions, machine, opening, turns, timer, booting, crashes, faults>>
  BY DEF Released, records, bounds
<1>2. call \in Calls /\ "owner" \in Callers /\ "poll" \in Callers /\ opening \in OpeningState /\ "update" \in Places
  BY Names DEF MeteringInv, Typed, TypeOK, Calls, Places
<1>3. /\ calls \in Calls /\ \A b \in Callers \ {"owner"} : calls[b] = call[b]
      /\ calls["owner"] = Idle \/ (calls["owner"].at = "update" /\ calls["owner"].kind = "switch")
  <2>1. CASE call["owner"].kind = "switch"
    BY <1>2, <2>1, GoGoes
  <2>2. CASE call["owner"].kind # "switch"
    BY <1>2, <2>2, NoneIsNone DEF Calls
  <2> QED
    BY <2>1, <2>2
<1> HIDE DEF calls
<1>4. /\ call' \in Calls /\ Others({"owner"}) /\ call'["poll"] = Idle
      /\ call'["owner"] = Idle \/ (call'["owner"].at = "update" /\ call'["owner"].kind = "switch")
  BY <1>1, <1>2, <1>3, ForgetGoes DEF Others
<1>5. /\ \A u \in Users : call'[u] = call[u]
      /\ call'["stop"] = call["stop"]
  BY <1>4, Names DEF Others
<1>6. Typed'
  <2>1. Equipped' /\ Resting' /\ Using'
    BY <1>1, <1>2, <1>4, Names, NoneIsNone, CallersTyped DEF MeteringInv, Begins
  <2>2. bypassed' \in BOOLEAN /\ mayResume' \in BOOLEAN /\ active' \in Computers
    BY <1>1, NoneIsNone
  <2> QED
    BY <1>1, <1>4, <2>1, <2>2 DEF MeteringInv, Typed, TypeOK, Calls
<1>7. opening.at \in {"connect", "opened"} => opening.on.provider \in Providers /\ opening.on.provider = driver
  BY <1>1, MachineParts DEF MeteringInv, Typed, Equipped, Structure, Opens, Initializing
<1>8. Structure'
  <2>1. Opens'
    BY <1>1, <1>7, Names, NoneIsNone DEF Opens
  <2>2. Known'
    BY <1>1 DEF MeteringInv, Structure, Known
  <2>3. Owned'
    BY <1>1, <1>4, NoneIsNone DEF Owned, Destroying
  <2> QED
    BY <2>1, <2>2, <2>3 DEF Structure
<1>9. Timing'
  BY <1>1, <1>4, OwnerTiming DEF Timing, Attention
<1>10. Session'
  <2>1. CASE ~Fine'
    BY <2>1, UnfineSession
  <2>2. CASE Fine'
    <3>1. Fine /\ Operations = {}
      BY <1>1, <2>2 DEF Fine
    <3>2. OfDriver'
      BY <1>1, <3>1 DEF MeteringInv, Session, OfDriver, Running
    <3>3. \A u \in Users : call[u].at \in Untouched
      BY <3>1 DEF MeteringInv, Typed, Using, UserPlaces, Operations, Operating, Untouched
    <3>4. Renewed'
      BY <1>1, <1>4, <1>5, <3>3, NoneIsNone DEF Renewed, Untouched
    <3>5. Counted' /\ Paused' /\ Gone'
      BY <1>1 DEF Counted, Paused, Sleeps, Gone
    <3> QED
      BY <3>2, <3>4, <3>5 DEF Session
  <2> QED
    BY <2>1, <2>2
<1> QED
  BY <1>6, <1>8, <1>9, <1>10 DEF MeteringInv

(* The provider is noted, and its computer is opened.                      *)
LEMMA SwitchesKeeps ==
    ASSUME MeteringInv, NEW p \in Providers, Switches(p)
    PROVE  MeteringInv'
<1> DEFINE c == [call["owner"] EXCEPT !.at = "opening", !.kind = "initialize"]
           calls == [call EXCEPT !["owner"].at = "opening", !["owner"].kind = "initialize"]
<1>1. /\ call["owner"].at = "update" /\ driver' = p /\ Resolve(calls)
      /\ UNCHANGED <<row, sessions, machine, active, turns, timer, mayResume, booting, bypassed, crashes, faults>>
  BY DEF Switches, bounds
<1>2. call \in Calls /\ "owner" \in Callers /\ opening \in OpeningState
  BY Names DEF MeteringInv, Typed, TypeOK, Calls
<1>3. c \in CallState /\ c.at = "opening" /\ c.kind = "initialize"
  <2>1. call["owner"] \in CallState
    BY <1>2 DEF Calls
  <2> QED
    BY <2>1 DEF CallState, Places, Kinds
<1>4. calls = [call EXCEPT !["owner"] = c]
  BY <1>2 DEF Calls
<1> HIDE DEF c
<1>5. calls \in Calls /\ calls["owner"] = c /\ \A b \in Callers \ {"owner"} : calls[b] = call[b]
  BY <1>2, <1>3, <1>4 DEF Calls
<1> HIDE DEF calls
<1>6. /\ call' \in Calls /\ Others({"owner"}) /\ Begins /\ opening' \in OpeningState /\ opening'.at # "no"
      /\ call'["owner"].at = "opening" /\ call'["owner"].kind = "initialize"
  BY <1>1, <1>2, <1>3, <1>5, ResolveGoes DEF Others
<1>7. /\ \A u \in Users : call'[u] = call[u]
      /\ call'["stop"] = call["stop"]
      /\ call'["poll"] = call["poll"] \/ call'["poll"] = Idle
  BY <1>6, Names DEF Others
<1>8. call["owner"].kind = "switch" /\ (active = NoComputer \/ active.provider = driver)
  BY <1>1 DEF MeteringInv, Structure, Owned
<1>9. Typed'
  <2>1. Equipped' /\ Resting' /\ Using'
    BY <1>2, <1>6, Names, CallersTyped DEF MeteringInv
  <2> QED
    BY <1>1, <1>6, <2>1 DEF MeteringInv, Typed, TypeOK, Calls
<1>10. Structure'
  <2>1. Opens'
    BY <1>1, <1>6, <1>8 DEF MeteringInv, Structure, Opens, Begins, Initializing
  <2>2. Known'
    BY <1>1, <1>6 DEF MeteringInv, Structure, Known, Begins
  <2>3. Owned'
    BY <1>6 DEF Owned, Destroying
  <2> QED
    BY <2>1, <2>2, <2>3 DEF Structure
<1>11. Awake' = Awake /\ Sleeps' = Sleeps /\ Exists(active)' = Exists(active) /\ Fine' = Fine
  BY <1>1 DEF Awake, Sleeps, Exists, Running, Fine
<1>12. Timing'
  <2>1. Operations' = Operations /\ TimerAlone' /\ StopAlone'
    BY <1>1, <1>6, OwnerTiming
  <2>2. Attended => Attended'
    BY <1>1, <1>7, <1>8, <2>1 DEF Attended, Initializing
  <2> QED
    BY <1>1, <1>11, <2>1, <2>2 DEF MeteringInv, Timing, Attention
<1>13. Session'
  <2>1. OfDriver'
    BY <1>1, <1>6, <1>11 DEF MeteringInv, Session, OfDriver, Begins, Initializing, Running
  <2>2. Renewed'
    BY <1>1, <1>7, <1>11, NoneIsNone DEF MeteringInv, Session, Renewed
  <2>3. Counted'
    <3>1. ~OwnerNotes /\ \A u \in Users : Notes(u) => Notes(u)'
      BY <1>1, <1>7 DEF OwnerNotes, Initializing, Notes
    <3> QED
      BY <1>1, <1>11, <3>1 DEF MeteringInv, Session, Counted, Noticed
  <2>4. Paused'
    BY <1>1, <1>11 DEF MeteringInv, Session, Paused
  <2>5. Gone'
    BY <1>1, <1>8, <1>11 DEF MeteringInv, Session, Gone
  <2> QED
    BY <2>1, <2>2, <2>3, <2>4, <2>5 DEF Session
<1> QED
  BY <1>9, <1>10, <1>12, <1>13 DEF MeteringInv

(* While initialize() sees to the session of a computer, and nothing has   *)
(* gone wrong, that computer is the driver's and its machine runs.         *)
LEMMA Initializes ==
    ASSUME MeteringInv, call["owner"].kind = "initialize", Fine, active # NoComputer
    PROVE  Exists(active) /\ ~Sleeps
BY DEF MeteringInv, Session, Paused, Gone

(* Initialize() looks for the session.                                     *)
LEMMA InitializeSelectsKeeps ==
    ASSUME MeteringInv, InitializeSelects
    PROVE  MeteringInv'
<1>1. /\ call["owner"].at = "opened" /\ call["owner"].kind = "initialize"
      /\ call' = IF Metered THEN Leave("owner", "initialized")
                 ELSE [call EXCEPT !["owner"].at = "insert", !["owner"].on = active]
      /\ UNCHANGED <<driver, row, sessions, machine, active, opening, turns, timer, mayResume, booting, bypassed, crashes, faults>>
  BY DEF InitializeSelects, records, bounds
<1>2. call \in Calls /\ "owner" \in Callers /\ opening \in OpeningState /\ "initialized" \in Places
  BY Names DEF MeteringInv, Typed, TypeOK, Calls, Places
<1>3. /\ call' \in Calls /\ Others({"owner"}) /\ call'["owner"].kind = "initialize"
      /\ \/ Metered /\ call'["owner"].at = "initialized"
         \/ call'["owner"].at = "insert" /\ call'["owner"].on = active /\ active \in Machines
  <2>1. CASE Metered
    BY <1>1, <1>2, <2>1, LeaveGoes DEF Others
  <2>2. CASE ~Metered
    BY <1>1, <1>2, <2>2, FindsNone DEF MeteringInv
  <2> QED
    BY <2>1, <2>2
<1>4. Begins
  BY <1>1 DEF Begins
<1>5. Typed'
  BY <1>1, <1>2, <1>3, <1>4, OwnerTyped DEF MeteringInv, Typed, TypeOK
<1>6. Structure'
  <2>1. Opens' /\ Known'
    BY <1>1 DEF MeteringInv, Structure, Opens, Known, Initializing
  <2>2. Owned'
    BY <1>1, <1>3 DEF Owned, Destroying
  <2> QED
    BY <2>1, <2>2 DEF Structure
<1>7. Timing'
  <2>1. Attended'
    BY <1>3 DEF Attended, Initializing
  <2> QED
    BY <1>1, <1>3, <2>1, OwnerTiming DEF Timing, Attention
<1>8. Session'
  <2>1. ~Initializing({"opening"}) /\ Fine' = Fine
    BY <1>1 DEF Initializing, Fine
  <2>2. active # NoComputer => OwnerNotes' \/ sessions'[active.provider] = {active.id}
    BY <1>1, <1>3 DEF OwnerNotes, Initializing, Metered
  <2>3. Fine /\ Sleeps => FALSE
    BY <1>1, Initializes DEF Sleeps
  <2>4. Fine /\ active # NoComputer => Exists(active)
    BY <1>1, Initializes
  <2> QED
    BY <1>1, <1>3, <1>4, <2>1, <2>2, <2>3, <2>4, OwnerSession
<1> QED
  BY <1>5, <1>6, <1>7, <1>8 DEF MeteringInv

(* Initialize() notes the session.                                         *)
LEMMA InitializeInsertsKeeps ==
    ASSUME MeteringInv, InitializeInserts
    PROVE  MeteringInv'
<1>1. /\ call["owner"].at = "insert" /\ Insert("owner") /\ call' = Leave("owner", "initialized")
      /\ UNCHANGED <<driver, row, machine, active, opening, turns, timer, mayResume, booting, bypassed, crashes, faults>>
  BY DEF InitializeInserts, bounds
<1>2. call \in Calls /\ "owner" \in Callers /\ opening \in OpeningState /\ "initialized" \in Places
  BY Names DEF MeteringInv, Typed, TypeOK, Calls, Places
<1>3. call["owner"].on \in Machines /\ call["owner"].kind = "initialize"
  BY <1>1, <1>2 DEF MeteringInv, Typed, Equipped, Structure, Owned
<1>4. /\ sessions' \in [Providers -> SUBSET (1..MaxInstances)]
      /\ \A p \in Providers : \A a, b \in sessions'[p] : a = b
      /\ sessions'[call["owner"].on.provider] = {call["owner"].on.id}
      /\ \A p \in Providers : p # call["owner"].on.provider => sessions'[p] = sessions[p]
  BY <1>1, <1>2, <1>3, InsertGoes DEF MeteringInv
<1>5. /\ call' \in Calls /\ Others({"owner"}) /\ call'["owner"].kind = "initialize" /\ call'["owner"].at = "initialized"
  BY <1>1, <1>2, <1>3, LeaveGoes DEF Others
<1>6. Begins
  BY <1>1 DEF Begins
<1>7. Typed'
  <2>1. Equipped' /\ Resting' /\ Using'
    BY <1>2, <1>5, <1>6, Names, CallersTyped DEF MeteringInv
  <2> QED
    BY <1>1, <1>4, <1>5, <2>1 DEF MeteringInv, Typed, TypeOK, Calls
<1>8. Structure'
  <2>1. Opens' /\ Known'
    BY <1>1 DEF MeteringInv, Structure, Opens, Known, Initializing
  <2>2. Owned'
    BY <1>5 DEF Owned, Destroying
  <2> QED
    BY <2>1, <2>2 DEF Structure
<1>9. Timing'
  <2>1. Attended'
    BY <1>5 DEF Attended, Initializing
  <2> QED
    BY <1>1, <1>5, <2>1, OwnerTiming DEF Timing, Attention
<1>10. Session'
  <2>1. ~Initializing({"opening"}) /\ Fine' = Fine
    BY <1>1 DEF Initializing, Fine
  <2>2. \/ active # NoComputer /\ sessions'[active.provider] = {active.id}
        \/ active = NoComputer
        \/ sessions'[active.provider] = sessions[active.provider] /\ call["owner"].on # active
    <3>1. active # NoComputer => active.provider \in Providers
      BY MachineParts DEF MeteringInv, Typed, TypeOK, Computers
    <3>2. CASE call["owner"].on = active
      BY <1>3, <1>4, <3>2, MachineParts
    <3>3. CASE call["owner"].on # active
      <4>1. call["owner"].on.provider # active.provider
        BY <1>1, <3>3 DEF MeteringInv, Structure, Owned
      <4> QED
        BY <1>4, <3>1, <3>3, <4>1
    <3> QED
      BY <3>2, <3>3
  <2>3. OwnerNotes => call["owner"].on = active
    BY <1>1 DEF OwnerNotes, Initializing
  <2>4. Fine /\ Sleeps => FALSE
    BY <1>3, Initializes DEF Sleeps
  <2>5. Fine /\ active # NoComputer => Exists(active)
    BY <1>3, Initializes
  <2> QED
    BY <1>1, <1>5, <1>6, <2>1, <2>2, <2>3, <2>4, <2>5, OwnerSession
<1> QED
  BY <1>7, <1>8, <1>9, <1>10 DEF MeteringInv

(* What the first initialize() leaves open of the sessions.                *)
LEMMA UnresumedGoes ==
    ASSUME Typed, Unresumed
    PROVE  /\ sessions' \in [Providers -> SUBSET (1..MaxInstances)]
           /\ \A p \in Providers : \A a, b \in sessions'[p] : a = b
           /\ active # NoComputer /\ sessions[active.provider] = {active.id} =>
                  sessions'[active.provider] = {active.id}
<1>1. CASE ~booting
  BY <1>1 DEF Unresumed, Typed, TypeOK
<1>2. CASE booting
  <2>1. sessions' = [p \in Providers |-> {id \in sessions[p] : p = active.provider /\ id = active.id}]
    BY <1>2 DEF Unresumed
  <2>2. active # NoComputer => active.provider \in Providers
    BY MachineParts DEF Typed, TypeOK, Computers
  <2>3. \A p \in Providers : sessions'[p] \subseteq sessions[p]
    BY <2>1
  <2>4. sessions' \in [Providers -> SUBSET (1..MaxInstances)]
    BY <2>1 DEF Typed, TypeOK
  <2>5. \A p \in Providers : \A a, b \in sessions'[p] : a = b
    BY <2>3 DEF Typed, TypeOK
  <2>6. active # NoComputer /\ sessions[active.provider] = {active.id} => sessions'[active.provider] = {active.id}
    BY <2>1, <2>2
  <2> QED
    BY <2>4, <2>5, <2>6
<1> QED
  BY <1>1, <1>2 DEF Typed, TypeOK

(* Initialize() is over, or has failed: the owner is idle, and nothing of  *)
(* the sessions of the open computer has changed.                          *)
LEMMA InitializeEnds ==
    ASSUME MeteringInv, Unresumed, call' = [call EXCEPT !["owner"] = Idle],
           call["owner"].at \in {"initialized", "refused", "opened"}, Fine' => Fine,
           UNCHANGED <<driver, row, machine, active, opening, turns, mayResume, crashes, faults>>,
           timer' \in BOOLEAN, booting' \in BOOLEAN, bypassed' \in BOOLEAN,
           Fine' => call["owner"].kind = "initialize" /\ call["owner"].at # "opened"
    PROVE  Others({"owner"}) /\ call'["owner"] = Idle /\ Typed' /\ Structure' /\ Session'
<1>1. call \in Calls /\ "owner" \in Callers /\ opening \in OpeningState
  BY Names DEF MeteringInv, Typed, TypeOK, Calls
<1>2. call' \in Calls /\ Others({"owner"}) /\ call'["owner"] = Idle
  BY <1>1, NoneIsNone, CallGoes DEF Others
<1>3. Begins
  BY DEF Begins
<1>4. /\ sessions' \in [Providers -> SUBSET (1..MaxInstances)]
      /\ \A p \in Providers : \A a, b \in sessions'[p] : a = b
      /\ active # NoComputer /\ sessions[active.provider] = {active.id} =>
             sessions'[active.provider] = {active.id}
  BY UnresumedGoes DEF MeteringInv
<1>5. Typed'
  <2>1. Equipped' /\ Resting' /\ Using'
    BY <1>1, <1>2, <1>3, Names, NoneIsNone, CallersTyped DEF MeteringInv
  <2> QED
    BY <1>2, <1>4, <2>1 DEF MeteringInv, Typed, TypeOK, Calls
<1>6. Structure'
  <2>1. Opens' /\ Known'
    BY DEF MeteringInv, Structure, Opens, Known, Initializing
  <2>2. Owned'
    BY <1>2, NoneIsNone DEF Owned, Destroying
  <2> QED
    BY <2>1, <2>2 DEF Structure
<1>7. Session'
  <2>1. CASE ~Fine'
    BY <2>1, UnfineSession
  <2>2. CASE Fine'
    <3>1. Fine /\ call["owner"].kind = "initialize" /\ ~Initializing({"opening"}) /\ ~OwnerNotes
      BY <2>2 DEF Initializing, OwnerNotes
    <3>2. active # NoComputer => Exists(active) /\ ~Sleeps
      BY <3>1, Initializes
    <3>3. ~Sleeps
      BY <3>2 DEF Sleeps
    <3> QED
      BY <1>2, <1>3, <1>4, <3>1, <3>2, <3>3, OwnerSession
  <2> QED
    BY <2>1, <2>2
<1> QED
  BY <1>2, <1>5, <1>6, <1>7

(* Initialize() sets the timer at its end.                                 *)
LEMMA InitializedKeeps ==
    ASSUME MeteringInv, Initialized
    PROVE  MeteringInv'
<1>1. /\ call["owner"].at = "initialized" /\ Unresumed
      /\ timer' = (Operations = {} /\ turns = 0 /\ active # NoComputer) /\ booting' = FALSE
      /\ call' = [call EXCEPT !["owner"] = Idle]
      /\ UNCHANGED <<driver, row, machine, active, opening, turns, mayResume, bypassed, crashes, faults>>
  BY DEF Initialized, ArmIdle, bounds
<1>2. call["owner"].kind = "initialize" /\ bypassed \in BOOLEAN /\ Fine' = Fine
  BY <1>1 DEF MeteringInv, Structure, Owned, Typed, TypeOK, Fine
<1>3. timer' \in BOOLEAN /\ booting' \in BOOLEAN
  BY <1>1
<1>4. Others({"owner"}) /\ Typed' /\ Structure' /\ Session'
  BY <1>1, <1>2, <1>3, InitializeEnds
<1>5. Timing'
  <2>1. \A u \in Users : call'[u] = call[u]
    BY <1>4, Names DEF Others
  <2>2. call'["stop"] = call["stop"]
    BY <1>4, Names DEF Others
  <2>3. Operations' = Operations
    BY <2>1 DEF Operations, Operating
  <2>4. TimerAlone' /\ StopAlone'
    BY <1>1, <2>1, <2>2, <2>3 DEF MeteringInv, Timing, TimerAlone, StopAlone
  <2> QED
    BY <1>1, <2>3, <2>4 DEF Timing, Attention, Attended
<1> QED
  BY <1>4, <1>5 DEF MeteringInv

(* Initialize(), the destruction or the release fails.                     *)
LEMMA OwnerFailsKeeps ==
    ASSUME MeteringInv, OwnerFails
    PROVE  MeteringInv'
<1>1. /\ call["owner"].at = "refused" \/ (call["owner"].at = "opened" /\ call["owner"].kind = "destroy")
      /\ Unresumed /\ booting' = FALSE
      /\ call' = [call EXCEPT !["owner"] = Idle]
      /\ bypassed' = (bypassed \/ call["owner"].kind # "initialize")
      /\ UNCHANGED <<driver, row, machine, active, opening, turns, timer, mayResume, crashes, faults>>
  BY DEF OwnerFails, bounds
<1>2. bypassed' \in BOOLEAN /\ booting' \in BOOLEAN /\ timer' \in BOOLEAN
  BY <1>1 DEF MeteringInv, Typed, TypeOK
<1>3. Fine' => Fine /\ call["owner"].kind = "initialize" /\ call["owner"].at # "opened"
  BY <1>1 DEF Fine
<1>4. Others({"owner"}) /\ call'["owner"] = Idle /\ Typed' /\ Structure' /\ Session'
  BY <1>1, <1>2, <1>3, InitializeEnds
<1>5. Timing'
  <2>1. Operations' = Operations /\ TimerAlone' /\ StopAlone'
    BY <1>1, <1>4, OwnerTiming
  <2>2. Awake' = Awake /\ call'["stop"] = call["stop"]
    BY <1>1, <1>4, Names DEF Awake, Exists, Running, Others
  <2>3. ~bypassed' /\ Attended => Attended'
    BY <1>1, <2>1, <2>2 DEF Attended, Initializing
  <2> QED
    BY <1>1, <2>1, <2>2, <2>3 DEF MeteringInv, Timing, Attention
<1> QED
  BY <1>4, <1>5 DEF MeteringInv

-----------------------------------------------------------------------------
(* Crashes, the beginning, and the whole.                                  *)

(* The calls of a process that has just begun.                             *)
Booting == [c \in Callers |-> IF c = "owner" THEN [Idle EXCEPT !.at = "opening", !.kind = "initialize"] ELSE Idle]

(* Only initialize() is under way when a process begins.                   *)
LEMMA BootingCalls ==
    /\ Booting \in Calls /\ \A c \in Callers \ {"owner"} : Booting[c] = Idle
    /\ Booting["owner"].at = "opening" /\ Booting["owner"].kind = "initialize"
    /\ [NotOpening EXCEPT !.at = "driver"] \in OpeningState /\ [NotOpening EXCEPT !.at = "driver"].at = "driver"
<1> DEFINE c == [Idle EXCEPT !.at = "opening", !.kind = "initialize"]
<1>1. c \in CallState /\ c.at = "opening" /\ c.kind = "initialize"
  BY NoneIsNone DEF CallState, Places, Kinds
<1>2. Booting = [b \in Callers |-> IF b = "owner" THEN c ELSE Idle]
  BY DEF Booting
<1> HIDE DEF c
<1>3. /\ Booting \in Calls /\ \A b \in Callers \ {"owner"} : Booting[b] = Idle
      /\ Booting["owner"].at = "opening" /\ Booting["owner"].kind = "initialize"
  BY <1>1, <1>2, NoneIsNone, Names DEF Calls
<1>4. NoComputer \in [provider : Providers \cup {Nobody}, id : 0..MaxInstances]
  BY MeteringAssumption DEF NoComputer
<1>5. [NotOpening EXCEPT !.at = "driver"] \in OpeningState /\ [NotOpening EXCEPT !.at = "driver"].at = "driver"
  BY <1>4 DEF NotOpening, OpeningState
<1> QED
  BY <1>3, <1>5

(* The process ends, and another one begins.                               *)
LEMMA CrashKeeps ==
    ASSUME MeteringInv, Crash
    PROVE  MeteringInv'
<1>1. /\ crashes < MaxCrashes /\ crashes' = crashes + 1
      /\ active' = NoComputer /\ opening' = [NotOpening EXCEPT !.at = "driver"]
      /\ turns' = 0 /\ timer' = FALSE /\ mayResume' = TRUE
      /\ call' = Booting /\ booting' = TRUE /\ bypassed' = FALSE
      /\ UNCHANGED <<driver, row, sessions, machine, faults>>
  BY DEF Crash, records, Booting
<1>2. /\ call' \in Calls /\ \A c \in Callers \ {"owner"} : call'[c] = Idle
      /\ call'["owner"].at = "opening" /\ call'["owner"].kind = "initialize"
      /\ opening' \in OpeningState /\ opening'.at = "driver"
  BY <1>1, BootingCalls
<1>3. \A u \in Users : call'[u] = Idle
  BY <1>2, Names
<1>4. call'["stop"] = Idle /\ call'["poll"] = Idle
  BY <1>2, Names
<1>5. Typed'
  <2>1. crashes' \in 0..MaxCrashes /\ turns' \in 0..MaxTurns
    BY <1>1, MeteringAssumption DEF MeteringInv, Typed, TypeOK
  <2>2. Equipped'
    BY <1>2, NoneIsNone DEF Equipped
  <2>3. Resting'
    BY <1>2, NoneIsNone DEF Resting
  <2>4. Using'
    BY <1>3, NoneIsNone DEF Using, UserPlaces
  <2>5. TypeOK'
    BY <1>1, <1>2, <2>1, NoneIsNone DEF MeteringInv, Typed, TypeOK, Calls
  <2> QED
    BY <2>2, <2>3, <2>4, <2>5 DEF Typed
<1>6. Structure'
  BY <1>1, <1>2 DEF Structure, Opens, Known, Owned, Destroying
<1>7. Timing'
  BY <1>1, <1>4, NoneIsNone DEF Timing, TimerAlone, StopAlone, Attention
<1>8. Session'
  <2>1. Renewed'
    BY <1>1, <1>3, <1>4, NoneIsNone DEF Renewed, Untouched
  <2> QED
    BY <1>1, <1>2, <2>1 DEF Session, OfDriver, Counted, Paused, Sleeps, Gone
<1> QED
  BY <1>5, <1>6, <1>7, <1>8 DEF MeteringInv

(* The first process begins.                                               *)
LEMMA InitHolds == Init => MeteringInv
<1> SUFFICES ASSUME Init
             PROVE  MeteringInv
  OBVIOUS
<1> DEFINE none == [id |-> 0, state |-> "none"]
<1>1. /\ driver \in Providers /\ row = [p \in Providers |-> 0] /\ sessions = [p \in Providers |-> {}]
      /\ machine = [p \in Providers |-> none]
      /\ active = NoComputer /\ opening = [NotOpening EXCEPT !.at = "driver"]
      /\ turns = 0 /\ timer = FALSE /\ mayResume = TRUE
      /\ call = Booting /\ booting = TRUE /\ bypassed = FALSE /\ crashes = 0 /\ faults = 0
  BY DEF Init, Booting
<1>2. /\ call \in Calls /\ \A c \in Callers \ {"owner"} : call[c] = Idle
      /\ call["owner"].at = "opening" /\ call["owner"].kind = "initialize"
      /\ opening \in OpeningState /\ opening.at = "driver"
  BY <1>1, BootingCalls
<1>3. \A u \in Users : call[u] = Idle
  BY <1>2, Names
<1>4. call["stop"] = Idle /\ call["poll"] = Idle
  BY <1>2, Names
<1>5. Typed
  <2>1. none \in MachineState
    BY MeteringAssumption DEF MachineState
  <2> HIDE DEF none
  <2>2. TypeOK
    <3>1. row \in [Providers -> 0..MaxInstances] /\ machine \in [Providers -> MachineState]
      BY <1>1, <2>1, MeteringAssumption
    <3>2. /\ sessions \in [Providers -> SUBSET (1..MaxInstances)]
          /\ \A p \in Providers : \A a, b \in sessions[p] : a = b
      BY <1>1
    <3>3. turns \in 0..MaxTurns /\ crashes \in 0..MaxCrashes /\ faults \in 0..MaxFaults
      BY <1>1, MeteringAssumption
    <3> QED
      BY <1>1, <1>2, <3>1, <3>2, <3>3, NoneIsNone DEF TypeOK, Calls
  <2>3. Equipped
    BY <1>2, NoneIsNone DEF Equipped
  <2>4. Resting
    BY <1>2, NoneIsNone DEF Resting
  <2>5. Using
    BY <1>3, NoneIsNone DEF Using, UserPlaces
  <2> QED
    BY <2>2, <2>3, <2>4, <2>5 DEF Typed
<1>6. Structure
  BY <1>1, <1>2 DEF Structure, Opens, Known, Owned, Destroying
<1>7. Timing
  BY <1>1, <1>4, NoneIsNone DEF Timing, TimerAlone, StopAlone, Attention
<1>8. Session
  <2>1. Renewed
    BY <1>1, <1>3, <1>4, NoneIsNone DEF Renewed, Untouched
  <2> QED
    BY <1>1, <1>2, <2>1 DEF Session, OfDriver, Counted, Paused, Sleeps, Gone
<1> QED
  BY <1>5, <1>6, <1>7, <1>8 DEF MeteringInv

(* Every step of the program keeps the invariant.                          *)
LEMMA NextKeeps ==
    ASSUME MeteringInv, [Next]_vars
    PROVE  MeteringInv'
<1>1. CASE OpenStep
  BY <1>1, OpenDriverKeeps, OpenConnectsKeeps, OpenCreatesKeeps, OpenDoneKeeps, OpenFailsKeeps DEF OpenStep
<1>2. CASE SyncStep
  BY <1>2, SyncScansKeeps, SyncFailsKeeps DEF SyncStep
<1>3. CASE StopStep
  BY <1>3, StopPausesKeeps, StopClosesKeeps, StopFailsKeeps DEF StopStep
<1>4. CASE OwnerStep
  BY <1>4, DestroyResolvesKeeps, DestroysKeeps, DestroyClosesKeeps, ReleasesKeeps, ReleaseWaitsKeeps,
     ReleasedKeeps, SwitchesKeeps, InitializeSelectsKeeps, InitializeInsertsKeeps, InitializedKeeps,
     OwnerFailsKeeps DEF OwnerStep
<1>5. ASSUME NEW u \in Users, UseStep(u)
      PROVE  MeteringInv'
  BY <1>5, UseGoesOnKeeps, UseCallsKeeps, UseReturnsKeeps, UseRetriesKeeps, UseFailsKeeps,
     UseSelectsKeeps, UseInsertsKeeps, RestartSelectsKeeps, RestartInsertsKeeps DEF UseStep
<1>6. ASSUME NEW u \in Users, NEW kind \in {"exec", "restart"}, UseStart(u, kind)
      PROVE  MeteringInv'
  BY <1>6, UseStartKeeps
<1>7. CASE TurnStarted \/ TurnFinished \/ SyncStorage \/ Poll \/ PollReads \/ PollNotes \/ Stop \/ TimerFires
  BY <1>7, TurnStartedKeeps, TurnFinishedKeeps, SyncStorageKeeps, PollKeeps, PollReadsKeeps, PollNotesKeeps,
     StopKeeps, TimerFiresKeeps
<1>8. ASSUME NEW kind \in {"destroy", "switch", "credentials"}, Ask(kind)
      PROVE  MeteringInv'
  BY <1>8, AskKeeps
<1>9. CASE Crash
  BY <1>9, CrashKeeps
<1>10. CASE UNCHANGED vars
  <2>1. UNCHANGED <<driver, row, sessions, machine, active, opening, turns, timer, mayResume, call, booting, bypassed, crashes, faults>>
    BY <1>10 DEF vars
  <2>2. Typed'
    BY <2>1 DEF MeteringInv, Typed, TypeOK, Equipped, Resting, Using
  <2>3. Structure'
    BY <2>1, StructureStays DEF MeteringInv, Begins
  <2>4. Timing'
    BY <2>1, TimingStays DEF MeteringInv
  <2>5. Session'
    BY <2>1, SessionStays DEF MeteringInv, Begins
  <2> QED
    BY <2>2, <2>3, <2>4, <2>5 DEF MeteringInv
<1> QED
  BY <1>1, <1>2, <1>3, <1>4, <1>5, <1>6, <1>7, <1>8, <1>9, <1>10 DEF Next

(* What holds of every state that the manager reaches.                     *)
THEOREM MeteringAlwaysHolds == Spec => []MeteringInv
<1>1. Init => MeteringInv
  BY InitHolds
<1>2. MeteringInv /\ [Next]_vars => MeteringInv'
  BY NextKeeps
<1> QED
  BY <1>1, <1>2, PTL DEF Spec

(* Every variable of the manager keeps its type.                           *)
THEOREM MeteringTypes == Spec => []TypeOK
<1>1. MeteringInv => TypeOK
  BY DEF MeteringInv, Typed
<1> QED
  BY <1>1, MeteringAlwaysHolds, PTL

(* When all is quiet, a machine that runs for nobody is on the timer       *)
(* (manager.ts:59, :190, :204, :210): whoever else attends to it would be  *)
(* in the middle of something.                                             *)
THEOREM RunningAlwaysTimed == Spec => []RunningIsTimed
<1>1. MeteringInv => RunningIsTimed
  <2> SUFFICES ASSUME MeteringInv, Quiet, active # NoComputer, ~bypassed, turns = 0, Awake
               PROVE  timer
    BY DEF RunningIsTimed, Awake
  <2>1. \A c \in Callers \ {"poll"} : call[c].at = "idle" /\ call[c].kind = "none"
    BY DEF Quiet, MeteringInv, Typed, Resting
  <2>2. Attended
    BY DEF MeteringInv, Timing, Attention
  <2>3. call["owner"].at = "idle" /\ call["owner"].kind = "none" /\ call["stop"].at = "idle"
    BY <2>1, Names
  <2>4. Operations = {}
    BY <2>1, Names DEF Operations, Operating
  <2> QED
    BY <2>2, <2>3, <2>4 DEF Attended, Initializing
<1> QED
  BY <1>1, MeteringAlwaysHolds, PTL

(* When all is quiet, the open computer has its session exactly while its  *)
(* machine runs (manager.ts:147, :188, :234): whoever was to note it, or   *)
(* to close it, would be in the middle of something.                       *)
THEOREM SessionAlwaysFollows == Spec => []SessionFollowsMachine
<1>1. MeteringInv => SessionFollowsMachine
  <2> SUFFICES ASSUME MeteringInv, Quiet, active # NoComputer, Fine
               PROVE  sessions[active.provider] = IF Running(active.provider) THEN {active.id} ELSE {}
    BY DEF SessionFollowsMachine, Fine
  <2>1. \A c \in Callers \ {"poll"} : call[c].at = "idle" /\ call[c].kind = "none"
    BY DEF Quiet, MeteringInv, Typed, Resting
  <2>2. call["owner"].at = "idle" /\ call["owner"].kind = "none" /\ call["stop"].at = "idle"
    BY <2>1, Names
  <2>3. Exists(active)
    BY <2>2 DEF MeteringInv, Session, Gone
  <2>4. ~Noticed
    BY <2>1, <2>2, Names DEF Noticed, Notes, OwnerNotes, Initializing
  <2>5. CASE Running(active.provider)
    BY <2>3, <2>4, <2>5 DEF MeteringInv, Session, Counted, Awake
  <2>6. CASE ~Running(active.provider)
    BY <2>2, <2>3, <2>6 DEF MeteringInv, Session, Paused, Sleeps, Stopping, Stopped
  <2> QED
    BY <2>5, <2>6
<1> QED
  BY <1>1, MeteringAlwaysHolds, PTL

(* An idle stop never pauses the machine under an operation                *)
(* (manager.ts:180-183, :201-204): while it is under way, every operation  *)
(* waits for it.                                                           *)
THEOREM IdleStopAlwaysSpares == Spec => IdleStopSpares
<1>1. MeteringInv /\ [Next]_vars =>
        [call["stop"].kind = "idle" /\ call'["stop"].at = "close" =>
            \A u \in Users : call[u].at \notin {"opened", "calling", "select", "insert"}]_vars
  BY DEF MeteringInv, Timing, StopAlone, Untouched
<1> QED
  BY <1>1, MeteringAlwaysHolds, PTL DEF Spec, IdleStopSpares

=============================================================================
