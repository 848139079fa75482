------------------------- MODULE AutomationsProofs -------------------------
(***************************************************************************)
(* Theorems about Automations, for every number of invocations, requests,  *)
(* editors and crashes and every failure limit.                            *)
(*                                                                         *)
(* IInv is inductive.  HolderInv says that the queue of the automation has *)
(* one holder and what that holder knows of its invocation; it is what     *)
(* makes the look for busy bots still true when the message is posted, and *)
(* what keeps the sweep away from an invocation that is still admitted.    *)
(***************************************************************************)
EXTENDS Automations, TLAPS

Rows ==
    /\ Consistent(row)
    /\ Consistent(sweep.seen)
    /\ \A e \in Editors : Consistent(edit[e].seen)

HolderInv ==
    /\ \A c, d \in Holding : c = d
    /\ \A c \in Call : call[c].at \in {"busy", "post", "record"} =>
           /\ call[c].id \in Invocation
           /\ inv[call[c].id].made
           /\ ~inv[call[c].id].known
    /\ \A c \in Call : call[c].at = "post" /\ setup.overlap = "skip" =>
           \A b \in call[c].start : ~Works(b)

(* What the sweep has looked at or counted is recorded, and what is not    *)
(* made is not recorded.                                                   *)
KnownInv ==
    /\ \A i \in Invocation : inv[i].known => inv[i].made
    /\ \A i \in sweep.todo : inv[i].known

(* An automation by webhook has no job, no tick and no next run.           *)
OnlySchedules ==
    ~Scheduled =>
        /\ row.nextRun = Never /\ sweep.seen.nextRun = Never /\ ~job
        /\ call["tick"].at = "idle" /\ call["boot"].at = "idle"
        /\ \A c \in Call : call[c].at # "advance"
        /\ \A e \in Editors : edit[e].change # "schedule"

IInv == TypeOK /\ OnlySchedules /\ Rows /\ HolderInv /\ KnownInv /\ CountedWhenOver /\ SkipNeverStacks

LEMMA Constants ==
    /\ FailureLimit \in Nat \ {0}
    /\ Never \in Nat /\ Never = 0
    /\ Keys \subseteq Nat \ {0}
    /\ Setups \subseteq Setup
    /\ "tick" \in Call /\ "boot" \in Call
    /\ \A c \in Requests : c \in Call
  BY AutomationsAssumption DEF Never, Call

USE DEF Never

THEOREM InitIInv == Init => IInv
<1> SUFFICES ASSUME Init PROVE IInv OBVIOUS
<1> USE Constants DEF Init
<1>1. TypeOK
  BY DEF TypeOK, Setup, Row, Reason, Scheduled, Fresh, TurnStatus, Active, Idle, NoSweep, NoEdit, CallLabel
<1>2. Rows
  BY DEF Rows, Consistent, NoSweep, NoEdit
<1>3. HolderInv
  BY DEF HolderInv, Holding, Idle
<1>4. KnownInv
  BY DEF KnownInv, Fresh, NoSweep
<1>5. CountedWhenOver /\ SkipNeverStacks
  BY DEF CountedWhenOver, SkipNeverStacks, Fresh, Active
<1>6. OnlySchedules
  BY DEF OnlySchedules, Idle, NoSweep, NoEdit, Scheduled
<1> QED BY <1>1, <1>2, <1>3, <1>4, <1>5, <1>6 DEF IInv

----------------------------------------------------------------------------
CallState == [at : CallLabel, token : Nat, id : Nat, targets : SUBSET Bots, start : SUBSET Bots]
SweepState == [at : {"idle", "list", "next", "write"}, todo : SUBSET Invocation,
               status : {"running", "skipped", "failed", "partial_failed", "completed"}, seen : Row]

(* What the end of a sweep does to the calls that wait for it.             *)
LEMMA SweepToStep ==
    ASSUME TypeOK, NEW s \in SweepState, SweepTo(s)
    PROVE  /\ sweep' \in SweepState
           /\ sweep' = s \/ sweep' = NoSweep
           /\ call' \in [Call -> CallState]
           /\ \A c \in Call : call'[c] = call[c] \/ (call[c].at = "sweep" /\ call'[c] = [call[c] EXCEPT !.at = "queue"])
<1>1. NoSweep \in SweepState
  BY DEF NoSweep, SweepState, Row, Reason
<1>2. sweep' = s \/ sweep' = NoSweep
  BY DEF SweepTo
<1>3. \A c \in Call : call'[c] = call[c] \/ (call[c].at = "sweep" /\ call'[c] = [call[c] EXCEPT !.at = "queue"])
  BY DEF SweepTo
<1>4. call \in [Call -> CallState]
  BY DEF TypeOK, CallState
<1>5. ASSUME NEW c \in Call PROVE call'[c] \in CallState
  <2>1. call[c] \in CallState
    BY <1>4
  <2>2. [call[c] EXCEPT !.at = "queue"] \in CallState
    BY <2>1 DEF CallState, CallLabel
  <2> QED BY <1>3, <2>1, <2>2
<1>6. call' \in [Call -> CallState]
  BY <1>5 DEF SweepTo
<1> QED
  BY <1>1, <1>2, <1>3, <1>6

LEMMA BeginStep ==
    ASSUME TypeOK, NEW c \in Call, NEW token \in Nat, Begin(c, token)
    PROVE  /\ sweep' \in SweepState /\ sweep'.todo = sweep.todo /\ sweep'.seen = sweep.seen
           /\ call' \in [Call -> CallState]
           /\ call' = [call EXCEPT ![c] = call'[c]] /\ call'[c].at = "sweep"
<1>1. sweep \in SweepState /\ call \in [Call -> CallState]
  BY DEF TypeOK, SweepState, CallState
<1>2. sweep' \in SweepState /\ sweep'.todo = sweep.todo /\ sweep'.seen = sweep.seen
  BY <1>1 DEF Begin, JoinSweep, SweepState
<1>3. [Idle EXCEPT !.at = "sweep", !.token = token] \in CallState
  BY DEF Idle, CallState, CallLabel
<1>4. call' = [call EXCEPT ![c] = [Idle EXCEPT !.at = "sweep", !.token = token]]
  BY DEF Begin
<1>5. [Idle EXCEPT !.at = "sweep", !.token = token].at = "sweep"
  BY DEF Idle
<1> QED
  BY <1>1, <1>2, <1>3, <1>4, <1>5

Invocations == [made : BOOLEAN, token : Nat, known : BOOLEAN, counted : BOOLEAN]
EditState == [change : {"none", "pause", "resume", "other", "schedule"}, seen : Row]

LEMMA EditWriters ==
    ASSUME [Next]_vars
    PROVE  \/ UNCHANGED edit
           \/ \E e \in Editors : EditRead(e) \/ EditWrite(e) \/ EditSchedule(e)
           \/ Crash
  BY DEF Next, vars, memVars, StartSweep, SweepList, SweepRunning, SweepClaim, SweepWrite, Tick, Manual, Webhook,
     TurnEnds, BotDeleted, Minute, Boot, Booted, Fire, FireDisabled, FireTargets, FireMissing, FireAdvance,
     FireDuplicate, FireInsert, FireSkipped, FireBusy, FirePost, FireRecord

(* Only a scheduled automation is scheduled again.                         *)
LEMMA ScheduleStep ==
    ASSUME TypeOK, OnlySchedules, [Next]_vars, ~Scheduled, NEW e \in Editors
    PROVE  edit'[e].change # "schedule"
<1>t. edit \in [Editors -> EditState] /\ edit[e].change # "schedule"
  BY DEF TypeOK, EditState, OnlySchedules
<1>1. CASE UNCHANGED edit
  BY <1>1, <1>t
<1>2. CASE \E f \in Editors : EditRead(f)
  <2>1. PICK f \in Editors : EditRead(f)
    BY <1>2
  <2>2. edit'[f].change \in {"pause", "resume", "other"} /\ \A g \in Editors \ {f} : edit'[g] = edit[g]
    BY <2>1, <1>t DEF EditRead
  <2> QED BY <2>2, <1>t
<1>3. CASE \E f \in Editors : EditWrite(f) \/ EditSchedule(f)
  <2>1. PICK f \in Editors : EditWrite(f) \/ EditSchedule(f)
    BY <1>3
  <2>2. edit' = [edit EXCEPT ![f] = NoEdit]
    BY <2>1 DEF EditWrite, EditSchedule
  <2> QED BY <2>2, <1>t DEF NoEdit
<1>4. CASE Crash
  BY <1>4 DEF Crash, NoEdit
<1> QED BY <1>1, <1>2, <1>3, <1>4, EditWriters

LEMMA TypeStep == TypeOK /\ OnlySchedules /\ [Next]_vars => TypeOK' /\ OnlySchedules'
<1> SUFFICES ASSUME TypeOK, OnlySchedules, [Next]_vars PROVE TypeOK' /\ OnlySchedules'
  OBVIOUS
<1> USE Constants DEF EditState, Invocations
<1>t. /\ call \in [Call -> CallState] /\ sweep \in SweepState /\ row \in Row
      /\ inv \in [Invocation -> Invocations]
      /\ turn \in [Invocation -> [Bots -> TurnStatus]]
      /\ edit \in [Editors -> EditState]
      /\ now \in Nat /\ ticked \in Nat /\ crashes \in Nat /\ job \in BOOLEAN
      /\ members \subseteq Bots /\ server \in {"down", "booting", "up"} /\ setup \in Setup
  BY DEF TypeOK, CallState, SweepState
<1>s. ASSUME ~Scheduled
      PROVE  /\ row.nextRun = Never /\ sweep.seen.nextRun = Never /\ ~job
             /\ \A c \in {"tick", "boot"} : call[c].at = "idle"
             /\ \A c \in Call : call[c].at # "advance"
  BY <1>s DEF OnlySchedules
<1> HIDE DEF EditState, Invocations
<1> DEFINE
      Types == /\ call' \in [Call -> CallState] /\ sweep' \in SweepState /\ row' \in Row
               /\ inv' \in [Invocation -> Invocations]
               /\ turn' \in [Invocation -> [Bots -> TurnStatus]]
               /\ edit' \in [Editors -> EditState]
               /\ now' \in Nat /\ ticked' \in Nat /\ crashes' \in Nat /\ job' \in BOOLEAN
               /\ members' \subseteq Bots /\ server' \in {"down", "booting", "up"} /\ setup' = setup
      Only == ~Scheduled =>
               /\ row'.nextRun = Never /\ sweep'.seen.nextRun = Never /\ ~job'
               /\ \A c \in {"tick", "boot"} : call'[c].at = "idle"
               /\ \A c \in Call : call'[c].at # "advance"
<1>f. ASSUME Types, Only PROVE TypeOK' /\ OnlySchedules'
  <2>1. Scheduled' <=> Scheduled
    BY <1>f DEF Scheduled
  <2>2. TypeOK'
    BY <1>f, <1>t, <2>1 DEF TypeOK, CallState, SweepState, EditState, Invocations
  <2> QED BY <1>f, <2>1, <2>2, ScheduleStep DEF OnlySchedules
<1> HIDE DEF Types, Only
<1>1. CASE StartSweep
  <2>1. sweep' \in SweepState /\ sweep'.seen = sweep.seen
    BY <1>1, <1>t DEF StartSweep, JoinSweep, SweepState
  <2> QED BY <2>1, <1>1, <1>t, <1>s, <1>f DEF StartSweep, dbVars, Types, Only
<1>2. CASE SweepList
  <2> DEFINE s == [sweep EXCEPT !.at = "next", !.todo = {i \in Invocation : Sweepable(i)}]
  <2>1. s \in SweepState /\ s.seen = sweep.seen
    BY <1>t DEF SweepState
  <2>2. SweepTo(s)
    BY <1>2 DEF SweepList
  <2> HIDE DEF s
  <2>3. /\ sweep' \in SweepState /\ (sweep' = s \/ sweep' = NoSweep)
        /\ call' \in [Call -> CallState]
        /\ \A c \in Call : call'[c] = call[c] \/ (call[c].at = "sweep" /\ call'[c] = [call[c] EXCEPT !.at = "queue"])
    BY <2>1, <2>2, SweepToStep
  <2>4. \A c \in Call : call'[c].at = call[c].at \/ (call[c].at = "sweep" /\ call'[c].at = "queue")
    BY <2>3, <1>t DEF CallState
  <2> QED BY <2>1, <2>3, <2>4, <1>2, <1>t, <1>s, <1>f DEF SweepList, dbVars, Types, Only, NoSweep
<1>3. CASE SweepWrite
  <2> DEFINE s == [sweep EXCEPT !.at = "next"]
  <2>1. s \in SweepState /\ s.seen = sweep.seen
    BY <1>t DEF SweepState
  <2>2. SweepTo(s)
    BY <1>3 DEF SweepWrite
  <2> HIDE DEF s
  <2>3. /\ sweep' \in SweepState /\ (sweep' = s \/ sweep' = NoSweep)
        /\ call' \in [Call -> CallState]
        /\ \A c \in Call : call'[c] = call[c] \/ (call[c].at = "sweep" /\ call'[c] = [call[c] EXCEPT !.at = "queue"])
    BY <2>1, <2>2, SweepToStep
  <2>4. \A c \in Call : call'[c].at = call[c].at \/ (call[c].at = "sweep" /\ call'[c].at = "queue")
    BY <2>3, <1>t DEF CallState
  <2>5. Strikes \in Nat
    BY <1>t DEF Strikes, SweepState, Row
  <2>6. row' \in Row /\ (sweep.seen.nextRun = Never => row'.nextRun = Never)
    BY <2>5, <1>3, <1>t DEF SweepWrite, SweepState, Row, Reason
  <2> QED BY <2>1, <2>3, <2>4, <2>6, <1>3, <1>t, <1>s, <1>f DEF SweepWrite, Types, Only, NoSweep
<1>4. CASE \E i \in Invocation : SweepRunning(i) \/ SweepClaim(i)
  <2> PICK i \in Invocation : SweepRunning(i) \/ SweepClaim(i)
    BY <1>4
  <2>1. CASE SweepRunning(i)
    <3> DEFINE s == [sweep EXCEPT !.todo = PassOver(i)]
    <3>1. s \in SweepState /\ s.seen = sweep.seen
      BY <1>t DEF SweepState, PassOver
    <3>2. SweepTo(s)
      BY <2>1 DEF SweepRunning
    <3> HIDE DEF s
    <3>3. /\ sweep' \in SweepState /\ (sweep' = s \/ sweep' = NoSweep)
          /\ call' \in [Call -> CallState]
          /\ \A c \in Call : call'[c] = call[c] \/ (call[c].at = "sweep" /\ call'[c] = [call[c] EXCEPT !.at = "queue"])
      BY <3>1, <3>2, SweepToStep
    <3>4. \A c \in Call : call'[c].at = call[c].at \/ (call[c].at = "sweep" /\ call'[c].at = "queue")
      BY <3>3, <1>t DEF CallState
    <3> QED BY <3>1, <3>3, <3>4, <2>1, <1>t, <1>s, <1>f DEF SweepRunning, dbVars, Types, Only, NoSweep
  <2>2. CASE SweepClaim(i)
    <3>1. InvocationStatus(i) \in {"running", "skipped", "failed", "partial_failed", "completed"}
      BY DEF InvocationStatus
    <3>2. sweep' \in SweepState /\ sweep'.seen = row
      BY <3>1, <2>2, <1>t DEF SweepClaim, SweepState
    <3>3. inv' \in [Invocation -> Invocations]
      BY <2>2, <1>t DEF SweepClaim, Invocations
    <3> QED BY <3>2, <3>3, <2>2, <1>t, <1>s, <1>f DEF SweepClaim, Types, Only
  <2> QED BY <2>1, <2>2
<1>5. CASE Tick
  <2>1. (IF row.nextRun # Never THEN row.nextRun ELSE now) \in Nat
    BY <1>t DEF Row
  <2>2. Begin("tick", IF row.nextRun # Never THEN row.nextRun ELSE now)
    BY <1>5 DEF Tick
  <2>3. /\ sweep' \in SweepState /\ sweep'.seen = sweep.seen
        /\ call' \in [Call -> CallState] /\ Scheduled
    BY <2>1, <2>2, BeginStep, <1>5, <1>s DEF Tick
  <2> QED BY <2>3, <1>5, <1>t, <1>s, <1>f DEF Tick, dbVars, Types, Only
<1>6. CASE \E c \in Requests : Manual(c) \/ (\E key \in Keys : Webhook(c, key))
  <2> PICK c \in Requests, key \in {Never} \cup Keys : Manual(c) \/ Webhook(c, key)
    BY <1>6
  <2>1. PICK token \in Nat : Begin(c, token)
    BY DEF Manual, Webhook
  <2>2. /\ sweep' \in SweepState /\ sweep'.seen = sweep.seen
        /\ call' \in [Call -> CallState] /\ call' = [call EXCEPT ![c] = call'[c]] /\ call'[c].at = "sweep"
    BY <2>1, BeginStep
  <2>3. c \notin {"tick", "boot"}
    BY AutomationsAssumption
  <2> QED BY <2>2, <2>3, <1>t, <1>s, <1>f DEF Manual, Webhook, dbVars, Types, Only
<1>7. CASE \E c \in Call : Fire(c)
  <2> PICK c \in Call : Fire(c)
    BY <1>7
  <2> DEFINE Here == /\ call' \in [Call -> CallState]
                     /\ \A d \in Call \ {c} : call'[d] = call[d]
                     /\ call'[c].at \in CallLabel \ {"advance"}
  <2>0. Idle \in CallState /\ Idle.at = "idle"
    BY DEF Idle, CallState, CallLabel
  <2>e. ASSUME End(c) PROVE Here /\ call'[c].at = "idle"
    BY <2>e, <2>0, <1>t DEF End, CallState, CallLabel
  <2>g. ASSUME NEW l \in CallLabel \ {"advance"}, Goto(c, l) PROVE Here
    <3>1. [call[c] EXCEPT !.at = l] \in CallState
      BY <1>t DEF CallState
    <3>2. call' = [call EXCEPT ![c] = [call[c] EXCEPT !.at = l]]
      BY <2>g, <1>t DEF Goto
    <3>3. call[c] \in CallState /\ [call[c] EXCEPT !.at = l].at = l
      BY <1>t DEF CallState
    <3> QED
      BY <1>t, <3>1, <3>2, <3>3
  <2>n. ~Scheduled => c \in Requests \/ call[c].at = "idle"
    BY <1>s DEF Call
  <2>h. ASSUME Here, ~Scheduled, call[c].at # "idle"
        PROVE  (\A d \in {"tick", "boot"} : call'[d].at = "idle") /\ (\A d \in Call : call'[d].at # "advance")
    BY <2>h, <2>n, <1>s, AutomationsAssumption
  <2>1. CASE FireDisabled(c)
    <3> QED BY <2>1, <2>e, <2>h, <1>t, <1>s, <1>f DEF FireDisabled, dbVars, Types, Only
  <2>2. CASE FireTargets(c)
    <3> DEFINE l == IF Bots \cap members = {} THEN "missing" ELSE IF OnSchedule(c) THEN "advance" ELSE "insert"
    <3>0. l \in CallLabel /\ Bots \cap members \in SUBSET Bots
      BY DEF CallLabel
    <3>a. call' = [call EXCEPT ![c] = [call[c] EXCEPT !.targets = Bots \cap members, !.at = l]]
      BY <2>2, <1>t DEF FireTargets, CallState
    <3> HIDE DEF l
    <3>1. call' \in [Call -> CallState] /\ (\A d \in Call \ {c} : call'[d] = call[d])
      BY <3>0, <3>a, <1>t DEF CallState
    <3>2. ~Scheduled => call'[c].at \in CallLabel \ {"advance"}
      BY <2>2, <1>t, <2>n, AutomationsAssumption DEF FireTargets, CallState, CallLabel, OnSchedule
    <3> QED BY <3>1, <3>2, <2>2, <2>h, <1>t, <1>s, <1>f DEF FireTargets, dbVars, Types, Only
  <2>3. CASE FireMissing(c)
    <3>1. row' \in Row /\ row'.nextRun = Never
      BY <2>3, <1>t DEF FireMissing, Row, Reason
    <3> QED BY <3>1, <2>3, <2>e, <2>h, <1>t, <1>s, <1>f DEF FireMissing, Types, Only
  <2>4. CASE FireAdvance(c)
    <3>1. row' \in Row
      BY <2>4, <1>t DEF FireAdvance, Row, NextRun
    <3>2. "insert" \in CallLabel \ {"advance"} /\ Goto(c, "insert") /\ Scheduled
      BY <2>4, <1>s DEF FireAdvance, CallLabel
    <3> QED BY <3>1, <3>2, <2>4, <2>g, <1>t, <1>f DEF FireAdvance, Types, Only
  <2>5. CASE FireDuplicate(c)
    <3> QED BY <2>5, <2>e, <2>h, <1>t, <1>s, <1>f DEF FireDuplicate, dbVars, Types, Only
  <2>6. CASE \E i \in Invocation : FireInsert(c, i)
    <3> PICK i \in Invocation : FireInsert(c, i)
      BY <2>6
    <3>1. inv' \in [Invocation -> Invocations]
      BY <1>t DEF FireInsert, Invocations, CallState
    <3>2. Here /\ call[c].at # "idle"
      <4>1. i \in Nat /\ "busy" \in CallLabel \ {"advance"}
        BY AutomationsAssumption DEF Invocation, CallLabel
      <4>2. call' = [call EXCEPT ![c] = [call[c] EXCEPT !.at = "busy", !.id = i]] /\ call[c].at = "insert"
        BY <1>t DEF FireInsert, CallState
      <4> QED BY <4>1, <4>2, <1>t DEF CallState
    <3> QED BY <3>1, <3>2, <2>h, <1>t, <1>s, <1>f DEF FireInsert, Types, Only
  <2>7. CASE FireSkipped(c)
    <3>1. inv' \in [Invocation -> Invocations]
      BY <2>7, <1>t DEF FireSkipped, Invocations
    <3> QED BY <3>1, <2>7, <2>e, <2>h, <1>t, <1>s, <1>f DEF FireSkipped, Types, Only
  <2>8. CASE FireBusy(c)
    <3>1. Here /\ call[c].at # "idle"
      BY <2>8, <1>t DEF FireBusy, CallState, CallLabel, BusySets
    <3> QED BY <3>1, <2>8, <2>h, <1>t, <1>s, <1>f DEF FireBusy, dbVars, Types, Only
  <2>9. CASE FirePost(c)
    <3>1. turn' \in [Invocation -> [Bots -> TurnStatus]]
      BY <2>9, <1>t DEF FirePost, TurnStatus
    <3>2. "record" \in CallLabel \ {"advance"} /\ Goto(c, "record") /\ call[c].at # "idle"
      BY <2>9 DEF FirePost, CallLabel
    <3> QED BY <3>1, <3>2, <2>9, <2>g, <2>h, <1>t, <1>s, <1>f DEF FirePost, Types, Only
  <2>10. CASE FireRecord(c)
    <3>1. inv' \in [Invocation -> Invocations]
      BY <2>10, <1>t DEF FireRecord, Invocations
    <3> QED BY <3>1, <2>10, <2>e, <2>h, <1>t, <1>s, <1>f DEF FireRecord, Types, Only
  <2> QED BY <2>1, <2>2, <2>3, <2>4, <2>5, <2>6, <2>7, <2>8, <2>9, <2>10 DEF Fire
<1>8. CASE \E e \in Editors : EditRead(e) \/ EditWrite(e) \/ EditSchedule(e)
  <2> PICK e \in Editors : EditRead(e) \/ EditWrite(e) \/ EditSchedule(e)
    BY <1>8
  <2>1. CASE EditRead(e)
    <3>1. edit' \in [Editors -> EditState]
      BY <2>1, <1>t DEF EditRead, EditState
    <3> QED BY <3>1, <2>1, <1>t, <1>s, <1>f DEF EditRead, dbVars, Types, Only
  <2>2. CASE EditWrite(e)
    <3>2. row' \in Row /\ (~Scheduled => row'.nextRun = Never)
      <4>1. edit[e].seen \in Row
        BY <1>t DEF EditState
      <4>2. \A b \in BOOLEAN : NextRunIf(b) \in Nat /\ (~Scheduled => NextRunIf(b) = Never)
        BY <1>t DEF NextRunIf, NextRun
      <4>3. row' = Edited(edit[e].change, edit[e].seen)
        BY <2>2 DEF EditWrite
      <4>4. row'.enabled \in BOOLEAN /\ row'.nextRun = NextRunIf(row'.enabled)
        BY <4>1, <4>3 DEF Edited, Row
      <4>5. row'.strikes \in Nat /\ row'.reason \in Reason
        BY <4>1, <4>3 DEF Edited, Row, Reason
      <4>6. row' = [enabled |-> row'.enabled, reason |-> row'.reason, strikes |-> row'.strikes, nextRun |-> row'.nextRun]
        BY <4>3 DEF Edited
      <4> QED BY <4>2, <4>4, <4>5, <4>6 DEF Row
    <3>1. edit' \in [Editors -> EditState]
      <4>1. NoEdit \in EditState /\ [change |-> "schedule", seen |-> row'] \in EditState
        BY <3>2 DEF EditState, NoEdit, NoSweep, Row, Reason
      <4>2. edit' = [edit EXCEPT ![e] = NoEdit] \/ edit' = [edit EXCEPT ![e] = [change |-> "schedule", seen |-> row']]
        BY <2>2 DEF EditWrite
      <4> QED BY <4>1, <4>2, <1>t
    <3>3. job' \in BOOLEAN /\ (~Scheduled => ~job') /\ ticked' \in Nat
      BY <2>2, <1>t DEF EditWrite, Setup, Scheduled, Row
    <3> QED BY <3>1, <3>2, <3>3, <2>2, <1>t, <1>s, <1>f DEF EditWrite, Types, Only
  <2>3. CASE EditSchedule(e)
    <3>1. edit[e] \in EditState /\ NoEdit \in EditState
      BY <1>t DEF EditState, NoEdit, NoSweep, Row, Reason
    <3>2. edit' \in [Editors -> EditState]
      BY <3>1, <2>3, <1>t DEF EditSchedule
    <3>3. row' = [row EXCEPT !.nextRun = edit[e].seen.nextRun] /\ edit[e].seen \in Row
      BY <3>1, <2>3 DEF EditSchedule, EditState
    <3>4. Scheduled
      BY <2>3 DEF EditSchedule, OnlySchedules
    <3>5. row' \in Row
      BY <3>3, <1>t DEF Row
    <3> QED BY <3>2, <3>4, <3>5, <2>3, <1>t, <1>s, <1>f DEF EditSchedule, Types, Only
  <2> QED BY <2>1, <2>2, <2>3
<1>9. CASE (\E i \in Invocation, b \in Bots : TurnEnds(i, b)) \/ (\E b \in Bots : BotDeleted(b))
  <2>1. turn' \in [Invocation -> [Bots -> TurnStatus]] /\ members' \subseteq Bots
    BY <1>9, <1>t DEF TurnEnds, BotDeleted, TurnStatus
  <2> QED BY <2>1, <1>9, <1>t, <1>s, <1>f DEF TurnEnds, BotDeleted, memVars, Types, Only
<1>10. CASE Minute
  BY <1>10, <1>t, <1>s, <1>f DEF Minute, dbVars, memVars, Types, Only
<1>11. CASE Crash
  <2>1. Idle \in CallState /\ NoSweep \in SweepState /\ NoEdit \in EditState
    BY DEF Idle, CallState, CallLabel, NoSweep, SweepState, Row, Reason, NoEdit, EditState
  <2>2. Types
    <3>1. call' \in [Call -> CallState] /\ sweep' \in SweepState /\ edit' \in [Editors -> EditState]
      BY <2>1, <1>11 DEF Crash
    <3>2. crashes' \in Nat /\ job' \in BOOLEAN /\ server' \in {"down", "booting", "up"}
      <4>1. server' = "down" /\ crashes' = crashes + 1 /\ job' = FALSE
        BY <1>11 DEF Crash
      <4>2. crashes' \in Nat
        BY <4>1, <1>t
      <4>3. job' \in BOOLEAN
        BY <4>1
      <4>4. server' \in {"down", "booting", "up"}
        BY <4>1
      <4> QED BY <4>2, <4>3, <4>4
    <3> QED BY <3>1, <3>2, <1>11, <1>t DEF Crash, dbVars, Types
  <2>3. \A c \in Call : call'[c].at = "idle"
    BY <1>11 DEF Crash, Idle
  <2>4. sweep'.seen.nextRun = Never /\ ~job' /\ row' = row
    BY <1>11 DEF Crash, NoSweep, dbVars
  <2> QED BY <2>2, <2>3, <2>4, <1>s, <1>f DEF Only
<1>12. CASE Boot
  <2>1. CASE Begin("boot", row.nextRun) /\ Missed
    <3>1. row.nextRun \in Nat
      BY <1>t DEF Row
    <3>2. /\ sweep' \in SweepState /\ sweep'.seen = sweep.seen
          /\ call' \in [Call -> CallState] /\ Scheduled
      BY <2>1, <3>1, BeginStep DEF Missed
    <3> QED BY <3>2, <1>12, <1>t, <1>f DEF Boot, dbVars, Types, Only
  <2>2. CASE UNCHANGED <<call, sweep>>
    BY <2>2, <1>12, <1>t, <1>s, <1>f DEF Boot, dbVars, Types, Only
  <2> QED BY <2>1, <2>2, <1>12 DEF Boot
<1>13. CASE Booted
  <2>1. row' \in Row /\ job' \in BOOLEAN /\ (~Scheduled => ~job' /\ row'.nextRun = row.nextRun)
    <3>1. job' \in BOOLEAN /\ (~Scheduled => ~job')
      BY <1>13, <1>t DEF Booted, Row, Scheduled, Setup
    <3>2. CASE job'
      BY <3>1, <3>2, <1>13, <1>t DEF Booted, Row, NextRun
    <3>3. CASE ~job'
      BY <3>1, <3>3, <1>13, <1>t DEF Booted, Row
    <3> QED BY <3>1, <3>2, <3>3
  <2> QED BY <2>1, <1>13, <1>t, <1>s, <1>f DEF Booted, Types, Only
<1>14. CASE UNCHANGED vars
  BY <1>14, <1>t, <1>s, <1>f DEF vars, dbVars, memVars, Types, Only
<1> QED
  BY <1>1, <1>2, <1>3, <1>4, <1>5, <1>6, <1>7, <1>8, <1>9, <1>10, <1>11, <1>12, <1>13, <1>14 DEF Next

----------------------------------------------------------------------------
(* Which steps write what.                                                 *)
LEMMA RowWriters ==
    ASSUME [Next]_vars
    PROVE  \/ UNCHANGED row
           \/ SweepWrite
           \/ \E c \in Call : FireMissing(c) \/ FireAdvance(c)
           \/ \E e \in Editors : EditWrite(e) \/ EditSchedule(e)
           \/ Booted
<1>1. CASE UNCHANGED vars
  BY <1>1 DEF vars, dbVars
<1>2. CASE \E c \in Call : Fire(c)
  BY <1>2 DEF Fire, FireDisabled, FireTargets, FireDuplicate, FireInsert, FireSkipped,
              FireBusy, FirePost, FireRecord, dbVars
<1>3. CASE \E c \in Requests : Manual(c) \/ (\E key \in Keys : Webhook(c, key))
  BY <1>3 DEF Manual, Webhook, dbVars
<1> QED
  BY <1>1, <1>2, <1>3 DEF Next, StartSweep, SweepList, SweepRunning, SweepClaim, Tick, EditRead, TurnEnds,
       BotDeleted, Minute, Crash, Boot, dbVars

LEMMA InvWriters ==
    ASSUME [Next]_vars
    PROVE  \/ UNCHANGED inv
           \/ \E i \in Invocation : SweepClaim(i)
           \/ \E c \in Call, i \in Invocation : FireInsert(c, i)
           \/ \E c \in Call : FireSkipped(c) \/ FireRecord(c)
<1>1. CASE UNCHANGED vars
  BY <1>1 DEF vars, dbVars
<1>2. CASE \E c \in Call : Fire(c)
  BY <1>2 DEF Fire, FireDisabled, FireTargets, FireMissing, FireAdvance, FireDuplicate,
              FireBusy, FirePost, dbVars
<1>3. CASE \E c \in Requests : Manual(c) \/ (\E key \in Keys : Webhook(c, key))
  BY <1>3 DEF Manual, Webhook, dbVars
<1> QED
  BY <1>1, <1>2, <1>3 DEF Next, StartSweep, SweepList, SweepRunning, SweepWrite, Tick, EditRead, EditWrite, EditSchedule,
       TurnEnds, BotDeleted, Minute, Crash, Boot, Booted, dbVars

LEMMA TurnWriters ==
    ASSUME [Next]_vars
    PROVE  \/ UNCHANGED turn
           \/ \E c \in Call : FirePost(c)
           \/ \E i \in Invocation, b \in Bots : TurnEnds(i, b)
           \/ \E b \in Bots : BotDeleted(b)
<1>1. CASE UNCHANGED vars
  BY <1>1 DEF vars, dbVars
<1>2. CASE \E c \in Call : Fire(c)
  BY <1>2 DEF Fire, FireDisabled, FireTargets, FireMissing, FireAdvance, FireDuplicate,
              FireInsert, FireSkipped, FireBusy, FireRecord, dbVars
<1>3. CASE \E c \in Requests : Manual(c) \/ (\E key \in Keys : Webhook(c, key))
  BY <1>3 DEF Manual, Webhook, dbVars
<1> QED
  BY <1>1, <1>2, <1>3 DEF Next, StartSweep, SweepList, SweepRunning, SweepClaim, SweepWrite, Tick, EditRead,
       EditWrite, EditSchedule, Minute, Crash, Boot, Booted, dbVars

(* What the sweep knows comes from the steps of the sweep.                 *)
LEMMA SweepWriters ==
    ASSUME TypeOK, [Next]_vars
    PROVE  \/ sweep'.todo \subseteq sweep.todo /\ sweep'.seen \in {sweep.seen, NoSweep.seen}
           \/ SweepList
           \/ \E i \in Invocation : SweepClaim(i)
<1> USE Constants
<1>t. sweep \in SweepState
  BY DEF TypeOK, SweepState
<1>0. JoinSweep.todo = sweep.todo /\ JoinSweep.seen = sweep.seen
  BY <1>t DEF JoinSweep, SweepState
<1>1. CASE UNCHANGED sweep
  BY <1>1
<1>2. CASE sweep' = JoinSweep
  BY <1>2, <1>0
<1>3. CASE SweepWrite
  <2>1. sweep' = [sweep EXCEPT !.at = "next"] \/ sweep' = NoSweep
    BY <1>3 DEF SweepWrite, SweepTo
  <2> QED BY <2>1, <1>t DEF NoSweep, SweepState
<1>4. CASE \E i \in Invocation : SweepRunning(i)
  <2> PICK i \in Invocation : SweepRunning(i)
    BY <1>4
  <2>1. sweep' = [sweep EXCEPT !.todo = PassOver(i)] \/ sweep' = NoSweep
    BY DEF SweepRunning, SweepTo
  <2> QED BY <2>1, <1>t DEF NoSweep, SweepState, PassOver
<1>5. CASE Crash
  BY <1>5 DEF Crash, NoSweep
<1>6. CASE \E c \in Call : Fire(c)
  <2>1. UNCHANGED sweep
    BY <1>6 DEF Fire, FireDisabled, FireTargets, FireMissing, FireAdvance, FireDuplicate,
              FireInsert, FireSkipped, FireBusy, FirePost, FireRecord
  <2> QED BY <2>1
<1>7. CASE Tick \/ StartSweep \/ \E c \in Requests : Manual(c) \/ (\E key \in Keys : Webhook(c, key))
  BY <1>7, <1>2 DEF Tick, StartSweep, Manual, Webhook, Begin
<1>8. CASE Boot
  BY <1>8, <1>1, <1>2 DEF Boot, Begin
<1>9. CASE UNCHANGED vars
  BY <1>9 DEF vars, memVars
<1> QED
  BY <1>1, <1>3, <1>4, <1>5, <1>6, <1>7, <1>8, <1>9 DEF Next, EditRead, EditWrite, EditSchedule, TurnEnds, BotDeleted, Minute,
       Booted, memVars

LEMMA RowsStep == TypeOK /\ Rows /\ [Next]_vars => Rows'
<1> SUFFICES ASSUME TypeOK, Rows, [Next]_vars PROVE Rows'
  OBVIOUS
<1> USE Constants
<1>t. row \in Row /\ sweep.seen \in Row /\ sweep.status \in {"running", "skipped", "failed", "partial_failed", "completed"}
      /\ edit \in [Editors -> EditState]
  BY DEF TypeOK, EditState
<1>1. Consistent(row')
  <2>1. CASE SweepWrite
    <3>1. Strikes \in Nat
      BY <1>t DEF Strikes, Row
    <3>2. CASE AutoPause
      BY <3>1, <3>2, <2>1 DEF SweepWrite, Consistent
    <3>3. CASE ~AutoPause
      <4>1. row' = [sweep.seen EXCEPT !.strikes = Strikes]
        BY <3>3, <2>1 DEF SweepWrite
      <4>2. row'.enabled = sweep.seen.enabled /\ row'.reason = sweep.seen.reason /\ row'.strikes = Strikes
        BY <4>1, <1>t DEF Row
      <4> QED BY <4>2, <3>3 DEF AutoPause, Rows, Consistent
    <3> QED BY <3>2, <3>3
  <2>2. CASE \E c \in Call : FireMissing(c) \/ FireAdvance(c)
    BY <2>2, <1>t DEF FireMissing, FireAdvance, Row, Rows, Consistent
  <2>3. CASE \E e \in Editors : EditWrite(e)
    <3> PICK e \in Editors : EditWrite(e)
      BY <2>3
    <3>1. row' = Edited(edit[e].change, edit[e].seen) /\ Consistent(edit[e].seen) /\ edit[e] \in EditState
      BY <1>t DEF EditWrite, Rows
    <3>2. edit[e].change \in {"pause", "resume", "other"} /\ edit[e].seen \in Row
      BY <3>1 DEF EditWrite, EditState
    <3>3. CASE edit[e].change = "pause"
      BY <3>1, <3>2, <3>3 DEF Edited, Consistent, Row
    <3>4. CASE edit[e].change = "resume"
      <4>1. CASE edit[e].seen.enabled
        BY <3>1, <3>2, <3>4, <4>1 DEF Edited, Consistent, Row
      <4>2. CASE ~edit[e].seen.enabled
        <5>1. row'.enabled = TRUE /\ row'.reason = "none" /\ row'.strikes = 0
          BY <3>1, <3>4, <4>2 DEF Edited
        <5> QED BY <5>1 DEF Consistent
      <4> QED BY <4>1, <4>2
    <3>5. CASE edit[e].change = "other"
      BY <3>1, <3>2, <3>5 DEF Edited, Consistent, Row
    <3> QED BY <3>2, <3>3, <3>4, <3>5
  <2>4. CASE Booted \/ \E e \in Editors : EditSchedule(e)
    BY <2>4, <1>t DEF Booted, EditSchedule, Row, Rows, Consistent
  <2>5. CASE UNCHANGED row
    BY <2>5 DEF Rows, Consistent
  <2> QED BY <2>1, <2>2, <2>3, <2>4, <2>5, RowWriters
<1>2. Consistent(sweep'.seen)
  <2>1. CASE sweep'.seen \in {sweep.seen, NoSweep.seen}
    BY <2>1 DEF Rows, NoSweep, Consistent
  <2>2. CASE SweepList
    <3>1. sweep' = [sweep EXCEPT !.at = "next", !.todo = {i \in Invocation : Sweepable(i)}] \/ sweep' = NoSweep
      BY <2>2 DEF SweepList, SweepTo
    <3>2. sweep \in SweepState
      BY DEF TypeOK, SweepState
    <3>3. sweep'.seen \in {sweep.seen, NoSweep.seen}
      BY <3>1, <3>2 DEF SweepState
    <3> QED BY <3>3, <2>1
  <2>3. CASE \E i \in Invocation : SweepClaim(i)
    BY <2>3 DEF SweepClaim, Rows
  <2> QED BY <2>1, <2>2, <2>3, SweepWriters
<1>3. ASSUME NEW e \in Editors PROVE Consistent(edit'[e].seen)
  <2>1. CASE UNCHANGED edit
    BY <2>1 DEF Rows
  <2>2. CASE Crash
    BY <2>2 DEF Crash, NoEdit, NoSweep, Consistent
  <2>3. CASE \E f \in Editors : EditRead(f) \/ EditWrite(f) \/ EditSchedule(f)
    <3> PICK f \in Editors : EditRead(f) \/ EditWrite(f) \/ EditSchedule(f)
      BY <2>3
    <3>1. CASE e # f
      BY <3>1, <1>t DEF EditRead, EditWrite, EditSchedule, Rows
    <3>2. CASE e = f
      <4>1. edit'[e].seen \in {row, row', NoSweep.seen}
        <5>1. CASE EditRead(e)
          BY <5>1, <1>t DEF EditRead
        <5>2. CASE EditWrite(e) \/ EditSchedule(e)
          BY <5>2, <1>t DEF EditWrite, EditSchedule, NoEdit
        <5> QED BY <3>2, <5>1, <5>2
      <4> QED BY <4>1, <1>1 DEF Rows, NoSweep, Consistent
    <3> QED BY <3>1, <3>2
  <2> QED BY <2>1, <2>2, <2>3, EditWriters
<1> QED
  BY <1>1, <1>2, <1>3 DEF Rows

(* Who waits for the queue, and who holds it.                              *)
LEMMA CallWriters ==
    ASSUME TypeOK, [Next]_vars, NEW c \in Call
    PROVE  \/ call'[c] = call[c]
           \/ call'[c].at \in {"idle", "sweep", "queue"}
           \/ Fire(c)
<1> USE Constants
<1>t. call \in [Call -> CallState] /\ sweep \in SweepState
  BY DEF TypeOK, CallState, SweepState
<1>1. CASE UNCHANGED call
  BY <1>1
<1>2. ASSUME NEW s, SweepTo(s)
      PROVE call'[c] = call[c] \/ call'[c].at = "queue"
  BY <1>2, <1>t DEF SweepTo, CallState
<1>3. ASSUME NEW d \in Call, NEW token, Begin(d, token)
      PROVE call'[c] = call[c] \/ call'[c].at = "sweep"
  BY <1>3, <1>t DEF Begin, Idle
<1>4. CASE \E d \in Call : Fire(d)
  <2> PICK d \in Call : Fire(d)
    BY <1>4
  <2>1. d # c => call'[c] = call[c]
    BY <1>t DEF Fire, FireDisabled, FireTargets, FireMissing, FireAdvance, FireDuplicate,
       FireInsert, FireSkipped, FireBusy, FirePost, FireRecord, End, Goto
  <2> QED BY <2>1
<1>5. CASE SweepList \/ SweepWrite \/ \E i \in Invocation : SweepRunning(i)
  BY <1>5, <1>2 DEF SweepList, SweepWrite, SweepRunning
<1>6. CASE Tick \/ Boot \/ \E d \in Requests : Manual(d) \/ (\E key \in Keys : Webhook(d, key))
  BY <1>6, <1>3, <1>1 DEF Tick, Boot, Manual, Webhook
<1>7. CASE Crash
  BY <1>7 DEF Crash, Idle
<1>8. CASE UNCHANGED vars
  BY <1>8, <1>1 DEF vars, memVars
<1> QED
  BY <1>1, <1>4, <1>5, <1>6, <1>7, <1>8 DEF Next, StartSweep, SweepClaim, EditRead, EditWrite, EditSchedule, TurnEnds,
       BotDeleted, Minute, Booted, memVars

(* One step of fire() changes one call, which holds the queue or takes it  *)
(* when it is free.                                                        *)
LEMMA FireStep ==
    ASSUME TypeOK, HolderInv, NEW c \in Call, Fire(c)
    PROVE  /\ \A d \in Call \ {c} : call'[d] = call[d]
           /\ Holding \subseteq {c}
<1>t. call \in [Call -> CallState]
  BY DEF TypeOK, CallState
<1>1. \A d \in Call \ {c} : call'[d] = call[d]
  BY <1>t DEF Fire, FireDisabled, FireTargets, FireMissing, FireAdvance, FireDuplicate,
       FireInsert, FireSkipped, FireBusy, FirePost, FireRecord, End, Goto
<1>2. QueueFree \/ c \in Holding
  BY DEF Fire, FireDisabled, FireTargets, FireMissing, FireAdvance, FireDuplicate,
       FireInsert, FireSkipped, FireBusy, FirePost, FireRecord, Holding
<1> QED
  BY <1>1, <1>2 DEF QueueFree, HolderInv

(* The end of a turn, or of a bot, leaves no bot with more work.           *)
LEMMA WorkFalls ==
    ASSUME TypeOK, [Next]_vars, ~\E c \in Call : FirePost(c)
    PROVE  \A i \in Invocation, b \in Bots : turn'[i][b] = Active => turn[i][b] = Active
<1>t. turn \in [Invocation -> [Bots -> TurnStatus]]
  BY DEF TypeOK
<1>1. CASE \E i \in Invocation, b \in Bots : TurnEnds(i, b)
  BY <1>1, <1>t DEF TurnEnds, Active
<1>2. CASE \E b \in Bots : BotDeleted(b)
  BY <1>2, <1>t DEF BotDeleted, Active
<1> QED
  BY <1>1, <1>2, TurnWriters

LEMMA HolderStep == TypeOK /\ HolderInv /\ KnownInv /\ [Next]_vars => HolderInv'
<1> SUFFICES ASSUME TypeOK, HolderInv, KnownInv, [Next]_vars PROVE HolderInv'
  OBVIOUS
<1>t. /\ call \in [Call -> CallState] /\ inv \in [Invocation -> Invocations]
      /\ turn \in [Invocation -> [Bots -> TurnStatus]]
  BY DEF TypeOK, CallState, Invocations
<1>s. setup' = setup
  BY DEF Next, vars, memVars, dbVars, StartSweep, SweepList, SweepRunning, SweepClaim, SweepWrite, Tick, Manual,
     Webhook, EditRead, EditWrite, EditSchedule, Crash,
     TurnEnds, BotDeleted, Minute, Boot, Booted, Fire, FireDisabled, FireTargets, FireMissing, FireAdvance,
     FireDuplicate, FireInsert, FireSkipped, FireBusy, FirePost, FireRecord
<1>k. \A c \in Call : call'[c] = call[c] \/ c \notin Holding' \/ Fire(c)
  BY CallWriters DEF Holding
<1>h. \A c \in Holding' : c \in Holding \/ Fire(c)
  BY <1>k DEF Holding
<1>1. \A c, d \in Holding' : c = d
  <2> SUFFICES ASSUME NEW c \in Holding', NEW d \in Holding', c # d PROVE FALSE
    OBVIOUS
  <2>1. c \in Call /\ d \in Call
    BY DEF Holding
  <2>2. ASSUME NEW e \in Call, NEW f \in Holding', e # f, f \in Call, Fire(e) PROVE FALSE
    BY <2>2, FireStep DEF Holding
  <2>3. ~Fire(c) /\ ~Fire(d)
    BY <2>1, <2>2
  <2> QED BY <2>1, <2>3, <1>h DEF HolderInv
<1>2. ASSUME NEW c \in Call, call'[c].at \in {"busy", "post", "record"}
      PROVE  call'[c].id \in Invocation /\ inv'[call'[c].id].made /\ ~inv'[call'[c].id].known
  <2>0. c \in Holding'
    BY <1>2 DEF Holding
  <2>1. CASE call'[c] = call[c]
    <3>1. c \in Holding /\ call[c].id \in Invocation /\ inv[call[c].id].made /\ ~inv[call[c].id].known
      BY <2>1, <1>2 DEF HolderInv, Holding
    <3>2. CASE \E d \in Call : FireSkipped(d) \/ FireRecord(d)
      <4> PICK d \in Call : FireSkipped(d) \/ FireRecord(d)
        BY <3>2
      <4>1. d = c
        BY <3>1 DEF HolderInv, Holding, FireSkipped, FireRecord
      <4>2. call'[c].at = "idle"
        BY <4>1, <1>t DEF FireSkipped, FireRecord, End, Idle
      <4> QED BY <4>2, <1>2
    <3>3. CASE \E i \in Invocation : SweepClaim(i)
      BY <3>1, <3>3, <2>1, <1>t DEF SweepClaim, Invocations
    <3>4. CASE \E d \in Call, i \in Invocation : FireInsert(d, i)
      <4> PICK d \in Call, i \in Invocation : FireInsert(d, i)
        BY <3>4
      <4>1. \A j \in Invocation : (inv[j].made => inv'[j].made) /\ inv'[j].known = inv[j].known
        BY <1>t DEF FireInsert, Invocations
      <4> QED BY <4>1, <3>1, <2>1
    <3>5. CASE UNCHANGED inv
      BY <3>1, <3>5, <2>1
    <3> QED BY <3>2, <3>3, <3>4, <3>5, InvWriters
  <2>2. CASE Fire(c)
    <3>1. CASE \E i \in Invocation : FireInsert(c, i)
      BY <3>1, <1>t DEF FireInsert, Invocations, CallState, KnownInv
    <3>2. CASE FireBusy(c) \/ FirePost(c)
      <4>1. call'[c].id = call[c].id /\ call[c].at \in {"busy", "post", "record"} /\ inv' = inv
        BY <3>2, <1>t DEF FireBusy, FirePost, CallState, Goto, dbVars
      <4> QED BY <4>1 DEF HolderInv
    <3>3. CASE FireDisabled(c) \/ FireMissing(c) \/ FireDuplicate(c) \/ FireSkipped(c) \/ FireRecord(c)
      BY <3>3, <1>t, <1>2 DEF FireDisabled, FireMissing, FireDuplicate, FireSkipped, FireRecord, End, Idle
    <3>4. CASE FireTargets(c) \/ FireAdvance(c)
      BY <3>4, <1>t, <1>2 DEF FireTargets, FireAdvance, Goto, CallState
    <3> QED BY <2>2, <3>1, <3>2, <3>3, <3>4 DEF Fire
  <2> QED BY <2>0, <2>1, <2>2, <1>k
<1>3. ASSUME NEW c \in Call, call'[c].at = "post", setup'.overlap = "skip"
      PROVE  \A b \in call'[c].start : ~Works(b)'
  <2>0. c \in Holding'
    BY <1>3 DEF Holding
  <2>1. CASE call'[c] = call[c]
    <3>1. c \in Holding /\ call[c].at = "post" /\ call[c].start \subseteq Bots
      BY <2>1, <1>3, <1>t DEF HolderInv, Holding, CallState
    <3>2. ~\E d \in Call : FirePost(d)
      <4> SUFFICES ASSUME NEW d \in Call, FirePost(d) PROVE FALSE
        OBVIOUS
      <4>1. d = c
        BY <3>1 DEF HolderInv, Holding, FirePost
      <4>2. call'[c].at = "record"
        BY <4>1, <1>t DEF FirePost, Goto, CallState
      <4> QED BY <4>2, <1>3
    <3> QED BY <3>1, <3>2, WorkFalls, <2>1, <1>3, <1>s DEF HolderInv, Works
  <2>2. CASE Fire(c)
    <3>1. CASE FireBusy(c)
      <4>1. PICK busy \in BusySets(c) :
                call' = [call EXCEPT ![c].start = call[c].targets \ busy, ![c].at = "post"]
        BY <3>1 DEF FireBusy
      <4>2. call'[c].start = call[c].targets \ busy /\ turn' = turn
        BY <4>1, <3>1, <1>t DEF CallState, FireBusy, dbVars
      <4>3. {b \in call[c].targets : Works(b)} \subseteq busy
        BY <4>1, <1>3, <1>s DEF BusySets
      <4> QED BY <4>2, <4>3 DEF Works
    <3>2. CASE \E i \in Invocation : FireInsert(c, i)
      BY <3>2, <1>t, <1>3 DEF FireInsert, CallState
    <3>3. CASE FireDisabled(c) \/ FireMissing(c) \/ FireDuplicate(c) \/ FireSkipped(c) \/ FireRecord(c)
      BY <3>3, <1>t, <1>3 DEF FireDisabled, FireMissing, FireDuplicate, FireSkipped, FireRecord, End, Idle
    <3>4. CASE FireTargets(c) \/ FireAdvance(c) \/ FirePost(c)
      BY <3>4, <1>t, <1>3 DEF FireTargets, FireAdvance, FirePost, Goto, CallState
    <3> QED BY <2>2, <3>1, <3>2, <3>3, <3>4 DEF Fire
  <2> QED BY <2>0, <2>1, <2>2, <1>k
<1> QED
  BY <1>1, <1>2, <1>3 DEF HolderInv

LEMMA KnownStep == TypeOK /\ HolderInv /\ KnownInv /\ [Next]_vars => KnownInv'
<1> SUFFICES ASSUME TypeOK, HolderInv, KnownInv, [Next]_vars PROVE KnownInv'
  OBVIOUS
<1>t. inv \in [Invocation -> Invocations] /\ sweep \in SweepState
  BY DEF TypeOK, Invocations, SweepState
<1>1. \A i \in Invocation : /\ inv[i].known => inv'[i].known
                            /\ inv'[i].known => inv'[i].made
  <2>1. CASE \E c \in Call : FireSkipped(c) \/ FireRecord(c)
    BY <2>1, <1>t DEF FireSkipped, FireRecord, HolderInv, KnownInv, Invocations
  <2>2. CASE \E i \in Invocation : SweepClaim(i)
    BY <2>2, <1>t DEF SweepClaim, Invocations, KnownInv
  <2>3. CASE \E c \in Call, i \in Invocation : FireInsert(c, i)
    BY <2>3, <1>t DEF FireInsert, Invocations, KnownInv
  <2>4. CASE UNCHANGED inv
    BY <2>4 DEF KnownInv
  <2> QED BY <2>1, <2>2, <2>3, <2>4, InvWriters
<1>2. \A i \in sweep'.todo : i \in Invocation /\ inv[i].known
  <2>1. CASE sweep'.todo \subseteq sweep.todo
    BY <2>1, <1>t DEF KnownInv, SweepState
  <2>2. CASE SweepList
    <3> DEFINE S == {i \in Invocation : Sweepable(i)}
    <3>0. \A i \in S : i \in Invocation /\ inv[i].known
      BY DEF Sweepable
    <3>1. sweep' = [sweep EXCEPT !.at = "next", !.todo = S] \/ sweep' = NoSweep
      BY <2>2 DEF SweepList, SweepTo
    <3> HIDE DEF S
    <3>2. sweep'.todo = S \/ sweep'.todo = {}
      <4>1. CASE sweep' = [sweep EXCEPT !.at = "next", !.todo = S]
        BY <4>1, <1>t DEF SweepState
      <4>2. CASE sweep' = NoSweep
        BY <4>2 DEF NoSweep
      <4> QED BY <4>1, <4>2, <3>1
    <3> QED BY <3>0, <3>2
  <2>3. CASE \E i \in Invocation : SweepClaim(i)
    BY <2>3, <1>t DEF SweepClaim, KnownInv, SweepState
  <2> QED BY <2>1, <2>2, <2>3, SweepWriters
<1> QED
  BY <1>1, <1>2 DEF KnownInv

LEMMA CountedStep ==
    TypeOK /\ HolderInv /\ KnownInv /\ CountedWhenOver /\ [Next]_vars => CountedWhenOver'
<1> SUFFICES ASSUME TypeOK, HolderInv, KnownInv, CountedWhenOver, [Next]_vars,
                    NEW i \in Invocation, inv'[i].counted
             PROVE  inv'[i].known /\ \A b \in Bots : turn'[i][b] # Active
  BY DEF CountedWhenOver
<1>t. /\ call \in [Call -> CallState] /\ inv \in [Invocation -> Invocations]
      /\ turn \in [Invocation -> [Bots -> TurnStatus]] /\ sweep \in SweepState
  BY DEF TypeOK, CallState, Invocations, SweepState
<1>1. CASE inv[i].counted
  <2>1. inv[i].known /\ \A b \in Bots : turn[i][b] # Active
    BY <1>1 DEF CountedWhenOver
  <2>2. inv'[i].known
    <3>1. CASE \E c \in Call : FireSkipped(c) \/ FireRecord(c)
      BY <3>1, <2>1, <1>t DEF FireSkipped, FireRecord, Invocations
    <3>2. CASE \E j \in Invocation : SweepClaim(j)
      BY <3>2, <2>1, <1>t DEF SweepClaim, Invocations
    <3>3. CASE \E c \in Call, j \in Invocation : FireInsert(c, j)
      BY <3>3, <2>1, <1>t DEF FireInsert, Invocations
    <3> QED BY <3>1, <3>2, <3>3, <2>1, InvWriters
  <2>3. CASE \E c \in Call : FirePost(c)
    <3> PICK c \in Call : FirePost(c)
      BY <2>3
    <3>1. call[c].id # i
      BY <2>1 DEF HolderInv, FirePost
    <3>2. turn'[i] = turn[i]
      BY <3>1, <1>t DEF FirePost
    <3> QED BY <3>2, <2>1, <2>2
  <2>4. CASE ~\E c \in Call : FirePost(c)
    BY <2>4, <2>1, <2>2, WorkFalls
  <2> QED BY <2>3, <2>4
<1>2. CASE ~inv[i].counted
  <2>1. SweepClaim(i)
    <3>1. CASE \E c \in Call : FireSkipped(c) \/ FireRecord(c)
      BY <3>1, <1>2, <1>t DEF FireSkipped, FireRecord, Invocations
    <3>2. CASE \E j \in Invocation : SweepClaim(j)
      BY <3>2, <1>2, <1>t DEF SweepClaim, Invocations
    <3>3. CASE \E c \in Call, j \in Invocation : FireInsert(c, j)
      BY <3>3, <1>2, <1>t DEF FireInsert, Invocations
    <3> QED BY <3>1, <3>2, <3>3, <1>2, InvWriters
  <2>2. inv[i].known /\ inv'[i].known /\ turn' = turn
    BY <2>1, <1>t DEF SweepClaim, KnownInv, Invocations
  <2>3. \A b \in Bots : turn[i][b] # Active
    BY <2>1, <2>2 DEF SweepClaim, InvocationStatus, Runs, Active
  <2> QED BY <2>2, <2>3
<1> QED
  BY <1>1, <1>2

LEMMA StacksStep ==
    TypeOK /\ HolderInv /\ SkipNeverStacks /\ [Next]_vars => SkipNeverStacks'
<1> SUFFICES ASSUME TypeOK, HolderInv, SkipNeverStacks, [Next]_vars, setup'.overlap = "skip",
                    NEW i \in Invocation, NEW j \in Invocation, NEW b \in Bots,
                    turn'[i][b] = Active, turn'[j][b] = Active
             PROVE  i = j
  BY DEF SkipNeverStacks
<1>t. turn \in [Invocation -> [Bots -> TurnStatus]] /\ call \in [Call -> CallState]
  BY DEF TypeOK, CallState
<1>s. setup' = setup
  BY DEF Next, vars, memVars, dbVars, StartSweep, SweepList, SweepRunning, SweepClaim, SweepWrite, Tick, Manual,
     Webhook, EditRead, EditWrite, EditSchedule, Crash,
     TurnEnds, BotDeleted, Minute, Boot, Booted, Fire, FireDisabled, FireTargets, FireMissing, FireAdvance,
     FireDuplicate, FireInsert, FireSkipped, FireBusy, FirePost, FireRecord
<1>1. CASE ~\E c \in Call : FirePost(c)
  BY <1>1, <1>s, WorkFalls DEF SkipNeverStacks
<1>2. CASE \E c \in Call : FirePost(c)
  <2> PICK c \in Call : FirePost(c)
    BY <1>2
  <2>1. call[c].at = "post" /\ \A k \in Invocation : k # call[c].id => turn'[k] = turn[k]
    BY <1>t DEF FirePost
  <2>2. CASE b \in call[c].start
    <3>1. \A k \in Invocation : turn[k][b] # Active
      BY <2>1, <2>2, <1>s DEF HolderInv, Works
    <3> QED BY <2>1, <3>1
  <2>3. CASE b \notin call[c].start
    <3>1. \A k \in Invocation : turn'[k][b] = Active => turn[k][b] = Active
      BY <2>3, <1>t DEF FirePost
    <3> QED BY <3>1, <1>s DEF SkipNeverStacks
  <2> QED BY <2>2, <2>3
<1> QED
  BY <1>1, <1>2

THEOREM NextIInv == IInv /\ [Next]_vars => IInv'
  BY TypeStep, RowsStep, HolderStep, KnownStep, CountedStep, StacksStep DEF IInv

----------------------------------------------------------------------------
LEMMA Inductive == Spec => []IInv
  BY InitIInv, NextIInv, PTL DEF Spec

(* Every variable keeps its type, and only a schedule has a next run.      *)
THEOREM AutomationsTyped == Spec => []TypeOK
<1>1. IInv => TypeOK
  BY DEF IInv
<1> QED BY <1>1, Inductive, PTL

(* An automation with as many strikes as the limit is paused, and gives a  *)
(* reason iff it is paused, however stale the rows are that its handlers   *)
(* write back (service.ts:128-132, 194, 271-281).                         *)
THEOREM StrikesAlwaysPause == Spec => []StrikesPause
<1>1. IInv => StrikesPause
  BY DEF IInv, Rows, StrikesPause
<1> QED BY <1>1, Inductive, PTL

(* An invocation is counted when its runs are recorded and their turns     *)
(* have ended, never while it is admitted (service.ts:256-268).            *)
THEOREM CountedOnlyWhenOver == Spec => []CountedWhenOver
<1>1. IInv => CountedWhenOver
  BY DEF IInv
<1> QED BY <1>1, Inductive, PTL

(* An automation that skips busy bots never gives a bot two active turns,  *)
(* whatever runs between its look and its message (service.ts:184-247).    *)
THEOREM SkippingNeverStacks == Spec => []SkipNeverStacks
<1>1. IInv => SkipNeverStacks
  BY DEF IInv
<1> QED BY <1>1, Inductive, PTL
=============================================================================
