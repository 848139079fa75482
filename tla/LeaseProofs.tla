---------------------------- MODULE LeaseProofs ----------------------------
(***************************************************************************)
(* Theorems about ComputerLease, for all members, turns and streams and    *)
(* however often control changes.                                          *)
(*                                                                         *)
(* IInv is inductive.  Line says who is at the head of the display's queue;*)
(* Fenced relates what an action saw of the lease to the lease that is;    *)
(* Covered says that every control stream of somebody else is about to be  *)
(* closed, by the listeners or by the stream's own last look.              *)
(***************************************************************************)
EXTENDS ComputerLease, TLAPS, SequenceTheorems

Line ==
    \A g \in Turns :
        /\ gate[g].at = "queued" => \E i \in DOMAIN display : display[i] = g
        /\ gate[g].at \notin {"idle", "queued"} => display # <<>> /\ Head(display) = g

(* A lease is known by its epoch.                                          *)
NotLater(l) == l.epoch <= lease.epoch /\ (l.epoch = lease.epoch => l = lease)

Fenced ==
    \A g \in Turns :
        /\ gate[g].at \in {"looked", "ended"} => NotLater(gate[g].seen)
        /\ Operating(g) => NotLater(gate[g].start) /\ gate[g].start.owner = Bot
        /\ gate[g].at \in {"prepare", "act", "end"} =>
               gate[g].start.epoch <= lease.epoch /\ (gate[g].touched => gate[g].start.epoch < lease.epoch)

Covered ==
    rejections = 0 =>
        /\ serving # "failed"
        /\ \A s \in Sockets : Stale(s) =>
               \/ serving = "changed"
               \/ \E i \in DOMAIN tail : tail[i] = Entry("current", s, "watch")

IInv == TypeOK /\ Line /\ Fenced /\ TakeoverIsNoticed /\ Covered

GateAt == {"idle", "queued", "look", "looked", "waiting", "woken", "prepare", "act", "end", "ended", "failed"}
Action == [at : GateAt, start : Lease, seen : Lease, touched : BOOLEAN]
StreamAt == {"idle", "look", "looked", "open", "recheck", "rechecked", "refused", "on", "closing"}
Streamed == [at : StreamAt, user : Owner, mode : {"viewer", "control"}, seen : Owner]

LEMMA TypeParts ==
    TypeOK <=>
        /\ lease \in Lease /\ overdue \in BOOLEAN
        /\ tail \in Seq(Waiting)
        /\ serving \in {"no", "changed", "renewed", "told", "failed"}
        /\ serving # "no" => tail # <<>>
        /\ display \in Seq(Turns)
        /\ gate \in [Turns -> Action]
        /\ stream \in [Sockets -> Streamed]
        /\ rejections \in Nat
  BY DEF TypeOK, GateAt, Action, StreamAt, Streamed

THEOREM InitIInv == Init => IInv
<1> SUFFICES ASSUME Init PROVE IInv
  OBVIOUS
<1>1. TypeOK
  <2>1. NoLease \in Lease
    BY DEF NoLease, Lease, Owner
  <2>2. NoAction \in Action
    BY <2>1 DEF NoAction, Action, GateAt
  <2>3. NoStream \in Streamed
    BY DEF NoStream, Streamed, StreamAt, Owner
  <2>4. tail \in Seq(Waiting) /\ display \in Seq(Turns) /\ gate \in [Turns -> Action] /\ stream \in [Sockets -> Streamed]
    BY <2>2, <2>3, EmptySeq DEF Init
  <2> QED
    BY <2>1, <2>4, TypeParts DEF Init
<1>2. Line /\ Fenced /\ TakeoverIsNoticed
  BY DEF Line, Fenced, TakeoverIsNoticed, Init, NoAction, Operating
<1>3. Covered
  BY DEF Covered, Init, NoStream, Stale
<1> QED
  BY <1>1, <1>2, <1>3 DEF IInv

----------------------------------------------------------------------------
(* What the operators on the gate and on the streams do.                   *)

(* What an answer makes of a turn's action.                                *)
Answered(g, n) ==
    \/ gate[g].at \in {"waiting", "look", "end"} /\ n = [gate[g] EXCEPT !.at = "failed"]
    \/ gate[g].at = "waiting" /\ n = [gate[g] EXCEPT !.at = "woken"]
    \/ gate[g].at = "look" /\ n = [gate[g] EXCEPT !.at = "looked", !.seen = lease]
    \/ gate[g].at = "look" /\ n = [gate[g] EXCEPT !.at = "failed", !.seen = lease]
    \/ gate[g].at = "end" /\ n = [gate[g] EXCEPT !.at = "ended", !.seen = lease]
    \/ gate[g].at = "end" /\ n = [gate[g] EXCEPT !.at = "failed", !.seen = lease]

LEMMA ToGateStep ==
    ASSUME TypeOK, NEW g \in Turns, NEW for, NEW ok \in BOOLEAN, NEW n, n = ToGate(g, for, ok)
    PROVE  n \in Action /\ (n = gate[g] \/ Answered(g, n))
<1>1. gate[g] \in Action /\ lease \in Lease
  BY TypeParts
<1>2. CASE for = "wait" /\ gate[g].at = "waiting" /\ ~ok
  BY <1>1, <1>2 DEF ToGate, Woken, Action, GateAt, Answered
<1>3. CASE for = "wait" /\ Woken(g) /\ ok
  BY <1>1, <1>3 DEF ToGate, Woken, Action, GateAt, Answered
<1>4. CASE for = "look" /\ gate[g].at = "look"
  BY <1>1, <1>4 DEF ToGate, Woken, Action, GateAt, Answered
<1>5. CASE for = "end" /\ gate[g].at = "end"
  BY <1>1, <1>5 DEF ToGate, Woken, Action, GateAt, Answered
<1>6. CASE /\ ~(for = "wait" /\ gate[g].at = "waiting" /\ ~ok) /\ ~(for = "wait" /\ Woken(g) /\ ok)
           /\ ~(for = "look" /\ gate[g].at = "look") /\ ~(for = "end" /\ gate[g].at = "end")
  <2>1. n = gate[g]
    BY <1>6 DEF ToGate
  <2> QED
    BY <1>1, <2>1
<1> QED
  BY <1>2, <1>3, <1>4, <1>5, <1>6

LEMMA CloseStaleStep ==
    ASSUME TypeOK
    PROVE  /\ CloseStale \in [Sockets -> Streamed]
           /\ \A s \in Sockets : ~(CloseStale[s].at = "on" /\ CloseStale[s].mode = "control"
                                   /\ CloseStale[s].user # lease.owner)
<1>1. stream \in [Sockets -> Streamed]
  BY TypeParts
<1>2. ASSUME NEW s \in Sockets
      PROVE  /\ CloseStale[s] \in Streamed
             /\ ~(CloseStale[s].at = "on" /\ CloseStale[s].mode = "control" /\ CloseStale[s].user # lease.owner)
  <2>1. stream[s] \in Streamed /\ [stream[s] EXCEPT !.at = "closing"] \in Streamed
    BY <1>1 DEF Streamed, StreamAt
  <2> QED
    BY <2>1 DEF CloseStale, Stale, Streamed
<1> QED
  BY <1>2 DEF CloseStale

(* Only a watch that reads the lease closes, and no answer opens.          *)
LEMMA ToStreamsStep ==
    ASSUME TypeOK, NEW s \in Sockets, NEW for, NEW ok \in BOOLEAN
    PROVE  /\ ToStreams(s, for, ok) \in [Sockets -> Streamed]
           /\ for = "watch" /\ ok => ToStreams(s, for, ok) = CloseStale
           /\ \A x \in Sockets : ToStreams(s, for, ok)[x].at = "on" =>
                  ToStreams(s, for, ok)[x] = stream[x]
<1>1. stream \in [Sockets -> Streamed] /\ lease.owner \in Owner
  BY TypeParts DEF Lease
<1>2. CASE for = "watch" /\ ok
  <2>1. ToStreams(s, for, ok) = CloseStale
    BY <1>2 DEF ToStreams, Watching
  <2>2. \A x \in Sockets : CloseStale[x].at = "on" => CloseStale[x] = stream[x]
    BY <1>1 DEF CloseStale, Streamed
  <2> QED
    BY <2>1, <2>2, CloseStaleStep
<1>3. CASE for = "watch" /\ ~ok
  <2> DEFINE a == IF stream[s].at = "on" THEN "closing" ELSE stream[s].at
  <2>1. ToStreams(s, for, ok) = [stream EXCEPT ![s].at = a]
    BY <1>3 DEF ToStreams, Watching
  <2>2. a \in StreamAt /\ a # "on"
    BY <1>1 DEF Streamed, StreamAt
  <2>3. \A x \in Sockets : x # s => [stream EXCEPT ![s].at = a][x] = stream[x]
    BY <1>1
  <2>4. [stream EXCEPT ![s].at = a][s] = [stream[s] EXCEPT !.at = a]
    BY <1>1
  <2>5. [stream[s] EXCEPT !.at = a] \in Streamed /\ [stream[s] EXCEPT !.at = a].at = a
    BY <1>1, <2>2 DEF Streamed
  <2>6. [stream EXCEPT ![s].at = a] \in [Sockets -> Streamed]
    BY <1>1, <2>3, <2>4, <2>5
  <2> HIDE DEF a
  <2> QED
    BY <1>1, <1>3, <2>1, <2>2, <2>3, <2>4, <2>5, <2>6
<1>4. CASE for \in {"look", "recheck"}
  <2> DEFINE a == IF ok THEN (IF for = "look" THEN "looked" ELSE "rechecked") ELSE "refused"
             n == [stream[s] EXCEPT !.at = a, !.seen = lease.owner]
  <2>1. ToStreams(s, for, ok) = [stream EXCEPT ![s].at = a, ![s].seen = lease.owner]
    BY <1>4 DEF ToStreams, Watching
  <2>2. ToStreams(s, for, ok) = [stream EXCEPT ![s] = n]
    BY <1>1, <2>1 DEF Streamed
  <2>3. n \in Streamed /\ n.at # "on"
    BY <1>1 DEF Streamed, StreamAt
  <2> HIDE DEF n
  <2> QED
    BY <1>1, <1>4, <2>2, <2>3
<1>5. CASE for \notin {"watch", "look", "recheck"}
  <2>1. ToStreams(s, for, ok) = stream
    BY <1>5 DEF ToStreams, Watching
  <2> QED
    BY <1>1, <1>5, <2>1
<1> QED
  BY <1>2, <1>3, <1>4, <1>5

(* Every look joins the tail and leaves the rest of the service alone.     *)
LEMMA EntryTyped ==
    ASSUME TypeOK, NEW op, NEW by, NEW for, Entry(op, by, for) \in Waiting,
           tail' = Append(tail, Entry(op, by, for))
    PROVE  /\ tail' \in Seq(Waiting) /\ tail' # <<>>
           /\ \A i \in DOMAIN tail : i \in DOMAIN tail' /\ tail'[i] = tail[i]
           /\ \E i \in DOMAIN tail' : tail'[i] = Entry(op, by, for)
<1>1. tail \in Seq(Waiting) /\ Entry(op, by, for) \in Waiting
  BY TypeParts
<1>2. /\ tail' \in Seq(Waiting) /\ Len(tail') = Len(tail) + 1
      /\ \A i \in 1 .. Len(tail) : tail'[i] = tail[i]
      /\ tail'[Len(tail) + 1] = Entry(op, by, for)
  BY <1>1, AppendProperties
<1>3. DOMAIN tail' = 1 .. Len(tail) + 1 /\ DOMAIN tail = 1 .. Len(tail) /\ Len(tail) \in Nat
  BY <1>1, <1>2
<1> QED
  BY <1>2, <1>3

LEMMA TailTyped ==
    ASSUME TypeOK, tail # <<>>, tail' = Tail(tail)
    PROVE  /\ tail' \in Seq(Waiting) /\ Head(tail) \in Waiting /\ Head(tail) = tail[1]
           /\ \A i \in DOMAIN tail : i # 1 => i - 1 \in DOMAIN tail' /\ tail'[i - 1] = tail[i]
<1>1. tail \in Seq(Waiting)
  BY TypeParts
<1>2. /\ Head(tail) \in Waiting /\ Tail(tail) \in Seq(Waiting) /\ Len(Tail(tail)) = Len(tail) - 1
      /\ \A i \in 1 .. Len(tail) - 1 : Tail(tail)[i] = tail[i + 1]
  BY <1>1, HeadTailProperties
<1>3. DOMAIN tail = 1 .. Len(tail) /\ DOMAIN tail' = 1 .. Len(tail) - 1 /\ Len(tail) \in Nat
  BY <1>1, <1>2
<1> QED
  BY <1>1, <1>2, <1>3

LEMMA GateTyped ==
    ASSUME TypeOK, NEW g \in Turns, NEW at \in GateAt, GateGoes(g, at)
    PROVE  /\ gate' \in [Turns -> Action]
           /\ gate'[g] = [gate[g] EXCEPT !.at = at]
           /\ \A h \in Turns : h # g => gate'[h] = gate[h]
<1>1. gate \in [Turns -> Action]
  BY TypeParts
<1>2. [gate[g] EXCEPT !.at = at] \in Action
  BY <1>1 DEF Action
<1>3. gate' = [gate EXCEPT ![g] = [gate[g] EXCEPT !.at = at]]
  BY DEF GateGoes
<1> QED
  BY <1>1, <1>2, <1>3

(* The actions of the service.                                             *)
LEMMA ChangeStep ==
    ASSUME TypeOK, NEW owner \in Owner, Begins(Operation), Change(owner)
    PROVE  /\ TypeOK'
           /\ lease'.epoch = lease.epoch + 1 /\ lease'.owner = owner
           /\ \A g \in Turns :
                 gate'[g] = [gate[g] EXCEPT !.touched = @ \/ (Operating(g) /\ owner # Bot)]
<1>1. lease \in Lease /\ gate \in [Turns -> Action]
  BY TypeParts
<1>2. lease' \in Lease /\ lease'.epoch = lease.epoch + 1 /\ lease'.owner = owner
  BY <1>1 DEF Change, Lease
<1>3. \A g \in Turns : gate'[g] = [gate[g] EXCEPT !.touched = @ \/ (Operating(g) /\ owner # Bot)]
  BY DEF Change
<1>4. ASSUME NEW g \in Turns PROVE gate'[g] \in Action
  <2> DEFINE b == gate[g].touched \/ (Operating(g) /\ owner # Bot)
  <2>1. b \in BOOLEAN
    OBVIOUS
  <2>2. gate'[g] = [gate[g] EXCEPT !.touched = b]
    BY <1>3
  <2> HIDE DEF b
  <2> QED
    BY <1>1, <2>1, <2>2 DEF Action
<1>5. gate' \in [Turns -> Action]
  BY <1>4 DEF Change
<1> QED
  BY <1>2, <1>3, <1>5, TypeParts DEF Change, Begins, TypeOK, Action, GateAt

(* What an answer does.                                                    *)
LEMMA AnswerStep ==
    ASSUME TypeOK, Answer
    PROVE  /\ TypeOK'
           /\ tail # <<>>
           /\ \A g \in Turns : gate'[g] = gate[g] \/ Answered(g, gate'[g])
           /\ \A s \in Sockets : stream'[s].at = "on" => stream'[s] = stream[s]
           /\ \A s \in Sockets : serving = "told" /\ Head(tail) = Entry("current", s, "watch") => stream' = CloseStale
<1> DEFINE e == Head(tail)
           ok == serving = "told"
<1>0. tail # <<>> /\ ok \in BOOLEAN /\ gate \in [Turns -> Action] /\ stream \in [Sockets -> Streamed]
  BY TypeParts DEF Answer
<1>1. e \in Waiting /\ tail' \in Seq(Waiting)
  BY <1>0, TailTyped DEF Answer
<1>3. \A g \in Turns : gate'[g] = IF g = e.by THEN ToGate(g, e.for, ok) ELSE gate[g]
  BY DEF Answer
<1>4. stream' = IF e.by \in Sockets THEN ToStreams(e.by, e.for, ok) ELSE stream
  BY DEF Answer
<1> HIDE DEF ok
<1>5. ASSUME NEW g \in Turns
      PROVE  gate'[g] \in Action /\ (gate'[g] = gate[g] \/ Answered(g, gate'[g]))
  <2>1. CASE g = e.by
    <3>1. gate'[g] = ToGate(g, e.for, ok)
      BY <1>3, <2>1
    <3> HIDE DEF e
    <3> QED
      BY <1>0, <3>1, ToGateStep
  <2>2. CASE g # e.by
    BY <1>0, <1>3, <2>2
  <2> QED
    BY <2>1, <2>2
<1>6. gate' \in [Turns -> Action]
  BY <1>5 DEF Answer
<1>7. stream' \in [Sockets -> Streamed] /\ \A s \in Sockets : stream'[s].at = "on" => stream'[s] = stream[s]
  <2>1. CASE e.by \in Sockets
    BY <1>0, <1>4, <2>1, ToStreamsStep
  <2>2. CASE e.by \notin Sockets
    BY <1>0, <1>4, <2>2
  <2> QED
    BY <2>1, <2>2
<1>8. ASSUME NEW s \in Sockets, serving = "told", e = Entry("current", s, "watch") PROVE stream' = CloseStale
  <2>1. e.by = s /\ e.for = "watch" /\ ok
    BY <1>8 DEF Entry, ok
  <2>2. stream' = ToStreams(s, "watch", ok)
    BY <1>4, <2>1
  <2> QED
    BY <2>1, <2>2, <1>0, ToStreamsStep
<1>9. TypeOK'
  BY <1>1, <1>6, <1>7, TypeParts DEF Answer, Served, TypeOK, Action, GateAt, Streamed, StreamAt
<1> QED
  BY <1>0, <1>5, <1>7, <1>8, <1>9

LEMMA OwnerStep ==
    ASSUME TypeOK, Take \/ Return
    PROVE  \E owner \in Owner : Begins(Operation) /\ Change(owner)
<1>1. CASE Take
  <2>1. tail # <<>> /\ Head(tail).op = "take" /\ serving = "no" /\ Change(Head(tail).by)
    BY <1>1 DEF Take, Begins
  <2>2. Head(tail) \in Waiting
    BY <2>1, TypeParts, HeadTailProperties
  <2>3. Head(tail).by \in Owner /\ Begins(Operation)
    BY <2>1, <2>2 DEF Waiting, Owner, Begins, Operation, Asked
  <2> QED
    BY <2>1, <2>3
<1>2. CASE Return
  BY <1>2 DEF Return, Owner
<1> QED
  BY <1>1, <1>2

----------------------------------------------------------------------------
(* What a step does to the action of a turn: nothing; a takeover's mark;   *)
(* an answer; or one step of the turn itself.                              *)
GateStep(g) ==
    \/ GateRun(g) \/ GateLook(g) \/ GateWait(g) \/ GatePrepare(g)
    \/ GateAct(g) \/ GateOperated(g) \/ GateFails(g) \/ GateEnd(g)
StreamStep(s) ==
    \/ \E u \in Users, control \in BOOLEAN : Upgrade(s, u, control)
    \/ StreamLooked(s) \/ StreamRecheck(s) \/ StreamDowngrade(s) \/ StreamOn(s) \/ StreamEnd(s)
Quiet ==
    \/ \E u \in Users, op \in Asked : Request(u, op)
    \/ Sweep \/ Expire \/ Renew \/ Unchanged \/ Rejected
    \/ UNCHANGED vars

LEMMA Steps ==
    [Next]_vars <=>
        \/ Quiet \/ Take \/ Return \/ Listeners \/ Answer
        \/ \E g \in Turns : GateStep(g)
        \/ \E s \in Sockets : StreamStep(s)
  BY DEF Next, Quiet, GateStep, StreamStep

LEMMA QuietType == TypeOK /\ Quiet => TypeOK'
<1> SUFFICES ASSUME TypeOK, Quiet PROVE TypeOK'
  OBVIOUS
<1>1. ASSUME NEW u \in Users, NEW op \in Asked, Request(u, op) PROVE TypeOK'
  <2>1. Entry(op, u, "none") \in Waiting
    BY DEF Entry, Waiting
  <2>2. tail' \in Seq(Waiting) /\ tail' # <<>>
    BY <1>1, <2>1, EntryTyped DEF Request
  <2> QED
    BY <1>1, <2>2 DEF Request, TypeOK
<1>2. CASE Sweep
  <2>1. Entry("sweep", Bot, "none") \in Waiting
    BY DEF Entry, Waiting
  <2>2. tail' \in Seq(Waiting) /\ tail' # <<>>
    BY <1>2, <2>1, EntryTyped DEF Sweep
  <2> QED
    BY <1>2, <2>2 DEF Sweep, TypeOK
<1>3. CASE Expire
  BY <1>3 DEF Expire, TypeOK
<1>4. CASE Renew
  BY <1>4 DEF Renew, Begins, TypeOK
<1>5. CASE Unchanged
  BY <1>5 DEF Unchanged, Begins, TypeOK
<1>6. CASE Rejected
  BY <1>6 DEF Rejected, TypeOK
<1>7. CASE UNCHANGED vars
  BY <1>7 DEF vars, leaseVars, TypeOK
<1> QED
  BY <1>1, <1>2, <1>3, <1>4, <1>5, <1>6, <1>7 DEF Quiet

LEMMA ListenersStep ==
    ASSUME TypeOK, Listeners
    PROVE  /\ TypeOK'
           /\ \A g \in Turns : gate'[g] = gate[g] \/ (gate[g].at = "waiting" /\ gate'[g] = [gate[g] EXCEPT !.at = "woken"])
<1>1. gate \in [Turns -> Action]
  BY TypeParts
<1>2. \A g \in Turns : gate'[g] = gate[g] \/ (gate[g].at = "waiting" /\ gate'[g] = [gate[g] EXCEPT !.at = "woken"])
  BY DEF Listeners, Woken
<1>3. ASSUME NEW g \in Turns PROVE gate'[g] \in Action
  <2>1. gate[g] \in Action
    BY <1>1
  <2>2. [gate[g] EXCEPT !.at = "woken"] \in Action
    BY <2>1 DEF Action, GateAt
  <2> QED
    BY <1>2, <2>1, <2>2
<1>4. gate' \in [Turns -> Action] /\ stream' \in [Sockets -> Streamed]
  BY <1>3, CloseStaleStep DEF Listeners
<1>5. TypeOK'
  BY <1>4 DEF Listeners, TypeOK, Action, GateAt, Streamed, StreamAt
<1> QED
  BY <1>2, <1>5

(* Every look a turn or a stream asks for.                                 *)
LEMMA AskStep ==
    ASSUME TypeOK, NEW by \in Turns \cup Sockets, NEW for \in Purpose, Ask(by, for)
    PROVE  /\ tail' \in Seq(Waiting) /\ tail' # <<>>
           /\ \A i \in DOMAIN tail : i \in DOMAIN tail' /\ tail'[i] = tail[i]
           /\ \E i \in DOMAIN tail' : tail'[i] = Entry("current", by, for)
<1>1. Entry("current", by, for) \in Waiting
  BY DEF Entry, Waiting
<1> QED
  BY <1>1, EntryTyped DEF Ask

(* A turn moves only itself.                                               *)
LEMMA GateStepType ==
    ASSUME TypeOK, Line, NEW g \in Turns, GateStep(g)
    PROVE  /\ TypeOK'
           /\ \A h \in Turns : h # g => gate'[h] = gate[h]
           /\ UNCHANGED <<lease, serving, stream, rejections>>
           /\ \A i \in DOMAIN tail : i \in DOMAIN tail' /\ tail'[i] = tail[i]
<1>t. gate \in [Turns -> Action] /\ display \in Seq(Turns) /\ tail \in Seq(Waiting) /\ lease \in Lease /\ gate[g] \in Action
  BY TypeParts
<1> DEFINE Goal == /\ TypeOK'
                   /\ \A h \in Turns : h # g => gate'[h] = gate[h]
                   /\ UNCHANGED <<lease, serving, stream, rejections>>
                   /\ \A i \in DOMAIN tail : i \in DOMAIN tail' /\ tail'[i] = tail[i]
<1> DEFINE Moved == \E n \in Action : gate' = [gate EXCEPT ![g] = n]
           Kept == /\ lease' = lease /\ overdue' = overdue /\ serving' = serving /\ stream' = stream
                   /\ rejections' = rejections
           More == /\ tail' \in Seq(Waiting) /\ (tail # <<>> => tail' # <<>>)
                   /\ \A i \in DOMAIN tail : i \in DOMAIN tail' /\ tail'[i] = tail[i]
<1>0. ASSUME Moved, Kept, More, display' \in Seq(Turns)
      PROVE  Goal
  <2>1. gate' \in [Turns -> Action] /\ \A h \in Turns : h # g => gate'[h] = gate[h]
    BY <1>t, <1>0
  <2> QED
    BY <1>0, <2>1 DEF TypeOK, Action, GateAt
<1>u. UNCHANGED tail => More
  BY <1>t
<1> SUFFICES Goal
  OBVIOUS
<1> HIDE DEF Goal, Moved, Kept, More
<1>r. \A a \in GateAt : [gate[g] EXCEPT !.at = a] \in Action
  BY <1>t DEF Action
<1>s. \A a \in GateAt : [gate EXCEPT ![g].at = a] = [gate EXCEPT ![g] = [gate[g] EXCEPT !.at = a]]
  BY <1>t
<1>1. CASE GateRun(g)
  <2>1. display' \in Seq(Turns)
    BY <1>1, <1>t, AppendProperties DEF GateRun
  <2>2. gate' = [gate EXCEPT ![g] = [gate[g] EXCEPT !.at = "queued"]]
    BY <1>1, <1>s DEF GateRun, GateAt
  <2>3. Moved
    BY <1>r, <2>2 DEF Moved, GateAt
  <2>4. Kept /\ UNCHANGED tail
    BY <1>1 DEF GateRun, Kept, leaseVars
  <2> QED
    BY <1>0, <1>u, <2>1, <2>3, <2>4
<1>2. CASE GateLook(g)
  <2>1. gate' = [gate EXCEPT ![g] = [gate[g] EXCEPT !.at = "look"]]
    BY <1>2, <1>s DEF GateLook, GateGoes, GateAt
  <2>2. tail' \in Seq(Waiting) /\ tail' # <<>> /\ \A i \in DOMAIN tail : i \in DOMAIN tail' /\ tail'[i] = tail[i]
    BY <1>2, AskStep DEF GateLook, Purpose
  <2>3. Moved
    BY <1>r, <2>1 DEF Moved, GateAt
  <2>4. Kept /\ display' \in Seq(Turns)
    BY <1>2, <1>t DEF GateLook, Kept
  <2>5. More
    BY <2>2 DEF More
  <2> QED
    BY <1>0, <2>3, <2>4, <2>5
<1>3. CASE GateWait(g)
  <2>1. gate' = [gate EXCEPT ![g] = [gate[g] EXCEPT !.at = "waiting"]]
    BY <1>3, <1>s DEF GateWait, GateGoes, GateAt
  <2>2. tail' \in Seq(Waiting) /\ tail' # <<>> /\ \A i \in DOMAIN tail : i \in DOMAIN tail' /\ tail'[i] = tail[i]
    BY <1>3, AskStep DEF GateWait, Purpose
  <2>3. Moved
    BY <1>r, <2>1 DEF Moved, GateAt
  <2>4. Kept /\ display' \in Seq(Turns)
    BY <1>3, <1>t DEF GateWait, Kept
  <2>5. More
    BY <2>2 DEF More
  <2> QED
    BY <1>0, <2>3, <2>4, <2>5
<1>4. CASE GatePrepare(g)
  <2> DEFINE n == [gate[g] EXCEPT !.at = "prepare", !.start = gate[g].seen, !.touched = lease.owner # Bot]
  <2>1. gate' = [gate EXCEPT ![g] = n]
    BY <1>4, <1>t DEF GatePrepare
  <2>2. n \in Action
    BY <1>t DEF Action, GateAt
  <2>3. Moved
    BY <2>1, <2>2 DEF Moved
  <2>4. Kept /\ display' \in Seq(Turns) /\ UNCHANGED tail
    BY <1>4, <1>t DEF GatePrepare, Kept, leaseVars
  <2> QED
    BY <1>0, <1>u, <2>3, <2>4
<1>5. CASE GateAct(g)
  <2>1. gate' = [gate EXCEPT ![g] = [gate[g] EXCEPT !.at = "act"]]
    BY <1>5, <1>s DEF GateAct, GateGoes, GateAt
  <2>2. Moved
    BY <1>r, <2>1 DEF Moved, GateAt
  <2>3. Kept /\ display' \in Seq(Turns) /\ UNCHANGED tail
    BY <1>5, <1>t DEF GateAct, Kept, leaseVars
  <2> QED
    BY <1>0, <1>u, <2>2, <2>3
<1>6. CASE GateOperated(g)
  <2>1. gate' = [gate EXCEPT ![g] = [gate[g] EXCEPT !.at = "end"]]
    BY <1>6, <1>s DEF GateOperated, GateGoes, GateAt
  <2>2. tail' \in Seq(Waiting) /\ tail' # <<>> /\ \A i \in DOMAIN tail : i \in DOMAIN tail' /\ tail'[i] = tail[i]
    BY <1>6, AskStep DEF GateOperated, Purpose
  <2>3. Moved
    BY <1>r, <2>1 DEF Moved, GateAt
  <2>4. Kept /\ display' \in Seq(Turns)
    BY <1>6, <1>t DEF GateOperated, Kept
  <2>5. More
    BY <2>2 DEF More
  <2> QED
    BY <1>0, <2>3, <2>4, <2>5
<1>7. CASE GateFails(g)
  <2>1. gate' = [gate EXCEPT ![g] = [gate[g] EXCEPT !.at = "failed"]]
    BY <1>7, <1>s DEF GateFails, GateGoes, GateAt
  <2>2. Moved
    BY <1>r, <2>1 DEF Moved, GateAt
  <2>3. Kept /\ display' \in Seq(Turns) /\ UNCHANGED tail
    BY <1>7, <1>t DEF GateFails, Kept, leaseVars
  <2> QED
    BY <1>0, <1>u, <2>2, <2>3
<1>8. CASE GateEnd(g)
  <2>1. display # <<>>
    BY <1>8 DEF GateEnd, Line
  <2>2. display' \in Seq(Turns)
    BY <1>8, <1>t, <2>1, HeadTailProperties DEF GateEnd
  <2>3. NoAction \in Action
    BY DEF NoAction, NoLease, Action, GateAt, Lease, Owner
  <2>4. Moved
    BY <1>8, <2>3 DEF GateEnd, Moved
  <2>5. Kept /\ UNCHANGED tail
    BY <1>8 DEF GateEnd, Kept, leaseVars
  <2> QED
    BY <1>0, <1>u, <2>2, <2>4, <2>5
<1> QED
  BY <1>1, <1>2, <1>3, <1>4, <1>5, <1>6, <1>7, <1>8 DEF GateStep

(* A stream moves only itself, and is open for input only when its last    *)
(* look is under way.                                                      *)
LEMMA StreamStepType ==
    ASSUME TypeOK, NEW s \in Sockets, StreamStep(s)
    PROVE  /\ TypeOK'
           /\ UNCHANGED <<lease, serving, display, gate, rejections>>
           /\ \A x \in Sockets : x # s => stream'[x] = stream[x]
           /\ \A i \in DOMAIN tail : i \in DOMAIN tail' /\ tail'[i] = tail[i]
           /\ stream'[s].at = "on" /\ stream'[s].mode = "control" =>
                  \E i \in DOMAIN tail' : tail'[i] = Entry("current", s, "watch")
<1>t. stream \in [Sockets -> Streamed] /\ tail \in Seq(Waiting) /\ stream[s] \in Streamed
  BY TypeParts
<1> DEFINE Goal == /\ TypeOK'
                   /\ UNCHANGED <<lease, serving, display, gate, rejections>>
                   /\ \A x \in Sockets : x # s => stream'[x] = stream[x]
                   /\ \A i \in DOMAIN tail : i \in DOMAIN tail' /\ tail'[i] = tail[i]
                   /\ stream'[s].at = "on" /\ stream'[s].mode = "control" =>
                         \E i \in DOMAIN tail' : tail'[i] = Entry("current", s, "watch")
<1> DEFINE Watched == \E i \in DOMAIN tail' : tail'[i] = Entry("current", s, "watch")
           Moved == \E n \in Streamed :
                        stream' = [stream EXCEPT ![s] = n] /\ (n.at = "on" /\ n.mode = "control" => Watched)
           Kept == UNCHANGED <<lease, overdue, serving, display, gate, rejections>>
           More == /\ tail' \in Seq(Waiting) /\ (tail # <<>> => tail' # <<>>)
                   /\ \A i \in DOMAIN tail : i \in DOMAIN tail' /\ tail'[i] = tail[i]
<1>0. ASSUME Moved, Kept, More
      PROVE  Goal
  <2>1. PICK n \in Streamed : stream' = [stream EXCEPT ![s] = n] /\ (n.at = "on" /\ n.mode = "control" => Watched)
    BY <1>0
  <2>2. stream' \in [Sockets -> Streamed] /\ stream'[s] = n /\ \A x \in Sockets : x # s => stream'[x] = stream[x]
    BY <1>t, <2>1
  <2> QED
    BY <1>0, <2>1, <2>2 DEF TypeOK, Streamed, StreamAt
<1>u. UNCHANGED tail => More
  BY <1>t
<1> SUFFICES Goal
  OBVIOUS
<1> HIDE DEF Goal, Moved, Kept, More, Watched
<1>r. \A a \in StreamAt : [stream[s] EXCEPT !.at = a] \in Streamed
  BY <1>t DEF Streamed
<1>s. \A a \in StreamAt : [stream EXCEPT ![s].at = a] = [stream EXCEPT ![s] = [stream[s] EXCEPT !.at = a]]
  BY <1>t
<1>1. ASSUME NEW u \in Users, NEW control \in BOOLEAN, Upgrade(s, u, control) PROVE Goal
  <2> DEFINE n == [NoStream EXCEPT !.user = u, !.at = IF control THEN "look" ELSE "open"]
  <2>1. n \in Streamed /\ n.at # "on"
    BY DEF NoStream, Streamed, StreamAt, Owner
  <2>2. More
    <3>1. CASE control
      BY <1>1, <3>1, AskStep DEF Upgrade, Purpose, More
    <3>2. CASE ~control
      BY <1>1, <1>u, <3>2 DEF Upgrade
    <3> QED
      BY <3>1, <3>2
  <2>3. stream' = [stream EXCEPT ![s] = n]
    BY <1>1 DEF Upgrade
  <2>4. Moved
    BY <2>1, <2>3 DEF Moved
  <2>5. Kept
    BY <1>1 DEF Upgrade, Kept
  <2> QED
    BY <1>0, <2>2, <2>4, <2>5
<1>2. CASE StreamLooked(s)
  <2> DEFINE m == IF stream[s].seen = stream[s].user THEN "control" ELSE "viewer"
             n == [stream[s] EXCEPT !.at = "open", !.mode = m]
  <2>1. n \in Streamed /\ n.at # "on"
    BY <1>t DEF Streamed, StreamAt
  <2>2. stream' = [stream EXCEPT ![s] = n]
    BY <1>2, <1>t DEF StreamLooked
  <2>3. Moved
    BY <2>1, <2>2 DEF Moved
  <2>4. Kept /\ UNCHANGED tail
    BY <1>2 DEF StreamLooked, Kept, leaseVars
  <2> QED
    BY <1>0, <1>u, <2>3, <2>4
<1>3. CASE StreamRecheck(s)
  <2>1. stream' = [stream EXCEPT ![s] = [stream[s] EXCEPT !.at = "recheck"]]
    BY <1>3, <1>s DEF StreamRecheck, StreamAt
  <2>2. [stream[s] EXCEPT !.at = "recheck"].at # "on"
    BY <1>t DEF Streamed
  <2>3. More
    BY <1>3, AskStep DEF StreamRecheck, Purpose, More
  <2>4. Moved
    BY <1>r, <2>1, <2>2 DEF Moved, StreamAt
  <2>5. Kept
    BY <1>3 DEF StreamRecheck, Kept
  <2> QED
    BY <1>0, <2>3, <2>4, <2>5
<1>4. CASE StreamDowngrade(s)
  <2> DEFINE n == [stream[s] EXCEPT !.at = "open", !.mode = "viewer"]
  <2>1. n \in Streamed /\ n.at # "on"
    BY <1>t DEF Streamed, StreamAt
  <2>2. stream' = [stream EXCEPT ![s] = n]
    BY <1>4, <1>t DEF StreamDowngrade
  <2>3. Moved
    BY <2>1, <2>2 DEF Moved
  <2>4. Kept /\ UNCHANGED tail
    BY <1>4 DEF StreamDowngrade, Kept, leaseVars
  <2> QED
    BY <1>0, <1>u, <2>3, <2>4
<1>5. CASE StreamOn(s)
  <2>1. stream' = [stream EXCEPT ![s] = [stream[s] EXCEPT !.at = "on"]]
    BY <1>5, <1>s DEF StreamOn, StreamAt
  <2>2. [stream[s] EXCEPT !.at = "on"].mode = stream[s].mode
    BY <1>t DEF Streamed
  <2>3. Kept
    BY <1>5 DEF StreamOn, Kept
  <2>4. CASE stream[s].mode = "viewer" /\ tail' = tail
    <3>1. Moved
      BY <1>r, <2>1, <2>2, <2>4 DEF Moved, StreamAt
    <3> QED
      BY <1>0, <1>u, <2>3, <2>4, <3>1
  <2>5. CASE Ask(s, "watch")
    <3>1. More /\ Watched
      BY <2>5, AskStep DEF Purpose, More, Watched
    <3>2. Moved
      BY <1>r, <2>1, <3>1 DEF Moved, StreamAt
    <3> QED
      BY <1>0, <2>3, <3>1, <3>2
  <2> QED
    BY <1>5, <2>4, <2>5 DEF StreamOn, Watch
<1>6. CASE StreamEnd(s)
  <2>1. NoStream \in Streamed /\ NoStream.at # "on"
    BY DEF NoStream, Streamed, StreamAt, Owner
  <2>2. Moved
    BY <1>6, <2>1 DEF StreamEnd, Moved
  <2>3. Kept /\ UNCHANGED tail
    BY <1>6 DEF StreamEnd, Kept, leaseVars
  <2> QED
    BY <1>0, <1>u, <2>2, <2>3
<1> QED
  BY <1>1, <1>2, <1>3, <1>4, <1>5, <1>6 DEF StreamStep

LEMMA TypeStep == TypeOK /\ Line /\ [Next]_vars => TypeOK'
  BY Steps, QuietType, OwnerStep, ChangeStep, ListenersStep, AnswerStep, GateStepType, StreamStepType

----------------------------------------------------------------------------
(* The display's queue.                                                    *)
LEMMA QuietSame == Quiet => UNCHANGED <<lease, display, gate, stream>>
  BY DEF Quiet, Request, Sweep, Expire, Renew, Unchanged, Rejected, vars, leaseVars

(* A step that is not a turn's changes an action in one of these ways.     *)
LEMMA GateOthers ==
    ASSUME TypeOK, [Next]_vars, ~\E g \in Turns : GateStep(g)
    PROVE  /\ display' = display
           /\ \A g \in Turns :
                 \/ gate'[g] = gate[g]
                 \/ gate[g].at \in {"waiting", "look", "end"} /\ gate'[g].at \in {"failed", "woken"}
                 \/ gate[g].at = "look" /\ gate'[g].at = "looked" /\ gate'[g].seen = lease /\ lease' = lease
                 \/ /\ gate[g].at = "end" /\ gate'[g].at = "ended" /\ gate'[g].seen = lease /\ lease' = lease
                    /\ gate'[g].start = gate[g].start /\ gate'[g].touched = gate[g].touched
                 \/ /\ lease'.epoch = lease.epoch + 1
                    /\ \E b \in BOOLEAN : gate'[g] = [gate[g] EXCEPT !.touched = b] /\ (b => gate[g].touched \/ Operating(g))
<1>t. gate \in [Turns -> Action]
  BY TypeParts
<1>1. CASE Quiet \/ \E s \in Sockets : StreamStep(s)
  BY <1>1, QuietSame, StreamStepType
<1>2. CASE Take \/ Return
  <2>1. PICK owner \in Owner : Begins(Operation) /\ Change(owner)
    BY <1>2, OwnerStep
  <2>2. display' = display /\ lease'.epoch = lease.epoch + 1
    BY <2>1, ChangeStep DEF Change
  <2>3. ASSUME NEW g \in Turns
        PROVE  \E b \in BOOLEAN : gate'[g] = [gate[g] EXCEPT !.touched = b] /\ (b => gate[g].touched \/ Operating(g))
    <3> DEFINE c == gate[g].touched \/ (Operating(g) /\ owner # Bot)
    <3>1. gate'[g] = [gate[g] EXCEPT !.touched = c]
      BY <2>1, ChangeStep
    <3>2. c \in BOOLEAN /\ (c => gate[g].touched \/ Operating(g))
      OBVIOUS
    <3> HIDE DEF c
    <3> QED
      BY <3>1, <3>2
  <2> QED
    BY <2>2, <2>3
<1>3. CASE Listeners
  <2>1. display' = display
    BY <1>3 DEF Listeners
  <2>2. ASSUME NEW g \in Turns
        PROVE  gate'[g] = gate[g] \/ (gate[g].at = "waiting" /\ gate'[g].at = "woken")
    <3>1. gate[g] \in Action
      BY <1>t
    <3>2. [gate[g] EXCEPT !.at = "woken"].at = "woken"
      BY <3>1 DEF Action
    <3> QED
      BY <1>3, <3>2, ListenersStep
  <2> QED
    BY <2>1, <2>2
<1>4. CASE Answer
  <2>1. display' = display /\ lease' = lease
    BY <1>4 DEF Answer
  <2>2. ASSUME NEW g \in Turns, gate'[g] # gate[g]
        PROVE  \/ gate[g].at \in {"waiting", "look", "end"} /\ gate'[g].at \in {"failed", "woken"}
               \/ gate[g].at = "look" /\ gate'[g].at = "looked" /\ gate'[g].seen = lease
               \/ /\ gate[g].at = "end" /\ gate'[g].at = "ended" /\ gate'[g].seen = lease
                  /\ gate'[g].start = gate[g].start /\ gate'[g].touched = gate[g].touched
    <3>1. Answered(g, gate'[g]) /\ gate[g] \in Action
      BY <1>4, <1>t, <2>2, AnswerStep
    <3> QED
      BY <3>1 DEF Answered, Action
  <2> QED
    BY <2>1, <2>2
<1> QED
  BY <1>1, <1>2, <1>3, <1>4, Steps

LEMMA LineStep == TypeOK /\ Line /\ [Next]_vars => Line'
<1> SUFFICES ASSUME TypeOK, Line, [Next]_vars PROVE Line'
  OBVIOUS
<1>t. gate \in [Turns -> Action] /\ display \in Seq(Turns)
  BY TypeParts
<1>1. CASE ~\E g \in Turns : GateStep(g)
  <2>1. ASSUME NEW g \in Turns
        PROVE  gate'[g].at = gate[g].at \/ (gate[g].at \notin {"idle", "queued"} /\ gate'[g].at # "queued")
    BY <1>1, <1>t, GateOthers DEF Action
  <2> QED
    BY <1>1, <2>1, GateOthers DEF Line
<1>2. ASSUME NEW g \in Turns, GateStep(g) PROVE Line'
  <2>1. \A h \in Turns : h # g => gate'[h] = gate[h]
    BY <1>2, GateStepType
  <2>2. CASE GateRun(g)
    <3>1. display' = Append(display, g) /\ gate'[g].at = "queued"
      BY <1>t, <2>2 DEF GateRun, Action
    <3>2. /\ Len(display') = Len(display) + 1 /\ display' \in Seq(Turns) /\ Len(display) \in Nat
          /\ \A i \in 1 .. Len(display) : display'[i] = display[i]
          /\ display'[Len(display) + 1] = g
      BY <1>t, <3>1, AppendProperties
    <3>3. DOMAIN display' = 1 .. Len(display) + 1 /\ DOMAIN display = 1 .. Len(display)
      BY <1>t, <3>2
    <3>4. display # <<>> => display' # <<>> /\ Head(display') = Head(display)
      BY <1>t, <3>2, <3>3
    <3> QED
      BY <2>1, <3>1, <3>2, <3>3, <3>4 DEF Line
  <2>3. CASE GateEnd(g)
    <3>1. display # <<>> /\ Head(display) = g /\ display' = Tail(display) /\ gate'[g].at = "idle"
      BY <1>t, <2>3 DEF GateEnd, Line, NoAction
    <3>2. /\ Len(display') = Len(display) - 1 /\ display' \in Seq(Turns) /\ Len(display) \in Nat
          /\ \A i \in 1 .. Len(display) - 1 : display'[i] = display[i + 1]
          /\ Head(display) = display[1]
      BY <1>t, <3>1, HeadTailProperties
    <3>3. DOMAIN display' = 1 .. Len(display) - 1 /\ DOMAIN display = 1 .. Len(display)
      BY <1>t, <3>2
    <3>4. ASSUME NEW h \in Turns, h # g, gate'[h].at = "queued"
          PROVE  \E i \in DOMAIN display' : display'[i] = h
      <4>1. PICK i \in DOMAIN display : display[i] = h
        BY <2>1, <3>4 DEF Line
      <4>2. i # 1
        BY <3>1, <3>2, <3>4, <4>1
      <4>3. i - 1 \in DOMAIN display' /\ display'[i - 1] = h
        BY <3>2, <3>3, <4>1, <4>2
      <4> QED
        BY <4>3
    <3>5. ASSUME NEW h \in Turns, h # g, gate'[h].at \notin {"idle", "queued"}
          PROVE  FALSE
      BY <2>1, <3>1, <3>5 DEF Line
    <3> QED
      BY <3>1, <3>4, <3>5 DEF Line
  <2>4. CASE GateLook(g)
    <3>1. display # <<>> /\ Head(display) = g /\ gate'[g].at = "look"
      BY <1>t, <2>4 DEF GateLook, GateGoes, Line, Action
    <3> QED
      BY <2>1, <2>4, <3>1 DEF Line, GateLook
  <2>5. CASE GateWait(g) \/ GatePrepare(g) \/ GateAct(g) \/ GateOperated(g) \/ GateFails(g)
    <3>1. gate[g].at \notin {"idle", "queued"} /\ gate'[g].at # "queued" /\ display' = display
      BY <1>t, <2>5 DEF GateWait, GatePrepare, GateAct, GateOperated, GateFails, GateGoes, Action
    <3> QED
      BY <2>1, <3>1 DEF Line
  <2> QED
    BY <1>2, <2>2, <2>3, <2>4, <2>5 DEF GateStep
<1> QED
  BY <1>1, <1>2

----------------------------------------------------------------------------
(* The fence.                                                              *)

(* The epoch never goes back, and the lease changes only with it.          *)
LEMMA EpochStep ==
    ASSUME TypeOK, [Next]_vars
    PROVE  lease' = lease \/ lease'.epoch = lease.epoch + 1
<1>1. CASE Take \/ Return
  BY <1>1, OwnerStep, ChangeStep
<1>2. CASE \E g \in Turns : GateStep(g)
  BY <1>2 DEF GateStep, GateRun, GateLook, GateWait, GatePrepare, GateAct, GateOperated, GateFails, GateEnd, leaseVars
<1>3. CASE \E s \in Sockets : StreamStep(s)
  BY <1>3, StreamStepType
<1>4. CASE Quiet \/ Listeners \/ Answer
  BY <1>4, QuietSame DEF Listeners, Answer
<1> QED
  BY <1>1, <1>2, <1>3, <1>4, Steps

LEMMA StaysBefore ==
    ASSUME TypeOK, [Next]_vars, NEW l \in Lease, NotLater(l)
    PROVE  NotLater(l)'
<1>1. lease.epoch \in Nat /\ l.epoch \in Nat
  BY TypeParts DEF Lease
<1> QED
  BY <1>1, EpochStep DEF NotLater

FencedAt(g) ==
    /\ gate[g].at \in {"looked", "ended"} => NotLater(gate[g].seen)
    /\ Operating(g) => NotLater(gate[g].start) /\ gate[g].start.owner = Bot
    /\ gate[g].at \in {"prepare", "act", "end"} =>
           gate[g].start.epoch <= lease.epoch /\ (gate[g].touched => gate[g].start.epoch < lease.epoch)
    /\ gate[g].at = "ended" /\ gate[g].touched => ControlChanged(g)

LEMMA FencedParts == Fenced /\ TakeoverIsNoticed <=> \A g \in Turns : FencedAt(g)
  BY DEF Fenced, TakeoverIsNoticed, FencedAt

LEMMA FencedStep ==
    TypeOK /\ Line /\ Fenced /\ TakeoverIsNoticed /\ [Next]_vars => Fenced' /\ TakeoverIsNoticed'
<1> SUFFICES ASSUME TypeOK, Line, Fenced, TakeoverIsNoticed, [Next]_vars, NEW g \in Turns
             PROVE  FencedAt(g)'
  BY FencedParts DEF Fenced, TakeoverIsNoticed, FencedAt
<1>t. /\ gate[g] \in Action /\ lease \in Lease /\ lease' \in Lease /\ gate'[g] \in Action
      /\ lease.epoch \in Nat /\ lease'.epoch \in Nat
      /\ gate[g].start \in Lease /\ gate[g].seen \in Lease
      /\ gate[g].start.epoch \in Nat /\ gate[g].seen.epoch \in Nat
      /\ gate \in [Turns -> Action]
  <2>1. TypeOK'
    BY TypeStep
  <2> QED
    BY <2>1, TypeParts DEF Action, Lease, TypeOK, GateAt
<1>f. FencedAt(g)
  BY FencedParts
<1>e. lease' = lease \/ lease'.epoch = lease.epoch + 1
  BY EpochStep
<1>n. NotLater(gate[g].seen) => /\ gate[g].seen.epoch <= lease'.epoch
                                /\ gate[g].seen.epoch = lease'.epoch => gate[g].seen = lease'
  BY <1>t, <1>e DEF NotLater
<1>m. NotLater(gate[g].start) => /\ gate[g].start.epoch <= lease'.epoch
                                 /\ gate[g].start.epoch = lease'.epoch => gate[g].start = lease'
  BY <1>t, <1>e DEF NotLater
<1>1. CASE gate'[g] = gate[g]
  BY <1>1, <1>t, <1>f, <1>e, <1>n, <1>m DEF FencedAt, NotLater, Operating, ControlChanged
<1>2. CASE ~\E h \in Turns : GateStep(h)
  <2>1. CASE gate'[g].at \in {"failed", "woken"}
    BY <2>1 DEF FencedAt, Operating
  <2>2. CASE gate'[g].at = "looked" /\ gate'[g].seen = lease /\ lease' = lease
    BY <2>2, <1>t DEF FencedAt, NotLater, Operating
  <2>3. CASE /\ gate[g].at = "end" /\ gate'[g].at = "ended" /\ gate'[g].seen = lease /\ lease' = lease
             /\ gate'[g].start = gate[g].start /\ gate'[g].touched = gate[g].touched
    BY <2>3, <1>t, <1>f DEF FencedAt, NotLater, Operating, ControlChanged
  <2>4. ASSUME lease'.epoch = lease.epoch + 1, NEW b \in BOOLEAN,
               gate'[g] = [gate[g] EXCEPT !.touched = b], b => gate[g].touched \/ Operating(g)
        PROVE  FencedAt(g)'
    <3>1. /\ gate'[g].at = gate[g].at /\ gate'[g].start = gate[g].start /\ gate'[g].seen = gate[g].seen
          /\ gate'[g].touched = b
      BY <1>t, <2>4 DEF Action
    <3>2. gate[g].at = "ended" => ~Operating(g)
      BY DEF Operating
    <3> QED
      BY <3>1, <3>2, <2>4, <1>t, <1>f, <1>n, <1>m DEF FencedAt, NotLater, Operating, ControlChanged
  <2> QED
    BY <1>1, <1>2, <2>1, <2>2, <2>3, <2>4, GateOthers
<1>3. CASE GateStep(g)
  <2>0. lease' = lease
    BY <1>3, GateStepType
  <2>1. CASE GateRun(g) \/ GateLook(g) \/ GateWait(g) \/ GateFails(g) \/ GateEnd(g)
    <3>1. gate'[g].at \in {"queued", "look", "waiting", "failed", "idle"}
      BY <2>1, <1>t DEF GateRun, GateLook, GateWait, GateFails, GateEnd, GateGoes, NoAction, Action
    <3> QED
      BY <3>1 DEF FencedAt, Operating
  <2>2. CASE GatePrepare(g)
    <3>1. /\ gate'[g].at = "prepare" /\ gate'[g].start = gate[g].seen /\ gate[g].at = "looked"
          /\ gate'[g].touched <=> lease.owner # Bot
          /\ gate[g].seen.owner = Bot
      BY <1>t, <2>2 DEF GatePrepare, Action
    <3>2. NotLater(gate[g].seen)
      BY <3>1, <1>f DEF FencedAt
    <3>3. lease.owner # Bot => gate[g].seen.epoch < lease.epoch
      BY <3>1, <3>2, <1>t DEF NotLater
    <3> QED
      BY <2>0, <3>1, <3>2, <3>3, <1>t DEF FencedAt, NotLater, Operating
  <2>3. CASE GateAct(g) \/ GateOperated(g)
    <3>1. /\ gate[g].at \in {"prepare", "act"} /\ gate'[g].at \in {"act", "end"}
          /\ gate'[g].start = gate[g].start /\ gate'[g].touched = gate[g].touched
      BY <1>t, <2>3 DEF GateAct, GateOperated, GateGoes, Action
    <3> QED
      BY <2>0, <3>1, <1>t, <1>f DEF FencedAt, NotLater, Operating
  <2> QED
    BY <1>3, <2>1, <2>2, <2>3 DEF GateStep
<1>4. ASSUME NEW h \in Turns, GateStep(h), h # g PROVE FencedAt(g)'
  BY <1>1, <1>4, GateStepType
<1> QED
  BY <1>2, <1>3, <1>4

----------------------------------------------------------------------------
(* The streams.                                                            *)
LEMMA CoveredStep == TypeOK /\ Line /\ Covered /\ [Next]_vars => Covered'
<1> SUFFICES ASSUME TypeOK, Line, Covered, [Next]_vars, rejections' = 0
             PROVE  /\ serving' # "failed"
                    /\ \A s \in Sockets : Stale(s)' =>
                           \/ serving' = "changed"
                           \/ \E i \in DOMAIN tail' : tail'[i] = Entry("current", s, "watch")
  BY DEF Covered
<1>t. tail \in Seq(Waiting) /\ rejections \in Nat /\ stream \in [Sockets -> Streamed]
  BY TypeParts
<1>1. CASE Take \/ Return
  BY <1>1, OwnerStep DEF Change
<1>2. CASE Rejected
  BY <1>2, <1>t DEF Rejected
<1>r. ASSUME ~Rejected PROVE rejections = 0
  BY <1>r, <1>1 DEF Next, vars, leaseVars, Request, Sweep, Expire, Take, Return, Change, Renew, Unchanged, Listeners, Answer,
     GateRun, GateLook, GateWait, GatePrepare, GateAct, GateOperated, GateFails, GateEnd,
     Upgrade, StreamLooked, StreamRecheck, StreamDowngrade, StreamOn, StreamEnd
<1>3. CASE Quiet /\ ~Rejected
  <2>1. stream' = stream /\ lease' = lease
    BY <1>3, QuietSame
  <2>2. serving' \in {serving, "renewed", "told"} /\ (serving = "changed" => serving' = "changed")
    BY <1>3 DEF Quiet, Request, Sweep, Expire, Renew, Unchanged, Begins, vars, leaseVars
  <2>3. \A i \in DOMAIN tail : i \in DOMAIN tail' /\ tail'[i] = tail[i]
    <3>1. CASE UNCHANGED tail
      BY <3>1
    <3>2. ASSUME NEW u \in Users, NEW op \in Asked, Request(u, op)
          PROVE  \A i \in DOMAIN tail : i \in DOMAIN tail' /\ tail'[i] = tail[i]
      <4>1. Entry(op, u, "none") \in Waiting
        BY DEF Entry, Waiting
      <4> QED
        BY <3>2, <4>1, EntryTyped DEF Request
    <3>3. CASE Sweep
      <4>1. Entry("sweep", Bot, "none") \in Waiting
        BY DEF Entry, Waiting
      <4> QED
        BY <3>3, <4>1, EntryTyped DEF Sweep
    <3> QED
      BY <1>3, <3>1, <3>2, <3>3 DEF Quiet, Expire, Renew, Unchanged, vars, leaseVars
  <2> QED
    BY <1>3, <1>r, <2>1, <2>2, <2>3 DEF Covered, Stale
<1>4. CASE Listeners
  BY <1>4, CloseStaleStep DEF Listeners, Stale
<1>5. CASE Answer /\ ~Rejected
  <2>1. /\ lease' = lease /\ serving' = "no" /\ tail' = Tail(tail) /\ tail # <<>>
        /\ serving \in {"told", "failed"} /\ rejections = 0
    BY <1>5, <1>r, AnswerStep DEF Answer, Served
  <2>2. serving = "told"
    BY <2>1 DEF Covered
  <2>3. ASSUME NEW s \in Sockets, Stale(s)' PROVE \E i \in DOMAIN tail' : tail'[i] = Entry("current", s, "watch")
    <3>1. stream'[s] = stream[s] /\ Stale(s)
      BY <1>5, <2>1, <2>3, AnswerStep DEF Stale
    <3>2. PICK i \in DOMAIN tail : tail[i] = Entry("current", s, "watch")
      BY <2>1, <2>2, <3>1 DEF Covered
    <3>3. i # 1
      <4>1. SUFFICES ASSUME i = 1 PROVE FALSE
        OBVIOUS
      <4>2. Head(tail) = Entry("current", s, "watch")
        BY <2>1, <3>2, <4>1, TailTyped
      <4>3. stream' = CloseStale
        BY <1>5, <2>2, <4>2, AnswerStep
      <4> QED
        BY <2>1, <2>3, <4>3, CloseStaleStep DEF Stale
    <3> QED
      BY <2>1, <3>2, <3>3, TailTyped
  <2> QED
    BY <2>1, <2>3
<1>6. CASE (\E g \in Turns : GateStep(g)) /\ ~Rejected
  <2>1. /\ UNCHANGED <<lease, serving, stream, rejections>>
        /\ \A i \in DOMAIN tail : i \in DOMAIN tail' /\ tail'[i] = tail[i]
    BY <1>6, GateStepType
  <2> QED
    BY <2>1 DEF Covered, Stale
<1>7. ASSUME NEW s \in Sockets, StreamStep(s)
      PROVE  /\ serving' # "failed"
             /\ \A x \in Sockets : Stale(x)' =>
                    \/ serving' = "changed"
                    \/ \E i \in DOMAIN tail' : tail'[i] = Entry("current", x, "watch")
  <2>1. /\ UNCHANGED <<lease, serving, rejections>>
        /\ \A x \in Sockets : x # s => stream'[x] = stream[x]
        /\ \A i \in DOMAIN tail : i \in DOMAIN tail' /\ tail'[i] = tail[i]
        /\ stream'[s].at = "on" /\ stream'[s].mode = "control" =>
               \E i \in DOMAIN tail' : tail'[i] = Entry("current", s, "watch")
    BY <1>7, StreamStepType
  <2> QED
    BY <2>1 DEF Covered, Stale
<1> QED
  BY <1>1, <1>2, <1>3, <1>4, <1>5, <1>6, <1>7, Steps

----------------------------------------------------------------------------
LEMMA NextIInv == IInv /\ [Next]_vars => IInv'
  BY TypeStep, LineStep, FencedStep, CoveredStep DEF IInv

LEMMA InvariantIInv == Spec => []IInv
  BY InitIInv, NextIInv, PTL DEF Spec

(* The state of the lease, of its operations, of the display's queue and   *)
(* of the streams is well formed, however often control changes            *)
(* (lease.ts:62-159, display-gate.ts:13-32, hub.ts:83-144).                *)
THEOREM LeaseTypeOK == Spec => []TypeOK
  BY InvariantIInv, PTL DEF IInv

(* An action of a bot that a takeover overlaps is reported as changed,     *)
(* for every number of members, turns and takeovers (display-gate.ts:27-28)*)
THEOREM LeaseTakeoverIsNoticed == Spec => []TakeoverIsNoticed
  BY InvariantIInv, PTL DEF IInv

(* With nothing under way, every open control stream is the holder's, for  *)
(* every number of streams (hub.ts:37-41, 94-130, lease.ts:137-159).       *)
THEOREM LeaseControlFollowsHolder == Spec => []ControlFollowsHolder
<1>1. IInv => ControlFollowsHolder
  <2> SUFFICES ASSUME IInv, tail = <<>>, rejections = 0, NEW s \in Sockets, Stale(s) PROVE FALSE
    BY DEF ControlFollowsHolder, Stale
  <2>1. serving = "no"
    BY TypeParts DEF IInv
  <2>2. \E i \in DOMAIN tail : tail[i] = Entry("current", s, "watch")
    BY <2>1 DEF IInv, Covered
  <2> QED
    BY <2>2
<1> QED
  BY <1>1, InvariantIInv, PTL

(* One visible action at a time, over all turns: the display's queue lets  *)
(* the next one look at the lease only when the last one has ended, however*)
(* it ended (display-gate.ts:13-31; docs/COMPUTER-DESKTOP.md:120-121).     *)
OneOnDisplay == \A g, h \in Turns : Operating(g) /\ Operating(h) => g = h
THEOREM LeaseOneOnDisplay == Spec => []OneOnDisplay
<1>1. IInv => OneOnDisplay
  BY DEF IInv, Line, OneOnDisplay, Operating
<1> QED
  BY <1>1, InvariantIInv, PTL
=============================================================================
