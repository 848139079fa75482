--------------------------- MODULE ComputerLease ---------------------------
(***************************************************************************)
(* Who controls the computer's desktop: ComputerLeaseService hands control *)
(* to a person and back (src/apps/server/src/computer/lease.ts), the       *)
(* DisplayGate makes the visible actions of bots wait for it               *)
(* (computer/display-gate.ts), and RealtimeHub bridges desktop streams,    *)
(* those of the person in control with input (realtime/hub.ts).            *)
(*                                                                         *)
(* The operations of the service run one after another in `tail`.  A       *)
(* caller goes on some time after its operation has ended, so that other   *)
(* operations may run in between.                                          *)
(***************************************************************************)
EXTENDS Naturals, Sequences, FiniteSets

CONSTANTS
    Users,
    Turns,           \* turns of bots, each with one visible action at a time;
                     \* BOUND: the next one once the last one's looks are over
    Sockets,         \* desktop streams, with the same BOUND
    Bot,             \* the owner when no person is in control
    MaxStreams,      \* 4 in RealtimeHub.upgradeDesktop
    MaxTail,         \* BOUND: operations in the tail when a member adds one
    MaxEpoch,        \* BOUND: nobody takes over past this epoch
    MaxRejections    \* BOUND: transactions the database driver rejects

ASSUME LeaseAssumption ==
    /\ Bot \notin Users
    /\ Users \cap Turns = {} /\ Users \cap Sockets = {} /\ Turns \cap Sockets = {}
    /\ MaxStreams \in Nat /\ MaxTail \in Nat /\ MaxEpoch \in Nat /\ MaxRejections \in Nat

Owner == Users \cup {Bot}
Lease == [owner : Owner, epoch : Nat]
Asked == {"take", "heartbeat", "release", "force"}
Operation == Asked \cup {"current", "sweep"}
Purpose == {"look", "wait", "end", "recheck", "watch"}     \* of those who look
Waiting ==
    [op : Asked, by : Users, for : {"none"}]
        \cup [op : {"sweep"}, by : {Bot}, for : {"none"}]
        \cup [op : {"current"}, by : Turns \cup Sockets, for : Purpose]

VARIABLE lease       \* the row of computer_lease
VARIABLE overdue     \* whether its expiresAt has passed
VARIABLE tail        \* the operations that wait for each other, the first one runs
VARIABLE serving     \* how far the first one is
VARIABLE display     \* the turns in the gate's tail, the first one runs
VARIABLE gate        \* per turn, where its visible action awaits
VARIABLE stream      \* per socket, where its upgrade awaits, and its mode
VARIABLE rejections

leaseVars == <<lease, overdue, tail, serving>>
vars == <<leaseVars, display, gate, stream, rejections>>

NoLease == [owner |-> Bot, epoch |-> 0]
NoAction == [at |-> "idle", start |-> NoLease, seen |-> NoLease, touched |-> FALSE]
NoStream == [at |-> "idle", user |-> Bot, mode |-> "viewer", seen |-> Bot]

Init ==
    /\ lease = NoLease /\ overdue = FALSE
    /\ tail = <<>> /\ serving = "no"
    /\ display = <<>>
    /\ gate = [g \in Turns |-> NoAction]
    /\ stream = [s \in Sockets |-> NoStream]
    /\ rejections = 0

----------------------------------------------------------------------------
(* The service.                                                            *)

Entry(op, by, for) == [op |-> op, by |-> by, for |-> for]
Ask(by, for) == tail' = Append(tail, Entry("current", by, for))

(* A member's request; only the workspace's owner forces, and any member   *)
(* here may be that.                                                       *)
Request(u, op) ==
    /\ Len(tail) < MaxTail
    /\ op = "take" => lease.epoch < MaxEpoch
    /\ tail' = Append(tail, Entry(op, u, "none"))
    /\ UNCHANGED <<lease, overdue, serving, display, gate, stream, rejections>>

(* The sweep timer, which does not wait for its last sweep.  A member's    *)
(* reading of the lease does the same.                                     *)
Sweep ==
    /\ ~\E i \in DOMAIN tail : tail[i].op = "sweep"      \* BOUND
    /\ tail' = Append(tail, Entry("sweep", Bot, "none"))
    /\ UNCHANGED <<lease, overdue, serving, display, gate, stream, rejections>>

(* Nothing but a heartbeat or a new owner puts the expiry off.             *)
Expire ==
    /\ lease.owner # Bot /\ ~overdue
    /\ overdue' = TRUE
    /\ UNCHANGED <<lease, tail, serving, display, gate, stream, rejections>>

Expired == lease.owner # Bot /\ overdue

Begins(ops) == tail # <<>> /\ serving = "no" /\ Head(tail).op \in ops

MayTake(u) == lease.owner \in {Bot, u} \/ Expired
MayReturnAsked(e) ==        \* slip: the sweep looks and does nothing
    \/ e.op = "current" /\ Expired
    \/ e.op = "release" /\ lease.owner = e.by
    \/ e.op = "force" /\ lease.owner # Bot
MayReturn(e) ==
    \/ e.op \in {"current", "sweep"} /\ Expired
    \/ e.op = "release" /\ lease.owner = e.by
    \/ e.op = "force" /\ lease.owner # Bot
MayRenew(u) == lease.owner = u /\ ~Expired

Operating(g) == gate[g].at \in {"prepare", "act"}

(* A new owner, be it the old one again: an action that runs is disturbed. *)
Change(owner) ==
    /\ lease' = [owner |-> owner, epoch |-> lease.epoch + 1]
    /\ overdue' = FALSE
    /\ serving' = "changed"
    /\ gate' = [g \in Turns |-> [gate[g] EXCEPT !.touched = @ \/ (Operating(g) /\ owner # Bot)]]
    /\ UNCHANGED <<tail, display, stream, rejections>>

Take ==
    /\ Begins({"take"}) /\ MayTake(Head(tail).by)
    /\ Change(Head(tail).by)

Return ==
    /\ Begins(Operation) /\ MayReturn(Head(tail))
    /\ Change(Bot)

Renew ==
    /\ Begins({"heartbeat"}) /\ MayRenew(Head(tail).by)
    /\ overdue' = FALSE
    /\ serving' = "renewed"
    /\ UNCHANGED <<lease, tail, display, gate, stream, rejections>>

(* A reading of the lease, or a refusal.                                   *)
Unchanged ==
    /\ Begins(Operation)
    /\ LET e == Head(tail) IN
       /\ ~(e.op = "take" /\ MayTake(e.by)) /\ ~(e.op = "heartbeat" /\ MayRenew(e.by))
       /\ ~MayReturn(e)
    /\ serving' = "told"
    /\ UNCHANGED <<lease, overdue, tail, display, gate, stream, rejections>>

(* changed(): its transaction may meet another one, which libSQL's local   *)
(* driver rejects (agent/approval-lock.ts:5); the row is written already.  *)
Rejected ==
    /\ serving = "changed" /\ rejections < MaxRejections
    /\ rejections' = rejections + 1
    /\ serving' = "failed"
    /\ UNCHANGED <<lease, overdue, tail, display, gate, stream>>

(* closeStaleControlStreams().                                             *)
Stale(s) == stream[s].at = "on" /\ stream[s].mode = "control" /\ stream[s].user # lease.owner
CloseStale == [s \in Sockets |-> IF Stale(s) THEN [stream[s] EXCEPT !.at = "closing"] ELSE stream[s]]

(* The listeners: those of waitForBot(), and the hub's.                    *)
Woken(g) == gate[g].at = "waiting" /\ lease.owner = Bot
Listeners ==
    /\ serving \in {"changed", "renewed"}
    /\ gate' = [g \in Turns |-> IF Woken(g) THEN [gate[g] EXCEPT !.at = "woken"] ELSE gate[g]]
    /\ stream' = CloseStale
    /\ serving' = "told"
    /\ UNCHANGED <<lease, overdue, tail, display, rejections>>

(* The operation ends, and its caller has the answer.  The look of a wait  *)
(* that is over already says nothing.                                      *)
ToGate(g, for, ok) ==
    CASE for = "wait" /\ gate[g].at = "waiting" /\ ~ok -> [gate[g] EXCEPT !.at = "failed"]
      [] for = "wait" /\ Woken(g) /\ ok -> [gate[g] EXCEPT !.at = "woken"]
      [] for = "look" /\ gate[g].at = "look" -> [gate[g] EXCEPT !.at = IF ok THEN "looked" ELSE "failed", !.seen = lease]
      [] for = "end" /\ gate[g].at = "end" -> [gate[g] EXCEPT !.at = IF ok THEN "ended" ELSE "failed", !.seen = lease]
      [] OTHER -> gate[g]

Watching(for) == for = "watch"
ToStreams(s, for, ok) ==
    CASE Watching(for) /\ ok -> CloseStale
      [] Watching(for) /\ ~ok -> [stream EXCEPT ![s].at = IF @ = "on" THEN "closing" ELSE @]
      [] for = "look" -> [stream EXCEPT ![s].at = IF ok THEN "looked" ELSE "refused", ![s].seen = lease.owner]
      [] for = "recheck" -> [stream EXCEPT ![s].at = IF ok THEN "rechecked" ELSE "refused", ![s].seen = lease.owner]
      [] OTHER -> stream

ServedNot == serving' = serving     \* slip: the end of an operation is not noted
Served == serving' = "no"

Answer ==
    /\ serving \in {"told", "failed"}
    /\ LET e == Head(tail)
           ok == serving = "told"
       IN
       /\ gate' = [g \in Turns |-> IF g = e.by THEN ToGate(g, e.for, ok) ELSE gate[g]]
       /\ stream' = IF e.by \in Sockets THEN ToStreams(e.by, e.for, ok) ELSE stream
    /\ tail' = Tail(tail)
    /\ Served
    /\ UNCHANGED <<lease, overdue, display, rejections>>

----------------------------------------------------------------------------
(* DisplayGate.run().                                                      *)

GateGoes(g, at) == gate' = [gate EXCEPT ![g].at = at]

Looks(x) == \E i \in DOMAIN tail : tail[i].by = x

GateRun(g) ==
    /\ gate[g].at = "idle" /\ ~Looks(g)
    /\ gate' = [gate EXCEPT ![g].at = "queued"]
    /\ display' = Append(display, g)
    /\ UNCHANGED <<leaseVars, stream, rejections>>

GateLook(g) ==
    /\ \/ gate[g].at = "queued" /\ Head(display) = g
       \/ gate[g].at = "woken"
    /\ GateGoes(g, "look")
    /\ Ask(g, "look")
    /\ UNCHANGED <<lease, overdue, serving, display, stream, rejections>>

(* waitForBot() listens first and looks then.                              *)
GateWaitUnheard(g) ==       \* slip: listens, and trusts the look before
    /\ gate[g].at = "looked" /\ gate[g].seen.owner # Bot
    /\ GateGoes(g, "waiting")
    /\ UNCHANGED <<leaseVars, display, stream, rejections>>
GateWait(g) ==
    /\ gate[g].at = "looked" /\ gate[g].seen.owner # Bot
    /\ GateGoes(g, "waiting")
    /\ Ask(g, "wait")
    /\ UNCHANGED <<lease, overdue, serving, display, stream, rejections>>

(* The operation begins: it finds its page and brings it to front, and     *)
(* looks at the screen when it had to wait.                                *)
GatePrepare(g) ==
    /\ gate[g].at = "looked" /\ gate[g].seen.owner = Bot
    /\ gate' = [gate EXCEPT ![g].at = "prepare", ![g].start = gate[g].seen,
                            ![g].touched = lease.owner # Bot]
    /\ UNCHANGED <<leaseVars, display, stream, rejections>>

(* The action proper: input to the page or to the screen.                  *)
GateAct(g) ==
    /\ gate[g].at = "prepare"
    /\ GateGoes(g, "act")
    /\ UNCHANGED <<leaseVars, display, stream, rejections>>

GateOperated(g) ==
    /\ gate[g].at = "act"
    /\ GateGoes(g, "end")
    /\ Ask(g, "end")
    /\ UNCHANGED <<lease, overdue, serving, display, stream, rejections>>

(* A timeout or a Stop ends the wait, a stopped turn does not begin one,   *)
(* and a record of the pause, or the operation, may fail.                  *)
GateFails(g) ==
    /\ gate[g].at \in {"looked", "waiting", "prepare", "act"}
    /\ GateGoes(g, "failed")
    /\ UNCHANGED <<leaseVars, display, stream, rejections>>

ControlChangedByOwner(g) == gate[g].start.owner # gate[g].seen.owner    \* slip: no epoch
ControlChanged(g) == gate[g].start.epoch # gate[g].seen.epoch

GateEnd(g) ==
    /\ gate[g].at \in {"ended", "failed"}
    /\ gate' = [gate EXCEPT ![g] = NoAction]
    /\ display' = Tail(display)
    /\ UNCHANGED <<leaseVars, stream, rejections>>

----------------------------------------------------------------------------
(* RealtimeHub.upgradeDesktop().                                           *)

Streams == {s \in Sockets : stream[s].at # "idle"}      \* registered and pending

Upgrade(s, u, control) ==
    /\ stream[s].at = "idle" /\ Cardinality(Streams) < MaxStreams /\ ~Looks(s)
    /\ stream' = [stream EXCEPT ![s] = [NoStream EXCEPT !.user = u, !.at = IF control THEN "look" ELSE "open"]]
    /\ IF control THEN Ask(s, "look") ELSE UNCHANGED tail
    /\ UNCHANGED <<lease, overdue, serving, display, gate, rejections>>

StreamLooked(s) ==
    /\ stream[s].at = "looked"
    /\ stream' = [stream EXCEPT ![s].at = "open",
                                ![s].mode = IF stream[s].seen = stream[s].user THEN "control" ELSE "viewer"]
    /\ UNCHANGED <<leaseVars, display, gate, rejections>>

(* The desktop has answered: a control stream looks at the lease again.    *)
StreamRecheck(s) ==
    /\ stream[s].at = "open" /\ stream[s].mode = "control"
    /\ stream' = [stream EXCEPT ![s].at = "recheck"]
    /\ Ask(s, "recheck")
    /\ UNCHANGED <<lease, overdue, serving, display, gate, rejections>>

StreamDowngrade(s) ==
    /\ stream[s].at = "rechecked" /\ stream[s].seen # stream[s].user
    /\ stream' = [stream EXCEPT ![s].at = "open", ![s].mode = "viewer"]
    /\ UNCHANGED <<leaseVars, display, gate, rejections>>

(* handleUpgrade(): the stream is registered and, with control, looks once *)
(* more.                                                                   *)
WatchNot(s) == UNCHANGED tail               \* slip: trusts the look before
Watch(s) == Ask(s, "watch")
StreamOn(s) ==
    /\ \/ /\ stream[s].at = "open" /\ stream[s].mode = "viewer"
          /\ UNCHANGED tail
       \/ /\ stream[s].at = "rechecked" /\ stream[s].seen = stream[s].user
          /\ Watch(s)
    /\ stream' = [stream EXCEPT ![s].at = "on"]
    /\ UNCHANGED <<lease, overdue, serving, display, gate, rejections>>

(* The desktop does not answer, a peer closes, or the close is complete.   *)
StreamEnd(s) ==
    /\ stream[s].at \in {"open", "refused", "on", "closing"}
    /\ stream' = [stream EXCEPT ![s] = NoStream]
    /\ UNCHANGED <<leaseVars, display, gate, rejections>>

Next ==
    \/ \E u \in Users, op \in Asked : Request(u, op)
    \/ Sweep \/ Expire
    \/ Take \/ Return \/ Renew \/ Unchanged \/ Rejected \/ Listeners \/ Answer
    \/ \E g \in Turns :
          \/ GateRun(g) \/ GateLook(g) \/ GateWait(g) \/ GatePrepare(g)
          \/ GateAct(g) \/ GateOperated(g) \/ GateFails(g) \/ GateEnd(g)
    \/ \E s \in Sockets :
          \/ \E u \in Users, control \in BOOLEAN : Upgrade(s, u, control)
          \/ StreamLooked(s) \/ StreamRecheck(s) \/ StreamDowngrade(s) \/ StreamOn(s) \/ StreamEnd(s)

Spec == Init /\ [][Next]_vars

(* The timer ticks, and the operations of the service end.                 *)
FairSpec ==
    /\ Spec
    /\ WF_vars(Sweep)
    /\ WF_vars(Take \/ Return \/ Renew \/ Unchanged) /\ WF_vars(Listeners) /\ WF_vars(Answer)

----------------------------------------------------------------------------
TypeOK ==
    /\ lease \in Lease /\ overdue \in BOOLEAN
    /\ tail \in Seq(Waiting)
    /\ serving \in {"no", "changed", "renewed", "told", "failed"}
    /\ serving # "no" => tail # <<>>
    /\ display \in Seq(Turns)
    /\ gate \in [Turns -> [at : {"idle", "queued", "look", "looked", "waiting", "woken",
                                 "prepare", "act", "end", "ended", "failed"},
                           start : Lease, seen : Lease, touched : BOOLEAN]]
    /\ stream \in [Sockets -> [at : {"idle", "look", "looked", "open", "recheck", "rechecked",
                                     "refused", "on", "closing"},
                               user : Owner, mode : {"viewer", "control"}, seen : Owner]]
    /\ rejections \in Nat

(* An action of a bot that ran at any time under a person's control, be it *)
(* that the takeover came between the look and the action, or that control *)
(* was back before the action ended, is reported as changed, so that the   *)
(* bot looks anew (display-gate.ts:27-28).                                 *)
TakeoverIsNoticed ==
    \A g \in Turns : gate[g].at = "ended" /\ gate[g].touched => ControlChanged(g)

(* Control streams follow the holder: while no operation of the lease is   *)
(* under way, every open control stream belongs to the person in control,  *)
(* however the upgrade's looks and its awaits fell between takeovers       *)
(* (hub.ts:37-41, 94-130).  A rejected transaction leaves the listeners    *)
(* uncalled, so this is claimed until the first one.                       *)
ControlFollowsHolder ==
    tail = <<>> /\ rejections = 0 =>
        \A s \in Sockets : stream[s].at = "on" /\ stream[s].mode = "control" => stream[s].user = lease.owner

(* A waiting bot is woken: when control is back at the bots, no wait goes  *)
(* on until its timeout, whether control came back before, between or      *)
(* after the listening and the look of waitForBot() (lease.ts:166-188).    *)
(* Again claimed until the first rejection.                                *)
WaitersWake ==
    \A g \in Turns :
        gate[g].at = "waiting" /\ lease.owner = Bot
            ~> gate[g].at # "waiting" \/ lease.owner # Bot \/ rejections > 0

(* A lease that nobody renews ends, though no member asks for it           *)
(* (lease.ts:58, 121-126).                                                 *)
LeaseReturns == Expired ~> ~Expired
=============================================================================
