----------------------------- MODULE TabsProofs -----------------------------
(***************************************************************************)
(* Theorems about BrowserTabs, for all turns and tabs and however often    *)
(* the connection is lost or a probe times out.                            *)
(*                                                                         *)
(* IInv is inductive.  Apart is what the properties are about; OnTarget    *)
(* ties the page of a session to its registration; Choosing and Ending say *)
(* what the operation and close() may rely on while they await.            *)
(***************************************************************************)
EXTENDS BrowserTabs, TLAPS

(* No open tab is registered for two turns whose sessions are alive.       *)
Apart == \A t, u \in Sessions : t # u /\ target[t] = target[u] => target[t] \notin open

OnTarget == \A t \in Turns : session[t].page # 0 => target[t] \in {0, session[t].page}

(* From the gate to the choice: the turn has no page; a scan knows what the *)
(* others are registered for, and that its own tab is gone or silent; a tab *)
(* that was opened is nobody's.                                             *)
Choosing ==
    /\ op.at \in {"connect", "scan", "register"} => session[op.turn].page = 0
    /\ op.at = "connect" => ~op.made /\ op.tab = 0
    /\ op.at = "scan" =>
        /\ ~op.made
        /\ \A u \in Sessions \ {op.turn} : target[u] \in op.owned \cup {0}
        /\ op.stalled \/ target[op.turn] \notin open
        /\ op.tab \notin op.owned \ {0}
    /\ op.at = "register" => op.made /\ op.tab # 0 /\ \A u \in Turns \ {op.turn} : target[u] # op.tab

(* A run is over for good.                                                  *)
Ending == \A t \in Turns : closer[t]["finish"] # "no" => run[t] = "ending"

IInv == TypeOK /\ Apart /\ OnTarget /\ Choosing /\ Ending

Places == {"free", "connect", "scan", "register", "use"}
Operation(n) == [turn : Turns \cup {Nobody}, at : Places, newTab : BOOLEAN, takes : BOOLEAN, left : SUBSET (1..n),
                 owned : SUBSET (0..n), tab : 0..n, made : BOOLEAN, lost : BOOLEAN, stalled : BOOLEAN]
Shown(n) == [page : 0..n, created : BOOLEAN, wasBlank : BOOLEAN, closed : BOOLEAN]
Runs == {"running", "paused", "ending", "over"}
Closing == {"no", "wait", "recover"}

(* The parts of the type invariant, in one list.                           *)
LEMMA TypeParts ==
    TypeOK <=>
        /\ last \in Tabs /\ open \subseteq 1..last /\ blank \subseteq 1..last
        /\ run \in [Turns -> Runs] /\ aborted \subseteq Turns
        /\ session \in [Turns -> Shown(last)]
        /\ target \in [Turns -> 0..last]
        /\ op \in Operation(last)
        /\ op.turn = Nobody <=> op = Free
        /\ closer \in [Turns -> [Callers -> Closing]]
        /\ losses \in 0..MaxLosses /\ stalls \in 0..MaxStalls
  BY DEF TypeOK, Places, Operation, Shown, Runs, Closing

(* The same after a step.                                                  *)
LEMMA TypePrime ==
    TypeOK' <=>
        /\ last' \in Tabs /\ open' \subseteq 1..last' /\ blank' \subseteq 1..last'
        /\ run' \in [Turns -> Runs] /\ aborted' \subseteq Turns
        /\ session' \in [Turns -> Shown(last')]
        /\ target' \in [Turns -> 0..last']
        /\ op' \in Operation(last')
        /\ op'.turn = Nobody <=> op' = Free
        /\ closer' \in [Turns -> [Callers -> Closing]]
        /\ losses' \in 0..MaxLosses /\ stalls' \in 0..MaxStalls
  BY DEF TypeOK, Places, Operation, Shown, Runs, Closing

(* A free gate, no page and a session that is gone are well typed.         *)
LEMMA FreeTyped ==
    ASSUME NEW n \in Nat
    PROVE  /\ Free \in Operation(n) /\ NoPage \in Shown(n) /\ Gone \in Shown(n) /\ Gone.page = 0
           /\ Free.turn = Nobody /\ Free.at = "free" /\ ~Free.takes /\ ~Free.lost
<1>1. NoPage \in Shown(n) /\ NoPage.page = 0
  BY DEF NoPage, Shown
<1>2. Gone \in Shown(n) /\ Gone.page = 0
  BY <1>1 DEF Gone, Shown
<1>3. Free \in Operation(n) /\ Free.turn = Nobody /\ Free.at = "free" /\ ~Free.takes /\ ~Free.lost
  BY DEF Free, Operation, Places
<1> QED
  BY <1>1, <1>2, <1>3

(* A session that loses its page has none and is well typed.               *)
LEMMA NoPageNow ==
    ASSUME NEW n \in Nat, NEW s \in Shown(n), NEW b \in BOOLEAN, NEW new, new = [s EXCEPT !.page = 0, !.wasBlank = b]
    PROVE  new \in Shown(n) /\ new.page = 0
<1>1. s \in [page : 0..n, created : BOOLEAN, wasBlank : BOOLEAN, closed : BOOLEAN]
  BY DEF Shown
<1>2. new = [page |-> 0, created |-> s.created, wasBlank |-> b, closed |-> s.closed]
  BY <1>1
<1>3. s.created \in BOOLEAN /\ s.closed \in BOOLEAN /\ 0 \in 0..n
  BY <1>1
<1> QED
  BY <1>2, <1>3 DEF Shown

(* What a lost connection or a closing session changes of the operation past *)
(* the gate, and what it leaves.                                           *)
Same(new, o) == /\ new.turn = o.turn /\ new.at = o.at /\ new.owned = o.owned /\ new.tab = o.tab /\ new.made = o.made
                /\ new.stalled = o.stalled

Touched(new, o) == \E lost, takes \in BOOLEAN :
    /\ new = [o EXCEPT !.lost = lost, !.takes = takes]
    /\ o = Free => ~lost
    /\ ~o.takes => ~takes

(* Such a change leaves a free gate free, and keeps the types.             *)
LEMMA StillFree ==
    ASSUME NEW n \in Nat, NEW o \in Operation(n), o.turn = Nobody <=> o = Free, NEW new, Touched(new, o)
    PROVE  new \in Operation(n) /\ (new.turn = Nobody <=> new = Free) /\ Same(new, o)
<1>0. PICK lost, takes \in BOOLEAN :
        new = [o EXCEPT !.lost = lost, !.takes = takes] /\ (o = Free => ~lost) /\ (~o.takes => ~takes)
  BY DEF Touched
<1>1. new \in Operation(n) /\ Same(new, o)
  BY <1>0 DEF Operation, Same
<1>2. CASE o = Free
  <2>1. ~lost /\ ~takes /\ o.lost = FALSE /\ o.takes = FALSE
    BY <1>0, <1>2, FreeTyped DEF Operation
  <2>2. new = o
    BY <1>0, <2>1 DEF Operation
  <2> QED
    BY <1>1, <1>2, <2>2, FreeTyped
<1>3. CASE o # Free
  BY <1>1, <1>3, FreeTyped DEF Same
<1> QED
  BY <1>1, <1>2, <1>3

(* A new tab takes nothing from the operations and sessions there were.    *)
LEMMA Grows == ASSUME NEW n \in Nat PROVE Operation(n) \subseteq Operation(n + 1) /\ Shown(n) \subseteq Shown(n + 1)
  BY DEF Operation, Shown

(* No turn has a tab at first.                                             *)
LEMMA InitIInv == Init => IInv
<1> SUFFICES ASSUME Init PROVE IInv
  OBVIOUS
<1>1. TypeOK
  <2>1. 1 \in Tabs
    BY TabsAssumption DEF Tabs
  <2>2. session \in [Turns -> Shown(last)] /\ target \in [Turns -> 0..last] /\ op \in Operation(last)
    BY FreeTyped DEF Init
  <2>3. losses \in 0..MaxLosses /\ stalls \in 0..MaxStalls
    BY TabsAssumption DEF Init
  <2>4. op.turn = Nobody <=> op = Free
    BY DEF Init, Free
  <2>5. run \in [Turns -> Runs] /\ closer \in [Turns -> [Callers -> Closing]]
    BY DEF Init, Runs, Closing
  <2> QED
    BY <2>1, <2>2, <2>3, <2>4, <2>5, TypeParts DEF Init
<1>2. Apart /\ OnTarget /\ Choosing /\ Ending
  BY DEF Init, Apart, OnTarget, Choosing, Ending, Sessions, NoPage, Free, Callers
<1> QED
  BY <1>1, <1>2 DEF IInv

----------------------------------------------------------------------------
(* Steps of the person, of the connection and of the run.                  *)

(* A tab that opens is a new one.                                          *)
LEMMA NewTabType == TypeOK /\ NewTab => /\ last' = last + 1 /\ last' \in Tabs /\ last \in Nat
                                       /\ open' \subseteq 1..last' /\ blank' \subseteq 1..last'
                                       /\ open' = open \cup {last + 1} /\ last + 1 \notin open
  BY TypeParts, TabsAssumption DEF NewTab, Tabs

(* The person opens, fills and closes tabs and registers none.             *)
LEMMA PersonStep ==
    ASSUME IInv, PersonOpens \/ PersonCloses \/ PersonLoads
    PROVE  IInv'
<1>t. TypeOK /\ last \in Nat
  BY TypeParts, TabsAssumption DEF IInv, Tabs
<1>1. UNCHANGED <<runVars, session, target, op, closer, losses, stalls>>
  BY DEF PersonOpens, PersonCloses, PersonLoads
<1>2. /\ last' \in Tabs /\ last' \in {last, last + 1}
      /\ open' \subseteq 1..last' /\ blank' \subseteq 1..last'
      /\ open' \subseteq open \cup {last + 1}
  BY <1>t, NewTabType, TypeParts DEF PersonOpens, PersonCloses, PersonLoads, Shut
<1>3. TypeOK'
  <2>1. session \in [Turns -> Shown(last')] /\ target \in [Turns -> 0..last'] /\ op \in Operation(last')
    BY <1>t, <1>2, Grows, TypeParts
  <2> QED
    BY <1>1, <1>2, <1>t, <2>1, TypeParts, TypePrime DEF runVars
<1>4. \A t \in Turns : target[t] \in open' => target[t] \in open
  BY <1>t, <1>2, TypeParts
<1>5. Apart' /\ OnTarget' /\ Ending'
  BY <1>1, <1>4 DEF IInv, Apart, OnTarget, Ending, Sessions, runVars
<1>6. Choosing'
  <2>1. op.at = "scan" => op.turn \in Turns
    BY <1>t, TypeParts DEF Free, Operation
  <2> QED
    BY <1>1, <1>4, <2>1 DEF IInv, Choosing, Sessions, runVars
<1> QED
  BY <1>3, <1>5, <1>6 DEF IInv

(* A run that waits for an approval, or goes on, keeps its tab.            *)
LEMMA PauseStep ==
    ASSUME IInv, NEW t \in Turns, Pause(t) \/ Resume(t)
    PROVE  IInv'
<1>1. /\ run' \in [Turns -> Runs] /\ UNCHANGED <<tabVars, aborted, session, target, op, closer, losses, stalls>>
      /\ run[t] \in {"running", "paused"} /\ run'[t] \in {"running", "paused"}
      /\ \A u \in Turns : u # t => run'[u] = run[u]
  BY TypeParts DEF IInv, Pause, Resume, Runs
<1>2. Sessions' = Sessions
  BY <1>1 DEF Sessions
<1>3. TypeOK'
  BY <1>1, TypeParts, TypePrime DEF IInv, tabVars
<1>4. Apart' /\ OnTarget' /\ Choosing'
  BY <1>1, <1>2 DEF IInv, Apart, OnTarget, Choosing, tabVars
<1>5. Ending'
  BY <1>1 DEF IInv, Ending
<1> QED
  BY <1>3, <1>4, <1>5 DEF IInv

(* What a lost connection and a closing session have in common: tabs,       *)
(* sessions, pages and registrations only go.                               *)
Shrinks ==
    /\ last' = last /\ blank' = blank /\ open' \subseteq open
    /\ run' \in [Turns -> Runs] /\ Sessions' \subseteq Sessions
    /\ session' \in [Turns -> Shown(last)] /\ target' \in [Turns -> 0..last]
    /\ \A t \in Turns : target'[t] \in {0, target[t]}
    /\ \A t \in Turns : session'[t].page \in {0, session[t].page} /\ (target'[t] = target[t] \/ session'[t].page = 0)
    /\ op' = op \/ Touched(op', op)
    /\ closer' \in [Turns -> [Callers -> Closing]]
    /\ Ending'

(* A step that only takes tabs, pages and registrations preserves IInv.    *)
LEMMA ShrinkStep ==
    ASSUME IInv, Shrinks, aborted' \subseteq Turns, losses' \in 0..MaxLosses, stalls' \in 0..MaxStalls
    PROVE  IInv'
<1>t. TypeOK /\ last \in Nat
  BY TypeParts, TabsAssumption DEF IInv, Tabs
<1>1. op' \in Operation(last) /\ (op'.turn = Nobody <=> op' = Free) /\ Same(op', op)
  <2>1. CASE op' = op
    BY <2>1, <1>t, TypeParts DEF Same
  <2>2. CASE Touched(op', op)
    BY <2>2, <1>t, TypeParts, StillFree
  <2> QED
    BY <2>1, <2>2 DEF Shrinks
<1>2. TypeOK'
  BY <1>1, <1>t, TypeParts, TypePrime DEF Shrinks
<1>3. open \subseteq 1..last /\ 0 \notin open /\ target \in [Turns -> 0..last] /\ op \in Operation(last)
  BY <1>t, TypeParts
<1>s. Sessions' \subseteq Sessions /\ Sessions \subseteq Turns /\ open' \subseteq open
  BY DEF Shrinks, Sessions
<1>r. \A t \in Turns : target'[t] \in {0, target[t]}
  BY DEF Shrinks
<1>p. \A t \in Turns : session'[t].page \in {0, session[t].page} /\ (target'[t] = target[t] \/ session'[t].page = 0)
  BY DEF Shrinks
<1>4. Apart' /\ OnTarget'
  <2>1. ASSUME NEW t \in Sessions', NEW u \in Sessions', t # u, target'[t] = target'[u]
        PROVE  target'[t] \notin open'
    <3>1. CASE target'[t] = 0
      BY <3>1, <1>r, <1>s, <1>3
    <3>2. CASE target'[t] # 0
      <4>0. t \in Sessions /\ u \in Sessions /\ t \in Turns /\ u \in Turns
        BY <1>s
      <4>a. target'[t] \in {0, target[t]} /\ target'[u] \in {0, target[u]}
        BY <4>0, <1>r
      <4>1. target'[t] = target[t] /\ target'[u] = target[u]
        BY <4>a, <3>2, <2>1
      <4> QED
        BY <4>0, <4>1, <2>1, <1>s DEF IInv, Apart
    <3> QED
      BY <3>1, <3>2
  <2>2. ASSUME NEW t \in Turns, session'[t].page # 0 PROVE target'[t] \in {0, session'[t].page}
    BY <2>2, <1>r, <1>p DEF IInv, OnTarget
  <2> QED
    BY <2>1, <2>2 DEF Apart, OnTarget
<1>5. Choosing'
  <2>1. op.at \in {"connect", "scan", "register"} => op.turn \in Turns
    BY <1>t, TypeParts DEF Free, Operation
  <2>2. /\ op.at \in {"connect", "scan", "register"} => session[op.turn].page = 0
        /\ op.at = "connect" => ~op.made /\ op.tab = 0
        /\ op.at = "scan" => /\ ~op.made /\ op.tab \notin op.owned \ {0}
                             /\ \A u \in Sessions \ {op.turn} : target[u] \in op.owned \cup {0}
                             /\ op.stalled \/ target[op.turn] \notin open
        /\ op.at = "register" => op.made /\ op.tab # 0 /\ \A u \in Turns \ {op.turn} : target[u] # op.tab
    BY DEF IInv, Choosing
  <2>3. op.at \in {"connect", "scan", "register"} => session'[op.turn].page = 0
    BY <2>1, <2>2, <1>p
  <2>4. ASSUME op.at = "scan", NEW u \in Sessions' \ {op.turn} PROVE target'[u] \in op.owned \cup {0}
    <3>1. u \in Sessions \ {op.turn} /\ u \in Turns
      BY <2>4, <1>s
    <3>2. target[u] \in op.owned \cup {0}
      BY <2>2, <2>4, <3>1
    <3>3. target'[u] \in {0, target[u]}
      BY <3>1, <1>r
    <3> QED
      BY <3>2, <3>3
  <2>5. ASSUME op.at = "scan" PROVE op.stalled \/ target'[op.turn] \notin open'
    <3>1. op.turn \in Turns /\ (op.stalled \/ target[op.turn] \notin open)
      BY <2>1, <2>2, <2>5
    <3>2. target'[op.turn] \in {0, target[op.turn]} /\ 0 \notin open' /\ open' \subseteq open
      BY <3>1, <1>r, <1>s, <1>3
    <3> QED
      BY <3>1, <3>2
  <2>6. ASSUME op.at = "register", NEW u \in Turns \ {op.turn} PROVE target'[u] # op.tab
    <3>a. u \in Turns /\ target'[u] \in {0, target[u]}
      BY <2>6, <1>r
    <3>b. op.tab # 0 /\ target[u] # op.tab
      BY <2>2, <2>6
    <3>1. target'[u] \in {0, target[u]} /\ op.tab # 0 /\ target[u] # op.tab
      BY <3>a, <3>b
    <3> QED
      BY <3>1
  <2> QED
    BY <1>1, <2>2, <2>3, <2>4, <2>5, <2>6 DEF Choosing, Same
<1> QED
  BY <1>2, <1>4, <1>5 DEF IInv, Shrinks

(* A lost connection takes every page and no registration (service.ts:85-90).*)
LEMMA DisconnectStep == IInv /\ Disconnects => IInv'
<1> SUFFICES ASSUME IInv, Disconnects PROVE IInv'
  OBVIOUS
<1>t. TypeOK /\ last \in Nat
  BY TypeParts, TabsAssumption DEF IInv, Tabs
<1>1. UNCHANGED <<tabVars, runVars, target, closer, stalls>> /\ losses' \in 0..MaxLosses
  <2>1. losses \in 0..MaxLosses /\ losses < MaxLosses /\ losses' = losses + 1
    BY <1>t, TypeParts DEF Disconnects
  <2>2. losses' \in 0..MaxLosses
    BY <2>1, TabsAssumption
  <2>3. UNCHANGED <<tabVars, runVars, target, closer, stalls>>
    BY DEF Disconnects
  <2> QED
    BY <2>2, <2>3
<1>2. session' \in [Turns -> Shown(last)] /\ \A t \in Turns : session'[t].page \in {0, session[t].page}
  <2>1. session' = [t \in Turns |-> session'[t]]
    BY DEF Disconnects
  <2>2. ASSUME NEW t \in Turns PROVE session'[t] \in Shown(last) /\ session'[t].page \in {0, session[t].page}
    <3>1. session[t] \in Shown(last)
      BY <1>t, TypeParts
    <3>2. \/ session'[t] = session[t]
          \/ \E b \in BOOLEAN : session'[t] = [session[t] EXCEPT !.page = 0, !.wasBlank = b]
      <4>1. (session[t].created /\ session[t].page \in blank) \in BOOLEAN
        BY <3>1 DEF Shown
      <4>2. \/ session'[t] = session[t]
            \/ session'[t] = [session[t] EXCEPT !.page = 0, !.wasBlank = (session[t].created /\ session[t].page \in blank)]
        BY DEF Disconnects
      <4> DEFINE b == session[t].created /\ session[t].page \in blank
      <4>3. b \in BOOLEAN /\ (session'[t] = session[t] \/ session'[t] = [session[t] EXCEPT !.page = 0, !.wasBlank = b])
        BY <4>1, <4>2
      <4> HIDE DEF b
      <4> QED
        BY <4>3
    <3>3. CASE session'[t] = session[t]
      BY <3>1, <3>3
    <3>4. ASSUME NEW b \in BOOLEAN, session'[t] = [session[t] EXCEPT !.page = 0, !.wasBlank = b]
          PROVE  session'[t] \in Shown(last) /\ session'[t].page = 0
      <4> DEFINE s == session[t]
                 new == session'[t]
      <4>1. s \in Shown(last) /\ new = [s EXCEPT !.page = 0, !.wasBlank = b] /\ last \in Nat
        BY <3>1, <3>4, <1>t
      <4> HIDE DEF s, new
      <4>2. new \in Shown(last) /\ new.page = 0
        BY <4>1, NoPageNow
      <4> QED
        BY <4>2 DEF new
    <3> QED
      BY <3>2, <3>3, <3>4
  <2> QED
    BY <2>1, <2>2
<1>3. Touched(op', op)
  <2> DEFINE lost == op.at \notin {"free", "connect"}
             takes == op.takes /\ op.turn \notin Sessions
  <2>1. op' = [op EXCEPT !.lost = lost, !.takes = takes]
    BY DEF Disconnects
  <2>2. op.takes \in BOOLEAN
    BY <1>t, TypeParts DEF Operation
  <2>3. lost \in BOOLEAN /\ takes \in BOOLEAN /\ (op = Free => ~lost) /\ (~op.takes => ~takes)
    BY <2>2, <1>t, FreeTyped
  <2> QED
    BY <2>1, <2>3 DEF Touched
<1> QED
  <2>1. Shrinks
    BY <1>1, <1>2, <1>3, <1>t, TypeParts DEF Shrinks, IInv, Ending, Sessions, tabVars, runVars
  <2> QED
    BY <2>1, <1>1, <1>t, TypeParts, ShrinkStep DEF runVars

----------------------------------------------------------------------------
(* close(), whoever calls it.                                               *)

(* A session whose close() is over has no page and is well typed.          *)
LEMMA ClosedNow ==
    ASSUME NEW n \in Nat, NEW s \in Shown(n), NEW new, new = [s EXCEPT !.page = 0, !.closed = TRUE]
    PROVE  new \in Shown(n) /\ new.page = 0
<1>1. s \in [page : 0..n, created : BOOLEAN, wasBlank : BOOLEAN, closed : BOOLEAN]
  BY DEF Shown
<1>2. new = [page |-> 0, created |-> s.created, wasBlank |-> s.wasBlank, closed |-> TRUE]
  BY <1>1
<1>3. s.created \in BOOLEAN /\ s.wasBlank \in BOOLEAN /\ 0 \in 0..n
  BY <1>1
<1> QED
  BY <1>2, <1>3 DEF Shown

(* One whose close() goes on keeps its page.                               *)
LEMMA ClosingNow ==
    ASSUME NEW n \in Nat, NEW s \in Shown(n), NEW new, new = [s EXCEPT !.closed = TRUE]
    PROVE  new \in Shown(n) /\ new.page = s.page
<1>1. s \in [page : 0..n, created : BOOLEAN, wasBlank : BOOLEAN, closed : BOOLEAN]
  BY DEF Shown
<1>2. new = [page |-> s.page, created |-> s.created, wasBlank |-> s.wasBlank, closed |-> TRUE]
  BY <1>1
<1>3. s.created \in BOOLEAN /\ s.wasBlank \in BOOLEAN /\ s.page \in 0..n
  BY <1>1
<1> QED
  BY <1>2, <1>3 DEF Shown

(* The end of close() takes the page; of finish(), the session as well.    *)
LEMMA EndsCloseShrinks ==
    ASSUME IInv, NEW t \in Turns, NEW w \in Callers, EndsClose(t, w), open' \subseteq open, UNCHANGED <<blank, last>>
    PROVE  Shrinks
<1>t. TypeOK /\ last \in Nat
  BY TypeParts, TabsAssumption DEF IInv, Tabs
<1>1. Touched(op', op)
  <2> DEFINE takes == op.takes /\ op.turn # t
  <2>1. op \in Operation(last)
    BY <1>t, TypeParts
  <2>2. op.takes \in BOOLEAN /\ op.lost \in BOOLEAN
    BY <2>1 DEF Operation
  <2>3. takes \in BOOLEAN /\ (~op.takes => ~takes) /\ (op = Free => ~op.lost)
    BY <2>2, <1>t, FreeTyped
  <2>4. op' = [op EXCEPT !.takes = takes]
    BY DEF EndsClose
  <2>5. op' = [op EXCEPT !.lost = op.lost, !.takes = takes]
    BY <2>1, <2>4 DEF Operation
  <2> QED
    BY <2>2, <2>3, <2>5 DEF Touched
<1>2. closer' \in [Turns -> [Callers -> Closing]] /\ closer'[t][w] = "no"
      /\ \A u \in Turns, v \in Callers : closer'[u][v] # "no" => closer'[u][v] = closer[u][v]
  <2>1. closer \in [Turns -> [Callers -> Closing]] /\ "no" \in Closing
    BY <1>t, TypeParts DEF Closing
  <2>2. closer' = [closer EXCEPT ![t][w] = "no"]
    BY DEF EndsClose
  <2> QED
    BY <2>1, <2>2
<1>s. session \in [Turns -> Shown(last)] /\ target \in [Turns -> 0..last] /\ run \in [Turns -> Runs]
  BY <1>t, TypeParts
<1>3. CASE w = "finish"
  <2>1. session' = [session EXCEPT ![t] = Gone] /\ target' = [target EXCEPT ![t] = 0] /\ run' = [run EXCEPT ![t] = "over"]
    BY <1>3 DEF EndsClose
  <2>2. /\ session' \in [Turns -> Shown(last)] /\ target' \in [Turns -> 0..last] /\ run' \in [Turns -> Runs]
        /\ session'[t].page = 0 /\ target'[t] = 0
        /\ \A u \in Turns : u # t => session'[u] = session[u] /\ target'[u] = target[u] /\ run'[u] = run[u]
    BY <2>1, <1>s, <1>t, FreeTyped DEF Runs
  <2>3. Ending'
    BY <1>2, <1>3, <2>2 DEF IInv, Ending, Callers
  <2>4. Sessions' \subseteq Sessions
    BY <2>1, <1>s DEF Sessions
  <2> QED
    BY <1>1, <1>2, <2>2, <2>3, <2>4 DEF Shrinks
<1>4. CASE w # "finish"
  <2>1. session' = [session EXCEPT ![t].page = 0, ![t].closed = TRUE] /\ target' = target /\ run' = run
    BY <1>4 DEF EndsClose
  <2>2. session' = [session EXCEPT ![t] = [session[t] EXCEPT !.page = 0, !.closed = TRUE]]
    BY <2>1, <1>s
  <2> DEFINE new == [session[t] EXCEPT !.page = 0, !.closed = TRUE]
  <2>3. new \in Shown(last) /\ new.page = 0
    BY <1>s, <1>t, ClosedNow
  <2> HIDE DEF new
  <2>4. /\ session' \in [Turns -> Shown(last)] /\ session'[t].page = 0
        /\ \A u \in Turns : u # t => session'[u] = session[u]
    BY <2>2, <2>3, <1>s DEF new
  <2>5. Ending'
    BY <1>2, <2>1 DEF IInv, Ending, Callers
  <2>6. Sessions' = Sessions
    BY <2>1 DEF Sessions
  <2> QED
    BY <1>1, <1>2, <1>s, <2>1, <2>4, <2>5, <2>6 DEF Shrinks
<1> QED
  BY <1>3, <1>4

(* close() that waits or recovers marks the run, not its page.              *)
LEMMA AwaitShrinks ==
    ASSUME IInv, NEW t \in Turns, NEW w \in Callers, NEW place \in Closing, closer' = [closer EXCEPT ![t][w] = place],
           w = "finish" => run[t] \in {"running", "ending"},
           run' = IF w = "finish" THEN [run EXCEPT ![t] = "ending"] ELSE run,
           session' = session \/ session' = [session EXCEPT ![t].closed = TRUE],
           UNCHANGED <<tabVars, target, op>>
    PROVE  Shrinks
<1>t. TypeOK /\ last \in Nat
  BY TypeParts, TabsAssumption DEF IInv, Tabs
<1>s. /\ session \in [Turns -> Shown(last)] /\ target \in [Turns -> 0..last] /\ run \in [Turns -> Runs]
      /\ closer \in [Turns -> [Callers -> Closing]]
  BY <1>t, TypeParts
<1>1. closer' \in [Turns -> [Callers -> Closing]]
      /\ \A u \in Turns, v \in Callers : u # t \/ v # w => closer'[u][v] = closer[u][v]
  BY <1>s
<1>2. /\ run' \in [Turns -> Runs]
      /\ \A u \in Turns : run'[u] # run[u] => u = t /\ w = "finish" /\ run[t] # "over"
      /\ w = "finish" => run'[t] = "ending"
  BY <1>s DEF Runs
<1>3. Sessions' \subseteq Sessions
  BY <1>2 DEF Sessions
<1>4. session' \in [Turns -> Shown(last)] /\ \A u \in Turns : session'[u].page = session[u].page
  <2>1. CASE session' = session
    BY <1>s, <2>1
  <2>2. CASE session' = [session EXCEPT ![t].closed = TRUE]
    <3> DEFINE new == [session[t] EXCEPT !.closed = TRUE]
    <3>1. new \in Shown(last) /\ new.page = session[t].page
      BY <1>s, <1>t, ClosingNow
    <3>2. session' = [session EXCEPT ![t] = new]
      BY <2>2, <1>s
    <3> HIDE DEF new
    <3> QED
      BY <3>1, <3>2, <1>s
  <2> QED
    BY <2>1, <2>2
<1>5. Ending'
  BY <1>1, <1>2 DEF IInv, Ending, Callers
<1> QED
  BY <1>1, <1>2, <1>3, <1>4, <1>5, <1>s DEF Shrinks, tabVars

(* close() with a page at hand, or with one to be recovered.               *)
LEMMA ClosesShrinks ==
    ASSUME IInv, NEW t \in Turns, NEW w \in Callers, NEW page, Closes(t, w, page),
           w = "finish" => run[t] \in {"running", "ending"}
    PROVE  Shrinks
<1>1. CASE EndsClose(t, w) /\ (Shut(page) \/ UNCHANGED tabVars)
  <2>1. open' \subseteq open /\ UNCHANGED <<blank, last>>
    BY <1>1 DEF Shut, tabVars
  <2> QED
    BY <1>1, <2>1, EndsCloseShrinks
<1>2. CASE /\ closer' = [closer EXCEPT ![t][w] = "recover"]
           /\ session' = [session EXCEPT ![t].closed = TRUE]
           /\ run' = IF w = "finish" THEN [run EXCEPT ![t] = "ending"] ELSE run
           /\ UNCHANGED <<tabVars, target, op>>
  BY <1>2, AwaitShrinks DEF Closing
<1> QED
  BY <1>1, <1>2 DEF Closes

(* close() when it is called.                                              *)
LEMMA CloseStartsShrinks ==
    ASSUME IInv, NEW t \in Turns, NEW w \in Callers, CloseStarts(t, w), run[t] = "running"
    PROVE  Shrinks
<1>1. CASE Closes(t, w, session[t].page)
  BY <1>1, ClosesShrinks
<1>2. CASE /\ closer' = [closer EXCEPT ![t][w] = "wait"]
           /\ run' = IF w = "finish" THEN [run EXCEPT ![t] = "ending"] ELSE run
           /\ UNCHANGED <<tabVars, session, target, op>>
  BY <1>2, AwaitShrinks DEF Closing
<1> QED
  BY <1>1, <1>2 DEF CloseStarts

(* A stop, the end of a run, and the steps of close() after its waits.     *)
LEMMA CloseStep ==
    ASSUME IInv, NEW t \in Turns, Stop(t) \/ RunEnds(t) \/ \E w \in Callers : CloseWaited(t, w) \/ CloseRecovers(t, w)
    PROVE  IInv'
<1>t. TypeOK
  BY DEF IInv
<1>1. aborted' \subseteq Turns /\ losses' \in 0..MaxLosses /\ stalls' \in 0..MaxStalls
  BY <1>t, TypeParts DEF Stop, RunEnds, CloseWaited, CloseRecovers
<1>2. Shrinks
  <2>1. CASE Stop(t)
    BY <2>1, CloseStartsShrinks DEF Stop, Callers
  <2>2. CASE RunEnds(t)
    BY <2>2, CloseStartsShrinks DEF RunEnds, Callers
  <2>3. ASSUME NEW w \in Callers, CloseWaited(t, w) PROVE Shrinks
    <3>1. w = "finish" => run[t] = "ending"
      BY <2>3 DEF IInv, Ending, CloseWaited
    <3> QED
      BY <2>3, <3>1, ClosesShrinks DEF CloseWaited
  <2>4. ASSUME NEW w \in Callers, CloseRecovers(t, w) PROVE Shrinks
    <3>1. open' \subseteq open /\ UNCHANGED <<blank, last>>
      BY <2>4 DEF CloseRecovers, Shut, tabVars
    <3> QED
      BY <2>4, <3>1, EndsCloseShrinks DEF CloseRecovers
  <2> QED
    BY <2>1, <2>2, <2>3, <2>4
<1> QED
  BY <1>1, <1>2, ShrinkStep

----------------------------------------------------------------------------
(* The operation past the gate.                                             *)

(* What holds of the operation past the gate, whatever it does.            *)
LEMMA OperationFacts ==
    IInv => /\ last \in Nat /\ open \subseteq 1..last /\ blank \subseteq 1..last
            /\ op \in Operation(last) /\ (op.at \in {"connect", "scan", "register"} => op.turn \in Turns)
            /\ session \in [Turns -> Shown(last)] /\ target \in [Turns -> 0..last]
            /\ Sessions \subseteq Turns /\ Nobody \notin Turns
<1> SUFFICES ASSUME IInv PROVE TRUE => /\ last \in Nat /\ open \subseteq 1..last /\ blank \subseteq 1..last
            /\ op \in Operation(last) /\ (op.at \in {"connect", "scan", "register"} => op.turn \in Turns)
            /\ session \in [Turns -> Shown(last)] /\ target \in [Turns -> 0..last]
            /\ Sessions \subseteq Turns /\ Nobody \notin Turns
  OBVIOUS
<1>1. last \in Nat /\ Sessions \subseteq Turns /\ Nobody \notin Turns
  BY TypeParts, TabsAssumption DEF IInv, Tabs, Sessions
<1>2. op \in Operation(last) /\ (op.turn = Nobody <=> op = Free)
  BY TypeParts DEF IInv
<1>3. op.at \in {"connect", "scan", "register"} => op.turn \in Turns
  BY <1>1, <1>2, FreeTyped DEF Operation
<1> QED
  BY <1>1, <1>2, <1>3, TypeParts DEF IInv

(* A step of the operation that changes no tab's existence and no run: the  *)
(* invariant follows from the turn's own page and registration.             *)
LEMMA OperationStep ==
    ASSUME IInv, NEW t \in Turns, UNCHANGED <<open, last, runVars, closer>>, blank' \subseteq blank,
           losses' \in 0..MaxLosses, stalls' \in 0..MaxStalls,
           session' \in [Turns -> Shown(last)], target' \in [Turns -> 0..last],
           \A u \in Turns \ {t} : session'[u] = session[u] /\ target'[u] = target[u],
           target'[t] # target[t] /\ target'[t] \in open => \A u \in Sessions \ {t} : target[u] # target'[t],
           session'[t].page # 0 => target'[t] \in {0, session'[t].page},
           op' \in Operation(last), op'.turn = Nobody <=> op' = Free, Choosing'
    PROVE  IInv'
<1>1. TypeOK'
  BY TypeParts, TypePrime DEF IInv, runVars
<1>2. Sessions' = Sessions /\ Sessions \subseteq Turns
  BY DEF Sessions, runVars
<1>3. Apart'
  <2>1. ASSUME NEW u \in Sessions, NEW v \in Sessions, u # v, target'[u] = target'[v] PROVE target'[u] \notin open
    <3>0. CASE target'[t] = target[t]
      BY <2>1, <3>0, <1>2 DEF IInv, Apart
    <3>1. CASE u # t /\ v # t
      BY <2>1, <3>1, <1>2 DEF IInv, Apart
    <3>2. CASE u = t /\ target'[t] # target[t]
      BY <2>1, <3>2, <1>2
    <3>3. CASE v = t /\ target'[t] # target[t]
      BY <2>1, <3>3, <1>2
    <3> QED
      BY <3>0, <3>1, <3>2, <3>3
  <2> QED
    BY <2>1, <1>2 DEF Apart
<1>4. OnTarget'
  BY DEF IInv, OnTarget
<1>5. Ending'
  BY DEF IInv, Ending, runVars
<1> QED
  BY <1>1, <1>3, <1>4, <1>5 DEF IInv

(* getPage() has a page or begins to choose one.                           *)
LEMMA GetPageType ==
    ASSUME IInv, NEW t \in Turns, NEW newTab \in BOOLEAN, GetPage(t, newTab)
    PROVE  /\ op' \in Operation(last) /\ op'.turn = t /\ op'.at \in {"use", "connect"} /\ ~op'.made
           /\ op'.at = "connect" => op'.tab = 0 /\ session'[t].page = 0
           /\ session' \in [Turns -> Shown(last)]
           /\ \A u \in Turns \ {t} : session'[u] = session[u]
           /\ session'[t].page \in {0, session[t].page}
<1>t. last \in Nat /\ session \in [Turns -> Shown(last)]
  BY OperationFacts
<1>f. Free \in Operation(last) /\ ~Free.made /\ Free.tab = 0
  BY <1>t, FreeTyped DEF Free
<1>1. CASE op' = [Free EXCEPT !.turn = t, !.at = "use", !.tab = session[t].page] /\ UNCHANGED session
  <2>1. session[t].page \in 0..last
    BY <1>t DEF Shown
  <2>2. op' \in Operation(last) /\ op'.turn = t /\ op'.at = "use" /\ ~op'.made
    BY <1>1, <1>f, <2>1 DEF Operation, Places
  <2> QED
    BY <1>1, <1>t, <2>2
<1>2. CASE /\ session' = [session EXCEPT ![t].page = 0]
           /\ op' = [Free EXCEPT !.turn = t, !.at = "connect", !.newTab = newTab, !.takes = TRUE]
  <2>1. op' \in Operation(last) /\ op'.turn = t /\ op'.at = "connect" /\ ~op'.made /\ op'.tab = 0
    BY <1>2, <1>f DEF Operation, Places
  <2>2. session[t] \in [page : 0..last, created : BOOLEAN, wasBlank : BOOLEAN, closed : BOOLEAN]
    BY <1>t DEF Shown
  <2>3. session' = [session EXCEPT ![t] = [session[t] EXCEPT !.page = 0]]
    BY <1>2, <1>t
  <2> DEFINE s == session[t]
             new == [page |-> 0, created |-> s.created, wasBlank |-> s.wasBlank, closed |-> s.closed]
  <2>4. [s EXCEPT !.page = 0] = new
    BY <2>2
  <2>f. s.created \in BOOLEAN /\ s.wasBlank \in BOOLEAN /\ s.closed \in BOOLEAN /\ 0 \in 0..last
    BY <2>2, <1>t
  <2>5. new \in Shown(last) /\ new.page = 0
    BY <2>f DEF Shown
  <2>6. session' = [session EXCEPT ![t] = new]
    BY <2>3, <2>4
  <2> HIDE DEF new
  <2>7. /\ session' \in [Turns -> Shown(last)] /\ session'[t].page = 0
        /\ \A u \in Turns \ {t} : session'[u] = session[u]
    BY <2>5, <2>6, <1>t
  <2> QED
    BY <2>1, <2>7
<1> QED
  BY <1>1, <1>2 DEF GetPage

(* A chosen page becomes that of the turn, unless its session was closed.  *)
LEMMA AdoptsType ==
    ASSUME IInv, NEW t \in Turns, NEW p \in 0..last, NEW created \in BOOLEAN, Adopts(t, p, created),
           op.turn = t, op.at \in {"connect", "scan", "register"}
    PROVE  /\ op' \in Operation(last) /\ op'.turn = t /\ op'.at = "use"
           /\ session' \in [Turns -> Shown(last)]
           /\ \A u \in Turns \ {t} : session'[u] = session[u]
           /\ session'[t].page \in {0, p}
<1>t. last \in Nat /\ session \in [Turns -> Shown(last)] /\ op \in Operation(last) /\ session[t].page = 0
  BY OperationFacts DEF IInv, Choosing
<1>1. op' \in Operation(last) /\ op'.turn = t /\ op'.at = "use"
  BY <1>t DEF Adopts, Operation, Places
<1>2. CASE op.takes
  <2>1. session[t].closed \in BOOLEAN
    BY <1>t DEF Shown
  <2>2. PICK b \in BOOLEAN : b = (created /\ p \in blank)
    OBVIOUS
  <2> DEFINE new == [page |-> p, created |-> created, wasBlank |-> b, closed |-> session[t].closed]
  <2>3. new \in Shown(last) /\ new.page = p
    BY <2>1, <2>2 DEF Shown
  <2>4. session' = [session EXCEPT ![t] = new]
    BY <1>2, <2>2 DEF Adopts
  <2> HIDE DEF new
  <2> QED
    BY <1>1, <1>t, <2>3, <2>4
<1>3. CASE ~op.takes
  BY <1>1, <1>3, <1>t DEF Adopts
<1> QED
  BY <1>2, <1>3

(* An operation enters the gate, finds no browser, or ends.                *)
LEMMA GateStep ==
    ASSUME IInv, NEW t \in Turns, Asks(t) \/ NoBrowser(t) \/ Uses(t)
    PROVE  IInv'
<1>t. /\ session \in [Turns -> Shown(last)] /\ target \in [Turns -> 0..last] /\ Sessions \subseteq Turns
      /\ Nobody \notin Turns /\ open \subseteq 1..last /\ last \in Nat
  BY OperationFacts
<1>1. /\ UNCHANGED <<open, last, runVars, closer, target, losses, stalls>> /\ blank' \subseteq blank
      /\ \/ op' = Free /\ UNCHANGED session
         \/ \E newTab \in BOOLEAN : GetPage(t, newTab)
  BY DEF Asks, NoBrowser, Uses, tabVars
<1>2. losses' \in 0..MaxLosses /\ stalls' \in 0..MaxStalls
  BY <1>1, TypeParts DEF IInv
<1>3. CASE op' = Free /\ UNCHANGED session
  <2>1. op' \in Operation(last) /\ (op'.turn = Nobody <=> op' = Free) /\ Choosing'
    BY <1>3, <1>t, FreeTyped DEF Choosing
  <2>2. session'[t].page # 0 => target'[t] \in {0, session'[t].page}
    BY <1>1, <1>3 DEF IInv, OnTarget
  <2> QED
    BY <1>1, <1>2, <1>3, <1>t, <2>1, <2>2, OperationStep
<1>4. ASSUME NEW newTab \in BOOLEAN, GetPage(t, newTab) PROVE IInv'
  <2>1. /\ op' \in Operation(last) /\ op'.turn = t /\ op'.at \in {"use", "connect"} /\ ~op'.made
        /\ op'.at = "connect" => op'.tab = 0 /\ session'[t].page = 0
        /\ session' \in [Turns -> Shown(last)]
        /\ \A u \in Turns \ {t} : session'[u] = session[u]
        /\ session'[t].page \in {0, session[t].page}
    BY <1>4, GetPageType
  <2>2. op'.turn = Nobody <=> op' = Free
    BY <2>1, <1>t, FreeTyped
  <2>3. session'[t].page # 0 => target'[t] \in {0, session'[t].page}
    BY <1>1, <2>1 DEF IInv, OnTarget
  <2>4. Choosing'
    BY <2>1 DEF Choosing
  <2> QED
    BY <1>1, <1>2, <1>t, <2>1, <2>2, <2>3, <2>4, OperationStep
<1> QED
  BY <1>1, <1>3, <1>4

(* A page that no other live session is registered for may be adopted.     *)
LEMMA AdoptStep ==
    ASSUME IInv, NEW t \in Turns, NEW p \in 0..last, NEW created \in BOOLEAN, Adopts(t, p, created),
           op.turn = t, op.at \in {"connect", "scan", "register"},
           UNCHANGED <<tabVars, runVars, closer, losses>>, stalls' \in 0..MaxStalls,
           \/ UNCHANGED target /\ target[t] = p
           \/ target' = [target EXCEPT ![t] = 0]
           \/ target' = [target EXCEPT ![t] = p] /\ \A u \in Sessions \ {t} : p \in open => target[u] # p
    PROVE  IInv'
<1>t. /\ session \in [Turns -> Shown(last)] /\ target \in [Turns -> 0..last] /\ Sessions \subseteq Turns
      /\ Nobody \notin Turns /\ open \subseteq 1..last /\ last \in Nat /\ losses \in 0..MaxLosses
  BY OperationFacts, TypeParts DEF IInv
<1>1. /\ op' \in Operation(last) /\ op'.turn = t /\ op'.at = "use"
      /\ session' \in [Turns -> Shown(last)]
      /\ \A u \in Turns \ {t} : session'[u] = session[u]
      /\ session'[t].page \in {0, p}
  BY AdoptsType
<1>2. op'.turn = Nobody <=> op' = Free
  BY <1>1, <1>t, FreeTyped
<1>3. /\ target' \in [Turns -> 0..last] /\ \A u \in Turns \ {t} : target'[u] = target[u]
      /\ target'[t] \in {0, p}
      /\ target'[t] # target[t] /\ target'[t] \in open => \A u \in Sessions \ {t} : target[u] # target'[t]
  BY <1>t
<1>4. session'[t].page # 0 => target'[t] \in {0, session'[t].page}
  BY <1>1, <1>3
<1>5. Choosing'
  BY <1>1 DEF Choosing
<1>6. UNCHANGED <<open, last, runVars, closer>> /\ blank' \subseteq blank /\ losses' \in 0..MaxLosses
  BY <1>t DEF tabVars
<1> QED
  BY <1>1, <1>2, <1>3, <1>4, <1>5, <1>6, OperationStep

(* A probe that times out is counted.                                      *)
LEMMA StallsType == TypeOK => (Stalls \/ UNCHANGED stalls => stalls' \in 0..MaxStalls)
  BY TypeParts, TabsAssumption DEF Stalls

(* The turn finds the tab it is registered for, or begins the scan.        *)
LEMMA LooksStep ==
    ASSUME IInv, NEW t \in Turns, LooksForOwn(t)
    PROVE  IInv'
<1>t. /\ session \in [Turns -> Shown(last)] /\ target \in [Turns -> 0..last] /\ Sessions \subseteq Turns
      /\ Nobody \notin Turns /\ open \subseteq 1..last /\ last \in Nat /\ losses \in 0..MaxLosses
      /\ op \in Operation(last)
  BY OperationFacts, TypeParts DEF IInv
<1>1. op.turn = t /\ op.at = "connect" /\ UNCHANGED <<tabVars, runVars, target, closer, losses>>
  BY DEF LooksForOwn, At
<1>2. CASE target[t] \in open /\ Adopts(t, target[t], session[t].created) /\ UNCHANGED stalls
  <2>1. session[t].created \in BOOLEAN /\ target[t] \in 0..last
    BY <1>t DEF Shown
  <2>2. stalls' \in 0..MaxStalls
    BY <1>2, StallsType DEF IInv
  <2> QED
    BY <1>1, <1>2, <2>1, <2>2, AdoptStep
<1>3. CASE /\ IF target[t] \in open THEN Stalls ELSE UNCHANGED stalls
           /\ op' = [op EXCEPT !.at = "scan", !.left = open, !.owned = Reserved(t), !.stalled = target[t] \in open]
           /\ UNCHANGED session
  <2>1. stalls' \in 0..MaxStalls
    BY <1>3, StallsType DEF IInv
  <2>2. Reserved(t) \subseteq 0..last /\ \A u \in Sessions \ {t} : target[u] \in Reserved(t)
    BY <1>t DEF Reserved
  <2> DEFINE b == target[t] \in open
  <2>3. b \in BOOLEAN
    OBVIOUS
  <2>4. op' = [op EXCEPT !.at = "scan", !.left = open, !.owned = Reserved(t), !.stalled = b]
    BY <1>3
  <2>d. b \/ target[t] \notin open
    OBVIOUS
  <2> HIDE DEF b
  <2>5. /\ op' \in Operation(last) /\ op'.turn = t /\ op'.at = "scan" /\ op'.owned = Reserved(t)
        /\ op'.made = op.made /\ op'.tab = op.tab /\ op'.stalled = b
    BY <1>1, <1>t, <2>2, <2>3, <2>4 DEF Operation, Places
  <2>6. ~op.made /\ op.tab = 0 /\ session[t].page = 0
    BY <1>1 DEF IInv, Choosing
  <2>7. op'.turn = Nobody <=> op' = Free
    BY <2>5, <1>t, FreeTyped
  <2>8. Sessions' = Sessions /\ target' = target /\ open' = open /\ session' = session
    BY <1>1, <1>3 DEF Sessions, tabVars, runVars
  <2>9. Choosing'
    BY <2>2, <2>d, <2>5, <2>6, <2>8 DEF Choosing
  <2>10. session'[t].page # 0 => target'[t] \in {0, session'[t].page}
    BY <2>6, <2>8
  <2>11. UNCHANGED <<open, last, runVars, closer>> /\ blank' \subseteq blank /\ losses' \in 0..MaxLosses
    BY <1>1, <1>t DEF tabVars
  <2> QED
    BY <1>t, <2>1, <2>5, <2>7, <2>8, <2>9, <2>10, <2>11, OperationStep
<1> QED
  BY <1>2, <1>3 DEF LooksForOwn

(* The scan passes over what it noted as owned (service.ts:152-171).       *)
LEMMA ScanStep ==
    ASSUME IInv, NEW t \in Turns, Scans(t)
    PROVE  IInv'
<1>t. /\ session \in [Turns -> Shown(last)] /\ target \in [Turns -> 0..last] /\ Sessions \subseteq Turns
      /\ Nobody \notin Turns /\ open \subseteq 1..last /\ last \in Nat /\ losses \in 0..MaxLosses
      /\ op \in Operation(last)
  BY OperationFacts, TypeParts DEF IInv
<1>1. op.turn = t /\ op.at = "scan" /\ UNCHANGED <<tabVars, runVars, closer, losses>>
  BY DEF Scans, At
<1>2. /\ session[t].page = 0 /\ ~op.made /\ op.tab \notin op.owned \ {0}
      /\ \A u \in Sessions \ {t} : target[u] \in op.owned \cup {0}
      /\ op.stalled \/ target[t] \notin open
  BY <1>1 DEF IInv, Choosing
<1>3. PICK p \in op.left : Passes(t, p) \/ Remembers(t, p) \/ Takes(t, p)
  BY DEF Scans
<1>4. p \in 1..last
  BY <1>t DEF Operation
<1>5. stalls' \in 0..MaxStalls
  BY <1>3, StallsType DEF IInv, Passes, Remembers, Takes
<1>6. CASE Takes(t, p)
  <2>1. \A u \in Sessions \ {t} : target[u] # p
    <3>1. p \notin op.owned
      BY <1>6 DEF Takes
    <3>2. p # 0
      BY <1>4, <1>t
    <3> QED
      BY <1>2, <3>1, <3>2
  <2>2. target' = [target EXCEPT ![t] = p] /\ Adopts(t, p, FALSE) /\ p \in 0..last
    <3>1. p \in 0..last
      BY <1>4, <1>t
    <3> QED
      BY <1>6, <3>1 DEF Takes
  <2> QED
    BY <1>1, <1>5, <2>1, <2>2, AdoptStep
<1>7. CASE Passes(t, p) \/ Remembers(t, p)
  <2>1. UNCHANGED <<session, target>>
    BY <1>7 DEF Passes, Remembers
  <2> DEFINE rest == op.left \ {p}
  <2>a. op.left \in SUBSET (1..last)
    BY <1>t DEF Operation
  <2>b. rest \in SUBSET (1..last)
    BY <2>a
  <2>2. \/ op' = [op EXCEPT !.left = rest]
        \/ op' = [op EXCEPT !.left = rest, !.tab = p] /\ p \notin op.owned
    BY <1>7 DEF Passes, Remembers
  <2> HIDE DEF rest
  <2>3. /\ op' \in Operation(last) /\ op'.turn = t /\ op'.at = "scan" /\ op'.owned = op.owned
        /\ op'.made = op.made /\ op'.tab \notin op.owned \ {0} /\ op'.stalled = op.stalled
    <3>1. p \in 0..last
      BY <1>4, <1>t
    <3>2. CASE op' = [op EXCEPT !.left = rest]
      BY <1>1, <1>2, <1>t, <2>b, <3>2 DEF Operation
    <3>3. CASE op' = [op EXCEPT !.left = rest, !.tab = p] /\ p \notin op.owned
      <4>1. op' \in Operation(last)
        BY <1>t, <2>b, <3>1, <3>3 DEF Operation
      <4>2. /\ op'.turn = t /\ op'.at = "scan" /\ op'.owned = op.owned
            /\ op'.made = op.made /\ op'.tab = p /\ op'.stalled = op.stalled
        BY <1>1, <1>t, <3>3 DEF Operation
      <4> QED
        BY <3>3, <4>1, <4>2
    <3> QED
      BY <2>2, <3>2, <3>3
  <2>4. op'.turn = Nobody <=> op' = Free
    BY <2>3, <1>t, FreeTyped
  <2>5. Sessions' = Sessions /\ open' = open
    BY <1>1 DEF Sessions, tabVars, runVars
  <2>6. Choosing'
    BY <1>2, <2>1, <2>3, <2>5 DEF Choosing
  <2>7. session'[t].page # 0 => target'[t] \in {0, session'[t].page}
    BY <1>2, <2>1
  <2>8. UNCHANGED <<open, last, runVars, closer>> /\ blank' \subseteq blank /\ losses' \in 0..MaxLosses
    BY <1>1, <1>t DEF tabVars
  <2> QED
    BY <1>t, <1>5, <2>1, <2>3, <2>4, <2>6, <2>7, <2>8, OperationStep
<1> QED
  BY <1>3, <1>6, <1>7

(* The tab that a turn opens is nobody's.                                  *)
LEMMA OpensStep ==
    ASSUME IInv, NEW t \in Turns, OpensTab(t)
    PROVE  IInv'
<1>t. /\ session \in [Turns -> Shown(last)] /\ target \in [Turns -> 0..last] /\ Sessions \subseteq Turns
      /\ Nobody \notin Turns /\ open \subseteq 1..last /\ last \in Nat /\ op \in Operation(last)
  BY OperationFacts
<1>1. /\ op.turn = t /\ op.at \in {"connect", "scan"} /\ NewTab
      /\ op' = [op EXCEPT !.at = "register", !.tab = last + 1, !.made = TRUE]
      /\ UNCHANGED <<runVars, session, target, closer, losses, stalls>>
  BY DEF OpensTab, At, Scanned
<1>2. /\ last' = last + 1 /\ last' \in Tabs /\ open' \subseteq 1..last' /\ blank' \subseteq 1..last'
      /\ open' = open \cup {last + 1}
  BY <1>1, NewTabType DEF IInv
<1>3. op \in Operation(last + 1) /\ session \in [Turns -> Shown(last + 1)] /\ target \in [Turns -> 0..(last + 1)]
  BY <1>t, Grows
<1>4. /\ op' \in Operation(last') /\ op'.turn = t /\ op'.at = "register" /\ op'.tab = last + 1 /\ op'.made
  <2> DEFINE n == last + 1
  <2>1. n \in 0..n /\ op \in Operation(n) /\ op' = [op EXCEPT !.at = "register", !.tab = n, !.made = TRUE] /\ last' = n
    BY <1>1, <1>2, <1>3, <1>t
  <2> HIDE DEF n
  <2>2. op' \in Operation(n) /\ op'.turn = t /\ op'.at = "register" /\ op'.tab = n /\ op'.made
    BY <1>1, <2>1 DEF Operation, Places
  <2> QED
    BY <2>1, <2>2 DEF n
<1>5. op'.turn = Nobody <=> op' = Free
  BY <1>4, <1>t, FreeTyped
<1>6. TypeOK'
  BY <1>1, <1>2, <1>3, <1>4, <1>5, TypeParts, TypePrime DEF IInv, runVars
<1>7. \A u \in Turns : target[u] # last + 1
  BY <1>t
<1>8. Apart' /\ OnTarget' /\ Ending'
  BY <1>1, <1>2, <1>7 DEF IInv, Apart, OnTarget, Ending, Sessions, runVars
<1>9. session[t].page = 0
  BY <1>1 DEF IInv, Choosing
<1>10. Choosing'
  BY <1>1, <1>4, <1>7, <1>9, <1>t DEF Choosing
<1> QED
  BY <1>6, <1>8, <1>10 DEF IInv

(* The opened tab is registered for the turn that opened it.               *)
LEMMA RegistersStep ==
    ASSUME IInv, NEW t \in Turns, Registers(t)
    PROVE  IInv'
<1>t. /\ target \in [Turns -> 0..last] /\ Sessions \subseteq Turns /\ op \in Operation(last)
  BY OperationFacts
<1>1. /\ op.turn = t /\ op.at \in {"scan", "register"} /\ (op.at = "scan" => op.tab # 0)
      /\ Adopts(t, op.tab, op.made) /\ UNCHANGED <<tabVars, runVars, closer, losses>>
      /\ target' = [target EXCEPT ![t] = op.tab] \/ target' = [target EXCEPT ![t] = 0]
      /\ Stalls \/ UNCHANGED stalls
  BY DEF Registers, At, Scanned
<1>2. stalls' \in 0..MaxStalls
  BY <1>1, StallsType DEF IInv
<1>3. \A u \in Sessions \ {t} : target[u] # op.tab
  BY <1>1, <1>t DEF IInv, Choosing
<1>4. op.tab \in 0..last /\ op.made \in BOOLEAN
  BY <1>t DEF Operation
<1> QED
  BY <1>1, <1>2, <1>3, <1>4, AdoptStep

----------------------------------------------------------------------------
(* Every step preserves IInv.                                              *)
LEMMA NextIInv == IInv /\ [Next]_vars => IInv'
<1> SUFFICES ASSUME IInv, [Next]_vars PROVE IInv'
  OBVIOUS
<1>1. CASE PersonOpens \/ PersonCloses \/ PersonLoads
  BY <1>1, PersonStep
<1>2. CASE Disconnects
  BY <1>2, DisconnectStep
<1>3. ASSUME NEW t \in Turns, Pause(t) \/ Resume(t) PROVE IInv'
  BY <1>3, PauseStep
<1>4. ASSUME NEW t \in Turns, Stop(t) \/ RunEnds(t) \/ \E w \in Callers : CloseWaited(t, w) \/ CloseRecovers(t, w)
      PROVE  IInv'
  BY <1>4, CloseStep
<1>5. ASSUME NEW t \in Turns, Asks(t) \/ NoBrowser(t) \/ Uses(t) PROVE IInv'
  BY <1>5, GateStep
<1>6. ASSUME NEW t \in Turns, LooksForOwn(t) PROVE IInv'
  BY <1>6, LooksStep
<1>7. ASSUME NEW t \in Turns, Scans(t) PROVE IInv'
  BY <1>7, ScanStep
<1>8. ASSUME NEW t \in Turns, OpensTab(t) PROVE IInv'
  BY <1>8, OpensStep
<1>9. ASSUME NEW t \in Turns, Registers(t) PROVE IInv'
  BY <1>9, RegistersStep
<1>10. CASE UNCHANGED vars
  BY <1>10 DEF vars, IInv, TypeOK, Apart, OnTarget, Choosing, Ending, Sessions
<1> QED
  BY <1>1, <1>2, <1>3, <1>4, <1>5, <1>6, <1>7, <1>8, <1>9, <1>10 DEF Next

(* Whatever the person, the connection, the probes and the runs do, the    *)
(* registrations of live sessions are apart, and what a choice relies on   *)
(* while it awaits stays true (service.ts:144-176).                        *)
THEOREM TabsIInv == Spec => []IInv
  BY InitIInv, NextIInv, PTL DEF Spec

(* Every variable keeps its type.                                          *)
THEOREM TabsTypeOK == Spec => []TypeOK
<1>1. IInv => TypeOK
  BY DEF IInv
<1> QED
  BY <1>1, TabsIInv, PTL

(* A turn is registered for another tab only when it asked for a new one, or*)
(* when its own is closed or does not answer (service.ts:131-137, :149-150).*)
THEOREM TabsKeepsItsTab == Spec => KeepsItsTab
<1> DEFINE Keeps == \A t \in Turns : target[t] \in open /\ target'[t] \notin {0, target[t]} => op.made \/ op.stalled
<1>1. IInv /\ [Next]_vars => [Keeps]_vars
  <2> SUFFICES ASSUME IInv, Next, NEW u \in Turns, target[u] \in open, target'[u] \notin {0, target[u]}
               PROVE  op.made \/ op.stalled
    OBVIOUS
  <2>t. target \in [Turns -> 0..last]
    BY OperationFacts
  <2>1. PICK t \in Turns : target' # target /\ (Stop(t) \/ RunEnds(t) \/ Scans(t) \/ Registers(t)
                                             \/ \E w \in Callers : CloseWaited(t, w) \/ CloseRecovers(t, w))
    BY DEF Next, PersonOpens, PersonCloses, PersonLoads, Disconnects, Pause, Resume, Asks, NoBrowser, LooksForOwn, OpensTab, Uses
  <2>2. CASE Stop(t) \/ RunEnds(t) \/ \E w \in Callers : CloseWaited(t, w) \/ CloseRecovers(t, w)
    <3>1. target' = target \/ target' = [target EXCEPT ![t] = 0]
      BY <2>2 DEF Stop, RunEnds, CloseWaited, CloseRecovers, CloseStarts, Closes, EndsClose
    <3> QED
      BY <3>1, <2>t
  <2>3. CASE Scans(t)
    <3>1. u = t /\ op.turn = t /\ op.at = "scan"
      BY <2>1, <2>3, <2>t DEF Scans, At, Passes, Remembers, Takes
    <3> QED
      BY <3>1 DEF IInv, Choosing
  <2>4. CASE Registers(t)
    <3>1. u = t /\ op.turn = t /\ op.at \in {"scan", "register"}
      BY <2>1, <2>4, <2>t DEF Registers, At, Scanned
    <3> QED
      BY <3>1 DEF IInv, Choosing
  <2> QED
    BY <2>1, <2>2, <2>3, <2>4
<1> QED
  BY <1>1, TabsIInv, PTL DEF Spec, KeepsItsTab

(* Two turns with live sessions never drive the same open tab, unless one has*)
(* no registration because the tab did not answer (service.ts:131-176).    *)
THEOREM TabsNoSharedTab == Spec => []NoSharedTab
<1>1. IInv => NoSharedTab
  <2> SUFFICES ASSUME IInv, NEW t \in Sessions, NEW u \in Sessions, t # u
               PROVE  /\ target[t] = target[u] => target[t] \notin open
                      /\ session[t].page = session[u].page /\ session[t].page \in open => target[t] = 0 \/ target[u] = 0
    BY DEF NoSharedTab
  <2>1. target[t] = target[u] => target[t] \notin open
    BY DEF IInv, Apart
  <2>2. t \in Turns /\ u \in Turns /\ 0 \notin open
    BY OperationFacts
  <2>3. ASSUME session[t].page = session[u].page, session[t].page \in open PROVE target[t] = 0 \/ target[u] = 0
    <3>1. session[t].page # 0 /\ session[u].page # 0
      BY <2>2, <2>3
    <3>2. target[t] \in {0, session[t].page} /\ target[u] \in {0, session[u].page}
      BY <2>2, <3>1 DEF IInv, OnTarget
    <3> QED
      BY <2>1, <2>3, <3>2
  <2> QED
    BY <2>1, <2>3
<1> QED
  BY <1>1, TabsIInv, PTL

(* What close() shuts, when it is over: the page it was called for or the    *)
(* tab the turn is registered for.                                          *)
LEMMA WhatCloses ==
    ASSUME IInv, NEW t \in Turns, NEW w \in Callers, NEW p \in open \ open',
           \/ \E page : Closes(t, w, page) /\ page \in {0, session[t].page}
           \/ CloseRecovers(t, w)
    PROVE  p \in blank /\ p \in {session[t].page, target[t]}
<1>f. 0 \notin open
  BY OperationFacts
<1>1. CASE CloseRecovers(t, w)
  BY <1>1 DEF CloseRecovers, Shut, tabVars
<1>2. ASSUME NEW page, Closes(t, w, page), page \in {0, session[t].page}
      PROVE  p \in blank /\ p = session[t].page
  <2>1. Shut(page) /\ p = page
    BY <1>2 DEF Closes, Shut, tabVars
  <2>2. page # 0
    BY <1>f, <2>1
  <2> QED
    BY <1>2, <2>1, <2>2 DEF Closes, Shut, tabVars
<1> QED
  BY <1>1, <1>2

(* A closing session closes only a blank tab and, unless its registration had*)
(* failed or its run is over, one that no other turn is registered for     *)
(* (service.ts:178-183, :325-341).                                         *)
THEOREM TabsClosesItsOwn == Spec => ClosesItsOwn
<1> DEFINE Own(t, p) == p \in blank /\ (t \notin Sessions \/ target[t] = 0 \/ \A u \in Sessions \ {t} : target[u] # p)
           Closed == \A t \in Turns : closer'[t] # closer[t] => \A p \in open \ open' : Own(t, p)
<1>1. IInv /\ [Next]_vars => [Closed]_vars
  <2> SUFFICES ASSUME IInv, Next, NEW u \in Turns, closer'[u] # closer[u], NEW p \in open \ open'
               PROVE  Own(u, p)
    OBVIOUS
  <2>t. closer \in [Turns -> [Callers -> Closing]] /\ open \subseteq 1..last /\ 0 \notin open
    BY TypeParts, OperationFacts DEF IInv
  <2>1. PICK t \in Turns : Stop(t) \/ RunEnds(t) \/ \E w \in Callers : CloseWaited(t, w) \/ CloseRecovers(t, w)
    BY DEF Next, PersonOpens, PersonCloses, PersonLoads, Disconnects, Pause, Resume, Asks, NoBrowser, LooksForOwn,
           Scans, OpensTab, Registers, Uses, tabVars
  <2>2. PICK w \in Callers : CloseStarts(t, w) \/ CloseWaited(t, w) \/ CloseRecovers(t, w)
    BY <2>1 DEF Stop, RunEnds, Callers
  <2>3. u = t
    BY <2>2, <2>t DEF CloseStarts, CloseWaited, CloseRecovers, Closes, EndsClose
  <2>4. \/ \E page : Closes(t, w, page) /\ page \in {0, session[t].page}
        \/ CloseRecovers(t, w)
    BY <2>2 DEF CloseStarts, CloseWaited, tabVars
  <2>5. p \in blank /\ p \in {session[t].page, target[t]} /\ p # 0
    BY <2>4, <2>t, WhatCloses
  <2>6. ASSUME t \in Sessions, target[t] # 0, NEW v \in Sessions \ {t} PROVE target[v] # p
    <3>1. p = target[t]
      BY <2>5, <2>6 DEF IInv, OnTarget
    <3> QED
      BY <3>1, <2>6 DEF IInv, Apart
  <2> QED
    BY <2>3, <2>5, <2>6
<1> QED
  BY <1>1, TabsIInv, PTL DEF Spec, ClosesItsOwn
=============================================================================
