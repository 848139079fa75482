----------------------------- MODULE BrowserTabs -----------------------------
(* The tabs of the desktop's Chromium and the turns that drive them over one   *)
(* CDP connection (browser/service.ts): BrowserService with its sessions and   *)
(* targets, the awaits of pageForTurn(), BrowserSession with its close(), lost *)
(* connections, tabs that do not answer a probe, and the person who watches    *)
(* and uses the same tabs.  The display gate lets one browser tool through at  *)
(* a time, so there is one operation.  Tabs are numbered in the order of       *)
(* context.pages().  The person may bring any tab to the front at any time, so *)
(* which tab is visible is open whenever it is asked.                          *)
EXTENDS Naturals, FiniteSets

CONSTANTS
    Turns,
    Nobody,         \* no turn: the person's tabs, a free gate
    MaxTabs,        \* tabs ever opened
    MaxLosses,      \* lost connections
    MaxStalls       \* probes that time out

ASSUME TabsAssumption ==
    /\ Nobody \notin Turns
    /\ MaxTabs \in Nat \ {0} /\ MaxLosses \in Nat /\ MaxStalls \in Nat

VARIABLES
    open, blank,    \* tabs that are open, tabs that show (or showed last) about:blank
    last,           \* the tab opened last
    run,            \* where the run of a turn is
    aborted,        \* turns whose signal is aborted
    session,        \* the BrowserSession of a turn
    target,         \* targets: the tab registered for a turn, 0 if none
    op,             \* the browser tool past the display gate
    closer,         \* where close() is, called by the abort and by finish()
    losses, stalls

tabVars == <<open, blank, last>>
runVars == <<run, aborted>>
vars == <<open, blank, last, run, aborted, session, target, op, closer, losses, stalls>>

Tabs == 1..MaxTabs
Callers == {"abort", "finish"}

(* The page a session shows, whether its turn opened it, and if lastUrl of   *)
(* such a page is about:blank.                                                *)
NoPage == [page |-> 0, created |-> FALSE, wasBlank |-> FALSE, closed |-> FALSE]
Gone == [NoPage EXCEPT !.closed = TRUE]

(* takes: the session still waits for this choice (this.page === page). *)
Free == [turn |-> Nobody, at |-> "free", newTab |-> FALSE, takes |-> FALSE, left |-> {}, owned |-> {},
         tab |-> 0, made |-> FALSE, lost |-> FALSE, stalled |-> FALSE]

(* The keys of sessions: finish() deletes, and a run that pauses never calls it. *)
Sessions == {t \in Turns : run[t] # "over"}

Init ==
    /\ open = {1} /\ blank \in SUBSET {1} /\ last = 1
    /\ run = [t \in Turns |-> "running"] /\ aborted = {}
    /\ session = [t \in Turns |-> NoPage]
    /\ target = [t \in Turns |-> 0]
    /\ op = Free
    /\ closer = [t \in Turns |-> [w \in Callers |-> "no"]]
    /\ losses = 0 /\ stalls = 0

(***************************************************************************)
(* Chromium and the person                                                 *)
(***************************************************************************)
NewTab ==
    /\ last < MaxTabs
    /\ last' = last + 1
    /\ open' = open \cup {last + 1} /\ blank' = blank \cup {last + 1}

Shut(p) == open' = open \ {p} /\ UNCHANGED <<blank, last>>

PersonOpens == NewTab /\ UNCHANGED <<runVars, session, target, op, closer, losses, stalls>>
PersonCloses == \E p \in open : Shut(p) /\ UNCHANGED <<runVars, session, target, op, closer, losses, stalls>>
PersonLoads ==
    /\ \E p \in open \cap blank : blank' = blank \ {p}
    /\ UNCHANGED <<open, last, runVars, session, target, op, closer, losses, stalls>>

(* A probe is given up after 1.5 s. *)
Stalls == stalls < MaxStalls /\ stalls' = stalls + 1

(* Every session forgets its page, not its target; the pages that the        *)
(* operation under way holds are dead unless it has yet to connect.          *)
Disconnects ==
    /\ losses < MaxLosses
    /\ losses' = losses + 1
    /\ session' = [t \in Turns |->
                   IF t \notin Sessions \/ session[t].page = 0 THEN session[t]
                   ELSE [session[t] EXCEPT !.page = 0, !.wasBlank = session[t].created /\ session[t].page \in blank]]
    /\ op' = [op EXCEPT !.lost = op.at \notin {"free", "connect"},
                        !.takes = op.takes /\ op.turn \notin Sessions]
    /\ UNCHANGED <<tabVars, runVars, target, closer, stalls>>

(***************************************************************************)
(* BrowserSession.close()                                                  *)
(***************************************************************************)
(* finish() deletes the session and the registration once it is closed. *)
EndsClose(t, w) ==
    /\ closer' = [closer EXCEPT ![t][w] = "no"]
    /\ op' = [op EXCEPT !.takes = op.takes /\ op.turn # t]
    /\ IF w = "finish"
       THEN session' = [session EXCEPT ![t] = Gone] /\ target' = [target EXCEPT ![t] = 0]
            /\ run' = [run EXCEPT ![t] = "over"]
       ELSE session' = [session EXCEPT ![t].page = 0, ![t].closed = TRUE] /\ UNCHANGED <<target, run>>

(* A slip in Closes: every page the turn opened is closed. *)
ClosesCreated(t, w, page) ==
    /\ EndsClose(t, w)
    /\ IF session[t].created /\ page \in open THEN Shut(page) ELSE UNCHANGED tabVars

(* From the end of its first await: a blank tab that the turn opened goes, at *)
(* once or, when the page is gone, after recoverRegisteredPage().             *)
Closes(t, w, page) ==
    LET goes == IF page # 0 THEN session[t].created /\ page \in blank ELSE session[t].wasBlank
    IN  IF goes /\ page \notin open
        THEN /\ closer' = [closer EXCEPT ![t][w] = "recover"]
             /\ session' = [session EXCEPT ![t].closed = TRUE]
             /\ run' = IF w = "finish" THEN [run EXCEPT ![t] = "ending"] ELSE run
             /\ UNCHANGED <<tabVars, target, op>>
        ELSE EndsClose(t, w) /\ IF goes THEN Shut(page) ELSE UNCHANGED tabVars

Chooses(t) == op.turn = t /\ op.takes

CloseStarts(t, w) ==
    \/ ~Chooses(t) /\ Closes(t, w, session[t].page)
    \/ /\ Chooses(t)
       /\ closer' = [closer EXCEPT ![t][w] = "wait"]
       /\ run' = IF w = "finish" THEN [run EXCEPT ![t] = "ending"] ELSE run
       /\ UNCHANGED <<tabVars, session, target, op>>

(* The choice is waited for, five seconds at most. *)
CloseWaited(t, w) ==
    /\ closer[t][w] = "wait" /\ (w = "finish" => closer[t]["abort"] # "wait")
    /\ Closes(t, w, IF op.turn # t \/ op.at = "use" THEN session[t].page ELSE 0)
    /\ UNCHANGED <<aborted, losses, stalls>>

(* recoverRegisteredPage() may find nothing, fail to connect or give up. *)
CloseRecovers(t, w) ==
    /\ closer[t][w] = "recover"
    /\ \/ target[t] \in open \cap blank /\ Shut(target[t])
       \/ UNCHANGED tabVars
    /\ EndsClose(t, w)
    /\ UNCHANGED <<aborted, losses, stalls>>

(***************************************************************************)
(* The run of a turn                                                       *)
(***************************************************************************)
(* A run that waits for an approval keeps its session; one that is stopped    *)
(* while it waits keeps it for good.                                          *)
Pause(t) ==
    /\ run[t] = "running" /\ op.turn # t /\ t \notin aborted
    /\ run' = [run EXCEPT ![t] = "paused"]
    /\ UNCHANGED <<tabVars, aborted, session, target, op, closer, losses, stalls>>

Resume(t) ==
    /\ run[t] = "paused"
    /\ run' = [run EXCEPT ![t] = "running"]
    /\ UNCHANGED <<tabVars, aborted, session, target, op, closer, losses, stalls>>

Stop(t) ==
    /\ run[t] = "running" /\ t \notin aborted
    /\ aborted' = aborted \cup {t}
    /\ CloseStarts(t, "abort")
    /\ UNCHANGED <<losses, stalls>>

(* It may run out of time while a tool is under way. *)
RunEnds(t) ==
    /\ run[t] = "running"
    /\ CloseStarts(t, "finish")
    /\ UNCHANGED <<aborted, losses, stalls>>

(***************************************************************************)
(* A browser tool: BrowserSession.run(), getPage(), pageForTurn()          *)
(***************************************************************************)
At(t, place) == op.turn = t /\ op.at = place
Scanned(t) == At(t, "scan") /\ op.left = {}

(* getPage(): the page there is, or a choice of pageForTurn(), which first    *)
(* asks for the endpoint.                                                     *)
GetPage(t, newTab) ==
    IF session[t].page \in open /\ ~newTab
    THEN op' = [Free EXCEPT !.turn = t, !.at = "use", !.tab = session[t].page] /\ UNCHANGED session
    ELSE /\ session' = [session EXCEPT ![t].page = 0]
         /\ op' = [Free EXCEPT !.turn = t, !.at = "connect", !.newTab = newTab, !.takes = TRUE]

Asks(t) ==
    /\ run[t] = "running" /\ op = Free /\ ~session[t].closed /\ t \notin aborted
    /\ \E newTab \in BOOLEAN : GetPage(t, newTab)
    /\ UNCHANGED <<tabVars, runVars, target, closer, losses, stalls>>

(* There is no endpoint, the connection or newPage() fails. *)
NoBrowser(t) ==
    /\ At(t, "connect") \/ (Scanned(t) /\ op.tab = 0)
    /\ op' = Free
    /\ UNCHANGED <<tabVars, runVars, session, target, closer, losses, stalls>>

(* The tab is chosen: a session that still waits for it takes it. *)
Adopts(t, p, created) ==
    /\ session' = IF op.takes THEN [session EXCEPT ![t] = [page |-> p, created |-> created, wasBlank |-> created /\ p \in blank,
                                                          closed |-> session[t].closed]]
                  ELSE session
    /\ op' = [op EXCEPT !.at = "use", !.tab = p, !.newTab = FALSE, !.takes = FALSE, !.left = {}, !.owned = {},
                        !.made = FALSE, !.stalled = FALSE]

(* A slip in Reserved: a turn that waits for an approval reserves nothing. *)
ReservedRunning(t) == {target[u] : u \in {v \in Sessions \ {t} : run[v] = "running"}}

(* ownedTargets: what the other sessions are registered for. *)
Reserved(t) == {target[u] : u \in Sessions \ {t}}

Answers(p) == p \in open /\ ~op.lost

(* A slip in LooksForOwn: the registration is not looked up. *)
LooksAnew(t) ==
    /\ At(t, "connect") /\ ~op.newTab
    /\ op' = [op EXCEPT !.at = "scan", !.left = open, !.owned = Reserved(t)]
    /\ UNCHANGED <<tabVars, runVars, session, target, closer, losses, stalls>>

(* Connected: registeredPage(), or the pages to look through and those reserved. *)
LooksForOwn(t) ==
    /\ At(t, "connect") /\ ~op.newTab
    /\ \/ target[t] \in open /\ Adopts(t, target[t], session[t].created) /\ UNCHANGED stalls
       \/ /\ IF target[t] \in open THEN Stalls ELSE UNCHANGED stalls
          /\ op' = [op EXCEPT !.at = "scan", !.left = open, !.owned = Reserved(t), !.stalled = target[t] \in open]
          /\ UNCHANGED session
    /\ UNCHANGED <<tabVars, runVars, target, closer, losses>>

First(p) == \A q \in op.left : p <= q

(* What is closed, reserved or silent is passed over. *)
Passes(t, p) ==
    /\ IF Answers(p) /\ p \notin op.owned THEN Stalls ELSE UNCHANGED stalls
    /\ op' = [op EXCEPT !.left = @ \ {p}]
    /\ UNCHANGED <<session, target>>

(* A hidden tab is remembered, a visible one taken. *)
Remembers(t, p) ==
    /\ Answers(p) /\ p \notin op.owned
    /\ op' = [op EXCEPT !.left = @ \ {p}, !.tab = p]
    /\ UNCHANGED <<session, target, stalls>>

Takes(t, p) ==
    /\ Answers(p) /\ p \notin op.owned
    /\ target' = [target EXCEPT ![t] = p] /\ Adopts(t, p, FALSE)
    /\ UNCHANGED stalls

Scans(t) ==
    /\ At(t, "scan")
    /\ \E p \in op.left : First(p) /\ (Passes(t, p) \/ Remembers(t, p) \/ Takes(t, p))
    /\ UNCHANGED <<tabVars, runVars, closer, losses>>

OpensTab(t) ==
    /\ (At(t, "connect") /\ op.newTab) \/ (Scanned(t) /\ op.tab = 0 /\ ~op.lost)
    /\ NewTab
    /\ op' = [op EXCEPT !.at = "register", !.tab = last + 1, !.made = TRUE]
    /\ UNCHANGED <<runVars, session, target, closer, losses, stalls>>

(* A tab that does not answer is used without a registration. *)
Registers(t) ==
    /\ At(t, "register") \/ (Scanned(t) /\ op.tab # 0)
    /\ \/ Answers(op.tab) /\ target' = [target EXCEPT ![t] = op.tab] /\ UNCHANGED stalls
       \/ /\ IF Answers(op.tab) THEN Stalls ELSE UNCHANGED stalls
          /\ target' = [target EXCEPT ![t] = 0]
    /\ Adopts(t, op.tab, op.made)
    /\ UNCHANGED <<tabVars, runVars, closer, losses>>

(* The page is brought to the front, got again and something loaded into it;  *)
(* a close() that waited for it goes on first.                                *)
Uses(t) ==
    /\ At(t, "use") /\ \A w \in Callers : closer[t][w] # "wait"
    /\ IF ~Answers(op.tab) \/ session[t].closed \/ t \in aborted
       THEN op' = Free /\ UNCHANGED <<blank, session>>
       ELSE IF session[t].page \in open
       THEN op' = Free /\ blank' \in {blank, blank \ {session[t].page}} /\ UNCHANGED session
       ELSE GetPage(t, FALSE) /\ UNCHANGED blank
    /\ UNCHANGED <<open, last, runVars, target, closer, losses, stalls>>

Next ==
    \/ PersonOpens \/ PersonCloses \/ PersonLoads \/ Disconnects
    \/ \E t \in Turns :
        \/ Pause(t) \/ Resume(t) \/ Stop(t) \/ RunEnds(t)
        \/ Asks(t) \/ NoBrowser(t) \/ LooksForOwn(t) \/ Scans(t) \/ OpensTab(t) \/ Registers(t) \/ Uses(t)
        \/ \E w \in Callers : CloseWaited(t, w) \/ CloseRecovers(t, w)

Spec == Init /\ [][Next]_vars

(***************************************************************************)
(* Properties                                                              *)
(***************************************************************************)
(* The values of every variable: no page beyond the last, and an operation    *)
(* belongs to a turn from the gate on.                                        *)
TypeOK ==
    /\ last \in Tabs /\ open \subseteq 1..last /\ blank \subseteq 1..last
    /\ run \in [Turns -> {"running", "paused", "ending", "over"}] /\ aborted \subseteq Turns
    /\ session \in [Turns -> [page : 0..last, created : BOOLEAN, wasBlank : BOOLEAN, closed : BOOLEAN]]
    /\ target \in [Turns -> 0..last]
    /\ op \in [turn : Turns \cup {Nobody}, at : {"free", "connect", "scan", "register", "use"}, newTab : BOOLEAN,
               takes : BOOLEAN, left : SUBSET (1..last), owned : SUBSET (0..last), tab : 0..last, made : BOOLEAN,
               lost : BOOLEAN, stalled : BOOLEAN]
    /\ op.turn = Nobody <=> op = Free
    /\ closer \in [Turns -> [Callers -> {"no", "wait", "recover"}]]
    /\ losses \in 0..MaxLosses /\ stalls \in 0..MaxStalls

(* Two turns whose sessions are alive never drive the same open tab, unless    *)
(* the tab of one of them did not answer when it was to be registered: over    *)
(* turns that pause, are stopped in the middle of a choice or lose the         *)
(* connection (service.ts:131-176, :194-200).                                  *)
NoSharedTab ==
    \A t, u \in Sessions : t # u =>
        /\ target[t] = target[u] => target[t] \notin open
        /\ session[t].page = session[u].page /\ session[t].page \in open => target[t] = 0 \/ target[u] = 0

(* After a lost connection a turn goes back to its tab: it is registered for   *)
(* another one only when it asked for a new tab, or its own is closed or does  *)
(* not answer (service.ts:131-137, :149-150).                                  *)
KeepsItsTab ==
    [][\A t \in Turns : target[t] \in open /\ target'[t] \notin {0, target[t]}
                        => op.made \/ op.stalled]_vars

(* A closing session closes no tab but one that still shows about:blank and,   *)
(* unless its own registration had failed or the run is over, one that no      *)
(* other turn is registered for: also when a tool is choosing a tab, or the    *)
(* connection is lost, while close() waits (service.ts:178-183, :325-341).     *)
ClosesItsOwn ==
    [][\A t \in Turns : closer'[t] # closer[t] => \A p \in open \ open' :
        p \in blank /\ (t \notin Sessions \/ target[t] = 0 \/ \A u \in Sessions \ {t} : target[u] # p)]_vars
=============================================================================
