------------------------------ MODULE RoomView ------------------------------
(* What one open tab shows of one room: the events of the hub                 *)
(* (realtime/hub.ts), the subscription and the gap request of every connection *)
(* (web: useRoomSocket.ts), the answers to the user's own posts and the        *)
(* refetches of the whole room (web: rooms.$roomId.tsx), in the orders in      *)
(* which they can arrive.  A message is its seq; the first one starts a turn.  *)
EXTENDS Naturals, Sequences, FiniteSets, SequencesExt

CONSTANTS
    MaxMessages,    \* messages ever posted
    Limit,          \* messages in one answer (200)
    MaxFaults,      \* connections lost, restarts of the server, gap requests that fail
    MaxRefetches,
    Unread          \* what a refetch has not read yet

ASSUME ViewAssumption ==
    /\ MaxMessages \in Nat /\ Limit \in Nat \ {0}
    /\ MaxFaults \in Nat /\ MaxRefetches \in Nat

VARIABLES
    stored,     \* the seq of the last message of the room
    posting,    \* its transaction is over, its broadcast is not
    own,        \* messages the user of the tab posted
    turn,       \* the status of the turn of message 1
    link,       \* of the current connection: "closed", "asked" to subscribe, "live"
    wire,       \* events on their way over it
    gap,        \* the gap requests, by connection
    replies,    \* own messages whose POST has not been answered
    refetch,    \* the refetch under way
    messages,   \* what the tab shows: data.messages
    shownTurn,  \* what the tab shows: data.turns
    missed,     \* noted: messages that passed the tab by
    outdated,   \* noted: a status passed the tab by
    connection, \* how many there have been
    faults, refetches

server == <<stored, posting, own, turn>>
view == <<messages, shownTurn>>
notes == <<missed, outdated>>
bounds == <<connection, faults, refetches>>
vars == <<stored, posting, own, turn, link, wire, gap, replies, refetch,
          messages, shownTurn, missed, outdated, connection, faults, refetches>>

NoRefetch == [under |-> FALSE, messages |-> Unread, turn |-> Unread]
NotAsked == [at |-> "none", after |-> 0, answer |-> {}]

Connections == 1..MaxFaults + 1
Fault == faults < MaxFaults /\ faults' = faults + 1
Shown == ToSet(messages)
LastShown == IF messages = <<>> THEN 0 ELSE messages[Len(messages)]
Increasing(s) == \A i, j \in DOMAIN s : i < j => s[i] < s[j]
Sorted(seqs) == CHOOSE s \in [1..Cardinality(seqs) -> seqs] : Increasing(s)

Init ==
    /\ stored = 0 /\ posting = FALSE /\ own = {}
    /\ turn = "none"
    /\ link = "closed" /\ wire = <<>> /\ replies = {}
    /\ gap = [c \in Connections |-> NotAsked] /\ connection = 0
    /\ refetch = NoRefetch
    /\ messages = <<>> /\ shownTurn = "none"
    /\ missed = {} /\ outdated = FALSE
    /\ faults = 0 /\ refetches = 0

(***************************************************************************)
(* The server: a commit, then the broadcast to the subscribed sockets      *)
(***************************************************************************)
Broadcast(events) == wire' = IF link = "live" THEN wire \o events ELSE wire

(* A message that is broadcast while nobody listens can only come with the  *)
(* gap request of the connection, if that has not been read yet.            *)
PassesBy(m) ==
    link = "asked" /\ gap[connection].at # "asked" /\ m \notin gap[connection].answer \cup Shown

(* AdmissionService.post(), one at a time in a room. *)
Post(mine) ==
    /\ ~posting /\ stored < MaxMessages
    /\ stored' = stored + 1 /\ posting' = TRUE
    /\ own' = IF mine THEN own \cup {stored + 1} ELSE own
    /\ turn' = IF stored = 0 THEN "queued" ELSE turn
    /\ UNCHANGED <<link, wire, gap, replies, refetch, view, notes, bounds>>

Announce ==
    /\ posting /\ posting' = FALSE
    /\ Broadcast(<<[type |-> "message", seq |-> stored]>>
                 \o (IF stored = 1 THEN <<[type |-> "turn", status |-> turn]>> ELSE <<>>))
    /\ replies' = replies \cup (own \cap {stored})
    /\ missed' = IF PassesBy(stored) THEN missed \cup {stored} ELSE missed
    /\ outdated' = (outdated \/ (stored = 1 /\ link # "live"))
    /\ UNCHANGED <<stored, own, turn, link, gap, refetch, view, bounds>>

NextStatus == CASE turn = "queued" -> {"running", "over"} [] turn = "running" -> {"over"} [] OTHER -> {}

(* execute(), finish(), cancel(): the row, and then its broadcast. *)
TurnMoves ==
    /\ ~(posting /\ stored = 1)
    /\ \E status \in NextStatus :
        turn' = status /\ Broadcast(<<[type |-> "turn", status |-> status]>>)
    /\ outdated' = (outdated \/ link # "live")
    /\ UNCHANGED <<stored, posting, own, link, gap, replies, refetch, view, missed, bounds>>

(* The membership has been looked up: the room ids of the socket are set. *)
Subscribes ==
    /\ link = "asked" /\ link' = "live"
    /\ UNCHANGED <<server, wire, gap, replies, refetch, view, notes, bounds>>

(* The process ends.  What was committed is not announced any more; the next *)
(* one fails the running turn before anybody is connected.  Requests fail; a   *)
(* refetch is repeated.                                                      *)
Restart ==
    /\ Fault
    /\ posting' = FALSE
    /\ turn' = IF turn = "running" THEN "over" ELSE turn
    /\ link' = "closed" /\ wire' = <<>>
    /\ gap' = [c \in Connections |-> IF gap[c].at = "asked" THEN [NotAsked EXCEPT !.at = "failed"] ELSE gap[c]]
    /\ refetch' = IF refetch.under THEN [NoRefetch EXCEPT !.under = TRUE] ELSE refetch
    /\ outdated' = (outdated \/ turn = "running" \/ (posting /\ stored = 1)
                             \/ \E i \in DOMAIN wire : wire[i].type = "turn")
    /\ UNCHANGED <<stored, own, replies, view, missed, connection, refetches>>

(***************************************************************************)
(* The tab: its connections (useRoomSocket.ts)                             *)
(***************************************************************************)
(* A slip in Open: the first connection relies on the page it came with. *)
OpenReconnects ==
    /\ link = "closed" /\ link' = "asked"
    /\ connection' = connection + 1
    /\ gap' = IF connection = 0 THEN gap
              ELSE [gap EXCEPT ![connection + 1] = [NotAsked EXCEPT !.at = "asked", !.after = LastShown]]
    /\ missed' = missed \cup {m \in 1..LastShown : m \notin Shown}
    /\ UNCHANGED <<server, wire, replies, refetch, view, outdated, faults, refetches>>

(* onopen: subscribe, and ask for what came after the last message shown. *)
Open ==
    /\ link = "closed" /\ link' = "asked"
    /\ connection' = connection + 1
    /\ gap' = [gap EXCEPT ![connection + 1] = [NotAsked EXCEPT !.at = "asked", !.after = LastShown]]
    /\ missed' = missed \cup {m \in 1..LastShown : m \notin Shown}
    /\ UNCHANGED <<server, wire, replies, refetch, view, outdated, faults, refetches>>

(* The connection is lost, or the effect runs again; onclose retries. *)
Drop ==
    /\ link # "closed" /\ Fault
    /\ link' = "closed" /\ wire' = <<>>
    /\ outdated' = (outdated \/ \E i \in DOMAIN wire : wire[i].type = "turn")
    /\ UNCHANGED <<server, gap, replies, refetch, view, missed, connection, refetches>>

(* GET /messages?after=...: the oldest first, no more than the limit. *)
GapRead(c) ==
    /\ gap[c].at = "asked"
    /\ LET after == {m \in 1..stored : m > gap[c].after}
       IN  /\ gap' = [gap EXCEPT ![c].at = "read", ![c].answer = {m \in after : m <= gap[c].after + Limit}]
           /\ missed' = missed \cup {m \in after : m > gap[c].after + Limit}
    /\ UNCHANGED <<server, link, wire, replies, refetch, view, outdated, bounds>>

(* A slip in GapArrives: added at the end. *)
GapArrivesUnsorted(c) ==
    /\ gap[c].at = "read"
    /\ messages' = messages \o Sorted(gap[c].answer \ Shown)
    /\ gap' = [gap EXCEPT ![c] = [NotAsked EXCEPT !.at = "done"]]
    /\ UNCHANGED <<server, link, wire, replies, refetch, shownTurn, notes, bounds>>

(* onGap: added, and the whole list sorted. *)
GapArrives(c) ==
    /\ gap[c].at = "read"
    /\ messages' = Sorted(Shown \cup gap[c].answer)
    /\ gap' = [gap EXCEPT ![c] = [NotAsked EXCEPT !.at = "done"]]
    /\ UNCHANGED <<server, link, wire, replies, refetch, shownTurn, notes, bounds>>

(* The request fails, and is not repeated on this connection. *)
GapFails(c) ==
    /\ gap[c].at \in {"asked", "read"} /\ Fault
    /\ gap' = [gap EXCEPT ![c] = [NotAsked EXCEPT !.at = "failed"]]
    /\ missed' = missed \cup {m \in 1..stored : m > gap[c].after}
    /\ UNCHANGED <<server, link, wire, replies, refetch, view, outdated, connection, refetches>>

(***************************************************************************)
(* The tab: what it shows (rooms.$roomId.tsx)                              *)
(***************************************************************************)
Added(m) == IF m \in Shown THEN messages ELSE Append(messages, m)

(* A slip in Receive: a turn that is known stays as it is. *)
ReceiveOnce ==
    /\ wire # <<>>
    /\ wire' = Tail(wire)
    /\ LET event == Head(wire)
       IN  IF event.type = "message"
           THEN messages' = Added(event.seq) /\ UNCHANGED shownTurn
           ELSE shownTurn' = (IF shownTurn = "none" THEN event.status ELSE shownTurn) /\ UNCHANGED messages
    /\ UNCHANGED <<server, link, gap, replies, refetch, notes, bounds>>

(* onEvent *)
Receive ==
    /\ wire # <<>>
    /\ wire' = Tail(wire)
    /\ LET event == Head(wire)
       IN  IF event.type = "message"
           THEN messages' = Added(event.seq) /\ UNCHANGED shownTurn
           ELSE shownTurn' = event.status /\ UNCHANGED messages
    /\ UNCHANGED <<server, link, gap, replies, refetch, notes, bounds>>

(* A slip in Sent: the message is taken to be new. *)
SentAgain(m) ==
    /\ m \in replies
    /\ replies' = replies \ {m}
    /\ messages' = Append(messages, m)
    /\ shownTurn' = IF m = 1 /\ shownTurn = "none" THEN "queued" ELSE shownTurn
    /\ UNCHANGED <<server, link, wire, gap, refetch, notes, bounds>>

(* onSent: the answer to a POST, with the turns as they were admitted. *)
Sent(m) ==
    /\ m \in replies
    /\ replies' = replies \ {m}
    /\ messages' = Added(m)
    /\ shownTurn' = IF m = 1 /\ shownTurn = "none" THEN "queued" ELSE shownTurn
    /\ UNCHANGED <<server, link, wire, gap, refetch, notes, bounds>>

(* fetchRoomData(): the messages and the turns are read apart. *)
Refetch ==
    /\ ~refetch.under /\ refetches < MaxRefetches
    /\ refetches' = refetches + 1
    /\ refetch' = [NoRefetch EXCEPT !.under = TRUE]
    /\ UNCHANGED <<server, link, wire, gap, replies, view, notes, connection, faults>>

RefetchReads ==
    /\ refetch.under
    /\ \/ /\ refetch.messages = Unread
          /\ refetch' = [refetch EXCEPT !.messages = {m \in 1..stored : m + Limit > stored}]
       \/ /\ refetch.turn = Unread
          /\ refetch' = [refetch EXCEPT !.turn = turn]
    /\ UNCHANGED <<server, link, wire, gap, replies, view, notes, bounds>>

Rank == [none |-> 0, queued |-> 1, running |-> 2, over |-> 3]

(* What the tab loses by it: what is shown and was not read, and what is older  *)
(* than the last messages an answer holds (api/rooms.ts:275).                 *)
LeftOut == {m \in 1..stored \ refetch.messages : m \in Shown \/ \E k \in refetch.messages : m < k}

(* What is shown is replaced by what was read, whatever came in between. *)
RefetchReplaces ==
    /\ refetch.under /\ refetch.messages # Unread /\ refetch.turn # Unread
    /\ messages' = Sorted(refetch.messages) /\ shownTurn' = refetch.turn
    /\ refetch' = NoRefetch
    /\ missed' = missed \cup LeftOut
    /\ outdated' = (outdated \/ Rank[refetch.turn] < Rank[shownTurn])
    /\ UNCHANGED <<server, link, wire, gap, replies, bounds>>

Next ==
    \/ \E mine \in BOOLEAN : Post(mine)
    \/ Announce \/ TurnMoves \/ Subscribes \/ Restart
    \/ Open \/ Drop \/ \E c \in Connections : GapRead(c) \/ GapArrives(c) \/ GapFails(c)
    \/ Receive \/ \E m \in 1..MaxMessages : Sent(m)
    \/ Refetch \/ RefetchReads \/ RefetchReplaces

Spec == Init /\ [][Next]_vars

(***************************************************************************)
(* Properties                                                              *)
(***************************************************************************)
Statuses == DOMAIN Rank

(* Every variable keeps its type; a message is shown once. *)
TypeOK ==
    /\ stored \in 0..MaxMessages /\ posting \in BOOLEAN /\ own \subseteq 1..stored
    /\ turn \in Statuses
    /\ link \in {"closed", "asked", "live"}
    /\ \A i \in DOMAIN wire : wire[i].type \in {"message", "turn"}
    /\ \A c \in Connections : gap[c].at \in {"none", "asked", "read", "done", "failed"} /\ gap[c].answer \subseteq 1..stored
    /\ replies \subseteq own
    /\ refetch.under \in BOOLEAN
    /\ Shown \subseteq 1..stored /\ IsInjective(messages)
    /\ shownTurn \in Statuses
    /\ missed \subseteq 1..stored /\ outdated \in BOOLEAN

(* Nothing is on its way to the tab. *)
Quiet ==
    /\ link = "live" /\ wire = <<>> /\ ~posting
    /\ replies = {} /\ ~refetch.under
    /\ \A c \in Connections : gap[c].at \notin {"asked", "read"}

(* When nothing is on its way, every message of the room is shown, but for    *)
(* those that passed the tab by: broadcast between the gap request and the    *)
(* subscription, skipped by a gap request that began after an own message,    *)
(* beyond its limit, lost with a request that failed, or dropped by a refetch *)
(* that was read before or is full (useRoomSocket.ts:30-38, hub.ts:169-174).  *)
NothingElseMissed == Quiet => 1..stored \ Shown \subseteq missed

(* The list is out of order only where one of the two messages is the user's  *)
(* own, shown when its POST was answered, or the later one had been left out  *)
(* by a refetch (rooms.$roomId.tsx:112, :139, :141).                          *)
OnlyOwnDisorders ==
    \A i, j \in DOMAIN messages :
        i < j /\ messages[i] > messages[j] => (own \cap {messages[i], messages[j]}) \cup (missed \cap {messages[j]}) # {}

(* When nothing is on its way, the tab shows the turn as it is, unless a      *)
(* status was broadcast while nobody listened or a refetch brought back an    *)
(* older one: a reconnect asks for messages only (useRoomSocket.ts:33-38).    *)
TurnFollows == Quiet /\ ~outdated => shownTurn = turn
=============================================================================
