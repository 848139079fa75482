---------------------------- MODULE ClientProofs ----------------------------
(***************************************************************************)
(* The web client's state.  RoomView, for every number of messages, faults *)
(* and refetches and every limit of an answer: its types, that no message  *)
(* is lost without a note of it, that only own messages and refetches put  *)
(* the list out of order, and that a quiet tab shows the turn as it is.    *)
(* AgentDrafts, for every number of tabs, texts and visits: its types,     *)
(* that a save carries only what was typed here, and that the stored draft *)
(* follows the page.                                                       *)
(***************************************************************************)
EXTENDS RoomView, AgentDrafts, FiniteSetTheorems, SequenceTheorems, TLAPS

(***************************************************************************)
(* The open room                                                           *)
(***************************************************************************)
Events == [type : {"message"}, seq : 1..MaxMessages] \cup [type : {"turn"}, status : Statuses]
GapStages == {"none", "asked", "read", "done", "failed"}
GapRequests == [at : GapStages, after : 0..MaxMessages, answer : SUBSET (1..MaxMessages)]
RefetchState ==
    [under : BOOLEAN, messages : {Unread} \cup SUBSET (1..MaxMessages), turn : {Unread} \cup Statuses]

(* Every variable has its type; every connection but the first follows a   *)
(* fault.                                                                  *)
Typed ==
    /\ stored \in 0..MaxMessages /\ posting \in BOOLEAN /\ turn \in Statuses /\ shownTurn \in Statuses
    /\ own \subseteq 1..stored /\ replies \subseteq own /\ missed \subseteq 1..stored /\ outdated \in BOOLEAN
    /\ link \in {"closed", "asked", "live"} /\ wire \in Seq(Events)
    /\ gap \in [Connections -> GapRequests] /\ refetch \in RefetchState
    /\ messages \in Seq(1..MaxMessages) /\ IsInjective(messages) /\ Shown \subseteq 1..stored
    /\ faults \in 0..MaxFaults /\ connection \in Nat
    /\ connection <= faults + (IF link = "closed" THEN 0 ELSE 1)
    /\ link # "closed" => connection > 0

(* What is on its way has been stored.                                     *)
OnWire(m) == \E i \in DOMAIN wire : wire[i].type = "message" /\ wire[i].seq = m
OnItsWay ==
    /\ \A i \in DOMAIN wire : wire[i].type = "message" => wire[i].seq \in 1..stored
    /\ \A c \in Connections :
        gap[c].answer \subseteq 1..stored /\ (gap[c].at # "read" => gap[c].answer = {})
    /\ refetch.messages = Unread \/ refetch.messages \subseteq 1..stored
    /\ refetch.turn = Unread \/ Rank[refetch.turn] <= Rank[turn]

(* The turn is that of the first message, and both are announced at once.  *)
Announced == stored > 0 /\ ~(posting /\ stored = 1)
FirstTurn ==
    /\ stored = 0 <=> turn = "none"
    /\ posting => stored > 0
    /\ posting /\ stored = 1 => turn = "queued"
    /\ ~Announced => replies = {}

(* A gap request leaves nothing out below what it asks for, nor within     *)
(* what it answers.                                                        *)
Behind ==
    \A c \in Connections : gap[c].at \in {"asked", "read"} =>
        /\ 1..gap[c].after \subseteq Shown \cup missed
        /\ \A m \in gap[c].answer : \A k \in 1..m : k > gap[c].after => k \in gap[c].answer

(* A message that is not shown and has not been noted as missed is still   *)
(* to come over the connection: asked for, in the answer, on the wire or   *)
(* about to be announced.                                                  *)
Coming ==
    link # "closed" => \A m \in 1..stored \ (Shown \cup missed) :
        \/ gap[connection].at = "asked"
        \/ m \in gap[connection].answer
        \/ OnWire(m)
        \/ posting /\ m = stored

(* The wire carries the messages in order, and what is shown and newer     *)
(* than one that is not shown yet is the user's own.                       *)
WireInOrder ==
    /\ \A i, j \in DOMAIN wire :
        i < j /\ wire[i].type = "message" /\ wire[j].type = "message" => wire[i].seq < wire[j].seq
    /\ posting => ~OnWire(stored)
    /\ \A m \in 1..stored : OnWire(m) => m \in Shown \cup missed \cup own \/ \A x \in Shown : x > m => x \in own

(* Unless a status passed the tab by, the last one on the wire is that of  *)
(* the turn, and with none on the wire the tab shows it.                   *)
NoTurnOn == \A i \in DOMAIN wire : wire[i].type # "turn"
TurnComing ==
    ~outdated =>
        /\ \A i \in DOMAIN wire : wire[i].type = "turn" =>
            wire[i].status = turn \/ \E j \in DOMAIN wire : i < j /\ wire[j].type = "turn"
        /\ ~Announced => NoTurnOn /\ shownTurn \in {"none", turn}
        /\ Announced /\ NoTurnOn => shownTurn = turn

ViewInv == Typed /\ OnItsWay /\ FirstTurn /\ Behind /\ Coming /\ WireInOrder /\ OnlyOwnDisorders /\ TurnComing

-----------------------------------------------------------------------------

(* The messages of a room are finitely many.                               *)
LEMMA FewSeqs ==
    ASSUME NEW n \in Nat, NEW S \in SUBSET (1..n)
    PROVE  IsFiniteSet(S) /\ Cardinality(S) \in Nat
<1>1. 1 \in Int /\ n \in Int
  OBVIOUS
<1>2. IsFiniteSet(1..n)
  BY <1>1, FS_Interval
<1>3. IsFiniteSet(S)
  BY <1>2, FS_Subset
<1> QED
  BY <1>3, FS_CardinalityType

(* One element less is one less.                                           *)
LEMMA Fewer ==
    ASSUME NEW S, IsFiniteSet(S), NEW x \in S
    PROVE  IsFiniteSet(S \ {x}) /\ Cardinality(S \ {x}) = Cardinality(S) - 1
BY FS_RemoveElement

(* The rank of an element, the number of elements up to it, grows with     *)
(* the element.                                                            *)
LEMMA Ranked ==
    ASSUME NEW n \in Nat, NEW S \in SUBSET (1..n), NEW x \in S
    PROVE  /\ Cardinality({y \in S : y <= x}) \in 1..Cardinality(S)
           /\ \A z \in S : z < x => Cardinality({y \in S : y <= z}) < Cardinality({y \in S : y <= x})
<1>0. IsFiniteSet(S) /\ Cardinality(S) \in Nat
  BY FewSeqs
<1>a. \A y \in S : y \in Nat
  OBVIOUS
<1> DEFINE Below(z) == {y \in S : y <= z}
<1>1. \A z \in S : Below(z) \in SUBSET S /\ z \in Below(z)
  OBVIOUS
<1>2. \A z \in S : IsFiniteSet(Below(z)) /\ Cardinality(Below(z)) \in Nat /\ Cardinality(Below(z)) <= Cardinality(S)
  BY <1>0, <1>1, FS_Subset, FS_CardinalityType
<1>3. \A z \in S : Cardinality(Below(z)) # 0
  BY <1>1, <1>2, FS_EmptySet
<1>4. ASSUME NEW z \in S, z < x PROVE Cardinality(Below(z)) < Cardinality(Below(x))
  <2>1. Below(z) \in SUBSET Below(x) /\ x \notin Below(z) /\ x \in Below(x)
    <3>1. \A y \in S : y <= z => y <= x
      BY <1>a, <1>4
    <3>2. ~(x <= z) /\ x <= x
      BY <1>a, <1>4
    <3> QED
      BY <3>1, <3>2
  <2>2. Cardinality(Below(z)) <= Cardinality(Below(x)) /\ Cardinality(Below(z)) # Cardinality(Below(x))
    BY <2>1, <1>2, FS_Subset
  <2> QED
    BY <2>2, <1>2
<1>5. Cardinality(Below(x)) \in 1..Cardinality(S)
  BY <1>0, <1>2, <1>3
<1> QED
  BY <1>4, <1>5

(* The elements of a set of messages can be put in ascending order: the    *)
(* inverse of the rank does it. No two elements have the same rank, so     *)
(* by counting every rank is taken.                                        *)
LEMMA AscendingExists ==
    ASSUME NEW n \in Nat, NEW S \in SUBSET (1..n)
    PROVE  \E s \in [1..Cardinality(S) -> S] : Increasing(s)
<1> DEFINE K == Cardinality(S)
           R == [x \in S |-> Cardinality({y \in S : y <= x})]
<1>0. IsFiniteSet(S) /\ K \in Nat
  BY FewSeqs
<1>a. \A y \in S : y \in Nat
  OBVIOUS
<1>1. \A x \in S : R[x] \in 1..K
  BY Ranked
<1>2. \A x, z \in S : z < x => R[z] < R[x]
  BY Ranked
<1>3. \A x, z \in S : R[x] = R[z] => x = z
  <2> SUFFICES ASSUME NEW x \in S, NEW z \in S, x # z PROVE R[x] # R[z]
    OBVIOUS
  <2>1. x \in Nat /\ z \in Nat
    OBVIOUS
  <2>2. x < z \/ z < x
    BY <2>1
  <2> HIDE DEF R
  <2> QED
    BY <2>2, <1>1, <1>2
<1>4. ASSUME NEW i \in 1..K PROVE \E x \in S : R[x] = i
  <2> SUFFICES ASSUME \A x \in S : R[x] # i PROVE FALSE
    OBVIOUS
  <2> DEFINE T == (1..K) \ {i}
  <2>1. IsFiniteSet(1..K) /\ Cardinality(1..K) = K
    BY <1>0, FS_Interval
  <2>2. IsFiniteSet(T) /\ Cardinality(T) = K - 1
    BY <2>1, Fewer
  <2>3. R \in [S -> T]
    BY <1>1
  <2> HIDE DEF R, T, K
  <2>4. Cardinality(T) < Cardinality(S)
    BY <2>2, <1>0 DEF K
  <2>5. \E x, y \in S : x # y /\ R[x] = R[y]
    BY <2>2, <2>3, <2>4, <1>0, FS_PigeonHole
  <2> QED
    BY <2>5, <1>3
<1> DEFINE s == [i \in 1..K |-> CHOOSE x \in S : R[x] = i]
<1>5. \A i \in 1..K : s[i] \in S /\ R[s[i]] = i
  <2> HIDE DEF R
  <2> QED
    BY <1>4
<1>6. s \in [1..K -> S]
  BY <1>5
<1>7. Increasing(s)
  <2> SUFFICES ASSUME NEW i \in 1..K, NEW j \in 1..K, i < j PROVE s[i] < s[j]
    BY <1>6 DEF Increasing
  <2>1. s[i] \in S /\ s[j] \in S /\ R[s[i]] = i /\ R[s[j]] = j
    BY <1>5
  <2> HIDE DEF R, s
  <2>3. s[i] \in Nat /\ s[j] \in Nat
    BY <2>1, <1>a
  <2>4. i \in Nat /\ j \in Nat /\ ~(j < i) /\ i # j
    <3> HIDE DEF K
    <3> QED
      BY <1>0
  <2>2. ~(s[j] < s[i]) /\ s[j] # s[i]
    BY <2>1, <2>4, <1>2
  <2> QED
    BY <2>3, <2>2
<1> QED
  BY <1>6, <1>7

(* So Sorted(S) is in ascending order, has every element of S and has it   *)
(* once (rooms.$roomId.tsx:139).                                           *)
LEMMA SortedIsSorted ==
    ASSUME NEW n \in Nat, NEW S \in SUBSET (1..n)
    PROVE  /\ Sorted(S) \in Seq(1..n) /\ Increasing(Sorted(S)) /\ IsInjective(Sorted(S))
           /\ ToSet(Sorted(S)) = S
<1> DEFINE K == Cardinality(S)
           s == Sorted(S)
<1>0. IsFiniteSet(S) /\ K \in Nat
  BY FewSeqs
<1>a. \A y \in S : y \in Nat
  OBVIOUS
<1>1. s \in [1..K -> S] /\ Increasing(s)
  BY AscendingExists DEF Sorted
<1> HIDE DEF s
<1>2. s \in Seq(1..n) /\ DOMAIN s = 1..K
  <2>1. \A i \in 1..K : s[i] \in 1..n
    BY <1>1
  <2> QED
    BY <1>0, <1>1, <2>1
<1>3. ASSUME NEW i \in 1..K, NEW j \in 1..K, s[i] = s[j] PROVE i = j
  <2>1. s[i] \in S /\ s[j] \in S
    BY <1>1
  <2>3. s[i] \in Nat /\ s[j] \in Nat
    BY <2>1, <1>a
  <2>2. ~(i < j) /\ ~(j < i)
    BY <2>3, <1>1, <1>2, <1>3 DEF Increasing
  <2> QED
    BY <2>2, <1>0
<1>4. ASSUME NEW x \in S PROVE \E i \in 1..K : s[i] = x
  <2> SUFFICES ASSUME \A i \in 1..K : s[i] # x PROVE FALSE
    OBVIOUS
  <2> DEFINE T == S \ {x}
  <2>1. IsFiniteSet(1..K) /\ Cardinality(1..K) = K
    BY <1>0, FS_Interval
  <2>2. IsFiniteSet(T) /\ Cardinality(T) = K - 1
    BY <1>0, Fewer
  <2>3. s \in [1..K -> T]
    BY <1>1
  <2> HIDE DEF T, K
  <2>4. \E i, j \in 1..K : i # j /\ s[i] = s[j]
    BY <2>1, <2>2, <2>3, <1>0, FS_PigeonHole
  <2> QED
    BY <2>4, <1>3
<1>5. IsInjective(s)
  BY <1>2, <1>3 DEF IsInjective
<1>6. ToSet(s) = S
  BY <1>1, <1>2, <1>4 DEF ToSet
<1> QED
  BY <1>1, <1>2, <1>5, <1>6 DEF s

-----------------------------------------------------------------------------

(* A message that is announced is an event.                                *)
LEMMA MessageEvent == ASSUME NEW m \in 1..MaxMessages PROVE [type |-> "message", seq |-> m] \in Events
BY DEF Events

(* So is a status of the turn.                                             *)
LEMMA TurnEvent == ASSUME NEW status \in Statuses PROVE [type |-> "turn", status |-> status] \in Events
BY DEF Events

(* What an event has.                                                      *)
LEMMA EventFields ==
    ASSUME NEW e \in Events
    PROVE  /\ e.type \in {"message", "turn"}
           /\ e.type = "message" => e.seq \in 1..MaxMessages
           /\ e.type = "turn" => e.status \in Statuses
BY DEF Events

(* The positions of a sequence that is extended.                           *)
LEMMA Extended ==
    ASSUME NEW S, NEW s \in Seq(S), NEW t \in Seq(S)
    PROVE  /\ s \o t \in Seq(S)
           /\ \A i \in DOMAIN s : i \in DOMAIN (s \o t) /\ (s \o t)[i] = s[i]
           /\ \A i \in DOMAIN t : Len(s) + i \in DOMAIN (s \o t) /\ (s \o t)[Len(s) + i] = t[i]
           /\ \A i \in DOMAIN (s \o t) : i \in DOMAIN s \/ \E j \in DOMAIN t : i = Len(s) + j
<1>1. s \o t \in Seq(S) /\ Len(s \o t) = Len(s) + Len(t)
      /\ \A i \in 1..Len(s) + Len(t) : (s \o t)[i] = IF i <= Len(s) THEN s[i] ELSE t[i - Len(s)]
  BY ConcatProperties
<1>2. DOMAIN s = 1..Len(s) /\ DOMAIN t = 1..Len(t) /\ Len(s) \in Nat /\ Len(t) \in Nat
  OBVIOUS
<1>3. DOMAIN (s \o t) = 1..Len(s) + Len(t)
  BY <1>1
<1> DEFINE u == s \o t
<1> HIDE DEF u
<1>4. \A i \in 1..Len(s) : i \in 1..Len(s) + Len(t) /\ u[i] = s[i]
  BY <1>1, <1>2 DEF u
<1>5. \A i \in 1..Len(t) : Len(s) + i \in 1..Len(s) + Len(t) /\ u[Len(s) + i] = t[i]
  <2> SUFFICES ASSUME NEW i \in 1..Len(t)
               PROVE  Len(s) + i \in 1..Len(s) + Len(t) /\ u[Len(s) + i] = t[i]
    OBVIOUS
  <2>1. Len(s) + i \in 1..Len(s) + Len(t) /\ ~(Len(s) + i <= Len(s)) /\ (Len(s) + i) - Len(s) = i
    BY <1>2
  <2> QED
    BY <2>1, <1>1 DEF u
<1>6. \A i \in 1..Len(s) + Len(t) : i \in 1..Len(s) \/ (i - Len(s) \in 1..Len(t) /\ i = Len(s) + (i - Len(s)))
  BY <1>2
<1> QED
  BY <1>1, <1>2, <1>3, <1>4, <1>5, <1>6 DEF u

(* The positions of a sequence that loses its head.                        *)
LEMMA Shortened ==
    ASSUME NEW S, NEW s \in Seq(S), s # <<>>
    PROVE  /\ Tail(s) \in Seq(S) /\ Head(s) = s[1] /\ 1 \in DOMAIN s /\ s[1] \in S
           /\ \A i \in DOMAIN Tail(s) : i + 1 \in DOMAIN s /\ Tail(s)[i] = s[i + 1]
           /\ \A i \in DOMAIN s : i = 1 \/ (i - 1 \in DOMAIN Tail(s) /\ Tail(s)[i - 1] = s[i])
<1>1. Tail(s) \in Seq(S) /\ Len(Tail(s)) = Len(s) - 1 /\ \A i \in 1..Len(Tail(s)) : Tail(s)[i] = s[i + 1]
  BY HeadTailProperties
<1>2. Len(s) \in Nat /\ Len(s) # 0 /\ DOMAIN s = 1..Len(s)
  OBVIOUS
<1>3. DOMAIN Tail(s) = 1..Len(s) - 1
  BY <1>1
<1>4. \A i \in 1..Len(s) - 1 : i + 1 \in 1..Len(s) /\ Tail(s)[i] = s[i + 1]
  BY <1>1, <1>2
<1>5. \A i \in 1..Len(s) : i = 1 \/ (i - 1 \in 1..Len(s) - 1 /\ (i - 1) + 1 = i)
  BY <1>2
<1>6. 1 \in 1..Len(s) /\ Head(s) = s[1]
  BY <1>2
<1> QED
  BY <1>1, <1>2, <1>3, <1>4, <1>5, <1>6

(* A message is added at the end, and only if it is not shown yet          *)
(* (rooms.$roomId.tsx:112).                                                *)
LEMMA ShownOnce ==
    ASSUME Typed, NEW m \in 1..MaxMessages
    PROVE  /\ Added(m) \in Seq(1..MaxMessages) /\ IsInjective(Added(m))
           /\ ToSet(Added(m)) = Shown \cup {m}
           /\ \A i \in DOMAIN messages : i \in DOMAIN Added(m) /\ Added(m)[i] = messages[i]
           /\ \A i \in DOMAIN Added(m) : i \in DOMAIN messages
                \/ (Added(m)[i] = m /\ \A j \in DOMAIN Added(m) : j <= i)
<1>1. messages \in Seq(1..MaxMessages) /\ IsInjective(messages)
  BY DEF Typed
<1>2. CASE m \in Shown
  BY <1>1, <1>2 DEF Added, Shown
<1>3. CASE m \notin Shown
  <2> DEFINE s == Append(messages, m)
             n == Len(messages)
  <2>1. s \in Seq(1..MaxMessages) /\ Len(s) = n + 1 /\ (\A i \in 1..n : s[i] = messages[i]) /\ s[n + 1] = m
    BY <1>1, AppendProperties
  <2>2. n \in Nat /\ DOMAIN messages = 1..n
    BY <1>1
  <2>3. DOMAIN s = 1..n + 1
    BY <2>1
  <2>4. Added(m) = s
    BY <1>3 DEF Added
  <2>5. \A i \in 1..n : messages[i] # m
    BY <1>3, <2>2 DEF Shown, ToSet
  <2> HIDE DEF s, n
  <2>6. \A i \in 1..n + 1 : i \in 1..n \/ i = n + 1
    BY <2>2
  <2>7. IsInjective(s)
    BY <1>1, <2>1, <2>2, <2>3, <2>5, <2>6 DEF IsInjective
  <2>8. ToSet(s) = Shown \cup {m}
    <3>1. n + 1 \in 1..n + 1 /\ \A i \in 1..n : i \in 1..n + 1
      BY <2>2
    <3> QED
      BY <3>1, <2>1, <2>2, <2>3, <2>6 DEF ToSet, Shown
  <2>9. \A i \in 1..n : i \in 1..n + 1
    BY <2>2
  <2>10. \A j \in 1..n + 1 : j <= n + 1
    BY <2>2
  <2> QED
    BY <2>1, <2>2, <2>3, <2>4, <2>6, <2>7, <2>8, <2>9, <2>10
<1> QED
  BY <1>2, <1>3

(* What a connection asks for begins at a message of the room.             *)
LEMMA LastIsShown ==
    ASSUME Typed
    PROVE  LastShown \in 0..stored
<1>1. messages \in Seq(1..MaxMessages) /\ stored \in Nat /\ Shown \subseteq 1..stored
  BY DEF Typed
<1>2. CASE messages = <<>>
  BY <1>1, <1>2 DEF LastShown
<1>3. CASE messages # <<>>
  <2>1. Len(messages) \in DOMAIN messages
    BY <1>1, <1>3
  <2>2. messages[Len(messages)] \in 1..stored
    BY <1>1, <2>1 DEF Shown, ToSet
  <2> QED
    BY <1>1, <1>3, <2>2 DEF LastShown
<1> QED
  BY <1>2, <1>3

(* The order of the statuses.                                              *)
LEMMA Ranks ==
    /\ Statuses = {"none", "queued", "running", "over"}
    /\ Rank["none"] = 0 /\ Rank["queued"] = 1 /\ Rank["running"] = 2 /\ Rank["over"] = 3
    /\ \A s \in Statuses : Rank[s] \in Nat
BY DEF Rank, Statuses

(* The tab begins with an empty room.                                      *)
LEMMA InitKeeps == Init => ViewInv
<1> SUFFICES ASSUME Init PROVE ViewInv
  OBVIOUS
<1> USE DEF Init
<1>1. Shown = {} /\ DOMAIN messages = {} /\ DOMAIN wire = {}
  BY DEF Shown, ToSet
<1>2. Typed
  <2>1. NotAsked \in GapRequests
    BY ViewAssumption DEF NotAsked, GapRequests, GapStages
  <2>2. NoRefetch \in RefetchState
    BY DEF NoRefetch, RefetchState
  <2>3. gap \in [Connections -> GapRequests]
    BY <2>1
  <2>4. messages \in Seq(1..MaxMessages) /\ wire \in Seq(Events) /\ IsInjective(messages)
    BY <1>1 DEF IsInjective
  <2>5. turn \in Statuses /\ shownTurn \in Statuses
    BY Ranks
  <2>6. stored \in 0..MaxMessages /\ faults \in 0..MaxFaults /\ connection \in Nat
        /\ connection <= faults + (IF link = "closed" THEN 0 ELSE 1) /\ link = "closed"
    BY ViewAssumption
  <2>7. /\ own = {} /\ replies = {} /\ missed = {}
        /\ posting \in BOOLEAN /\ outdated \in BOOLEAN /\ refetch \in RefetchState
    BY <2>2
  <2> HIDE DEF Init
  <2> QED
    BY <1>1, <2>3, <2>4, <2>5, <2>6, <2>7 DEF Typed
<1>3. OnItsWay
  BY <1>1 DEF OnItsWay, NotAsked, NoRefetch
<1>4. FirstTurn
  BY DEF FirstTurn, Announced
<1>5. Behind
  BY DEF Behind, NotAsked
<1>6. WireInOrder
  BY <1>1 DEF WireInOrder, OnWire
<1>7. OnlyOwnDisorders
  BY <1>1 DEF OnlyOwnDisorders
<1>8. TurnComing
  BY <1>1 DEF TurnComing, NoTurnOn, Announced
<1> QED
  BY <1>2, <1>3, <1>4, <1>5, <1>6, <1>7, <1>8 DEF ViewInv, Coming

-----------------------------------------------------------------------------

(* A commit: the new message is about to be announced.                     *)
LEMMA PostKeeps == ASSUME ViewInv, NEW mine \in BOOLEAN, Post(mine) PROVE ViewInv'
<1> USE DEF ViewInv
<1>1. /\ stored' = stored + 1 /\ ~posting /\ posting' = TRUE /\ stored < MaxMessages
      /\ own \subseteq own' /\ own' \subseteq own \cup {stored + 1}
      /\ turn' = IF stored = 0 THEN "queued" ELSE turn
      /\ Shown' = Shown
      /\ UNCHANGED <<link, wire, gap, replies, refetch, messages, shownTurn, missed, outdated,
                     connection, faults, refetches>>
  BY DEF Post, Shown, view, notes, bounds
<1>2. stored \in Nat /\ 1..stored \subseteq 1..stored' /\ stored' \in 1..MaxMessages
  BY <1>1, ViewAssumption DEF Typed
<1>3. Typed'
  BY <1>1, <1>2, Ranks DEF Typed
<1>4. OnItsWay'
  <2>1. turn \in Statuses /\ turn' \in Statuses /\ Rank[turn] <= Rank[turn']
    BY <1>1, Ranks DEF Typed, FirstTurn
  <2>2. refetch.turn = Unread \/ refetch.turn \in Statuses
    BY DEF Typed, RefetchState
  <2>3. refetch.turn = Unread \/ Rank[refetch.turn] <= Rank[turn']
    BY <2>1, <2>2, Ranks DEF OnItsWay
  <2> QED
    BY <1>1, <1>2, <2>3 DEF OnItsWay
<1>5. FirstTurn'
  BY <1>1, <1>2 DEF FirstTurn, Announced
<1>6. Behind'
  BY <1>1 DEF Behind
<1>7. Coming'
  BY <1>1, <1>2 DEF Coming, OnWire
<1>8. WireInOrder'
  <2>1. \A m : OnWire(m)' <=> OnWire(m)
    BY <1>1 DEF OnWire
  <2>2. \A m : OnWire(m) => m \in 1..stored
    BY DEF OnWire, OnItsWay
  <2>3. stored' \notin 1..stored
    BY <1>1, <1>2
  <2> QED
    BY <1>1, <2>1, <2>2, <2>3 DEF WireInOrder
<1>9. OnlyOwnDisorders'
  BY <1>1 DEF OnlyOwnDisorders
<1>10. TurnComing'
  BY <1>1, <1>2 DEF TurnComing, Announced, NoTurnOn, FirstTurn
<1> QED
  BY <1>3, <1>4, <1>5, <1>6, <1>7, <1>8, <1>9, <1>10

(* What a broadcast puts on a live connection: the message, after every    *)
(* other, and behind the first message its turn.                           *)
LEMMA AnnounceWire ==
    ASSUME ViewInv, Announce, link = "live"
    PROVE  /\ wire' \in Seq(Events)
           /\ \A i \in DOMAIN wire : i \in DOMAIN wire' /\ wire'[i] = wire[i]
           /\ \E n \in DOMAIN wire' :
                /\ wire'[n] = [type |-> "message", seq |-> stored]
                /\ \A i \in DOMAIN wire : i < n
                /\ \A i \in DOMAIN wire' :
                    \/ i \in DOMAIN wire
                    \/ i = n
                    \/ stored = 1 /\ i = n + 1
                /\ stored = 1 => n + 1 \in DOMAIN wire' /\ wire'[n + 1] = [type |-> "turn", status |-> turn]
<1> DEFINE msg == [type |-> "message", seq |-> stored]
           moved == [type |-> "turn", status |-> turn]
           e == <<msg>> \o (IF stored = 1 THEN <<moved>> ELSE <<>>)
           n == Len(wire) + 1
<1>1. posting /\ stored \in 1..MaxMessages /\ turn \in Statuses /\ wire \in Seq(Events)
  BY DEF ViewInv, Typed, FirstTurn, Announce
<1>2. msg \in Events /\ moved \in Events
  BY <1>1, MessageEvent, TurnEvent
<1> HIDE DEF msg, moved
<1>3. /\ e \in Seq(Events) /\ 1 \in DOMAIN e /\ e[1] = msg
      /\ \A j \in DOMAIN e : j = 1 \/ (stored = 1 /\ j = 2)
      /\ stored = 1 => 2 \in DOMAIN e /\ e[2] = moved
  <2>1. CASE stored = 1
    <3> DEFINE t == <<moved>>
    <3>1. /\ <<msg>> \in Seq(Events) /\ Len(<<msg>>) = 1 /\ <<msg>>[1] = msg
          /\ t \in Seq(Events) /\ Len(t) = 1 /\ t[1] = moved
      BY <1>2
    <3>2. e = <<msg>> \o t
      BY <2>1
    <3> HIDE DEF e, t
    <3>3. e \in Seq(Events) /\ Len(e) = 2 /\ \A i \in 1..2 : e[i] = IF i <= 1 THEN <<msg>>[i] ELSE t[i - 1]
      BY <3>1, <3>2, ConcatProperties
    <3>4. DOMAIN e = 1..2 /\ e[1] = msg /\ e[2] = moved
      BY <3>1, <3>3
    <3> QED
      BY <3>3, <3>4, <2>1
  <2>2. CASE stored # 1
    <3>1. e = <<msg>> \o <<>>
      BY <2>2
    <3>2. <<msg>> \in Seq(Events)
      BY <1>2
    <3>3. e = <<msg>>
      BY <3>1, <3>2, ConcatEmptySeq
    <3> QED
      BY <3>2, <3>3, <2>2
  <2> QED
    BY <2>1, <2>2
<1>4. wire' = wire \o e
  BY DEF Announce, Broadcast, msg, moved
<1> HIDE DEF e
<1>5. Len(wire) \in Nat /\ DOMAIN wire = 1..Len(wire)
  BY <1>1
<1>6. /\ wire' \in Seq(Events)
      /\ \A i \in DOMAIN wire : i \in DOMAIN wire' /\ wire'[i] = wire[i]
      /\ \A j \in DOMAIN e : Len(wire) + j \in DOMAIN wire' /\ wire'[Len(wire) + j] = e[j]
      /\ \A i \in DOMAIN wire' : i \in DOMAIN wire \/ \E j \in DOMAIN e : i = Len(wire) + j
  BY <1>1, <1>3, <1>4, Extended
<1>7. n \in DOMAIN wire' /\ wire'[n] = msg
  BY <1>3, <1>6
<1>8. \A i \in DOMAIN wire : i < n
  BY <1>5
<1>9. (n + 1) = Len(wire) + 2
  BY <1>5
<1>10. \A i \in DOMAIN wire' : i \in DOMAIN wire \/ i = n \/ (stored = 1 /\ i = n + 1)
  BY <1>3, <1>6, <1>9
<1>11. stored = 1 => n + 1 \in DOMAIN wire' /\ wire'[n + 1] = moved
  BY <1>3, <1>6, <1>9
<1> HIDE DEF n
<1> QED
  BY <1>6, <1>7, <1>8, <1>10, <1>11 DEF msg, moved

(* A broadcast reaches the live connection; otherwise the gap request      *)
(* will answer it or it is noted.                                          *)
LEMMA AnnounceKeeps == ASSUME ViewInv, Announce PROVE ViewInv'
<1> USE DEF ViewInv
<1>1. /\ posting /\ posting' = FALSE
      /\ replies' = replies \cup (own \cap {stored})
      /\ missed' = IF PassesBy(stored) THEN missed \cup {stored} ELSE missed
      /\ outdated' = (outdated \/ (stored = 1 /\ link # "live"))
      /\ link # "live" => wire' = wire
      /\ Shown' = Shown
      /\ UNCHANGED <<stored, own, turn, link, gap, refetch, messages, shownTurn, connection, faults, refetches>>
  BY DEF Announce, Broadcast, Shown, view, bounds
<1>2. stored \in 1..MaxMessages /\ stored \in Nat
  BY <1>1 DEF FirstTurn, Typed
<1>3. /\ link = "live" => \A m : OnWire(m)' <=> OnWire(m) \/ m = stored
      /\ link # "live" => \A m : OnWire(m)' <=> OnWire(m)
  <2>1. CASE link = "live"
    <3>1. PICK n \in DOMAIN wire' :
                /\ wire'[n] = [type |-> "message", seq |-> stored]
                /\ \A i \in DOMAIN wire' :
                    i \in DOMAIN wire \/ i = n \/ (stored = 1 /\ i = n + 1)
                /\ stored = 1 => n + 1 \in DOMAIN wire' /\ wire'[n + 1] = [type |-> "turn", status |-> turn]
      BY <2>1, AnnounceWire
    <3>2. \A i \in DOMAIN wire : i \in DOMAIN wire' /\ wire'[i] = wire[i]
      BY <2>1, AnnounceWire
    <3> QED
      BY <2>1, <3>1, <3>2 DEF OnWire
  <2>2. CASE link # "live"
    BY <2>2, <1>1 DEF OnWire
  <2> QED
    BY <2>1, <2>2
<1>4. wire' \in Seq(Events)
  BY <1>1, AnnounceWire DEF Typed
<1>5. Typed'
  <2>1. outdated' \in BOOLEAN
    BY <1>1
  <2>2. missed' \subseteq 1..stored
    BY <1>1, <1>2 DEF Typed
  <2>3. replies' \subseteq own
    BY <1>1 DEF Typed
  <2> QED
    BY <1>1, <1>4, <2>1, <2>2, <2>3 DEF Typed
<1>6. OnItsWay'
  <2>1. \A m : OnWire(m)' => m \in 1..stored
    BY <1>2, <1>3 DEF OnItsWay, OnWire
  <2>2. \A i \in DOMAIN wire' : wire'[i].type = "message" => wire'[i].seq \in 1..stored
    BY <2>1 DEF OnWire
  <2> QED
    BY <1>1, <2>2 DEF OnItsWay
<1>7. FirstTurn'
  BY <1>1, <1>2 DEF FirstTurn, Announced
<1>8. Behind'
  BY <1>1 DEF Behind
<1>9. Coming'
  <2> SUFFICES ASSUME link # "closed", NEW m \in 1..stored, m \notin Shown \cup missed'
               PROVE  gap[connection].at = "asked" \/ m \in gap[connection].answer \/ OnWire(m)'
    BY <1>1 DEF Coming
  <2>1. m \notin missed /\ m \notin Shown
    BY <1>1
  <2>2. CASE m = stored
    <3>1. CASE link = "live"
      BY <1>3, <2>2, <3>1
    <3>2. CASE link = "asked"
      BY <1>1, <2>1, <2>2, <3>2 DEF PassesBy
    <3> QED
      BY <3>1, <3>2 DEF Typed
  <2>3. CASE m # stored
    BY <1>1, <1>3, <2>1, <2>3 DEF Coming
  <2> QED
    BY <2>2, <2>3
<1>10. WireInOrder'
  <2>1. \A i, j \in DOMAIN wire' :
          i < j /\ wire'[i].type = "message" /\ wire'[j].type = "message" => wire'[i].seq < wire'[j].seq
    <3>1. CASE link = "live"
      <4>1. PICK n \in DOMAIN wire' :
                /\ wire'[n] = [type |-> "message", seq |-> stored]
                /\ \A i \in DOMAIN wire : i < n
                /\ \A i \in DOMAIN wire' :
                    i \in DOMAIN wire \/ i = n \/ (stored = 1 /\ i = n + 1)
                /\ stored = 1 => n + 1 \in DOMAIN wire' /\ wire'[n + 1] = [type |-> "turn", status |-> turn]
        BY <3>1, AnnounceWire
      <4>2. \A i \in DOMAIN wire : i \in DOMAIN wire' /\ wire'[i] = wire[i]
        BY <3>1, AnnounceWire
      <4>3. \A i \in DOMAIN wire' : wire'[i].type = "message" => i \in DOMAIN wire \/ i = n
        BY <4>1
      <4>4. \A i \in DOMAIN wire : wire[i].type = "message" => wire[i].seq < stored
        <5> SUFFICES ASSUME NEW i \in DOMAIN wire, wire[i].type = "message" PROVE wire[i].seq < stored
          OBVIOUS
        <5>1. wire[i].seq \in 1..stored /\ wire[i].seq # stored
          BY <1>1 DEF OnItsWay, WireInOrder, OnWire
        <5> QED
          BY <5>1, <1>2
      <4>5. n \in Nat /\ \A i \in DOMAIN wire : i \in Nat
        BY <1>4 DEF Typed
      <4> SUFFICES ASSUME NEW i \in DOMAIN wire', NEW j \in DOMAIN wire', i < j,
                          wire'[i].type = "message", wire'[j].type = "message"
                   PROVE  wire'[i].seq < wire'[j].seq
        OBVIOUS
      <4>6. CASE j = n
        <5>1. i \in DOMAIN wire
          BY <4>3, <4>5, <4>6
        <5> QED
          BY <5>1, <4>1, <4>2, <4>4, <4>6
      <4>7. CASE j \in DOMAIN wire
        <5>1. i \in DOMAIN wire
          BY <4>1, <4>3, <4>5, <4>7
        <5> QED
          BY <5>1, <4>2, <4>7 DEF WireInOrder
      <4> QED
        BY <4>3, <4>6, <4>7
    <3>2. CASE link # "live"
      BY <1>1, <3>2 DEF WireInOrder
    <3> QED
      BY <3>1, <3>2
  <2>2. \A x \in Shown : ~(x > stored)
    BY <1>2 DEF Typed
  <2>3. missed \subseteq missed'
    BY <1>1
  <2> QED
    BY <1>1, <1>3, <2>1, <2>2, <2>3 DEF WireInOrder
<1>11. OnlyOwnDisorders'
  <2>1. missed \subseteq missed'
    BY <1>1
  <2> QED
    BY <1>1, <2>1 DEF OnlyOwnDisorders
<1>12. TurnComing'
  <2> SUFFICES ASSUME ~outdated'
               PROVE  /\ \A i \in DOMAIN wire' : wire'[i].type = "turn" =>
                            wire'[i].status = turn \/ \E j \in DOMAIN wire' : i < j /\ wire'[j].type = "turn"
                      /\ NoTurnOn' => shownTurn = turn
    BY <1>1, <1>2 DEF TurnComing, Announced
  <2>0. ~outdated /\ (stored = 1 => link = "live")
    BY <1>1
  <2>1. CASE link # "live"
    BY <1>1, <1>2, <2>0, <2>1 DEF TurnComing, Announced, NoTurnOn
  <2>2. CASE link = "live"
    <3>1. PICK n \in DOMAIN wire' :
                /\ wire'[n] = [type |-> "message", seq |-> stored]
                /\ \A i \in DOMAIN wire' :
                    i \in DOMAIN wire \/ i = n \/ (stored = 1 /\ i = n + 1)
                /\ stored = 1 => n + 1 \in DOMAIN wire' /\ wire'[n + 1] = [type |-> "turn", status |-> turn]
      BY <2>2, AnnounceWire
    <3>2. \A i \in DOMAIN wire : i \in DOMAIN wire' /\ wire'[i] = wire[i]
      BY <2>2, AnnounceWire
    <3>3. CASE stored = 1
      <4>1. NoTurnOn
        BY <1>1, <2>0, <3>3 DEF TurnComing, Announced
      <4>2. ~NoTurnOn'
        BY <3>1, <3>3 DEF NoTurnOn
      <4>3. \A i \in DOMAIN wire' : wire'[i].type = "turn" => i = n + 1
        BY <3>1, <3>2, <4>1 DEF NoTurnOn
      <4> QED
        BY <3>1, <3>3, <4>2, <4>3
    <3>4. CASE stored # 1
      <4>1. Announced
        BY <1>2, <3>4 DEF Announced
      <4>2. \A i \in DOMAIN wire' : wire'[i].type = "turn" => i \in DOMAIN wire
        BY <3>1, <3>4
      <4>3. NoTurnOn' => NoTurnOn
        BY <3>2 DEF NoTurnOn
      <4> QED
        BY <2>0, <3>2, <4>1, <4>2, <4>3 DEF TurnComing
    <3> QED
      BY <3>3, <3>4
  <2> QED
    BY <2>1, <2>2
<1> QED
  BY <1>5, <1>6, <1>7, <1>8, <1>9, <1>10, <1>11, <1>12

(* A status is broadcast when it is written; one that nobody hears is      *)
(* noted.                                                                  *)
LEMMA TurnMovesKeeps == ASSUME ViewInv, TurnMoves PROVE ViewInv'
<1> USE DEF ViewInv
<1>1. PICK status \in NextStatus :
        turn' = status /\ Broadcast(<<[type |-> "turn", status |-> status]>>)
  BY DEF TurnMoves
<1>2. /\ outdated' = (outdated \/ link # "live")
      /\ link # "live" => wire' = wire
      /\ Shown' = Shown
      /\ ~(posting /\ stored = 1)
      /\ UNCHANGED <<stored, posting, own, link, gap, replies, refetch, messages, shownTurn, missed,
                     connection, faults, refetches>>
  BY <1>1 DEF TurnMoves, Broadcast, Shown, view, bounds
<1>3. /\ turn \in {"queued", "running"} /\ turn' \in {"running", "over"} /\ turn' \in Statuses
      /\ Rank[turn] <= Rank[turn']
  BY <1>1, Ranks DEF NextStatus
<1>4. Announced /\ Announced'
  <2>1. stored # 0 /\ stored \in Nat
    BY <1>3 DEF FirstTurn, Typed
  <2> QED
    BY <1>2, <2>1 DEF Announced
<1> DEFINE event == [type |-> "turn", status |-> turn']
           n == Len(wire) + 1
<1>5. event \in Events /\ event.type = "turn" /\ event.status = turn'
  BY <1>3, TurnEvent
<1>6. ASSUME link = "live"
      PROVE  /\ wire' \in Seq(Events)
             /\ \A i \in DOMAIN wire : i \in DOMAIN wire' /\ wire'[i] = wire[i]
             /\ n \in DOMAIN wire' /\ wire'[n] = event
             /\ \A i \in DOMAIN wire' : i \in DOMAIN wire \/ i = n
             /\ \A i \in DOMAIN wire : i < n
  <2>1. wire' = wire \o <<event>>
    BY <1>1, <1>6 DEF Broadcast
  <2>2. wire \in Seq(Events) /\ <<event>> \in Seq(Events) /\ DOMAIN <<event>> = {1} /\ <<event>>[1] = event
    BY <1>5 DEF Typed
  <2> DEFINE e == <<event>>
  <2> HIDE DEF e, event
  <2>3. /\ wire' \in Seq(Events)
        /\ \A i \in DOMAIN wire : i \in DOMAIN wire' /\ wire'[i] = wire[i]
        /\ \A j \in DOMAIN e : Len(wire) + j \in DOMAIN wire' /\ wire'[Len(wire) + j] = e[j]
        /\ \A i \in DOMAIN wire' : i \in DOMAIN wire \/ \E j \in DOMAIN e : i = Len(wire) + j
    BY <2>1, <2>2, Extended DEF e
  <2>4. \A i \in DOMAIN wire : i < n
    BY <2>2
  <2> QED
    BY <2>2, <2>3, <2>4 DEF e
<1> HIDE DEF event, n
<1>7. \A m : OnWire(m)' <=> OnWire(m)
  <2>1. CASE link = "live"
    BY <1>5, <1>6, <2>1 DEF OnWire
  <2>2. CASE link # "live"
    BY <1>2, <2>2 DEF OnWire
  <2> QED
    BY <2>1, <2>2
<1>8. Typed'
  <2>1. wire' \in Seq(Events) /\ outdated' \in BOOLEAN
    BY <1>2, <1>6 DEF Typed
  <2> QED
    BY <1>2, <1>3, <2>1 DEF Typed
<1>9. OnItsWay'
  <2>1. \A m : OnWire(m)' => m \in 1..stored
    BY <1>7 DEF OnItsWay, OnWire
  <2>2. \A i \in DOMAIN wire' : wire'[i].type = "message" => wire'[i].seq \in 1..stored
    BY <2>1 DEF OnWire
  <2>3. refetch.turn = Unread \/ refetch.turn \in Statuses
    BY DEF Typed, RefetchState
  <2>4. turn \in Statuses
    BY DEF Typed
  <2>5. refetch.turn = Unread \/ Rank[refetch.turn] <= Rank[turn']
    BY <1>3, <2>3, <2>4, Ranks DEF OnItsWay
  <2> QED
    BY <1>2, <2>2, <2>5 DEF OnItsWay
<1>10. FirstTurn'
  BY <1>2, <1>3, <1>4 DEF FirstTurn, Announced
<1>11. Behind'
  BY <1>2 DEF Behind
<1>12. Coming'
  BY <1>2, <1>7 DEF Coming
<1>13. WireInOrder'
  <2>1. \A i, j \in DOMAIN wire' :
          i < j /\ wire'[i].type = "message" /\ wire'[j].type = "message" => wire'[i].seq < wire'[j].seq
    <3>1. CASE link = "live"
      <4>1. \A i \in DOMAIN wire' : wire'[i].type = "message" => i \in DOMAIN wire /\ wire'[i] = wire[i]
        BY <1>5, <1>6, <3>1
      <4> QED
        BY <4>1 DEF WireInOrder
    <3>2. CASE link # "live"
      BY <1>2, <3>2 DEF WireInOrder
    <3> QED
      BY <3>1, <3>2
  <2> QED
    BY <1>2, <1>7, <2>1 DEF WireInOrder
<1>14. OnlyOwnDisorders'
  BY <1>2 DEF OnlyOwnDisorders
<1>15. TurnComing'
  <2> SUFFICES ASSUME ~outdated'
               PROVE  /\ \A i \in DOMAIN wire' : wire'[i].type = "turn" =>
                            wire'[i].status = turn' \/ \E j \in DOMAIN wire' : i < j /\ wire'[j].type = "turn"
                      /\ ~NoTurnOn'
    BY <1>4 DEF TurnComing
  <2>1. link = "live"
    BY <1>2
  <2> QED
    BY <2>1, <1>5, <1>6 DEF NoTurnOn
<1> QED
  BY <1>8, <1>9, <1>10, <1>11, <1>12, <1>13, <1>14, <1>15

(* The subscription changes nothing but the link.                          *)
LEMMA SubscribesKeeps == ASSUME ViewInv, Subscribes PROVE ViewInv'
<1> USE DEF ViewInv
<1>1. /\ link = "asked" /\ link' = "live" /\ Shown' = Shown
      /\ UNCHANGED <<stored, posting, own, turn, wire, gap, replies, refetch, messages, shownTurn, missed, outdated,
                     connection, faults, refetches>>
  BY DEF Subscribes, Shown, server, view, notes, bounds
<1>2. Typed'
  BY <1>1 DEF Typed
<1>3. OnItsWay' /\ FirstTurn' /\ Behind' /\ Coming'
  BY <1>1 DEF OnItsWay, FirstTurn, Announced, Behind, Coming, OnWire
<1>4. WireInOrder' /\ OnlyOwnDisorders'
  BY <1>1 DEF WireInOrder, OnWire, OnlyOwnDisorders
<1>5. TurnComing'
  BY <1>1 DEF TurnComing, NoTurnOn, Announced
<1> QED
  BY <1>2, <1>3, <1>4, <1>5

(* A restart closes the connection, so nothing is promised any more, and   *)
(* notes a status that was on its way or changes.                          *)
LEMMA RestartKeeps == ASSUME ViewInv, Restart PROVE ViewInv'
<1> USE DEF ViewInv
<1>1. /\ posting' = FALSE /\ link' = "closed" /\ wire' = <<>>
      /\ faults < MaxFaults /\ faults' = faults + 1
      /\ turn' = (IF turn = "running" THEN "over" ELSE turn)
      /\ refetch' = IF refetch.under THEN [NoRefetch EXCEPT !.under = TRUE] ELSE refetch
      /\ outdated' = (outdated \/ turn = "running" \/ (posting /\ stored = 1)
                             \/ \E i \in DOMAIN wire : wire[i].type = "turn")
      /\ Shown' = Shown
      /\ UNCHANGED <<stored, own, replies, messages, shownTurn, missed, connection, refetches>>
  BY DEF Restart, Fault, Shown, view
<1>2. \A c \in Connections :
        \/ gap'[c] = [at |-> "failed", after |-> 0, answer |-> {}]
        \/ gap'[c] = gap[c] /\ gap[c].at # "asked"
  BY DEF Restart, NotAsked
<1>3. Typed'
  <2>1. gap' \in [Connections -> GapRequests]
    <3>1. [at |-> "failed", after |-> 0, answer |-> {}] \in GapRequests
      BY ViewAssumption DEF GapRequests, GapStages
    <3>2. \A c \in Connections : gap'[c] \in GapRequests
      BY <1>2, <3>1 DEF Typed
    <3>3. gap' = [c \in Connections |-> gap'[c]]
      BY DEF Restart
    <3> QED
      BY <3>2, <3>3
  <2>2. refetch' \in RefetchState
    <3>1. [NoRefetch EXCEPT !.under = TRUE] \in RefetchState
      BY DEF NoRefetch, RefetchState
    <3> QED
      BY <1>1, <3>1 DEF Typed
  <2>3. turn' \in Statuses /\ outdated' \in BOOLEAN /\ wire' \in Seq(Events)
    BY <1>1, Ranks DEF Typed
  <2>4. /\ faults' \in 0..MaxFaults /\ connection' \in Nat
        /\ connection' <= faults' + (IF link' = "closed" THEN 0 ELSE 1)
    BY <1>1, ViewAssumption DEF Typed
  <2> QED
    BY <1>1, <2>1, <2>2, <2>3, <2>4 DEF Typed
<1>4. OnItsWay'
  <2>1. \A c \in Connections :
          gap'[c].answer \subseteq 1..stored /\ (gap'[c].at # "read" => gap'[c].answer = {})
    BY <1>2 DEF OnItsWay
  <2>2. refetch' = refetch \/ refetch' = [under |-> TRUE, messages |-> Unread, turn |-> Unread]
    BY <1>1 DEF NoRefetch
  <2>3. turn \in Statuses /\ turn' \in Statuses /\ Rank[turn] <= Rank[turn']
    BY <1>1, Ranks DEF Typed
  <2>4. refetch.turn = Unread \/ refetch.turn \in Statuses
    BY DEF Typed, RefetchState
  <2>5. refetch.turn = Unread \/ Rank[refetch.turn] <= Rank[turn']
    BY <2>3, <2>4, Ranks DEF OnItsWay
  <2>6. DOMAIN wire' = {}
    BY <1>1
  <2> QED
    BY <1>1, <2>1, <2>2, <2>5, <2>6 DEF OnItsWay
<1>5. FirstTurn'
  BY <1>1 DEF FirstTurn, Announced
<1>6. Behind'
  BY <1>1, <1>2 DEF Behind
<1>7. Coming'
  BY <1>1 DEF Coming
<1>8. WireInOrder'
  BY <1>1 DEF WireInOrder, OnWire
<1>9. OnlyOwnDisorders'
  BY <1>1 DEF OnlyOwnDisorders
<1>10. TurnComing'
  <2> SUFFICES ASSUME ~outdated' PROVE TurnComing'
    BY DEF TurnComing
  <2>1. ~outdated /\ turn' = turn /\ ~(posting /\ stored = 1) /\ NoTurnOn
    BY <1>1 DEF NoTurnOn
  <2>2. Announced' <=> Announced
    BY <1>1, <2>1 DEF Announced
  <2>3. DOMAIN wire' = {}
    BY <1>1
  <2> QED
    BY <1>1, <2>1, <2>2, <2>3 DEF TurnComing, NoTurnOn
<1> QED
  BY <1>3, <1>4, <1>5, <1>6, <1>7, <1>8, <1>9, <1>10

-----------------------------------------------------------------------------

(* The gap request of a new connection.                                    *)
LEMMA AskedAfter ==
    ASSUME NEW n
    PROVE  [NotAsked EXCEPT !.at = "asked", !.after = n] = [at |-> "asked", after |-> n, answer |-> {}]
<1> DEFINE Request == [at : {"none", "asked"}, after : {0, n}, answer : {{}}]
           r == [NotAsked EXCEPT !.at = "asked", !.after = n]
           q == [at |-> "asked", after |-> n, answer |-> {}]
<1>1. NotAsked \in Request
  BY DEF NotAsked
<1>2. r \in Request /\ r.at = "asked" /\ r.after = n /\ r.answer = {}
  BY <1>1
<1>3. q \in Request /\ q.at = "asked" /\ q.after = n /\ q.answer = {}
  OBVIOUS
<1>4. \A a, b \in Request : a.at = b.at /\ a.after = b.after /\ a.answer = b.answer => a = b
  OBVIOUS
<1> HIDE DEF r, q, Request
<1>5. r = q
  BY <1>2, <1>3, <1>4
<1> QED
  BY <1>5 DEF r, q

(* A new connection asks for what follows the last message shown; what     *)
(* is missing before it is noted.                                          *)
LEMMA OpenKeeps == ASSUME ViewInv, Open PROVE ViewInv'
<1> USE DEF ViewInv
<1> DEFINE request == [at |-> "asked", after |-> LastShown, answer |-> {}]
<1>1. /\ link = "closed" /\ link' = "asked"
      /\ connection' = connection + 1
      /\ gap' = [gap EXCEPT ![connection + 1] = request]
      /\ missed' = missed \cup {m \in 1..LastShown : m \notin Shown}
      /\ Shown' = Shown
      /\ UNCHANGED <<stored, posting, own, turn, wire, replies, refetch, messages, shownTurn, outdated,
                     faults, refetches>>
  <2>1. [NotAsked EXCEPT !.at = "asked", !.after = LastShown] = request
    BY AskedAfter
  <2> HIDE DEF request
  <2>2. connection' = connection + 1 /\ gap' = [gap EXCEPT ![connection + 1] = request]
    BY <2>1 DEF Open
  <2>3. Shown' = Shown
    BY DEF Open, Shown, view
  <2> QED
    BY <2>2, <2>3 DEF Open, server, view
<1>2. LastShown \in 0..stored /\ stored \in 0..MaxMessages
  BY LastIsShown DEF Typed
<1>3. connection + 1 \in Connections
  BY <1>1, ViewAssumption DEF Typed, Connections
<1>4. request \in GapRequests
  BY <1>2, ViewAssumption DEF GapRequests, GapStages
<1>5. /\ gap'[connection + 1] = request
      /\ \A c \in Connections : c # connection + 1 => gap'[c] = gap[c]
  BY <1>1, <1>3 DEF Typed
<1>6. missed' \subseteq 1..stored /\ missed \subseteq missed' /\ 1..LastShown \subseteq Shown \cup missed'
  <2>1. 1..LastShown \subseteq 1..stored
    BY <1>2
  <2> QED
    BY <1>1, <2>1 DEF Typed
<1>7. Typed'
  <2>1. gap' \in [Connections -> GapRequests]
    BY <1>1, <1>3, <1>4 DEF Typed
  <2>2. connection' \in Nat /\ connection' <= faults + 1 /\ connection' > 0
    BY <1>1, ViewAssumption DEF Typed
  <2> QED
    BY <1>1, <1>6, <2>1, <2>2 DEF Typed
<1>8. OnItsWay'
  BY <1>1, <1>5 DEF OnItsWay
<1>9. FirstTurn'
  BY <1>1 DEF FirstTurn, Announced
<1>10. Behind'
  BY <1>1, <1>5, <1>6 DEF Behind
<1>11. Coming'
  BY <1>1, <1>5 DEF Coming
<1>12. WireInOrder' /\ OnlyOwnDisorders'
  <2>1. \A m : OnWire(m)' <=> OnWire(m)
    BY <1>1 DEF OnWire
  <2> QED
    BY <1>1, <1>6, <2>1 DEF WireInOrder, OnlyOwnDisorders
<1>13. TurnComing'
  BY <1>1 DEF TurnComing, NoTurnOn, Announced
<1> QED
  BY <1>7, <1>8, <1>9, <1>10, <1>11, <1>12, <1>13

(* A connection that is lost promises nothing; a status that was on its    *)
(* way over it is noted.                                                   *)
LEMMA DropKeeps == ASSUME ViewInv, Drop PROVE ViewInv'
<1> USE DEF ViewInv
<1>1. /\ link # "closed" /\ link' = "closed" /\ wire' = <<>> /\ DOMAIN wire' = {}
      /\ faults < MaxFaults /\ faults' = faults + 1
      /\ outdated' = (outdated \/ \E i \in DOMAIN wire : wire[i].type = "turn")
      /\ Shown' = Shown
      /\ UNCHANGED <<stored, posting, own, turn, gap, replies, refetch, messages, shownTurn, missed,
                     connection, refetches>>
  BY DEF Drop, Fault, Shown, server, view
<1>2. Typed'
  <2>1. outdated' \in BOOLEAN /\ wire' \in Seq(Events)
    BY <1>1 DEF Typed
  <2>2. faults' \in 0..MaxFaults /\ connection' <= faults' + (IF link' = "closed" THEN 0 ELSE 1)
    BY <1>1, ViewAssumption DEF Typed
  <2> QED
    BY <1>1, <2>1, <2>2 DEF Typed
<1>3. OnItsWay' /\ FirstTurn' /\ Behind' /\ Coming'
  BY <1>1 DEF OnItsWay, FirstTurn, Announced, Behind, Coming
<1>4. WireInOrder' /\ OnlyOwnDisorders'
  BY <1>1 DEF WireInOrder, OnWire, OnlyOwnDisorders
<1>5. TurnComing'
  <2> SUFFICES ASSUME ~outdated' PROVE TurnComing'
    BY DEF TurnComing
  <2>1. ~outdated /\ NoTurnOn
    BY <1>1 DEF NoTurnOn
  <2> QED
    BY <1>1, <2>1 DEF TurnComing, NoTurnOn, Announced
<1> QED
  BY <1>2, <1>3, <1>4, <1>5

(* The answer has what follows, up to the limit, without a hole; what is   *)
(* beyond is noted.                                                        *)
LEMMA GapReadKeeps == ASSUME ViewInv, NEW c \in Connections, GapRead(c) PROVE ViewInv'
<1> USE DEF ViewInv
<1> DEFINE after == {m \in 1..stored : m > gap[c].after}
           answer == {m \in after : m <= gap[c].after + Limit}
<1>1. /\ gap[c].at = "asked"
      /\ gap' = [gap EXCEPT ![c].at = "read", ![c].answer = answer]
      /\ missed' = missed \cup {m \in after : m > gap[c].after + Limit}
      /\ Shown' = Shown
      /\ UNCHANGED <<stored, posting, own, turn, link, wire, replies, refetch, messages, shownTurn, outdated,
                     connection, faults, refetches>>
  BY DEF GapRead, Shown, server, view, bounds
<1>2. gap[c].after \in Nat /\ stored \in 0..MaxMessages /\ Limit \in Nat
  BY ViewAssumption DEF Typed, GapRequests
<1>3. answer \subseteq 1..stored /\ 1..stored \subseteq 1..MaxMessages
  BY <1>2, ViewAssumption
<1>4. missed \subseteq missed' /\ missed' \subseteq 1..stored
  BY <1>1 DEF Typed
<1>5. \A m \in 1..stored : m > gap[c].after => m \in answer \cup missed'
  BY <1>1, <1>2
<1>6. \A m \in answer : \A k \in 1..m : k > gap[c].after => k \in answer
  BY <1>2
<1> HIDE DEF answer, after
<1>7. gap' \in [Connections -> GapRequests]
  <2>1. [gap[c] EXCEPT !.at = "read", !.answer = answer] \in GapRequests
    <3>1. gap[c] \in GapRequests /\ answer \in SUBSET (1..MaxMessages)
      BY <1>3 DEF Typed
    <3> QED
      BY <3>1 DEF GapRequests, GapStages
  <2>2. gap \in [Connections -> GapRequests]
    BY DEF Typed
  <2>3. gap' = [gap EXCEPT ![c] = [gap[c] EXCEPT !.at = "read", !.answer = answer]]
    BY <1>1, <2>2
  <2> QED
    BY <2>1, <2>2, <2>3
<1>8. /\ gap'[c].at = "read" /\ gap'[c].after = gap[c].after /\ gap'[c].answer = answer
      /\ \A d \in Connections : d # c => gap'[d] = gap[d]
  BY <1>1 DEF Typed, GapRequests
<1>9. Typed'
  BY <1>1, <1>4, <1>7 DEF Typed
<1>10. OnItsWay'
  <2>1. \A d \in Connections :
          gap'[d].answer \subseteq 1..stored /\ (gap'[d].at # "read" => gap'[d].answer = {})
    BY <1>3, <1>8 DEF OnItsWay
  <2> QED
    BY <1>1, <2>1 DEF OnItsWay
<1>11. FirstTurn' /\ TurnComing'
  BY <1>1 DEF FirstTurn, Announced, TurnComing, NoTurnOn
<1>12. Behind'
  <2> SUFFICES ASSUME NEW d \in Connections, gap'[d].at \in {"asked", "read"}
               PROVE  /\ 1..gap'[d].after \subseteq Shown \cup missed'
                      /\ \A m \in gap'[d].answer : \A k \in 1..m : k > gap'[d].after => k \in gap'[d].answer
    BY <1>1 DEF Behind
  <2>1. CASE d = c
    BY <1>1, <1>4, <1>6, <1>8, <2>1 DEF Behind
  <2>2. CASE d # c
    BY <1>4, <1>8, <2>2 DEF Behind
  <2> QED
    BY <2>1, <2>2
<1>13. Coming'
  <2> SUFFICES ASSUME link # "closed", NEW m \in 1..stored, m \notin Shown, m \notin missed',
                      ~OnWire(m), ~(posting /\ m = stored)
               PROVE  gap'[connection].at = "asked" \/ m \in gap'[connection].answer
    BY <1>1 DEF Coming, OnWire
  <2>1. gap[connection].at = "asked" \/ m \in gap[connection].answer
    BY <1>4 DEF Coming
  <2>2. connection \in Connections
    BY ViewAssumption DEF Typed, Connections
  <2>3. CASE connection = c
    <3>1. ~(m <= gap[c].after)
      <4>1. 1..gap[c].after \subseteq Shown \cup missed
        BY <1>1 DEF Behind
      <4> QED
        BY <4>1, <1>2, <1>4
    <3>2. m > gap[c].after
      BY <3>1, <1>2
    <3> QED
      BY <1>5, <1>8, <2>3, <3>2
  <2>4. CASE connection # c
    BY <1>8, <2>1, <2>2, <2>4
  <2> QED
    BY <2>3, <2>4
<1>14. WireInOrder' /\ OnlyOwnDisorders'
  <2>1. \A m : OnWire(m)' <=> OnWire(m)
    BY <1>1 DEF OnWire
  <2> QED
    BY <1>1, <1>4, <2>1 DEF WireInOrder, OnlyOwnDisorders
<1> QED
  BY <1>9, <1>10, <1>11, <1>12, <1>13, <1>14

(* A gap request that is over has no answer left.                          *)
LEMMA EndedAs ==
    ASSUME NEW stage
    PROVE  [NotAsked EXCEPT !.at = stage] = [at |-> stage, after |-> 0, answer |-> {}]
BY DEF NotAsked

(* A list that has just been sorted has nothing out of order.              *)
LEMMA SortedView ==
    ASSUME NEW S \in SUBSET (1..MaxMessages), messages' = Sorted(S)
    PROVE  /\ messages' \in Seq(1..MaxMessages) /\ IsInjective(messages')
           /\ Shown' = S
           /\ OnlyOwnDisorders'
<1>1. /\ messages' \in Seq(1..MaxMessages) /\ IsInjective(messages') /\ Increasing(messages')
      /\ Shown' = S
  BY ViewAssumption, SortedIsSorted DEF Shown
<1>2. \A i \in DOMAIN messages' : messages'[i] \in Nat
  <2>1. \A i \in DOMAIN messages' : messages'[i] \in S
    BY <1>1 DEF Shown, ToSet
  <2>2. \A x \in S : x \in Nat
    OBVIOUS
  <2> QED
    BY <2>1, <2>2
<1>3. OnlyOwnDisorders'
  BY <1>1, <1>2 DEF OnlyOwnDisorders, Increasing
<1> QED
  BY <1>1, <1>3

(* The answer is shown. A message still on the wire that is older than     *)
(* it is either in it or was shown or noted when the connection was        *)
(* opened.                                                                 *)
LEMMA GapArrivesKeeps == ASSUME ViewInv, NEW c \in Connections, GapArrives(c) PROVE ViewInv'
<1> USE DEF ViewInv
<1> DEFINE done == [at |-> "done", after |-> 0, answer |-> {}]
<1>1. /\ gap[c].at = "read"
      /\ messages' = Sorted(Shown \cup gap[c].answer)
      /\ gap' = [gap EXCEPT ![c] = done]
      /\ UNCHANGED <<stored, posting, own, turn, link, wire, replies, refetch, shownTurn, missed, outdated,
                     connection, faults, refetches>>
  <2>1. gap' = [gap EXCEPT ![c] = done]
    BY EndedAs DEF GapArrives
  <2> HIDE DEF done
  <2> QED
    BY <2>1 DEF GapArrives, server, notes, bounds
<1>2. /\ gap'[c] = done
      /\ \A d \in Connections : d # c => gap'[d] = gap[d]
  BY <1>1 DEF Typed
<1>3. Shown \cup gap[c].answer \subseteq 1..stored /\ 1..stored \subseteq 1..MaxMessages
  <2>1. Shown \subseteq 1..stored /\ gap[c].answer \subseteq 1..stored /\ stored \in 0..MaxMessages
    BY DEF Typed, OnItsWay
  <2>2. 1..stored \subseteq 1..MaxMessages
    BY <2>1, ViewAssumption
  <2> QED
    BY <2>1, <2>2
<1>4. /\ messages' \in Seq(1..MaxMessages) /\ IsInjective(messages')
      /\ Shown' = Shown \cup gap[c].answer
      /\ OnlyOwnDisorders'
  BY <1>1, <1>3, SortedView
<1>5. Typed'
  <2>1. gap' \in [Connections -> GapRequests]
    <3>1. done \in GapRequests
      BY ViewAssumption DEF GapRequests, GapStages
    <3> HIDE DEF done
    <3> QED
      BY <1>1, <3>1 DEF Typed
  <2> QED
    BY <1>1, <1>3, <1>4, <2>1 DEF Typed
<1>6. OnItsWay'
  <2>1. \A d \in Connections :
          gap'[d].answer \subseteq 1..stored /\ (gap'[d].at # "read" => gap'[d].answer = {})
    BY <1>2 DEF OnItsWay
  <2> QED
    BY <1>1, <2>1 DEF OnItsWay
<1>7. FirstTurn' /\ TurnComing'
  BY <1>1 DEF FirstTurn, Announced, TurnComing, NoTurnOn
<1>8. Behind'
  BY <1>1, <1>2, <1>4 DEF Behind
<1>9. \A m : OnWire(m)' <=> OnWire(m)
  BY <1>1 DEF OnWire
<1>10. Coming'
  <2> SUFFICES ASSUME link # "closed", NEW m \in 1..stored, m \notin Shown', m \notin missed,
                      ~OnWire(m), ~(posting /\ m = stored)
               PROVE  gap'[connection].at = "asked" \/ m \in gap'[connection].answer
    BY <1>1, <1>9 DEF Coming
  <2>1. gap[connection].at = "asked" \/ m \in gap[connection].answer
    BY <1>4 DEF Coming
  <2>2. connection \in Connections
    BY ViewAssumption DEF Typed, Connections
  <2> QED
    BY <1>1, <1>2, <1>4, <2>1, <2>2
<1>11. WireInOrder'
  <2> SUFFICES ASSUME NEW m \in 1..stored, OnWire(m), m \notin Shown' \cup missed \cup own,
                      NEW x \in Shown', x > m
               PROVE  x \in own
    BY <1>1, <1>9 DEF WireInOrder
  <2>1. CASE x \in Shown
    BY <1>4, <2>1 DEF WireInOrder
  <2>2. CASE x \in gap[c].answer
    <3>1. x \in 1..stored /\ stored \in Nat /\ gap[c].after \in Nat
      BY <2>2, <1>3 DEF Typed, GapRequests
    <3>2. m \in 1..x /\ (m \in 1..gap[c].after \/ m > gap[c].after)
      BY <3>1
    <3>3. m \in Shown \cup missed \/ m \in gap[c].answer
      BY <1>1, <2>2, <3>2 DEF Behind
    <3> QED
      BY <1>4, <3>3
  <2> QED
    BY <1>4, <2>1, <2>2
<1> QED
  BY <1>4, <1>5, <1>6, <1>7, <1>8, <1>10, <1>11

(* What a failed request asked for is noted.                               *)
LEMMA GapFailsKeeps == ASSUME ViewInv, NEW c \in Connections, GapFails(c) PROVE ViewInv'
<1> USE DEF ViewInv
<1> DEFINE failed == [at |-> "failed", after |-> 0, answer |-> {}]
<1>1. /\ gap[c].at \in {"asked", "read"}
      /\ faults < MaxFaults /\ faults' = faults + 1
      /\ gap' = [gap EXCEPT ![c] = failed]
      /\ missed' = missed \cup {m \in 1..stored : m > gap[c].after}
      /\ Shown' = Shown
      /\ UNCHANGED <<stored, posting, own, turn, link, wire, replies, refetch, messages, shownTurn, outdated,
                     connection, refetches>>
  <2>1. gap' = [gap EXCEPT ![c] = failed]
    BY EndedAs DEF GapFails
  <2> HIDE DEF failed
  <2> QED
    BY <2>1 DEF GapFails, Fault, Shown, server, view
<1>2. /\ gap'[c] = failed
      /\ \A d \in Connections : d # c => gap'[d] = gap[d]
  BY <1>1 DEF Typed
<1>3. missed \subseteq missed' /\ missed' \subseteq 1..stored
  BY <1>1 DEF Typed
<1>4. Typed'
  <2>1. gap' \in [Connections -> GapRequests]
    <3>1. failed \in GapRequests
      BY ViewAssumption DEF GapRequests, GapStages
    <3> HIDE DEF failed
    <3> QED
      BY <1>1, <3>1 DEF Typed
  <2>2. faults' \in 0..MaxFaults /\ connection' <= faults' + (IF link' = "closed" THEN 0 ELSE 1)
    BY <1>1, ViewAssumption DEF Typed
  <2> QED
    BY <1>1, <1>3, <2>1, <2>2 DEF Typed
<1>5. OnItsWay'
  <2>1. \A d \in Connections :
          gap'[d].answer \subseteq 1..stored /\ (gap'[d].at # "read" => gap'[d].answer = {})
    BY <1>2 DEF OnItsWay
  <2> QED
    BY <1>1, <2>1 DEF OnItsWay
<1>6. FirstTurn' /\ TurnComing'
  BY <1>1 DEF FirstTurn, Announced, TurnComing, NoTurnOn
<1>7. Behind'
  BY <1>1, <1>2, <1>3 DEF Behind
<1>8. \A m : OnWire(m)' <=> OnWire(m)
  BY <1>1 DEF OnWire
<1>9. Coming'
  <2> SUFFICES ASSUME link # "closed", NEW m \in 1..stored, m \notin Shown, m \notin missed',
                      ~OnWire(m), ~(posting /\ m = stored)
               PROVE  gap'[connection].at = "asked" \/ m \in gap'[connection].answer
    BY <1>1, <1>8 DEF Coming
  <2>1. gap[connection].at = "asked" \/ m \in gap[connection].answer
    BY <1>3 DEF Coming
  <2>2. connection \in Connections
    BY ViewAssumption DEF Typed, Connections
  <2>3. CASE connection = c
    <3>1. 1..gap[c].after \subseteq Shown \cup missed
      BY <1>1 DEF Behind
    <3>2. gap[c].after \in Nat /\ stored \in Nat
      BY DEF Typed, GapRequests
    <3>3. m \in 1..gap[c].after \/ m > gap[c].after
      BY <3>2
    <3> QED
      BY <1>1, <3>1, <3>3
  <2>4. CASE connection # c
    BY <1>2, <2>1, <2>2, <2>4
  <2> QED
    BY <2>3, <2>4
<1>10. WireInOrder' /\ OnlyOwnDisorders'
  BY <1>1, <1>3, <1>8 DEF WireInOrder, OnlyOwnDisorders
<1> QED
  BY <1>4, <1>5, <1>6, <1>7, <1>9, <1>10

-----------------------------------------------------------------------------

(* A message added at the end breaks the order only where                  *)
(* OnlyOwnDisorders allows it, if every newer message shown is an own      *)
(* one, or it is itself own, shown or noted.                               *)
LEMMA AppendedInOrder ==
    ASSUME Typed, OnlyOwnDisorders, NEW m \in 1..MaxMessages, messages' = Added(m),
           own' = own, missed' = missed,
           m \in Shown \cup missed \cup own \/ \A x \in Shown : x > m => x \in own
    PROVE  OnlyOwnDisorders'
<1> SUFFICES ASSUME NEW i \in DOMAIN messages', NEW j \in DOMAIN messages', i < j, messages'[i] > messages'[j]
             PROVE  (own \cap {messages'[i], messages'[j]}) \cup (missed \cap {messages'[j]}) # {}
  BY DEF OnlyOwnDisorders
<1>1. /\ \A k \in DOMAIN messages : k \in DOMAIN messages' /\ messages'[k] = messages[k]
      /\ \A k \in DOMAIN messages' : k \in DOMAIN messages
                \/ (messages'[k] = m /\ \A l \in DOMAIN messages' : l <= k)
      /\ messages' \in Seq(1..MaxMessages)
  BY ShownOnce
<1>2. i \in Nat /\ j \in Nat
  BY <1>1
<1>3. i \in DOMAIN messages
  BY <1>1, <1>2
<1>4. CASE j \in DOMAIN messages
  BY <1>1, <1>3, <1>4 DEF OnlyOwnDisorders
<1>5. CASE j \notin DOMAIN messages
  <2>1. messages'[j] = m /\ messages'[i] = messages[i] /\ messages[i] \in Shown
    BY <1>1, <1>3, <1>5 DEF Shown, ToSet
  <2>2. m \notin Shown
    BY <1>5 DEF Added
  <2> QED
    BY <2>1, <2>2
<1> QED
  BY <1>4, <1>5

(* An event of the wire: the oldest message on it is shown, or the         *)
(* status is.                                                              *)
LEMMA ReceiveKeeps == ASSUME ViewInv, Receive PROVE ViewInv'
<1> USE DEF ViewInv
<1> DEFINE event == wire[1]
<1>1. wire # <<>> /\ wire \in Seq(Events) /\ wire' = Tail(wire)
  BY DEF Receive, Typed
<1>2. /\ wire' \in Seq(Events) /\ Head(wire) = event /\ 1 \in DOMAIN wire /\ event \in Events
      /\ \A i \in DOMAIN wire' : i + 1 \in DOMAIN wire /\ wire'[i] = wire[i + 1]
      /\ \A i \in DOMAIN wire : i = 1 \/ (i - 1 \in DOMAIN wire' /\ wire'[i - 1] = wire[i])
  BY <1>1, Shortened
<1>3. (\A i \in DOMAIN wire : i \in Nat /\ i >= 1) /\ (\A i \in DOMAIN wire' : i \in Nat /\ i >= 1)
  BY <1>1, <1>2
<1>4. UNCHANGED <<stored, posting, own, turn, link, gap, replies, refetch, missed, outdated,
                  connection, faults, refetches>>
  BY DEF Receive, server, notes, bounds
<1>5. /\ \A m : OnWire(m)' => OnWire(m)
      /\ \A m : OnWire(m) => OnWire(m)' \/ (event.type = "message" /\ event.seq = m)
  BY <1>2 DEF OnWire
<1>6. OnItsWay' /\ FirstTurn'
  <2>1. \A i \in DOMAIN wire' : wire'[i].type = "message" => wire'[i].seq \in 1..stored
    BY <1>2 DEF OnItsWay
  <2> QED
    BY <1>4, <2>1 DEF OnItsWay, FirstTurn, Announced
<1>7. \A i, j \in DOMAIN wire' :
        i < j /\ wire'[i].type = "message" /\ wire'[j].type = "message" => wire'[i].seq < wire'[j].seq
  <2> SUFFICES ASSUME NEW i \in DOMAIN wire', NEW j \in DOMAIN wire', i < j,
                      wire'[i].type = "message", wire'[j].type = "message"
               PROVE  wire'[i].seq < wire'[j].seq
    OBVIOUS
  <2>1. i + 1 < j + 1
    BY <1>3
  <2> QED
    BY <1>2, <2>1 DEF WireInOrder
<1>8. CASE event.type = "message"
  <2> DEFINE m == event.seq
  <2>1. messages' = Added(m) /\ shownTurn' = shownTurn
    BY <1>2, <1>8 DEF Receive
  <2>2. OnWire(m)
    BY <1>2, <1>8 DEF OnWire
  <2>3. m \in 1..stored /\ m \in 1..MaxMessages
    BY <1>2, <1>8, EventFields DEF OnItsWay
  <2>4. messages' \in Seq(1..MaxMessages) /\ IsInjective(messages') /\ Shown' = Shown \cup {m}
    BY <2>1, <2>3, ShownOnce DEF Shown
  <2>5. Typed'
    BY <1>2, <1>4, <2>1, <2>3, <2>4 DEF Typed
  <2>6. Behind'
    BY <1>4, <2>4 DEF Behind
  <2>7. Coming'
    BY <1>4, <1>5, <2>4 DEF Coming
  <2>8. m \in Shown \cup missed \cup own \/ \A x \in Shown : x > m => x \in own
    BY <2>2, <2>3 DEF WireInOrder
  <2>9. OnlyOwnDisorders'
    BY <1>4, <2>1, <2>3, <2>8, AppendedInOrder
  <2>10. WireInOrder'
    <3>1. \A k \in 1..stored : OnWire(k)' => k >= m
      <4> SUFFICES ASSUME NEW k \in 1..stored, NEW i \in DOMAIN wire', wire'[i].type = "message", wire'[i].seq = k
                   PROVE  k >= m
        BY DEF OnWire
      <4>1. i + 1 \in DOMAIN wire /\ 1 < i + 1 /\ wire[i + 1].type = "message" /\ wire[i + 1].seq = k
        BY <1>2, <1>3
      <4>2. m < k
        BY <1>2, <1>8, <4>1 DEF WireInOrder
      <4>3. stored \in Nat
        BY DEF Typed
      <4> QED
        BY <4>2, <4>3, <2>3
    <3>2. posting' => ~OnWire(stored)'
      BY <1>4, <1>5 DEF WireInOrder
    <3>3. ASSUME NEW k \in 1..stored, OnWire(k)', k \notin Shown' \cup missed \cup own, NEW x \in Shown', x > k
          PROVE  x \in own
      <4>1. k >= m /\ OnWire(k) /\ k \notin Shown
        BY <1>5, <2>4, <3>1, <3>3
      <4>2. x # m
        <5>1. k \in Nat /\ m \in Nat
          BY <2>3 DEF Typed
        <5> HIDE DEF m
        <5> QED
          BY <4>1, <5>1, <3>3
      <4>3. x \in Shown
        BY <2>4, <3>3, <4>2
      <4> QED
        BY <3>3, <4>1, <4>3 DEF WireInOrder
    <3> QED
      BY <1>4, <1>7, <3>2, <3>3 DEF WireInOrder
  <2>11. TurnComing'
    <3> SUFFICES ASSUME ~outdated PROVE TurnComing'
      BY <1>4 DEF TurnComing
    <3>1. Announced' <=> Announced
      BY <1>4 DEF Announced
    <3>2. NoTurnOn' <=> NoTurnOn
      BY <1>2, <1>8 DEF NoTurnOn
    <3>3. ASSUME NEW i \in DOMAIN wire', wire'[i].type = "turn"
          PROVE  wire'[i].status = turn \/ \E j \in DOMAIN wire' : i < j /\ wire'[j].type = "turn"
      <4>1. i + 1 \in DOMAIN wire /\ wire[i + 1].type = "turn" /\ wire'[i].status = wire[i + 1].status
        BY <1>2, <3>3
      <4>2. CASE wire[i + 1].status = turn
        BY <4>1, <4>2
      <4>3. CASE wire[i + 1].status # turn
        <5>1. PICK j \in DOMAIN wire : i + 1 < j /\ wire[j].type = "turn"
          BY <4>1, <4>3 DEF TurnComing
        <5>2. j # 1 /\ i < j - 1
          BY <5>1, <1>3
        <5> QED
          BY <5>1, <5>2, <1>2
      <4> QED
        BY <4>2, <4>3
    <3> QED
      BY <1>4, <2>1, <3>1, <3>2, <3>3 DEF TurnComing
  <2> QED
    BY <1>6, <2>5, <2>6, <2>7, <2>9, <2>10, <2>11
<1>9. CASE event.type # "message"
  <2>0. event.type = "turn" /\ event.status \in Statuses
    BY <1>2, <1>9, EventFields
  <2>1. messages' = messages /\ shownTurn' = event.status /\ Shown' = Shown
    BY <1>2, <1>9 DEF Receive, Shown
  <2>2. \A m : OnWire(m)' <=> OnWire(m)
    BY <1>5, <1>9
  <2>3. Typed'
    BY <1>2, <1>4, <2>0, <2>1 DEF Typed
  <2>4. Behind' /\ Coming'
    BY <1>4, <2>1, <2>2 DEF Behind, Coming
  <2>5. WireInOrder' /\ OnlyOwnDisorders'
    BY <1>4, <1>7, <2>1, <2>2 DEF WireInOrder, OnlyOwnDisorders
  <2>6. TurnComing'
    <3> SUFFICES ASSUME ~outdated PROVE TurnComing'
      BY <1>4 DEF TurnComing
    <3>1. Announced' /\ Announced
      BY <1>2, <1>4, <2>0 DEF TurnComing, NoTurnOn, Announced
    <3>2. ASSUME NEW i \in DOMAIN wire', wire'[i].type = "turn"
          PROVE  wire'[i].status = turn \/ \E j \in DOMAIN wire' : i < j /\ wire'[j].type = "turn"
      <4>1. i + 1 \in DOMAIN wire /\ wire[i + 1].type = "turn" /\ wire'[i].status = wire[i + 1].status
        BY <1>2, <3>2
      <4>2. CASE wire[i + 1].status = turn
        BY <4>1, <4>2
      <4>3. CASE wire[i + 1].status # turn
        <5>1. PICK j \in DOMAIN wire : i + 1 < j /\ wire[j].type = "turn"
          BY <4>1, <4>3 DEF TurnComing
        <5>2. j # 1 /\ i < j - 1
          BY <5>1, <1>3
        <5> QED
          BY <5>1, <5>2, <1>2
      <4> QED
        BY <4>2, <4>3
    <3>3. ASSUME NoTurnOn' PROVE event.status = turn
      <4>1. \A j \in DOMAIN wire : 1 < j => wire[j].type # "turn"
        BY <1>2, <1>3, <3>3 DEF NoTurnOn
      <4> QED
        BY <1>2, <2>0, <4>1 DEF TurnComing
    <3> QED
      BY <1>4, <2>1, <3>1, <3>2, <3>3 DEF TurnComing
  <2> QED
    BY <1>6, <2>3, <2>4, <2>5, <2>6
<1> QED
  BY <1>8, <1>9

(* The answer to an own post: the first message has its turn by now.       *)
LEMMA SentKeeps == ASSUME ViewInv, NEW m \in 1..MaxMessages, Sent(m) PROVE ViewInv'
<1> USE DEF ViewInv
<1>1. /\ m \in replies /\ replies' = replies \ {m}
      /\ messages' = Added(m)
      /\ shownTurn' = (IF m = 1 /\ shownTurn = "none" THEN "queued" ELSE shownTurn)
      /\ UNCHANGED <<stored, posting, own, turn, link, wire, gap, refetch, missed, outdated,
                     connection, faults, refetches>>
  BY DEF Sent, server, notes, bounds
<1>2. m \in own /\ m \in 1..stored
  BY <1>1 DEF Typed
<1>3. messages' \in Seq(1..MaxMessages) /\ IsInjective(messages') /\ Shown' = Shown \cup {m}
  BY <1>1, ShownOnce DEF Shown
<1>4. Typed'
  BY <1>1, <1>2, <1>3, Ranks DEF Typed
<1>5. OnItsWay' /\ FirstTurn'
  BY <1>1 DEF OnItsWay, FirstTurn, Announced
<1>6. \A k : OnWire(k)' <=> OnWire(k)
  BY <1>1 DEF OnWire
<1>7. Behind' /\ Coming'
  BY <1>1, <1>3, <1>6 DEF Behind, Coming
<1>8. WireInOrder'
  BY <1>1, <1>2, <1>3, <1>6 DEF WireInOrder
<1>9. OnlyOwnDisorders'
  BY <1>1, <1>2, AppendedInOrder
<1>10. TurnComing'
  <2> SUFFICES ASSUME ~outdated PROVE TurnComing'
    BY <1>1 DEF TurnComing
  <2>1. Announced /\ Announced' /\ (NoTurnOn' <=> NoTurnOn) /\ turn # "none"
    BY <1>1, <1>2 DEF FirstTurn, Announced, NoTurnOn, Typed
  <2> QED
    BY <1>1, <2>1 DEF TurnComing
<1> QED
  BY <1>4, <1>5, <1>7, <1>8, <1>9, <1>10

(* A refetch begins.                                                       *)
LEMMA RefetchKeeps == ASSUME ViewInv, Refetch PROVE ViewInv'
<1> USE DEF ViewInv
<1>1. /\ refetch' = [under |-> TRUE, messages |-> Unread, turn |-> Unread] /\ refetch' \in RefetchState
      /\ Shown' = Shown
      /\ UNCHANGED <<stored, posting, own, turn, link, wire, gap, replies, messages, shownTurn, missed, outdated,
                     connection, faults>>
  BY DEF Refetch, NoRefetch, RefetchState, Shown, server, view, notes
<1>2. Typed'
  BY <1>1 DEF Typed
<1>3. OnItsWay' /\ FirstTurn' /\ Behind' /\ Coming'
  BY <1>1 DEF OnItsWay, FirstTurn, Announced, Behind, Coming, OnWire
<1>4. WireInOrder' /\ OnlyOwnDisorders'
  BY <1>1 DEF WireInOrder, OnWire, OnlyOwnDisorders
<1>5. TurnComing'
  BY <1>1 DEF TurnComing, NoTurnOn, Announced
<1> QED
  BY <1>2, <1>3, <1>4, <1>5

(* A refetch reads the last messages, or the turn, as they are.            *)
LEMMA RefetchReadsKeeps == ASSUME ViewInv, RefetchReads PROVE ViewInv'
<1> USE DEF ViewInv
<1>1. /\ Shown' = Shown
      /\ UNCHANGED <<stored, posting, own, turn, link, wire, gap, replies, messages, shownTurn, missed, outdated,
                     connection, faults, refetches>>
  BY DEF RefetchReads, Shown, server, view, notes, bounds
<1> DEFINE answer == {m \in 1..stored : m + Limit > stored}
<1>2. \/ refetch' = [refetch EXCEPT !.messages = answer]
      \/ refetch' = [refetch EXCEPT !.turn = turn]
  BY DEF RefetchReads
<1>3. answer \subseteq 1..stored /\ answer \in SUBSET (1..MaxMessages)
  <2>1. 1..stored \subseteq 1..MaxMessages
    BY ViewAssumption DEF Typed
  <2> QED
    BY <2>1
<1> HIDE DEF answer
<1>4. refetch \in RefetchState /\ turn \in Statuses /\ Rank[turn] \in Nat
  BY Ranks DEF Typed
<1>5. refetch' \in RefetchState
  BY <1>2, <1>3, <1>4 DEF RefetchState
<1>6. /\ refetch'.messages \in {refetch.messages, answer}
      /\ refetch'.turn \in {refetch.turn, turn}
  BY <1>2, <1>4 DEF RefetchState
<1>7. Typed'
  BY <1>1, <1>5 DEF Typed
<1>8. OnItsWay'
  <2>1. refetch'.messages = Unread \/ refetch'.messages \subseteq 1..stored
    BY <1>3, <1>6 DEF OnItsWay
  <2>2. refetch'.turn = Unread \/ Rank[refetch'.turn] <= Rank[turn]
    BY <1>4, <1>6 DEF OnItsWay
  <2> QED
    BY <1>1, <2>1, <2>2 DEF OnItsWay
<1>9. FirstTurn' /\ Behind' /\ Coming'
  BY <1>1 DEF FirstTurn, Announced, Behind, Coming, OnWire
<1>10. WireInOrder' /\ OnlyOwnDisorders'
  BY <1>1 DEF WireInOrder, OnWire, OnlyOwnDisorders
<1>11. TurnComing'
  BY <1>1 DEF TurnComing, NoTurnOn, Announced
<1> QED
  BY <1>7, <1>8, <1>9, <1>10, <1>11

(* What was read replaces what is shown. What is older than it and is      *)
(* not in it is noted, and so is a turn that goes back: without the        *)
(* note, what is read is between what is shown and what is.                *)
LEMMA RefetchReplacesKeeps == ASSUME ViewInv, RefetchReplaces PROVE ViewInv'
<1> USE DEF ViewInv
<1>1. /\ refetch.messages # Unread /\ refetch.turn # Unread
      /\ messages' = Sorted(refetch.messages) /\ shownTurn' = refetch.turn
      /\ refetch' = NoRefetch
      /\ missed' = missed \cup LeftOut
      /\ outdated' = (outdated \/ Rank[refetch.turn] < Rank[shownTurn])
      /\ UNCHANGED <<stored, posting, own, turn, link, wire, gap, replies, connection, faults, refetches>>
  BY DEF RefetchReplaces, server, bounds
<1>2. /\ refetch.messages \subseteq 1..stored /\ 1..stored \subseteq 1..MaxMessages
      /\ refetch.turn \in Statuses /\ Rank[refetch.turn] <= Rank[turn]
  <2>1. refetch.messages \subseteq 1..stored /\ Rank[refetch.turn] <= Rank[turn]
    BY <1>1 DEF OnItsWay
  <2>2. 1..stored \subseteq 1..MaxMessages
    BY ViewAssumption DEF Typed
  <2>3. refetch.turn \in Statuses
    BY <1>1 DEF Typed, RefetchState
  <2> QED
    BY <2>1, <2>2, <2>3
<1>3. /\ messages' \in Seq(1..MaxMessages) /\ IsInjective(messages')
      /\ Shown' = refetch.messages
      /\ OnlyOwnDisorders'
  BY <1>1, <1>2, SortedView
<1>4. /\ missed \subseteq missed' /\ missed' \subseteq 1..stored
      /\ Shown \subseteq Shown' \cup missed'
      /\ \A x \in Shown' : \A m \in 1..stored : m < x => m \in Shown' \cup missed'
  BY <1>1, <1>2, <1>3 DEF LeftOut, Typed
<1>5. Typed'
  <2>1. refetch' \in RefetchState
    BY <1>1 DEF NoRefetch, RefetchState
  <2>2. outdated' \in BOOLEAN
    BY <1>1 DEF Typed
  <2> QED
    BY <1>1, <1>2, <1>3, <1>4, <2>1, <2>2 DEF Typed
<1>6. OnItsWay' /\ FirstTurn'
  <2>1. refetch'.messages = Unread /\ refetch'.turn = Unread
    BY <1>1 DEF NoRefetch
  <2> QED
    BY <1>1, <2>1 DEF OnItsWay, FirstTurn, Announced
<1>7. \A k : OnWire(k)' <=> OnWire(k)
  BY <1>1 DEF OnWire
<1>8. Behind'
  BY <1>1, <1>4 DEF Behind
<1>9. Coming'
  BY <1>1, <1>4, <1>7 DEF Coming
<1>10. WireInOrder'
  <2> SUFFICES ASSUME NEW m \in 1..stored, NEW x \in Shown', x > m PROVE m \in Shown' \cup missed'
    BY <1>1, <1>7 DEF WireInOrder
  <2>1. m < x
    BY <1>2, <1>3 DEF Typed
  <2> QED
    BY <1>4, <2>1
<1>11. TurnComing'
  <2> SUFFICES ASSUME ~outdated' PROVE TurnComing'
    BY DEF TurnComing
  <2>1. ~outdated /\ ~(Rank[refetch.turn] < Rank[shownTurn])
    BY <1>1
  <2>2. (Announced' <=> Announced) /\ (NoTurnOn' <=> NoTurnOn)
    BY <1>1 DEF Announced, NoTurnOn
  <2>3. turn \in Statuses /\ shownTurn \in Statuses
    BY DEF Typed
  <2>4. ASSUME ~Announced PROVE NoTurnOn /\ refetch.turn \in {"none", turn}
    <3>1. turn \in {"none", "queued"}
      BY <2>4 DEF FirstTurn, Announced, Typed
    <3> QED
      BY <1>2, <2>1, <2>4, <3>1, Ranks DEF TurnComing
  <2>5. ASSUME Announced, NoTurnOn PROVE refetch.turn = turn
    <3>1. shownTurn = turn
      BY <2>1, <2>5 DEF TurnComing
    <3> QED
      BY <1>2, <2>1, <2>3, <3>1, Ranks
  <2> QED
    BY <1>1, <2>1, <2>2, <2>4, <2>5 DEF TurnComing
<1> QED
  BY <1>3, <1>5, <1>6, <1>8, <1>9, <1>10, <1>11

-----------------------------------------------------------------------------

(* Every step keeps the invariant.                                         *)
LEMMA StepKeeps == ViewInv /\ [Next]_vars => ViewInv'
<1> SUFFICES ASSUME ViewInv, [Next]_vars PROVE ViewInv'
  OBVIOUS
<1>1. CASE \E mine \in BOOLEAN : Post(mine)
  BY <1>1, PostKeeps
<1>2. CASE Announce \/ TurnMoves \/ Subscribes \/ Restart
  BY <1>2, AnnounceKeeps, TurnMovesKeeps, SubscribesKeeps, RestartKeeps
<1>3. CASE Open \/ Drop
  BY <1>3, OpenKeeps, DropKeeps
<1>4. CASE \E c \in Connections : GapRead(c) \/ GapArrives(c) \/ GapFails(c)
  BY <1>4, GapReadKeeps, GapArrivesKeeps, GapFailsKeeps
<1>5. CASE Receive \/ \E m \in 1..MaxMessages : Sent(m)
  BY <1>5, ReceiveKeeps, SentKeeps
<1>6. CASE Refetch \/ RefetchReads \/ RefetchReplaces
  BY <1>6, RefetchKeeps, RefetchReadsKeeps, RefetchReplacesKeeps
<1>7. CASE UNCHANGED vars
  <2>1. /\ Shown' = Shown
        /\ UNCHANGED <<stored, posting, own, turn, link, wire, gap, replies, refetch, messages, shownTurn,
                       missed, outdated, connection, faults, refetches>>
    BY <1>7 DEF vars, Shown
  <2>2. Typed' /\ OnItsWay' /\ FirstTurn' /\ Behind'
    BY <2>1 DEF ViewInv, Typed, OnItsWay, FirstTurn, Announced, Behind
  <2>3. Coming' /\ WireInOrder' /\ OnlyOwnDisorders' /\ TurnComing'
    BY <2>1 DEF ViewInv, Coming, WireInOrder, OnWire, OnlyOwnDisorders, TurnComing, NoTurnOn, Announced
  <2> QED
    BY <2>2, <2>3 DEF ViewInv
<1> QED
  BY <1>1, <1>2, <1>3, <1>4, <1>5, <1>6, <1>7 DEF Next

(* The inductive invariant holds in every state.                           *)
THEOREM ViewInvariant == Spec => []ViewInv
<1>1. Init => ViewInv
  BY InitKeeps
<1>2. ViewInv /\ [Next]_vars => ViewInv'
  BY StepKeeps
<1> QED
  BY <1>1, <1>2, PTL DEF Spec

(* The variables keep their types and a message is shown once.             *)
THEOREM ViewTypeOK == Spec => []TypeOK
<1>1. ViewInv => TypeOK
  <2> SUFFICES ASSUME ViewInv PROVE TypeOK
    OBVIOUS
  <2>1. \A i \in DOMAIN wire : wire[i].type \in {"message", "turn"}
    <3>1. \A i \in DOMAIN wire : wire[i] \in Events
      BY DEF ViewInv, Typed
    <3> QED
      BY <3>1, EventFields
  <2>2. \A c \in Connections :
          gap[c].at \in {"none", "asked", "read", "done", "failed"} /\ gap[c].answer \subseteq 1..stored
    BY DEF ViewInv, Typed, OnItsWay, GapRequests, GapStages
  <2>3. refetch.under \in BOOLEAN
    BY DEF ViewInv, Typed, RefetchState
  <2> QED
    BY <2>1, <2>2, <2>3 DEF ViewInv, Typed, TypeOK
<1> QED
  BY <1>1, ViewInvariant, PTL

(* When nothing is on its way, every message of the room is shown but      *)
(* for those that passed the tab by for a noted reason                     *)
(* (useRoomSocket.ts:30-38, hub.ts:169-174).                               *)
THEOREM EverythingArrives == Spec => []NothingElseMissed
<1>1. ViewInv => NothingElseMissed
  <2> SUFFICES ASSUME ViewInv, Quiet, NEW m \in 1..stored, m \notin Shown, m \notin missed PROVE FALSE
    BY DEF NothingElseMissed
  <2>1. connection \in Connections
    BY ViewAssumption DEF ViewInv, Typed, Connections, Quiet
  <2>2. gap[connection].at # "asked" /\ gap[connection].answer = {}
    BY <2>1 DEF Quiet, ViewInv, OnItsWay
  <2>3. ~OnWire(m)
    BY DEF Quiet, OnWire
  <2> QED
    BY <2>2, <2>3 DEF ViewInv, Coming, Quiet
<1> QED
  BY <1>1, ViewInvariant, PTL

(* The list is out of order only where an own message was shown early,     *)
(* or a refetch had left the later one out (rooms.$roomId.tsx:112, :139,   *)
(* :141).                                                                  *)
THEOREM OrderedButForOwn == Spec => []OnlyOwnDisorders
<1>1. ViewInv => OnlyOwnDisorders
  BY DEF ViewInv
<1> QED
  BY <1>1, ViewInvariant, PTL

(* When nothing is on its way, the tab shows the turn as it is, unless a   *)
(* status passed it by (useRoomSocket.ts:33-38).                           *)
THEOREM TurnIsFollowed == Spec => []TurnFollows
<1>1. ViewInv => TurnFollows
  <2> SUFFICES ASSUME ViewInv, Quiet, ~outdated PROVE shownTurn = turn
    BY DEF TurnFollows
  <2>1. NoTurnOn /\ ~posting
    BY DEF Quiet, NoTurnOn
  <2>2. CASE Announced
    BY <2>1, <2>2 DEF ViewInv, TurnComing
  <2>3. CASE ~Announced
    <3>1. stored = 0
      BY <2>1, <2>3 DEF Announced, ViewInv, Typed
    <3> QED
      BY <2>3, <3>1 DEF ViewInv, TurnComing, FirstTurn
  <2> QED
    BY <2>2, <2>3
<1> QED
  BY <1>1, ViewInvariant, PTL

(***************************************************************************)
(* The drafts of agents                                                    *)
(***************************************************************************)
(* What differs from the agent was typed here: in a draft, and on a page   *)
(* that may still be saved or stored.                                      *)
TypedDraft(d) ==
    ~d.bereft => /\ d.name # d.base.name => d.name \in typed
                 /\ d.dirty => d.blocks \in typed

TypedPage(i) ==
    page[i].at = "open" /\ ~page[i].blocked /\ save[i].at # "saved" => TypedDraft(Draft(page[i]))

(* A page that waits for an answer keeps its editor, and when the loader   *)
(* has blocked it the loader will not answer again, as it does not answer  *)
(* a page that was left.                                                   *)
Waits(i) ==
    /\ page[i].at = "away" => page[i].ask = "no"
    /\ Pending(i) => page[i].editor /\ (page[i].blocked => page[i].ask = "no")
    /\ save[i].at \in {"no", "saved"} => save[i].patch = NoBot /\ ~save[i].left

(* SavesOnlyTyped and StorageFollows, of one tab.                          *)
SavesTyped(i) ==
    ~page[i].bereft /\ ~save[i].left => \A f \in {"name", "instr"} : save[i].patch[f] \in typed \cup {0}

Follows(i) ==
    writer = i =>
        /\ Pending(i) /\ save[i].at = "saved" => storage = NoDraft
        /\ Flushes(i) /\ ~page[i].timer => storage = Draft(page[i])

Tab(i) == TypedPage(i) /\ Waits(i) /\ SavesTyped(i) /\ Follows(i)

DraftsInv == DraftsTypeOK /\ TypedDraft(storage) /\ \A i \in Tabs : Tab(i)

(* The values that stand for nothing are of their types.                   *)
LEMMA Constants ==
    ASSUME last \in Nat
    PROVE  NoBot \in Bots /\ NoDraft \in Drafts /\ Away \in Pages /\ NoSave \in Saves
<1>1. 0 \in 0..last /\ 0 \in -last..last
  OBVIOUS
<1>2. NoBot \in Bots
  BY <1>1 DEF NoBot, Bots
<1>3. NoDraft \in Drafts
  BY <1>1, <1>2 DEF NoDraft, Drafts
<1>4. Away \in Pages
  BY <1>1, <1>2 DEF Away, Pages
<1>5. NoSave \in Saves
  BY <1>2 DEF NoSave, Saves
<1> QED
  BY <1>2, <1>3, <1>4, <1>5

(* A new text leaves everything of its type.                               *)
LEMMA TypesGrow ==
    ASSUME last \in Nat, last' = last + 1
    PROVE  Bots \subseteq Bots' /\ Drafts \subseteq Drafts' /\ Pages \subseteq Pages' /\ Saves \subseteq Saves'
<1>1. 0..last \subseteq 0..last' /\ -last..last \subseteq -last'..last'
  OBVIOUS
<1>2. Bots \subseteq Bots'
  BY <1>1 DEF Bots
<1>3. Drafts \subseteq Drafts'
  BY <1>1, <1>2 DEF Drafts
<1>4. Pages \subseteq Pages'
  BY <1>1, <1>2 DEF Pages
<1>5. Saves \subseteq Saves'
  BY <1>2 DEF Saves
<1> QED
  BY <1>2, <1>3, <1>4, <1>5

(* What a page stores is a draft, and the fields are those of the page.    *)
LEMMA DraftType ==
    ASSUME NEW p \in Pages
    PROVE  /\ Draft(p) \in Drafts
           /\ Draft(p).base = p.bot /\ Draft(p).orig = p.orig /\ Draft(p).name = p.name
           /\ Draft(p).blocks = p.blocks /\ Draft(p).dirty = p.dirty /\ Draft(p).bereft = p.bereft
BY DEF Draft, Drafts, Pages

(* What the page shows when it goes on with the agent as it is.            *)
LEMMA FromServerShows ==
    ASSUME last \in Nat, NEW p \in Pages, NEW b \in Bots
    PROVE  LET q == FromServer(p, b)
           IN  /\ q \in Pages
               /\ q.at = p.at /\ q.ask = p.ask /\ q.got = p.got /\ q.editor = p.editor /\ q.timer = p.timer
               /\ q.blocked = p.blocked
               /\ q.bot = b /\ q.name = b.name /\ q.dirty = p.dirty /\ q.bereft = (p.bereft \/ p.dirty)
<1>1. b.name \in 0..last /\ b.instr \in -last..last
  BY DEF Bots
<1>2. Imported(b.instr) \in -last..last
  BY <1>1 DEF Imported
<1>3. (p.bereft \/ p.dirty) \in BOOLEAN
  OBVIOUS
<1> QED
  BY <1>1, <1>2, <1>3 DEF FromServer, Pages

(* And with a draft.                                                       *)
LEMMA RestoredShows ==
    ASSUME last \in Nat, NEW p \in Pages, NEW b \in Bots, NEW d \in Drafts
    PROVE  LET q == Restored(p, b, d)
           IN  /\ q \in Pages
               /\ q.at = p.at /\ q.ask = p.ask /\ q.got = p.got /\ q.editor = p.editor /\ q.timer = p.timer
               /\ q.blocked = p.blocked
               /\ q.bot = b /\ q.name = d.name /\ q.dirty = d.dirty /\ q.bereft = d.bereft
               /\ q.blocks = IF p.editor THEN p.blocks ELSE d.blocks
<1>1. 0 \in -last..last
  OBVIOUS
<1> QED
  BY <1>1 DEF Restored, Pages, Drafts

(* What the effect of a new agent leaves: a draft that fits is restored,   *)
(* one that does not blocks the page.                                      *)
LEMMA LoadedShows ==
    ASSUME last \in Nat, NEW p \in Pages, NEW b \in Bots, NEW d \in Drafts
    PROVE  LET q == Loaded(p, b, d)
           IN  /\ q \in Pages
               /\ q.at = p.at /\ q.ask = p.ask /\ q.editor = p.editor /\ q.timer = p.timer
               /\ q.bot = b
               /\ p.blocked => q.blocked
               /\ \/ q.name = b.name /\ q.dirty = p.dirty /\ q.bereft = (p.bereft \/ p.dirty)
                  \/ /\ d.base = b /\ q.name = d.name /\ q.dirty = d.dirty /\ q.bereft = d.bereft
                     /\ q.blocks = (IF p.editor THEN p.blocks ELSE d.blocks)
                     /\ q.blocked = p.blocked
<1> DEFINE f == FromServer(p, b)
           g == [f EXCEPT !.blocked = TRUE]
<1>1. /\ f \in Pages
      /\ f.at = p.at /\ f.ask = p.ask /\ f.editor = p.editor /\ f.timer = p.timer /\ f.blocked = p.blocked
      /\ f.bot = b /\ f.name = b.name /\ f.dirty = p.dirty /\ f.bereft = (p.bereft \/ p.dirty)
  BY FromServerShows
<1> HIDE DEF f
<1>2. /\ g \in Pages
      /\ g.at = p.at /\ g.ask = p.ask /\ g.editor = p.editor /\ g.timer = p.timer /\ g.blocked
      /\ g.bot = b /\ g.name = b.name /\ g.dirty = p.dirty /\ g.bereft = (p.bereft \/ p.dirty)
  BY <1>1 DEF Pages
<1> HIDE DEF g
<1>3. CASE Parsed(d, b) = "none"
  <2>1. Loaded(p, b, d) = f
    BY <1>3 DEF Loaded, f
  <2> QED
    BY <1>1, <2>1
<1>4. CASE Parsed(d, b) = "restored"
  <2>1. Loaded(p, b, d) = Restored(p, b, d)
    BY <1>4 DEF Loaded
  <2>2. d.base = b
    BY <1>4 DEF Parsed
  <2> QED
    BY <2>1, <2>2, RestoredShows
<1>5. CASE Parsed(d, b) \notin {"none", "restored"}
  <2>1. Loaded(p, b, d) = g
    BY <1>5 DEF Loaded, f, g
  <2> QED
    BY <1>2, <2>1
<1> QED
  BY <1>3, <1>4, <1>5

(* A page that has just been opened.                                       *)
LEMMA OpenedShows ==
    ASSUME last \in Nat, storage \in Drafts, NEW b \in Bots, NEW ask \in {"no", "asked"}
    PROVE  LET q == Opened(b, ask)
           IN  /\ q \in Pages /\ q.at = "open" /\ ~q.editor
               /\ TypedDraft(storage) => TypedDraft(Draft(q))
<1> DEFINE p == [Away EXCEPT !.at = "open", !.ask = ask, !.orig = b.instr]
           q == Opened(b, ask)
<1>1. p \in Pages /\ p.at = "open" /\ ~p.editor /\ ~p.dirty /\ ~p.bereft
  <2>1. b.instr \in -last..last
    BY DEF Bots
  <2> QED
    BY <2>1, Constants DEF Pages, Away
<1>2. q = Loaded(p, b, storage)
  BY DEF Opened
<1> HIDE DEF p, q
<1>3. /\ q \in Pages /\ q.at = "open" /\ ~q.editor /\ q.bot = b
      /\ \/ q.name = b.name /\ ~q.dirty
         \/ /\ storage.base = b /\ q.name = storage.name /\ q.dirty = storage.dirty /\ q.bereft = storage.bereft
            /\ q.blocks = storage.blocks
  BY <1>1, <1>2, LoadedShows
<1>4. TypedDraft(storage) => TypedDraft(Draft(q))
  BY <1>3, DraftType DEF TypedDraft
<1> QED
  BY <1>3, <1>4 DEF q

(* "Load current agent" shows the agent as it is, and nothing is dirty.    *)
LEMMA FreshShows ==
    ASSUME last \in Nat, NEW p \in Pages
    PROVE  LET q == Fresh(p)
           IN  /\ q \in Pages
               /\ q.at = p.at /\ q.ask = p.ask /\ q.timer = p.timer /\ ~q.editor /\ ~q.blocked /\ ~q.dirty
               /\ q.name = p.bot.name /\ q.bot = p.bot
<1>1. p.bot \in Bots /\ p.bot.name \in 0..last /\ p.bot.instr \in -last..last
  BY DEF Pages, Bots
<1>2. Imported(p.bot.instr) \in -last..last
  BY <1>1 DEF Imported
<1> QED
  BY <1>1, <1>2 DEF Fresh, Pages

(* What happens on one tab touches the others only through the draft.      *)
LEMMA OtherTabs ==
    ASSUME DraftsInv, NEW i \in Tabs,
           \A j \in Tabs \ {i} : page'[j] = page[j] /\ save'[j] = save[j],
           typed \subseteq typed',
           writer' \in {i, Nobody} \/ UNCHANGED <<storage, writer>>
    PROVE  \A j \in Tabs \ {i} : Tab(j)'
<1> SUFFICES ASSUME NEW j \in Tabs \ {i} PROVE Tab(j)'
  OBVIOUS
<1>1. Tab(j) /\ page'[j] = page[j] /\ save'[j] = save[j]
  BY DEF DraftsInv
<1>2. TypedPage(j)'
  BY <1>1 DEF Tab, TypedPage, TypedDraft, Draft
<1>3. Waits(j)' /\ SavesTyped(j)'
  BY <1>1 DEF Tab, Waits, SavesTyped, Pending
<1>4. Follows(j)'
  BY <1>1, DraftsAssumption DEF Tab, Follows, Pending, Flushes, Live, Draft
<1> QED
  BY <1>2, <1>3, <1>4 DEF Tab

(***************************************************************************)
(* The steps                                                               *)
(***************************************************************************)
(* Others edit the agent: nothing that is shown, stored or sent here       *)
(* changes.                                                                *)
LEMMA OthersEditKeeps == ASSUME DraftsInv, OthersEdit PROVE DraftsInv'
<1>1. /\ last \in Nat /\ last' = last + 1 /\ typed' = typed
      /\ UNCHANGED <<storage, page, save, visits, writer>>
  BY DraftsAssumption DEF DraftsInv, DraftsTypeOK, OthersEdit, Types
<1>2. bot' \in Bots'
  <2>1. bot \in Bots' /\ last' \in 0..last' /\ last' \in -last'..last'
    BY <1>1, TypesGrow DEF DraftsInv, DraftsTypeOK
  <2> QED
    BY <1>1, <2>1 DEF OthersEdit, Bots
<1>3. DraftsTypeOK'
  BY <1>1, <1>2, TypesGrow, DraftsAssumption DEF DraftsInv, DraftsTypeOK, OthersEdit, Types, Pending
<1>4. ASSUME NEW j \in Tabs PROVE Tab(j)'
  BY <1>1 DEF DraftsInv, Tab, TypedPage, TypedDraft, Draft, Waits, SavesTyped, Follows, Pending, Flushes, Live
<1> QED
  BY <1>1, <1>3, <1>4 DEF DraftsInv, TypedDraft

(* Without a new text the types stay.                                      *)
LEMMA TypesStay ==
    ASSUME UNCHANGED last
    PROVE  Bots' = Bots /\ Drafts' = Drafts /\ Pages' = Pages /\ Saves' = Saves
BY DEF Bots, Drafts, Pages, Saves

(* The page, the save and the draft of one tab are written.                *)
LEMMA OneTab ==
    ASSUME DraftsInv, NEW i \in Tabs, UNCHANGED <<last, typed>>,
           visits' \in 0..MaxVisits, bot' \in Bots, storage' \in Drafts, writer' \in Tabs \cup {Nobody},
           page' = [page EXCEPT ![i] = page'[i]], page'[i] \in Pages,
           save' = [save EXCEPT ![i] = save'[i]], save'[i] \in Saves,
           page'[i].at # "open" => /\ ~page'[i].editor /\ ~page'[i].blocked /\ ~page'[i].timer
                                   /\ save'[i].at = "no" \/ save'[i].left,
           TypedDraft(storage'), writer' \in {i, Nobody} \/ UNCHANGED <<storage, writer>>,
           Tab(i)'
    PROVE  DraftsInv'
<1>1. \A j \in Tabs \ {i} : page'[j] = page[j] /\ save'[j] = save[j]
  BY DEF DraftsInv, DraftsTypeOK
<1>2. page' \in [Tabs -> Pages] /\ save' \in [Tabs -> Saves]
  BY DEF DraftsInv, DraftsTypeOK
<1>3. \A j \in Tabs : page'[j].at # "open" => ~page'[j].editor /\ ~page'[j].blocked /\ ~page'[j].timer /\ ~Pending(j)'
  BY <1>1 DEF DraftsInv, DraftsTypeOK, Pending
<1>4. DraftsTypeOK'
  BY <1>2, <1>3, TypesStay DEF DraftsInv, DraftsTypeOK
<1>5. TypedDraft(storage)'
  BY DEF TypedDraft
<1> QED
  BY <1>1, <1>4, <1>5, OtherTabs DEF DraftsInv

(* What the invariant says of one tab.                                     *)
LEMMA Here ==
    ASSUME DraftsInv, NEW i \in Tabs
    PROVE  /\ last \in Nat /\ bot \in Bots /\ storage \in Drafts /\ TypedDraft(storage) /\ Tab(i)
           /\ page[i] \in Pages /\ page[i].bot \in Bots /\ page[i].got \in Bots /\ save[i] \in Saves
           /\ page = [page EXCEPT ![i] = page[i]] /\ save = [save EXCEPT ![i] = save[i]]
           /\ page[i].at # "open" => /\ ~page[i].editor /\ ~page[i].blocked /\ ~page[i].timer
                                     /\ save[i].at = "no" \/ save[i].left
           /\ DOMAIN page = Tabs /\ DOMAIN save = Tabs
           /\ visits \in 0..MaxVisits /\ writer \in Tabs \cup {Nobody} /\ last \in 1..MaxTexts
BY DraftsAssumption DEF DraftsInv, DraftsTypeOK, Pages, Pending

(* And only the types of it.                                               *)
LEMMA HereTyped ==
    ASSUME DraftsInv, NEW i \in Tabs
    PROVE  last \in Nat /\ bot \in Bots /\ page[i] \in Pages /\ save[i] \in Saves
BY Here

(* A visit opens a page without an editor, from what the router has kept   *)
(* and the stored draft.                                                   *)
LEMMA VisitsKeeps == ASSUME DraftsInv, NEW i \in Tabs, Visits(i) PROVE DraftsInv'
<1> DEFINE p == IF page[i].bot = NoBot THEN [Away EXCEPT !.at = "loading", !.ask = "asked"]
                ELSE Opened(page[i].bot, "asked")
<1>1. /\ p \in Pages /\ ~p.editor
      /\ p.at = "open" \/ (p.at = "loading" /\ ~p.blocked /\ ~p.timer)
      /\ p.at = "open" => TypedDraft(Draft(p))
  <2>1. CASE page[i].bot = NoBot
    <3>1. p = [Away EXCEPT !.at = "loading", !.ask = "asked"]
      BY <2>1
    <3>2. Away \in Pages
      BY HereTyped, Constants
    <3>3. p \in Pages
      BY <3>1, <3>2 DEF Pages
    <3>4. p.at = "loading" /\ ~p.editor /\ ~p.blocked /\ ~p.timer
      BY <3>1 DEF Away
    <3> QED
      BY <3>3, <3>4
  <2>2. CASE page[i].bot # NoBot
    BY <2>2, Here, OpenedShows
  <2> QED
    BY <2>1, <2>2
<1>2. /\ page[i].at = "away" /\ visits' \in 0..MaxVisits
      /\ page' = [page EXCEPT ![i] = p] /\ UNCHANGED <<bot, storage, save, last, typed, writer>>
  BY Here, DraftsAssumption DEF Visits
<1> HIDE DEF p
<1>3. /\ page'[i] = p /\ (save[i].at = "no" \/ save[i].left)
      /\ page' = [page EXCEPT ![i] = page'[i]] /\ save' = [save EXCEPT ![i] = save'[i]]
  BY <1>2, Here
<1>4. Tab(i)'
  BY <1>1, <1>2, <1>3, Here DEF Tab, TypedPage, TypedDraft, Draft, Waits, SavesTyped, Follows, Pending,
                                Flushes, Live, NoBot
<1> QED
  BY <1>1, <1>2, <1>3, <1>4, Here, OneTab

(* The answer of the loader is noted, and nothing that is shown changes.   *)
LEMMA LoaderReadsKeeps == ASSUME DraftsInv, NEW i \in Tabs, LoaderReads(i) PROVE DraftsInv'
<1> DEFINE p == [page[i] EXCEPT !.ask = "read", !.got = bot]
<1>1. /\ p \in Pages /\ p.at = page[i].at /\ p.editor = page[i].editor /\ p.blocked = page[i].blocked
      /\ p.timer = page[i].timer /\ p.bereft = page[i].bereft
  BY HereTyped DEF Pages
<1>2. Draft(p) = Draft(page[i])
  BY HereTyped DEF Pages, Draft
<1>3. /\ page[i].ask = "asked" /\ page' = [page EXCEPT ![i] = p]
      /\ UNCHANGED <<bot, storage, save, last, visits, typed, writer>>
  BY Here DEF LoaderReads
<1> HIDE DEF p
<1>4. page'[i] = p /\ page' = [page EXCEPT ![i] = page'[i]] /\ save' = [save EXCEPT ![i] = save'[i]]
  BY <1>3, Here
<1>5. Tab(i)'
  BY <1>1, <1>2, <1>3, <1>4, Here DEF Tab, TypedPage, TypedDraft, Waits, SavesTyped, Follows, Pending, Flushes, Live
<1> QED
  BY <1>1, <1>3, <1>4, <1>5, Here, OneTab

(* With its editor a page sets the timer, so that it need not agree with   *)
(* the draft yet.                                                          *)
LEMMA EditorReadyKeeps == ASSUME DraftsInv, NEW i \in Tabs, EditorReady(i) PROVE DraftsInv'
<1> DEFINE p == [page[i] EXCEPT !.editor = TRUE, !.timer = ~page[i].blocked]
<1>1. /\ p \in Pages /\ p.at = page[i].at /\ p.editor /\ p.blocked = page[i].blocked /\ p.ask = page[i].ask
      /\ p.timer <=> ~page[i].blocked
      /\ p.bereft = page[i].bereft
  <2>1. ASSUME NEW t \in BOOLEAN PROVE [page[i] EXCEPT !.editor = TRUE, !.timer = t] \in Pages
    BY HereTyped DEF Pages
  <2>2. p \in Pages
    BY <2>1
  <2> QED
    BY <2>2, HereTyped DEF Pages
<1>2. Draft(p) = Draft(page[i])
  BY HereTyped DEF Pages, Draft
<1>3. /\ page[i].at = "open" /\ page' = [page EXCEPT ![i] = p]
      /\ UNCHANGED <<bot, storage, save, last, visits, typed, writer>>
  BY Here DEF EditorReady
<1> HIDE DEF p
<1>4. page'[i] = p /\ page' = [page EXCEPT ![i] = page'[i]] /\ save' = [save EXCEPT ![i] = save'[i]]
  BY <1>3, Here
<1>5. Tab(i)'
  BY <1>1, <1>2, <1>3, <1>4, Here DEF Tab, TypedPage, TypedDraft, Waits, SavesTyped, Follows, Pending, Flushes, Live
<1> QED
  BY <1>1, <1>3, <1>4, <1>5, Here, OneTab

(* A page flushes while it is shown and its save has not succeeded; what   *)
(* it flushes was typed.                                                   *)
LEMMA FlushesTyped ==
    ASSUME DraftsInv, NEW i \in Tabs, Flushes(i)
    PROVE  /\ Draft(page[i]) \in Drafts /\ TypedDraft(Draft(page[i]))
           /\ Live(page[i]) /\ save[i].at # "saved"
<1>1. page[i].at = "open" /\ ~page[i].blocked
  BY DEF Flushes, Live
<1>2. save[i].at # "saved"
  BY Here DEF Flushes, Pending, Tab, Waits
<1> QED
  BY <1>1, <1>2, Here, DraftType DEF Tab, TypedPage, Flushes

(* What a flush leaves in localStorage.                                    *)
LEMMA FlushStores ==
    ASSUME DraftsInv, NEW i \in Tabs, Flush(i)
    PROVE  /\ storage' \in Drafts /\ TypedDraft(storage') /\ writer' \in Tabs \cup {Nobody}
           /\ writer' = i \/ UNCHANGED <<storage, writer>>
           /\ Flushes(i) => storage' = Draft(page[i])
           /\ ~Flushes(i) => UNCHANGED <<storage, writer>>
<1>1. CASE Flushes(i)
  BY <1>1, FlushesTyped DEF Flush, Stores
<1>2. CASE ~Flushes(i)
  BY <1>2, Here DEF Flush, StoresNothing
<1> QED
  BY <1>1, <1>2

(* A page that is left flushes, and stops to wait for its save.            *)
LEMMA LeavesKeeps == ASSUME DraftsInv, NEW i \in Tabs, Leaves(i) PROVE DraftsInv'
<1>1. PICK p \in {Away, [Away EXCEPT !.bot = page[i].bot]}, s \in {NoSave, [save[i] EXCEPT !.left = TRUE]} :
         /\ page' = [page EXCEPT ![i] = p] /\ save' = [save EXCEPT ![i] = s]
         /\ s = NoSave \/ save[i].at \notin {"no", "saved"}
  BY Here DEF Leaves
<1>2. p \in Pages /\ p.at = "away" /\ p.ask = "no" /\ ~p.editor /\ ~p.blocked /\ ~p.timer
  BY <1>1, HereTyped, Constants DEF Pages, Away
<1>3. s \in Saves /\ (s = NoSave \/ (s.left /\ s.at \notin {"no", "saved"}))
  BY <1>1, HereTyped, Constants DEF Saves
<1>4. Flush(i) /\ UNCHANGED <<bot, last, visits, typed>>
  BY DEF Leaves
<1>5. /\ page'[i] = p /\ page' = [page EXCEPT ![i] = page'[i]]
      /\ save'[i] = s /\ save' = [save EXCEPT ![i] = save'[i]]
  BY <1>1, Here
<1>6. Tab(i)'
  BY <1>2, <1>3, <1>5 DEF Tab, TypedPage, Waits, SavesTyped, Follows, Pending, Flushes, Live, NoSave, NoBot
<1> QED
  BY <1>2, <1>3, <1>4, <1>5, <1>6, Here, FlushStores, OneTab DEF NoSave

(* A tab that dies leaves the draft as it is.                              *)
LEMMA DiesKeeps == ASSUME DraftsInv, NEW i \in Tabs, Dies(i) PROVE DraftsInv'
<1>1. Away \in Pages /\ NoSave \in Saves
  BY Here, Constants
<1>2. /\ page' = [page EXCEPT ![i] = Away] /\ save' = [save EXCEPT ![i] = NoSave]
      /\ UNCHANGED <<bot, storage, last, visits, typed, writer>>
  BY DEF Dies
<1>3. /\ page'[i] = Away /\ page' = [page EXCEPT ![i] = page'[i]]
      /\ save'[i] = NoSave /\ save' = [save EXCEPT ![i] = save'[i]]
  BY <1>2, Here
<1>4. Tab(i)'
  BY <1>3 DEF Tab, TypedPage, Waits, SavesTyped, Follows, Pending, Flushes, Live, NoSave, NoBot, Away
<1> QED
  BY <1>1, <1>2, <1>3, <1>4, Here, OneTab DEF NoSave, Away

(* Somebody types on one page.                                             *)
LEMMA Typing ==
    ASSUME DraftsInv, NEW i \in Tabs, Types(TRUE), UNCHANGED <<bot, storage, save, visits, writer>>,
           page' = [page EXCEPT ![i] = page'[i]], page'[i] \in Pages', page'[i].at = "open", Tab(i)'
    PROVE  DraftsInv'
<1>1. last \in Nat /\ last' = last + 1 /\ typed' = typed \cup {last + 1} /\ last' \in 1..MaxTexts
  BY Here, DraftsAssumption DEF Types
<1>2. \A j \in Tabs \ {i} : page'[j] = page[j]
  BY Here
<1>3. page' \in [Tabs -> Pages']
  BY <1>1, <1>2, Here, TypesGrow DEF DraftsInv, DraftsTypeOK
<1>4. \A j \in Tabs : page'[j].at # "open" => ~page'[j].editor /\ ~page'[j].blocked /\ ~page'[j].timer /\ ~Pending(j)'
  BY <1>2 DEF DraftsInv, DraftsTypeOK, Pending
<1>5. /\ bot' \in Bots' /\ storage' \in Drafts' /\ save' \in [Tabs -> Saves']
      /\ typed' \subseteq 2..last' /\ visits' \in 0..MaxVisits /\ writer' \in Tabs \cup {Nobody}
  BY <1>1, TypesGrow DEF DraftsInv, DraftsTypeOK
<1>6. DraftsTypeOK'
  BY <1>1, <1>3, <1>4, <1>5 DEF DraftsTypeOK
<1>7. TypedDraft(storage)'
  BY <1>1, Here DEF TypedDraft
<1> QED
  BY <1>1, <1>2, <1>6, <1>7, OtherTabs DEF DraftsInv

(* A name that is typed is among the texts typed here.                     *)
LEMMA EditsNameKeeps == ASSUME DraftsInv, NEW i \in Tabs, EditsName(i) PROVE DraftsInv'
<1> DEFINE p == page[i]
           q == [p EXCEPT !.name = last + 1, !.timer = Live(p)]
<1>1. last + 1 \in 0..last' /\ Live(p) \in BOOLEAN /\ p \in Pages'
  BY Here, TypesGrow DEF EditsName, Types, Live
<1>2. /\ q \in Pages' /\ q.at = p.at /\ q.bot = p.bot /\ q.editor = p.editor /\ q.blocked = p.blocked /\ q.ask = p.ask
      /\ q.name = last + 1 /\ q.blocks = p.blocks /\ q.dirty = p.dirty /\ q.bereft = p.bereft
      /\ q.timer <=> Live(p)
  BY <1>1 DEF Pages
<1>3. /\ page[i].at = "open" /\ ~Pending(i) /\ Types(TRUE) /\ page' = [page EXCEPT ![i] = q]
      /\ UNCHANGED <<bot, storage, save, visits, writer>>
  BY Here DEF EditsName
<1> HIDE DEF q
<1>4. page'[i] = q /\ page' = [page EXCEPT ![i] = page'[i]]
  BY <1>3, Here
<1>5. typed' = typed \cup {last + 1}
  BY <1>3 DEF Types
<1>6. Tab(i)'
  BY <1>2, <1>3, <1>4, <1>5, Here
     DEF Tab, TypedPage, TypedDraft, Draft, Waits, SavesTyped, Follows, Pending, Flushes, Live
<1> QED
  BY <1>2, <1>3, <1>4, <1>6, Typing

(* So are instructions, which are dirty from then on.                      *)
LEMMA EditsInstructionsKeeps == ASSUME DraftsInv, NEW i \in Tabs, EditsInstructions(i) PROVE DraftsInv'
<1> DEFINE p == page[i]
           q == [p EXCEPT !.blocks = last + 1, !.dirty = TRUE, !.timer = TRUE]
<1>1. last + 1 \in -last'..last' /\ p \in Pages'
  BY Here, TypesGrow DEF EditsInstructions, Types
<1>2. /\ q \in Pages' /\ q.at = p.at /\ q.bot = p.bot /\ q.editor = p.editor /\ q.blocked = p.blocked /\ q.ask = p.ask
      /\ q.name = p.name /\ q.blocks = last + 1 /\ q.bereft = p.bereft /\ q.timer
  BY <1>1 DEF Pages
<1>3. /\ Live(p) /\ ~Pending(i) /\ Types(TRUE) /\ page' = [page EXCEPT ![i] = q]
      /\ UNCHANGED <<bot, storage, save, visits, writer>>
  BY Here DEF EditsInstructions
<1> HIDE DEF q
<1>4. page'[i] = q /\ page' = [page EXCEPT ![i] = page'[i]]
  BY <1>3, Here
<1>5. typed' = typed \cup {last + 1}
  BY <1>3 DEF Types
<1>6. Tab(i)'
  BY <1>2, <1>3, <1>4, <1>5, Here
     DEF Tab, TypedPage, TypedDraft, Draft, Waits, SavesTyped, Follows, Pending, Flushes, Live
<1> QED
  BY <1>2, <1>3, <1>4, <1>6, Typing DEF Live

(* The autosave makes draft and page agree.                                *)
LEMMA AutosavesKeeps == ASSUME DraftsInv, NEW i \in Tabs, Autosaves(i) PROVE DraftsInv'
<1> DEFINE p == [page[i] EXCEPT !.timer = FALSE]
<1>1. /\ p \in Pages /\ p.at = page[i].at /\ p.editor = page[i].editor /\ p.blocked = page[i].blocked
      /\ p.ask = page[i].ask /\ p.bereft = page[i].bereft /\ ~p.timer
  BY HereTyped DEF Pages
<1>2. Draft(p) = Draft(page[i])
  BY HereTyped DEF Pages, Draft
<1>3. /\ page[i].timer /\ Flush(i) /\ page' = [page EXCEPT ![i] = p]
      /\ UNCHANGED <<bot, save, last, visits, typed>>
  BY Here DEF Autosaves
<1> HIDE DEF p
<1>4. page'[i] = p /\ page' = [page EXCEPT ![i] = page'[i]] /\ save' = [save EXCEPT ![i] = save'[i]]
  BY <1>3, Here
<1>5. Tab(i)'
  BY <1>1, <1>2, <1>3, <1>4, Here, FlushStores
     DEF Tab, TypedPage, TypedDraft, Waits, SavesTyped, Follows, Pending, Flushes, Live
<1> QED
  BY <1>1, <1>3, <1>4, <1>5, Here, FlushStores, OneTab

(* The draft of a blocked page goes, and the page loses its editor.        *)
LEMMA StartsFreshKeeps == ASSUME DraftsInv, NEW i \in Tabs, StartsFresh(i) PROVE DraftsInv'
<1> DEFINE p == Fresh(page[i])
<1>1. /\ p \in Pages /\ p.at = page[i].at /\ ~p.editor /\ ~p.blocked /\ ~p.dirty
      /\ p.name = page[i].bot.name /\ p.bot = page[i].bot
  BY Here, FreshShows
<1>2. TypedDraft(Draft(p)) /\ TypedDraft(NoDraft) /\ NoDraft \in Drafts
  BY <1>1, Here, Constants, DraftType DEF TypedDraft, NoDraft, NoBot
<1>3. /\ page[i].blocked /\ ~Pending(i) /\ page' = [page EXCEPT ![i] = p]
      /\ storage' = NoDraft /\ writer' = i
      /\ UNCHANGED <<bot, save, last, visits, typed>>
  BY Here DEF StartsFresh, Stores
<1>4. page[i].at = "open"
  BY <1>3, Here
<1> HIDE DEF p
<1>5. page'[i] = p /\ page' = [page EXCEPT ![i] = page'[i]] /\ save' = [save EXCEPT ![i] = save'[i]]
  BY <1>3, Here
<1>6. Tab(i)'
  BY <1>1, <1>2, <1>3, <1>5, Here DEF Tab, TypedPage, TypedDraft, Waits, SavesTyped, Follows, Pending, Flushes,
                                      Live, NoBot
<1> QED
  BY <1>1, <1>2, <1>3, <1>4, <1>5, <1>6, Here, OneTab

(* What a save of a page carries.                                          *)
LEMMA PatchTyped ==
    ASSUME last \in Nat, NEW p \in Pages
    PROVE  /\ Patch(p) \in Bots
           /\ ~p.bereft /\ TypedDraft(Draft(p)) =>
                 \A f \in {"name", "instr"} : Patch(p)[f] \in typed \cup {0}
<1>1. p.name \in 0..last /\ p.blocks \in -last..last /\ 0 \in 0..last /\ 0 \in -last..last
  BY DEF Pages
<1>2. Patch(p) \in Bots
  BY <1>1 DEF Patch, Bots
<1>3. ASSUME ~p.bereft, TypedDraft(Draft(p)) PROVE Patch(p).name \in typed \cup {0} /\ Patch(p).instr \in typed \cup {0}
  BY <1>3, DraftType DEF Patch, TypedDraft
<1> QED
  BY <1>2, <1>3

(* A save carries what differs from the agent, which TypedPage says was    *)
(* typed here; with nothing to save the draft goes.                        *)
LEMMA SubmitsKeeps == ASSUME DraftsInv, NEW i \in Tabs, Submits(i) PROVE DraftsInv'
<1> DEFINE p == [page[i] EXCEPT !.timer = TRUE]
<1>1. /\ p \in Pages /\ p.at = page[i].at /\ p.editor = page[i].editor /\ p.blocked = page[i].blocked
      /\ p.ask = page[i].ask /\ p.bereft = page[i].bereft /\ p.timer
  BY HereTyped DEF Pages
<1>2. Draft(p) = Draft(page[i])
  BY HereTyped DEF Pages, Draft
<1>3. /\ Live(page[i]) /\ save[i].at = "no" /\ page' = [page EXCEPT ![i] = p]
      /\ UNCHANGED <<bot, last, visits, typed>>
  BY Here DEF Submits
<1>4. /\ page[i].at = "open" /\ page[i].editor /\ ~page[i].blocked
      /\ save[i].patch = NoBot /\ ~save[i].left /\ TypedDraft(Draft(page[i]))
  BY <1>3, Here DEF Live, Tab, TypedPage, Waits
<1> HIDE DEF p
<1>5. page'[i] = p /\ page' = [page EXCEPT ![i] = page'[i]]
  BY <1>3, Here
<1>6. CASE Patch(page[i]) = NoBot
  <2> DEFINE s == [save[i] EXCEPT !.at = "saved"]
  <2>1. s \in Saves /\ s.at = "saved" /\ s.patch = NoBot /\ ~s.left
    BY <1>4, HereTyped DEF Saves
  <2>2. storage' = NoDraft /\ writer' = i /\ save' = [save EXCEPT ![i] = s]
    BY <1>6, Here DEF Submits, Stores
  <2> HIDE DEF s
  <2>3. save'[i] = s /\ save' = [save EXCEPT ![i] = save'[i]]
    BY <2>2, Here
  <2>4. NoDraft \in Drafts /\ TypedDraft(NoDraft)
    BY HereTyped, Constants DEF TypedDraft, NoDraft, NoBot
  <2>6. Waits(i)' /\ SavesTyped(i)'
    <3>1. page'[i].at = "open" /\ page'[i].editor /\ ~page'[i].blocked
      BY <1>1, <1>4, <1>5
    <3>2. save'[i].at = "saved" /\ save'[i].patch = NoBot /\ ~save'[i].left
      BY <2>1, <2>3
    <3>3. NoBot.name = 0 /\ NoBot.instr = 0
      BY DEF NoBot
    <3>4. Waits(i)'
      BY <3>1, <3>2 DEF Waits
    <3>5. SavesTyped(i)'
      BY <3>2, <3>3 DEF SavesTyped
    <3> QED
      BY <3>4, <3>5
  <2>7. TypedPage(i)' /\ Follows(i)'
    BY <1>5, <2>1, <2>2, <2>3 DEF TypedPage, Follows, Pending, Flushes
  <2>5. Tab(i)'
    BY <2>6, <2>7 DEF Tab
  <2>10. page'[i] \in Pages /\ page'[i].at = "open"
    BY <1>1, <1>4, <1>5
  <2> QED
    BY <1>3, <1>5, <2>1, <2>2, <2>3, <2>4, <2>5, <2>10, Here, OneTab
<1>7. CASE Patch(page[i]) # NoBot
  <2> DEFINE s == [save[i] EXCEPT !.at = "sent", !.patch = Patch(page[i])]
  <2>1. s \in Saves /\ s.at = "sent" /\ s.patch = Patch(page[i]) /\ ~s.left
    BY <1>4, Here, PatchTyped DEF Saves
  <2>2. storage' = Draft(page[i]) /\ writer' = i /\ save' = [save EXCEPT ![i] = s]
    BY <1>7, Here DEF Submits, Stores
  <2> HIDE DEF s
  <2>3. save'[i] = s /\ save' = [save EXCEPT ![i] = save'[i]]
    BY <2>2, Here
  <2>4. SavesTyped(i)'
    BY <1>1, <1>3, <1>4, <1>5, <2>1, <2>3, Here, PatchTyped DEF SavesTyped
  <2>6. Waits(i)'
    BY <1>1, <1>4, <1>5, <2>1, <2>3 DEF Waits, Pending
  <2>7. TypedPage(i)'
    BY <1>2, <1>3, <1>4, <1>5 DEF TypedPage, TypedDraft
  <2>8. Follows(i)'
    BY <1>1, <1>2, <1>5, <2>1, <2>2, <2>3 DEF Follows, Pending
  <2>5. Tab(i)'
    BY <2>4, <2>6, <2>7, <2>8 DEF Tab
  <2>9. storage' \in Drafts /\ TypedDraft(storage') /\ writer' = i
    BY <1>4, <2>2, HereTyped, DraftType
  <2>10. page'[i] \in Pages /\ page'[i].at = "open"
    BY <1>1, <1>4, <1>5
  <2> QED
    BY <1>3, <1>5, <2>1, <2>3, <2>5, <2>9, <2>10, Here, OneTab
<1> QED
  BY <1>6, <1>7

(* The server changes the agent, not the page.                             *)
LEMMA PatchArrivesKeeps == ASSUME DraftsInv, NEW i \in Tabs, PatchArrives(i) PROVE DraftsInv'
<1> DEFINE s == [save[i] EXCEPT !.at = "applied"]
<1>1. s \in Saves /\ s.at = "applied" /\ s.patch = save[i].patch /\ s.left = save[i].left
  BY HereTyped DEF Saves
<1>2. /\ save[i].at = "sent" /\ save' = [save EXCEPT ![i] = s]
      /\ UNCHANGED <<storage, page, last, visits, typed, writer>>
  BY Here DEF PatchArrives
<1> HIDE DEF s
<1>3. save'[i] = s /\ save' = [save EXCEPT ![i] = save'[i]] /\ page' = [page EXCEPT ![i] = page'[i]]
  BY <1>2, Here
<1>4. bot' \in Bots
  BY Here DEF PatchArrives, Saves, Bots
<1>5. Tab(i)'
  BY <1>1, <1>2, <1>3, Here
     DEF Tab, TypedPage, TypedDraft, Draft, Waits, SavesTyped, Follows, Pending, Flushes, Live
<1> QED
  BY <1>1, <1>2, <1>3, <1>4, <1>5, Here, OneTab

(* The draft goes, of the page that waits or of whichever there is.        *)
LEMMA SucceedsKeeps == ASSUME DraftsInv, NEW i \in Tabs, Succeeds(i) PROVE DraftsInv'
<1>1. NoDraft \in Drafts /\ TypedDraft(NoDraft) /\ NoSave \in Saves
  BY HereTyped, Constants DEF TypedDraft, NoDraft, NoBot
<1>2. save[i].at = "applied" /\ storage' = NoDraft /\ UNCHANGED <<bot, page, last, visits, typed>>
  BY DEF Succeeds
<1>3. page' = [page EXCEPT ![i] = page'[i]]
  BY <1>2, Here
<1>4. CASE save[i].left
  <2>1. writer' = Nobody /\ save' = [save EXCEPT ![i] = NoSave]
    BY <1>4 DEF Succeeds
  <2>2. save'[i] = NoSave /\ save' = [save EXCEPT ![i] = save'[i]]
    BY <2>1, Here
  <2>3. Tab(i)'
    BY <1>2, <2>1, <2>2, Here, DraftsAssumption
       DEF Tab, TypedPage, TypedDraft, Draft, Waits, SavesTyped, Follows, Pending, NoSave, NoBot
  <2> QED
    BY <1>1, <1>2, <1>3, <2>1, <2>2, <2>3, Here, OneTab DEF NoSave
<1>5. CASE ~save[i].left
  <2> DEFINE s == [save[i] EXCEPT !.at = "saved", !.patch = NoBot]
  <2>1. s \in Saves /\ s.at = "saved" /\ s.patch = NoBot /\ ~s.left
    BY <1>5, HereTyped, Constants DEF Saves
  <2>2. writer' = i /\ save' = [save EXCEPT ![i] = s]
    BY <1>5, Here DEF Succeeds
  <2> HIDE DEF s
  <2>3. save'[i] = s /\ save' = [save EXCEPT ![i] = save'[i]]
    BY <2>2, Here
  <2>4. page[i].at = "open"
    BY <1>2, <1>5, Here
  <2>5. Tab(i)'
    BY <1>2, <1>5, <2>1, <2>2, <2>3, Here
       DEF Tab, TypedPage, TypedDraft, Draft, Waits, SavesTyped, Follows, Pending, Flushes, Live, NoBot
  <2> QED
    BY <1>1, <1>2, <1>3, <2>1, <2>2, <2>3, <2>4, <2>5, Here, OneTab
<1> QED
  BY <1>4, <1>5

(* A save that failed carries nothing any more.                            *)
LEMMA FailsKeeps == ASSUME DraftsInv, NEW i \in Tabs, Fails(i) PROVE DraftsInv'
<1>1. NoSave \in Saves
  BY Here, Constants
<1>2. /\ save[i].at \in {"sent", "applied"} /\ save' = [save EXCEPT ![i] = NoSave]
      /\ UNCHANGED <<bot, storage, page, last, visits, typed, writer>>
  BY DEF Fails
<1>3. save'[i] = NoSave /\ save' = [save EXCEPT ![i] = save'[i]] /\ page' = [page EXCEPT ![i] = page'[i]]
  BY <1>2, Here
<1>4. Tab(i)'
  BY <1>2, <1>3, Here
     DEF Tab, TypedPage, TypedDraft, Draft, Waits, SavesTyped, Follows, Pending, Flushes, Live, NoSave, NoBot
<1> QED
  BY <1>1, <1>2, <1>3, <1>4, Here, OneTab DEF NoSave

(* The old effect flushes, the new one shows the draft or what the loader  *)
(* brought.                                                                *)
LEMMA AnswersOpen ==
    ASSUME DraftsInv, NEW i \in Tabs, LoaderAnswers(i), page[i].at = "open"
    PROVE  DraftsInv'
<1> DEFINE p == [page[i] EXCEPT !.ask = "no", !.got = NoBot]
           b == page[i].got
           d == IF Flushes(i) THEN Draft(p) ELSE storage
           q == Loaded(p, b, d)
           r == [q EXCEPT !.timer = Live(q)]
           e == [q EXCEPT !.blocks = p.blocks]
<1>1. /\ p \in Pages /\ p.at = "open" /\ p.editor = page[i].editor /\ p.blocked = page[i].blocked /\ p.ask = "no"
      /\ p.dirty = page[i].dirty /\ p.bereft = page[i].bereft /\ p.blocks = page[i].blocks
      /\ Draft(p) = Draft(page[i])
  BY HereTyped, Constants DEF Pages, Draft
<1>2. /\ page[i].ask = "read" /\ page' = [page EXCEPT ![i] = r]
      /\ IF Flushes(i) /\ q.blocked THEN Stores(i, Draft(e)) ELSE Flush(i)
      /\ UNCHANGED <<bot, save, last, visits, typed>>
  BY DEF LoaderAnswers
<1>3. d \in Drafts /\ TypedDraft(d)
  BY <1>1, Here, FlushesTyped
<1>4. Flushes(i) => d.name = p.name /\ d.blocks = p.blocks /\ d.dirty = p.dirty /\ d.bereft = p.bereft
  BY <1>1, DraftType
<1>5. Flushes(i) <=> Live(page[i]) /\ ~(Pending(i) /\ save[i].at = "saved")
  BY DEF Flushes
<1> HIDE DEF p, d
<1>6. /\ q \in Pages /\ q.at = "open" /\ q.ask = "no" /\ q.editor = p.editor /\ q.bot = b
      /\ p.blocked => q.blocked
      /\ \/ q.name = b.name /\ q.dirty = p.dirty /\ q.bereft = (p.bereft \/ p.dirty)
         \/ /\ d.base = b /\ q.name = d.name /\ q.dirty = d.dirty /\ q.bereft = d.bereft
            /\ q.blocks = (IF p.editor THEN p.blocks ELSE d.blocks)
            /\ q.blocked = p.blocked
  <2>1. last \in Nat /\ b \in Bots
    BY Here
  <2> HIDE DEF b
  <2>2. /\ q \in Pages
        /\ q.at = p.at /\ q.ask = p.ask /\ q.editor = p.editor /\ q.timer = p.timer
        /\ q.bot = b
        /\ p.blocked => q.blocked
        /\ \/ q.name = b.name /\ q.dirty = p.dirty /\ q.bereft = (p.bereft \/ p.dirty)
           \/ /\ d.base = b /\ q.name = d.name /\ q.dirty = d.dirty /\ q.bereft = d.bereft
              /\ q.blocks = (IF p.editor THEN p.blocks ELSE d.blocks)
              /\ q.blocked = p.blocked
    BY <1>1, <1>3, <2>1, LoadedShows
  <2> QED
    BY <1>1, <2>2
<1> HIDE DEF q
<1>7. Live(q) \in BOOLEAN
  BY DEF Live
<1>8. /\ r \in Pages /\ r.at = "open" /\ r.ask = "no" /\ r.editor = q.editor /\ r.blocked = q.blocked
      /\ r.bereft = q.bereft /\ Draft(r) = Draft(q)
      /\ r.timer <=> Live(q)
  BY <1>6, <1>7 DEF Pages, Draft
<1>9. /\ e \in Pages /\ e.bot = q.bot /\ e.name = q.name /\ e.dirty = q.dirty /\ e.bereft = q.bereft
  BY <1>1, <1>6 DEF Pages
<1> HIDE DEF r, e
<1>10. page'[i] = r /\ page' = [page EXCEPT ![i] = page'[i]] /\ save' = [save EXCEPT ![i] = save'[i]]
  BY <1>2, Here
<1>11. Live(page[i]) <=> p.editor /\ ~p.blocked
  BY <1>1 DEF Live
<1>12. Waits(i) /\ SavesTyped(i) /\ Follows(i)
  BY Here DEF Tab
<1>13. ~q.blocked /\ save[i].at # "saved" => TypedDraft(Draft(q))
  <2>1. CASE q.name = b.name /\ q.dirty = p.dirty /\ q.bereft = (p.bereft \/ p.dirty)
    BY <2>1, <1>6, DraftType DEF TypedDraft
  <2>2. CASE /\ d.base = b /\ q.name = d.name /\ q.dirty = d.dirty /\ q.bereft = d.bereft
             /\ q.blocks = (IF p.editor THEN p.blocks ELSE d.blocks)
             /\ q.blocked = p.blocked
    <3>1. ~q.blocked /\ save[i].at # "saved" => q.blocks = d.blocks
      BY <2>2, <1>4, <1>5, <1>11
    <3> QED
      BY <2>2, <3>1, <1>3, <1>6, DraftType DEF TypedDraft
  <2> QED
    BY <2>1, <2>2, <1>6
<1>14. Flushes(i) /\ q.blocked => TypedDraft(Draft(e))
  <2>1. Flushes(i) /\ q.blocked => q.name = b.name /\ q.dirty = p.dirty /\ q.bereft = (p.bereft \/ p.dirty)
    BY <1>5, <1>6, <1>11
  <2>2. Flushes(i) /\ q.blocked /\ ~e.bereft => e.name = e.bot.name /\ ~e.dirty
    BY <2>1, <1>6, <1>9
  <2> QED
    BY <2>2, <1>9, DraftType DEF TypedDraft
<1>15. /\ storage' \in Drafts /\ TypedDraft(storage') /\ writer' \in Tabs \cup {Nobody}
       /\ writer' = i \/ UNCHANGED <<storage, writer>>
       /\ ~Flushes(i) => UNCHANGED <<storage, writer>>
  <2>1. CASE Flushes(i) /\ q.blocked
    BY <2>1, <1>2, <1>9, <1>14, DraftType DEF Stores
  <2>2. CASE ~(Flushes(i) /\ q.blocked)
    BY <2>2, <1>2, FlushStores
  <2> QED
    BY <2>1, <2>2
<1>16. TypedPage(i)'
  BY <1>2, <1>8, <1>10, <1>13 DEF TypedPage, TypedDraft
<1>17. Waits(i)'
  BY <1>1, <1>2, <1>6, <1>8, <1>10, <1>12 DEF Waits, Pending
<1>18. SavesTyped(i)'
  <2>1. CASE save[i].patch = NoBot
    BY <2>1, <1>2 DEF SavesTyped, NoBot
  <2>2. CASE save[i].left
    BY <2>2, <1>2 DEF SavesTyped
  <2>3. CASE save[i].patch # NoBot /\ ~save[i].left
    <3>1. Flushes(i)
      BY <2>3, <1>1, <1>2, <1>5, <1>11, <1>12, Here DEF Waits, Pending, Saves
    <3>2. ~q.bereft => ~page[i].bereft
      BY <3>1, <1>1, <1>4, <1>6
    <3> QED
      BY <3>2, <1>2, <1>8, <1>10, <1>12 DEF SavesTyped
  <2> QED
    BY <2>1, <2>2, <2>3
<1>19. Follows(i)'
  <2>1. Flushes(i)' => page'[i].timer
    BY <1>6, <1>8, <1>10 DEF Flushes, Live
  <2>2. writer' = i /\ Pending(i)' /\ save'[i].at = "saved" => storage' = NoDraft
    BY <1>2, <1>5, <1>12, <1>15 DEF Follows, Pending
  <2> QED
    BY <2>1, <2>2 DEF Follows
<1> QED
  BY <1>2, <1>8, <1>10, <1>15, <1>16, <1>17, <1>18, <1>19, Here, OneTab DEF Tab

(* The first page of a visit is opened by the answer of the loader.        *)
LEMMA AnswersLoading ==
    ASSUME DraftsInv, NEW i \in Tabs, LoaderAnswers(i), page[i].at = "loading"
    PROVE  DraftsInv'
<1> DEFINE p == Opened(page[i].got, "no")
<1>1. p \in Pages /\ p.at = "open" /\ ~p.editor /\ TypedDraft(Draft(p))
  BY Here, OpenedShows
<1>2. page' = [page EXCEPT ![i] = p] /\ UNCHANGED <<bot, storage, save, last, visits, typed, writer>>
  BY HereTyped, Constants DEF LoaderAnswers, StoresNothing, Pages
<1> HIDE DEF p
<1>3. /\ page'[i] = p /\ (save[i].at = "no" \/ save[i].left)
      /\ page' = [page EXCEPT ![i] = page'[i]] /\ save' = [save EXCEPT ![i] = save'[i]]
  BY <1>2, Here
<1>4. Tab(i)'
  BY <1>1, <1>2, <1>3, Here DEF Tab, TypedPage, TypedDraft, Draft, Waits, SavesTyped, Follows, Pending,
                                Flushes, Live, NoBot
<1> QED
  BY <1>1, <1>2, <1>3, <1>4, Here, OneTab

(* The loader answers a page that is loading or open, never one that was   *)
(* left.                                                                   *)
LEMMA LoaderAnswersKeeps == ASSUME DraftsInv, NEW i \in Tabs, LoaderAnswers(i) PROVE DraftsInv'
<1>1. page[i].at \in {"loading", "open"}
  BY Here DEF LoaderAnswers, Tab, Waits, Pages
<1> QED
  BY <1>1, AnswersOpen, AnswersLoading

(***************************************************************************)
(* The theorems                                                            *)
(***************************************************************************)
(* The invariant holds at first.                                           *)
LEMMA DraftsBegin == DraftsInit => DraftsInv
<1> SUFFICES ASSUME DraftsInit PROVE DraftsInv
  OBVIOUS
<1>1. last = 1 /\ last \in 1..MaxTexts
  BY DraftsAssumption DEF DraftsInit
<1>2. /\ page = [i \in Tabs |-> Away] /\ save = [i \in Tabs |-> NoSave]
      /\ storage = NoDraft /\ writer = Nobody /\ typed = {} /\ visits \in 0..MaxVisits
  BY DraftsAssumption DEF DraftsInit
<1>3. bot \in Bots
  BY <1>1 DEF DraftsInit, Bots
<1>4. DraftsTypeOK
  BY <1>1, <1>2, <1>3, Constants DEF DraftsTypeOK, Pending, NoSave, Away
<1>5. TypedDraft(storage)
  BY <1>2 DEF TypedDraft, NoDraft, NoBot
<1>6. \A i \in Tabs : Tab(i)
  <2> SUFFICES ASSUME NEW i \in Tabs PROVE Tab(i)
    OBVIOUS
  <2>1. page[i] = Away /\ save[i] = NoSave /\ writer # i
    BY <1>2, DraftsAssumption
  <2>2. SavesTyped(i)
    BY <2>1 DEF SavesTyped, NoSave, NoBot
  <2> QED
    BY <2>1, <2>2 DEF Tab, TypedPage, Waits, Follows, Pending, NoSave, Away
<1> QED
  BY <1>4, <1>5, <1>6 DEF DraftsInv

(* Every step keeps it.                                                    *)
LEMMA DraftsGoOn == DraftsInv /\ [DraftsNext]_draftVars => DraftsInv'
<1> SUFFICES ASSUME DraftsInv, [DraftsNext]_draftVars PROVE DraftsInv'
  OBVIOUS
<1>1. CASE UNCHANGED draftVars
  BY <1>1 DEF draftVars, DraftsInv, DraftsTypeOK, Bots, Drafts, Pages, Saves, Tab, TypedPage, TypedDraft, Draft, Waits,
              SavesTyped, Follows, Pending, Flushes, Live
<1>2. CASE OthersEdit
  BY <1>2, OthersEditKeeps
<1>3. ASSUME NEW i \in Tabs,
             \/ Visits(i) \/ LoaderReads(i) \/ LoaderAnswers(i) \/ EditorReady(i) \/ Leaves(i) \/ Dies(i)
             \/ EditsName(i) \/ EditsInstructions(i) \/ Autosaves(i) \/ StartsFresh(i)
             \/ Submits(i) \/ PatchArrives(i) \/ Succeeds(i) \/ Fails(i)
      PROVE  DraftsInv'
  BY <1>3, VisitsKeeps, LoaderReadsKeeps, LoaderAnswersKeeps, EditorReadyKeeps, LeavesKeeps, DiesKeeps,
     EditsNameKeeps, EditsInstructionsKeeps, AutosavesKeeps, StartsFreshKeeps,
     SubmitsKeeps, PatchArrivesKeeps, SucceedsKeeps, FailsKeeps
<1> QED
  BY <1>1, <1>2, <1>3 DEF DraftsNext

(* The inductive invariant holds in every reachable state.                 *)
THEOREM DraftsInvariant == DraftsSpec => []DraftsInv
<1> QED
  BY DraftsBegin, DraftsGoOn, PTL DEF DraftsSpec

(* Every variable keeps its type, and only an open page has an editor, a   *)
(* timer or a save that it waits for.                                      *)
THEOREM DraftsTyped == DraftsSpec => []DraftsTypeOK
<1>1. DraftsInv => DraftsTypeOK
  BY DEF DraftsInv
<1> QED
  BY <1>1, DraftsInvariant, PTL

(* No save carries a text that was not typed in this browser, whatever     *)
(* drafts, agents and answers the page met before (agent-document.ts:436). *)
THEOREM SavesOnlyTypedHere == DraftsSpec => []SavesOnlyTyped
<1>1. DraftsInv => SavesOnlyTyped
  BY DEF DraftsInv, Tab, SavesTyped, SavesOnlyTyped
<1> QED
  BY <1>1, DraftsInvariant, PTL

(* What is stored is what the page that wrote it last shows, and nothing   *)
(* once its save succeeded (AgentDocumentBuilder.tsx:201-230).             *)
THEOREM StorageFollowsPage == DraftsSpec => []StorageFollows
<1>1. DraftsInv => StorageFollows
  BY DEF DraftsInv, Tab, Follows, StorageFollows
<1> QED
  BY <1>1, DraftsInvariant, PTL
=============================================================================
