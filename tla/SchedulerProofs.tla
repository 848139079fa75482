-------------------------- MODULE SchedulerProofs --------------------------
(***************************************************************************)
(* TurnScheduler, for every number of rooms, bots and messages and every   *)
(* cap: what the planner returns, who holds a turn, that work is exclusive *)
(* and what becomes of a turn.                                             *)
(***************************************************************************)
EXTENDS TurnScheduler, TLAPS, WellFoundedInduction, FiniteSetTheorems, SequenceTheorems

(***************************************************************************)
(* What planTurns (rooms/planner.ts) returns, for every room, message and  *)
(* workspace: a list of plans without ties, in which the direct turns come *)
(* first, and whose handoff depth is bounded.                              *)
(***************************************************************************)
(* Min, the CHOOSE of the community modules, exists for sets of places.    *)
LEMMA MinIsLeast ==
    ASSUME NEW S \in SUBSET Nat, S # {}
    PROVE  Min(S) \in S /\ \A j \in S : Min(S) <= j
<1> DEFINE R == {p \in Nat \X Nat : p[1] < p[2]}
<1>1. IsWellFoundedOn(R, Nat)
  BY NatLessThanWellFounded DEF OpToRel
<1>2. PICK i \in S : \A j \in S : ~ (<<j, i>> \in R)
  BY <1>1, WFMin
<1>3. \A j \in S : ~ (j < i)
  BY <1>2
<1>4. \A j \in S : i <= j
  BY <1>3
<1> QED
  BY <1>4 DEF Min

(* The first place of a listed element is one of its places.               *)
LEMMA FirstPlaceIsAPlace ==
    ASSUME NEW X, NEW s \in Seq(X), NEW x \in Range(s)
    PROVE  FirstPlace(s, x) \in 1 .. Len(s) /\ s[FirstPlace(s, x)] = x
<1> DEFINE P == {i \in DOMAIN s : s[i] = x}
<1>1. P \in SUBSET Nat /\ P # {}
  BY DEF Range
<1>2. Min(P) \in P
  <2> HIDE DEF P
  <2> QED
    BY <1>1, MinIsLeast
<1> QED
  BY <1>2 DEF FirstPlace

(* A mentioned bot's slot is the place of a mention of it.                 *)
LEMMA MentionSlotIsAPlace ==
    ASSUME NEW mentions \in Seq(Mention), NEW honoured \in SUBSET (DOMAIN mentions),
           NEW b \in {mentions[i].id : i \in honoured}
    PROVE  /\ MentionSlot(honoured, mentions, b) \in honoured
           /\ MentionSlot(honoured, mentions, b) \in 1 .. Len(mentions)
           /\ mentions[MentionSlot(honoured, mentions, b)].id = b
<1> DEFINE P == {i \in honoured : mentions[i].id = b}
<1>1. P \in SUBSET Nat /\ P # {}
  OBVIOUS
<1>2. Min(P) \in P
  <2> HIDE DEF P
  <2> QED
    BY <1>1, MinIsLeast
<1> QED
  BY <1>2 DEF MentionSlot

----------------------------------------------------------------------------
(* planTurns gives every bot a plan whose handoff depth is at most         *)
(* MAX_HANDOFF_DEPTH, so chains of message_agent calls end.                *)
THEOREM PlanTurnsType ==
    ASSUME NEW kind \in RoomKinds, NEW author \in AuthorKinds,
           NEW members \in Seq(Bots), NEW mentions \in Seq(Mention),
           NEW depth \in 0 .. MaxHandoffDepth, NEW automationBots \in Seq(Bots)
    PROVE  PlanTurns(kind, author, members, mentions, depth, automationBots) \in [Bots -> Plan]
<1> DEFINE plan == PlanTurns(kind, author, members, mentions, depth, automationBots)
           honoured == Honoured(author, members, mentions)
           mentioned == {mentions[i].id : i \in honoured}
<1>1. honoured \in SUBSET (DOMAIN mentions)
  BY DEF Honoured
<1>2. \A d \in 0 .. MaxHandoffDepth, n \in Nat :
         Direct(d, n) \in Plan /\ Optional(d, n) \in Plan /\ Unplanned \in Plan
  BY PlannerAssumption DEF Direct, Optional, Unplanned, Plan, ReplyModes
<1>3. \A b \in mentioned : MentionSlot(honoured, mentions, b) \in Nat
  BY <1>1, MentionSlotIsAPlace
<1>4. \A b \in Range(members) : FirstPlace(members, b) \in Nat
  BY FirstPlaceIsAPlace
<1>5. \A b \in Range(automationBots) : FirstPlace(automationBots, b) \in Nat
  BY FirstPlaceIsAPlace
<1>6. Len(mentions) \in Nat
  OBVIOUS
<1>7. ASSUME NEW b \in Bots PROVE plan[b] \in Plan
  <2>1. depth < MaxHandoffDepth => depth + 1 \in 0 .. MaxHandoffDepth
    BY PlannerAssumption
  <2>2. Unplanned \in Plan
    BY <1>2
  <2>3. CASE author = "system"
    BY <1>2, <1>5, <2>2, <2>3 DEF PlanTurns
  <2>4. CASE author = "bot"
    BY <1>2, <1>3, <2>1, <2>2, <2>4 DEF PlanTurns
  <2>5. CASE author \notin {"system", "bot"} /\ kind = "dm"
    BY <1>2, <2>2, <2>5 DEF PlanTurns
  <2>6. CASE author \notin {"system", "bot"} /\ kind # "dm"
    <3>1. b \in Range(members) => Len(mentions) + FirstPlace(members, b) \in Nat
      BY <1>4, <1>6
    <3> QED
      BY <1>2, <1>3, <2>2, <2>6, <3>1 DEF PlanTurns
  <2> QED
    BY <2>3, <2>4, <2>5, <2>6
<1> QED
  BY <1>7 DEF PlanTurns

(* The list planTurns returns is strictly ordered: no two planned bots     *)
(* share a place.                                                          *)
THEOREM PlansAreOrdered ==
    ASSUME NEW kind \in RoomKinds, NEW author \in AuthorKinds,
           NEW members \in Seq(Bots), NEW mentions \in Seq(Mention),
           NEW depth \in 0 .. MaxHandoffDepth, NEW automationBots \in Seq(Bots),
           NEW b \in Bots, NEW c \in Bots, b # c
    PROVE  LET plan == PlanTurns(kind, author, members, mentions, depth, automationBots)
           IN  {b, c} \subseteq Planned(plan) => plan[b].slot # plan[c].slot
<1> DEFINE plan == PlanTurns(kind, author, members, mentions, depth, automationBots)
           honoured == Honoured(author, members, mentions)
           mentioned == {mentions[i].id : i \in honoured}
<1>1. honoured \in SUBSET (DOMAIN mentions)
  BY DEF Honoured
<1>2. \A x \in mentioned : /\ MentionSlot(honoured, mentions, x) \in 1 .. Len(mentions)
                           /\ mentions[MentionSlot(honoured, mentions, x)].id = x
  BY <1>1, MentionSlotIsAPlace
<1>3. \A x \in Range(members) : /\ FirstPlace(members, x) \in 1 .. Len(members)
                                /\ members[FirstPlace(members, x)] = x
  BY FirstPlaceIsAPlace
<1>4. \A x \in Range(automationBots) : automationBots[FirstPlace(automationBots, x)] = x
  BY FirstPlaceIsAPlace
<1>5. \A d, n : /\ Direct(d, n).slot = n /\ Optional(d, n).slot = n
                /\ Unplanned.replyMode = "none"
  BY DEF Direct, Optional, Unplanned
<1> SUFFICES ASSUME plan[b].replyMode # "none", plan[c].replyMode # "none"
             PROVE  plan[b].slot # plan[c].slot
  BY DEF Planned
<1>6. CASE author = "system"
  <2>1. \A x \in {b, c} : /\ x \in Range(automationBots)
                          /\ plan[x].slot = FirstPlace(automationBots, x)
    BY <1>5, <1>6 DEF PlanTurns
  <2> QED
    BY <1>4, <2>1
<1>7. CASE author = "bot"
  <2>1. \A x \in {b, c} : /\ x \in mentioned
                          /\ plan[x].slot = MentionSlot(honoured, mentions, x)
    BY <1>5, <1>7 DEF PlanTurns
  <2> QED
    BY <1>2, <2>1
<1>8. CASE author = "user" /\ kind = "dm"
  BY <1>5, <1>8 DEF PlanTurns
<1>9. CASE author = "user" /\ kind = "group"
  <2>1. ASSUME NEW x \in {b, c}
        PROVE  \/ /\ x \in mentioned
                  /\ plan[x].slot = MentionSlot(honoured, mentions, x)
               \/ /\ x \notin mentioned /\ x \in Range(members)
                  /\ plan[x].slot = Len(mentions) + FirstPlace(members, x)
    BY <1>5, <1>9 DEF PlanTurns
  <2>2. \A x \in mentioned : MentionSlot(honoured, mentions, x) <= Len(mentions)
    BY <1>2
  <2>3. \A x \in Range(members) :
           FirstPlace(members, x) \in Nat /\ Len(mentions) + FirstPlace(members, x) > Len(mentions)
    BY <1>3
  <2> HIDE DEF plan, mentioned, honoured
  <2>4. CASE b \in mentioned /\ c \in mentioned
    BY <1>2, <2>1, <2>4
  <2>5. CASE b \in mentioned /\ c \notin mentioned
    BY <1>2, <2>1, <2>2, <2>3, <2>5
  <2>6. CASE b \notin mentioned /\ c \in mentioned
    BY <1>2, <2>1, <2>2, <2>3, <2>6
  <2>7. CASE b \notin mentioned /\ c \notin mentioned
    <3>1. FirstPlace(members, b) # FirstPlace(members, c)
      BY <1>3, <2>1, <2>7
    <3>2. /\ plan[b].slot = Len(mentions) + FirstPlace(members, b)
          /\ plan[c].slot = Len(mentions) + FirstPlace(members, c)
          /\ FirstPlace(members, b) \in Nat /\ FirstPlace(members, c) \in Nat
      BY <2>1, <2>3, <2>7
    <3> QED
      BY <3>1, <3>2
  <2> QED
    BY <2>4, <2>5, <2>6, <2>7
<1> QED
  BY <1>6, <1>7, <1>8, <1>9 DEF AuthorKinds, RoomKinds

(* Optional replies come after every direct one, and only a person's       *)
(* message in a group has them.                                            *)
THEOREM DirectBeforeOptional ==
    ASSUME NEW kind \in RoomKinds, NEW author \in AuthorKinds,
           NEW members \in Seq(Bots), NEW mentions \in Seq(Mention),
           NEW depth \in 0 .. MaxHandoffDepth, NEW automationBots \in Seq(Bots),
           NEW b \in Bots, NEW c \in Bots
    PROVE  LET plan == PlanTurns(kind, author, members, mentions, depth, automationBots)
           IN  plan[b].replyMode = "direct" /\ plan[c].replyMode = "optional"
               => /\ author = "user" /\ kind = "group"
                  /\ plan[b].slot < plan[c].slot
<1> DEFINE plan == PlanTurns(kind, author, members, mentions, depth, automationBots)
           honoured == Honoured(author, members, mentions)
           mentioned == {mentions[i].id : i \in honoured}
<1>1. honoured \in SUBSET (DOMAIN mentions)
  BY DEF Honoured
<1>2. \A x \in mentioned : MentionSlot(honoured, mentions, x) \in 1 .. Len(mentions)
  BY <1>1, MentionSlotIsAPlace
<1>3. \A x \in Range(members) : FirstPlace(members, x) \in 1 .. Len(members)
  BY FirstPlaceIsAPlace
<1>4. \A d, n : /\ Direct(d, n).slot = n /\ Direct(d, n).replyMode = "direct"
                /\ Optional(d, n).slot = n /\ Optional(d, n).replyMode = "optional"
                /\ Unplanned.replyMode = "none"
  BY DEF Direct, Optional, Unplanned
<1>5. Len(mentions) \in Nat /\ Len(members) \in Nat
  OBVIOUS
<1> SUFFICES ASSUME plan[b].replyMode = "direct", plan[c].replyMode = "optional"
             PROVE  author = "user" /\ kind = "group" /\ plan[b].slot < plan[c].slot
  OBVIOUS
<1>6. author = "user" /\ kind = "group"
  BY <1>4 DEF PlanTurns, AuthorKinds, RoomKinds
<1>7. b \in mentioned /\ plan[b].slot = MentionSlot(honoured, mentions, b)
  BY <1>4, <1>6 DEF PlanTurns
<1>8. c \in Range(members) /\ plan[c].slot = Len(mentions) + FirstPlace(members, c)
  BY <1>4, <1>6 DEF PlanTurns
<1> HIDE DEF plan, honoured, mentioned
<1>9. plan[b].slot \in Nat /\ plan[b].slot <= Len(mentions)
  BY <1>2, <1>5, <1>7
<1>10. plan[c].slot \in Nat /\ plan[c].slot > Len(mentions)
  <2>1. FirstPlace(members, c) \in 1 .. Len(members)
    BY <1>3, <1>8
  <2> QED
    BY <1>5, <1>8, <2>1
<1> QED
  BY <1>5, <1>6, <1>9, <1>10

(***************************************************************************)
(* The lists: that the turns of an instance are finitely many, what Lists  *)
(* lists, what splice() leaves and what enqueue() adds                     *)
(***************************************************************************)
(* There are finitely many turns.                                          *)
LEMMA TurnIdFinite == IsFiniteSet(TurnId)
<1> DEFINE T == Rooms \X ((1 .. MaxSeq) \X Bots)
           f == [t \in TurnId |-> <<t.room, <<t.seq, t.bot>>>>]
<1>1. IsFiniteSet((1 .. MaxSeq) \X Bots)
  <2>1. 1 \in Int /\ MaxSeq \in Int
    BY SchedulerAssumption
  <2>2. IsFiniteSet(1 .. MaxSeq)
    BY <2>1, FS_Interval
  <2> QED
    BY <2>2, PlannerAssumption, FS_Product
<1>2. IsFiniteSet(T)
  BY <1>1, SchedulerAssumption, FS_Product
<1>3. f \in [TurnId -> T]
  BY DEF TurnId
<1>4. ASSUME NEW t \in TurnId, NEW u \in TurnId, f[t] = f[u]
      PROVE  t = u
  <2>1. t.room = u.room /\ t.seq = u.seq /\ t.bot = u.bot
    BY <1>4
  <2> QED
    BY <2>1 DEF TurnId
<1>5. f \in Injection(TurnId, T)
  BY <1>3, <1>4 DEF Injection, IsInjective
<1> QED
  BY <1>2, <1>5, FS_Injection

(* A list of a set names every turn of its set once.                       *)
LEMMA ListsAll ==
    ASSUME NEW S \in SUBSET TurnId, NEW q \in Lists(S)
    PROVE  q \in Seq(TurnId) /\ Range(q) = S /\ IsInjective(q)
<1>1. IsFiniteSet(S) /\ Cardinality(S) \in Nat
  BY TurnIdFinite, FS_Subset, FS_CardinalityType
<1> DEFINE n == Cardinality(S)
<1>2. q \in [1 .. n -> S] /\ \A i, j \in 1 .. n : i < j => q[i] # q[j]
  BY DEF Lists
<1>3. IsInjective(q)
  BY <1>1, <1>2 DEF IsInjective
<1>4. q \in Seq(TurnId)
  BY <1>1, <1>2
<1>5. IsFiniteSet(1 .. n) /\ Cardinality(1 .. n) = n
  BY <1>1, FS_Interval
<1>6. q \in Injection(1 .. n, S)
  BY <1>2, <1>3 DEF Injection
<1>7. q \in Surjection(1 .. n, S)
  BY <1>1, <1>5, <1>6, FS_Injection
<1> QED
  BY <1>2, <1>3, <1>4, <1>7 DEF Surjection, Range

(* What splice(i, 1) leaves at each place.                                 *)
LEMMA RemoveAtPlaces ==
    ASSUME NEW X, NEW s \in Seq(X), NEW i \in 1 .. Len(s)
    PROVE  /\ RemoveAt(s, i) \in Seq(X) /\ Len(RemoveAt(s, i)) = Len(s) - 1
           /\ DOMAIN RemoveAt(s, i) = 1 .. Len(s) - 1
           /\ \A j \in 1 .. Len(s) - 1 :
                 RemoveAt(s, i)[j] = IF j < i THEN s[j] ELSE s[j + 1]
<1> DEFINE a == SubSeq(s, 1, i - 1)
           b == SubSeq(s, i + 1, Len(s))
           r == RemoveAt(s, i)
<1>1. Len(s) \in Nat /\ DOMAIN s = 1 .. Len(s)
  OBVIOUS
<1>2. /\ a \in Seq(X) /\ Len(a) = i - 1
      /\ \A j \in 1 .. i - 1 : a[j] = s[j]
  BY <1>1, SubSeqProperties
<1>3. /\ b \in Seq(X) /\ Len(b) = Len(s) - i
      /\ \A j \in 1 .. Len(s) - i : b[j] = s[i + j]
  <2>1. i + 1 \in Int /\ Len(s) \in Int /\ \A j \in i + 1 .. Len(s) : s[j] \in X
    BY <1>1
  <2>2. /\ b \in Seq(X)
        /\ Len(b) = IF i + 1 <= Len(s) THEN Len(s) - (i + 1) + 1 ELSE 0
        /\ \A j \in 1 .. Len(s) - (i + 1) + 1 : b[j] = s[(i + 1) + j - 1]
    BY <2>1, SubSeqProperties
  <2> HIDE DEF b
  <2>3. Len(b) = Len(s) - i
    <3>1. i \in Int /\ 1 <= i /\ i <= Len(s)
      BY <1>1
    <3>2. CASE i < Len(s)
      <4>1. i + 1 <= Len(s)
        BY <2>1, <3>1, <3>2
      <4> QED
        BY <2>1, <2>2, <3>1, <4>1
    <3>3. CASE i = Len(s)
      <4>1. ~ (i + 1 <= Len(s)) /\ Len(s) - i = 0
        BY <2>1, <3>1, <3>3
      <4> QED
        BY <2>2, <4>1
    <3> QED
      BY <2>1, <3>1, <3>2, <3>3
  <2>4. ASSUME NEW j \in 1 .. Len(s) - i
        PROVE  b[j] = s[i + j]
    <3>1. j \in 1 .. Len(s) - (i + 1) + 1 /\ (i + 1) + j - 1 = i + j
      BY <1>1
    <3> QED
      BY <2>2, <3>1
  <2> QED
    BY <2>2, <2>3, <2>4
<1>4. /\ r \in Seq(X) /\ Len(r) = Len(s) - 1 /\ DOMAIN r = 1 .. Len(s) - 1
      /\ \A j \in 1 .. Len(s) - 1 : r[j] = IF j < i THEN s[j] ELSE s[j + 1]
  <2> HIDE DEF a, b
  <2>1. r = a \o b
    BY DEF RemoveAt, a, b
  <2>2. /\ a \o b \in Seq(X) /\ Len(a \o b) = Len(a) + Len(b)
        /\ \A j \in 1 .. Len(a) + Len(b) :
              (a \o b)[j] = IF j <= Len(a) THEN a[j] ELSE b[j - Len(a)]
    BY <1>2, <1>3, ConcatProperties
  <2>3. Len(r) = Len(s) - 1
    BY <1>1, <1>2, <1>3, <2>1, <2>2
  <2>4. ASSUME NEW j \in 1 .. Len(s) - 1
        PROVE  r[j] = IF j < i THEN s[j] ELSE s[j + 1]
    <3>1. j < i => j \in 1 .. i - 1
      BY <1>1
    <3>2. j >= i => j - (i - 1) \in 1 .. Len(s) - i /\ i + (j - (i - 1)) = j + 1
      BY <1>1
    <3> QED
      BY <1>1, <1>2, <1>3, <2>1, <2>2, <3>1, <3>2
  <2>5. r \in Seq(X)
    BY <2>1, <2>2
  <2> HIDE DEF r
  <2>6. DOMAIN r = 1 .. Len(r)
    BY <2>5
  <2> QED
    BY <2>3, <2>4, <2>5, <2>6
<1> QED
  BY <1>4

(* splice(i, 1) takes the turn at i out of a list that names no turn twice.*)
LEMMA RemoveAtList ==
    ASSUME NEW X, NEW s \in Seq(X), NEW i \in 1 .. Len(s)
    PROVE  /\ RemoveAt(s, i) \in Seq(X)
           /\ Range(RemoveAt(s, i)) \subseteq Range(s)
           /\ IsInjective(s) => /\ IsInjective(RemoveAt(s, i))
                                /\ Range(RemoveAt(s, i)) = Range(s) \ {s[i]}
<1> DEFINE r == RemoveAt(s, i)
<1>1. Len(s) \in Nat /\ DOMAIN s = 1 .. Len(s)
  OBVIOUS
<1>2. /\ r \in Seq(X) /\ Len(r) = Len(s) - 1 /\ DOMAIN r = 1 .. Len(s) - 1
      /\ \A j \in 1 .. Len(s) - 1 : r[j] = IF j < i THEN s[j] ELSE s[j + 1]
  BY RemoveAtPlaces
<1> HIDE DEF r
<1>3. Range(r) \subseteq Range(s)
  BY <1>1, <1>2 DEF Range
<1>4. ASSUME IsInjective(s)
      PROVE  IsInjective(r) /\ Range(r) = Range(s) \ {s[i]}
  <2>1. IsInjective(r)
    <3>1. ASSUME NEW j \in 1 .. Len(s) - 1, NEW k \in 1 .. Len(s) - 1, r[j] = r[k]
          PROVE  j = k
      <4>1. \A m, n \in 1 .. Len(s) : s[m] = s[n] => m = n
        BY <1>1, <1>4 DEF IsInjective
      <4>2. j \in 1 .. Len(s) /\ j + 1 \in 1 .. Len(s) /\ k \in 1 .. Len(s) /\ k + 1 \in 1 .. Len(s)
        BY <1>1
      <4> QED
        BY <1>2, <3>1, <4>1, <4>2
    <3> QED
      BY <1>2, <3>1 DEF IsInjective
  <2>2. s[i] \notin Range(r)
    <3>1. \A m, n \in 1 .. Len(s) : s[m] = s[n] => m = n
      BY <1>1, <1>4 DEF IsInjective
    <3>2. ASSUME NEW j \in 1 .. Len(s) - 1 PROVE r[j] # s[i]
      <4>1. CASE j < i
        BY <1>1, <1>2, <3>1, <4>1
      <4>2. CASE j >= i
        <5>1. r[j] = s[j + 1] /\ j + 1 \in 1 .. Len(s) /\ j + 1 # i
          BY <1>1, <1>2, <4>2
        <5> QED
          BY <1>1, <3>1, <5>1
      <4> QED
        BY <1>1, <4>1, <4>2
    <3> QED
      BY <1>2, <3>2 DEF Range
  <2>3. ASSUME NEW k \in 1 .. Len(s), k # i
        PROVE  s[k] \in Range(r)
    <3>1. CASE k < i
      <4>1. k \in 1 .. Len(s) - 1 /\ r[k] = s[k]
        BY <1>1, <1>2, <3>1
      <4> QED
        BY <1>2, <4>1 DEF Range
    <3>2. CASE k > i
      <4>1. k - 1 \in 1 .. Len(s) - 1 /\ r[k - 1] = s[k]
        BY <1>1, <1>2, <3>2
      <4> QED
        BY <1>2, <4>1 DEF Range
    <3> QED
      BY <2>3, <3>1, <3>2
  <2> QED
    BY <1>1, <1>3, <2>1, <2>2, <2>3 DEF Range
<1> QED
  BY <1>2, <1>3, <1>4 DEF r

(* Joining a list with turns it does not name.                             *)
LEMMA ConcatList ==
    ASSUME NEW X, NEW s \in Seq(X), NEW q \in Seq(X)
    PROVE  /\ s \o q \in Seq(X)
           /\ Range(s \o q) = Range(s) \cup Range(q)
           /\ IsInjective(s) /\ IsInjective(q) /\ Range(s) \cap Range(q) = {}
              => IsInjective(s \o q)
<1>1. /\ s \o q \in Seq(X) /\ Len(s \o q) = Len(s) + Len(q)
      /\ \A i \in 1 .. Len(s) + Len(q) :
            (s \o q)[i] = IF i <= Len(s) THEN s[i] ELSE q[i - Len(s)]
  BY ConcatProperties
<1>2. Range(s \o q) = Range(s) \cup Range(q)
  BY RangeConcatenation
<1>3. ASSUME IsInjective(s), IsInjective(q), Range(s) \cap Range(q) = {},
             NEW i \in 1 .. Len(s \o q), NEW j \in 1 .. Len(s \o q),
             (s \o q)[i] = (s \o q)[j]
      PROVE  i = j
  <2>1. Len(s) \in Nat /\ Len(q) \in Nat /\ DOMAIN s = 1 .. Len(s) /\ DOMAIN q = 1 .. Len(q)
    OBVIOUS
  <2>2. CASE i <= Len(s) /\ j <= Len(s)
    BY <1>1, <1>3, <2>1, <2>2 DEF IsInjective
  <2>3. CASE i > Len(s) /\ j > Len(s)
    <3>1. i - Len(s) \in 1 .. Len(q) /\ j - Len(s) \in 1 .. Len(q)
      BY <1>1, <2>1, <2>3
    <3>2. q[i - Len(s)] = q[j - Len(s)]
      BY <1>1, <1>3, <2>1, <2>3
    <3>3. i - Len(s) = j - Len(s)
      BY <1>3, <2>1, <3>1, <3>2 DEF IsInjective
    <3> QED
      BY <2>1, <3>3
  <2>4. \A k \in 1 .. Len(s \o q) :
           /\ k <= Len(s) => (s \o q)[k] \in Range(s)
           /\ k > Len(s) => (s \o q)[k] \in Range(q)
    <3>1. ASSUME NEW k \in 1 .. Len(s \o q), k > Len(s)
          PROVE  k - Len(s) \in 1 .. Len(q) /\ (s \o q)[k] = q[k - Len(s)]
      BY <1>1, <2>1, <3>1
    <3>2. \A k \in 1 .. Len(q) : q[k] \in Range(q)
      BY <2>1 DEF Range
    <3>3. \A k \in 1 .. Len(s) : s[k] \in Range(s)
      BY <2>1 DEF Range
    <3>4. ASSUME NEW k \in 1 .. Len(s \o q), k <= Len(s)
          PROVE  k \in 1 .. Len(s) /\ (s \o q)[k] = s[k]
      BY <1>1, <2>1, <3>4
    <3> QED
      BY <3>1, <3>2, <3>3, <3>4
  <2> QED
    BY <1>3, <2>1, <2>2, <2>3, <2>4
<1> QED
  BY <1>1, <1>2, <1>3 DEF IsInjective

(* enqueue() adds the given turns it does not hold yet, each once.         *)
LEMMA EnqueueAdds ==
    ASSUME pending \in Seq(TurnId), pumping \in {"idle", "scheduled", "draining"},
           NEW turns \in SUBSET TurnId, Enqueue(turns)
    PROVE  /\ pending' \in Seq(TurnId)
           /\ pumping' \in {"idle", "scheduled", "draining"}
           /\ Range(pending') \subseteq Range(pending) \cup (turns \ controllers)
           /\ server = "up" => Range(pending') = Range(pending) \cup (turns \ controllers)
           /\ IsInjective(pending) => IsInjective(pending')
<1>1. pumping' \in {"idle", "scheduled", "draining"}
  BY DEF Enqueue, WakePump
<1>2. CASE server = "up"
  <2>1. PICK q \in InOrder(Addable(turns)) : pending' = pending \o q
    BY <1>2 DEF Enqueue
  <2>2. Addable(turns) \in SUBSET TurnId
    BY DEF Addable
  <2>5. q \in Lists(Addable(turns))
    BY <2>1 DEF InOrder
  <2>3. q \in Seq(TurnId) /\ Range(q) = Addable(turns) /\ IsInjective(q)
    BY <2>2, <2>5, ListsAll
  <2>4. Range(pending) \cap Range(q) = {}
    BY <2>3 DEF Addable
  <2>6. /\ pending' \in Seq(TurnId)
        /\ Range(pending') = Range(pending) \cup Range(q)
        /\ IsInjective(pending) => IsInjective(pending')
    BY <2>1, <2>3, <2>4, ConcatList
  <2> QED
    BY <1>1, <2>3, <2>6 DEF Addable
<1>3. CASE server # "up"
  BY <1>1, <1>3 DEF Enqueue
<1> QED
  BY <1>2, <1>3

(***************************************************************************)
(* The invariant                                                           *)
(***************************************************************************)
(* A turn that exists in any form has its trigger message.                 *)
Born(t) == t.seq <= Len(messages[t.room])

Triggered ==
    \A t \in TurnId :
        \/ status[t] # "none" \/ pc[t] # "none" \/ t \in Range(pending)
        \/ t \in resuming \/ t \in admitting[t.room]
        => Born(t)

(* Turns wait in the admission of their own room.                          *)
AdmittedHere == \A r \in Rooms : \A t \in admitting[r] : t.room = r

(* The three registers of the scheduler say the same: what executes is     *)
(* what has a controller, and activeRooms and activeBots are its rooms and *)
(* bots, each once.                                                        *)
Held ==
    /\ \A t \in TurnId : pc[t] # "none" <=> t \in controllers
    /\ activeRooms = {t.room : t \in controllers}
    /\ activeBots = {t.bot : t \in controllers}
    /\ \A t, u \in controllers : t # u => t.room # u.room /\ t.bot # u.bot
    /\ Cardinality(controllers) <= MaxConcurrentTurns

(* While the process is down nothing is in its memory.                     *)
Down == server = "down" => controllers = {} /\ pending = <<>>

HoldInv == TypeOK /\ Triggered /\ AdmittedHere /\ Held /\ HeldOnce /\ Down

----------------------------------------------------------------------------
(* The steps of execute() that move only its program counter.              *)
Moves(t) == \/ ReadTurn(t) \/ WeighFallback(t) \/ DecideReply(t) \/ LookForNotice(t)
            \/ EndRun(t) \/ CardsPosted(t)

(* What these steps have in common.                                        *)
LEMMA MovesMove ==
    ASSUME NEW t \in TurnId, Moves(t)
    PROVE  /\ Live /\ pc[t] # "none"
           /\ \E label \in Label \ {"none"} : pc' = [pc EXCEPT ![t] = label]
           /\ UNCHANGED <<dbVars, Executing>>
<1>1. CASE ReadTurn(t)
  BY <1>1 DEF ReadTurn, At, Goto, UnlessAborted, Label
<1>2. CASE WeighFallback(t)
  BY <1>2 DEF WeighFallback, At, Goto, UnlessAborted, Label
<1>3. CASE DecideReply(t)
  BY <1>3 DEF DecideReply, AfterVerdict, At, Goto, Label, Settling
<1>4. CASE LookForNotice(t)
  BY <1>4 DEF LookForNotice, At, Goto, Label, Settling
<1>5. CASE EndRun(t)
  BY <1>5 DEF EndRun, At, Goto, Label, Settling
<1>6. CASE CardsPosted(t)
  BY <1>6 DEF CardsPosted, At, Goto, Label
<1> QED
  BY <1>1, <1>2, <1>3, <1>4, <1>5, <1>6 DEF Moves

(* A turn that has its trigger has a well-typed plan.                      *)
LEMMA PlanOfType ==
    ASSUME TypeOK, NEW t \in TurnId, Born(t)
    PROVE  /\ messages[t.room][t.seq] \in Row
           /\ PlanOf(t) \in Plan
<1>1. messages[t.room] \in Seq(Row) /\ t.seq \in 1 .. Len(messages[t.room]) /\ t.bot \in Bots
  BY SchedulerAssumption DEF TypeOK, TurnId, Born
<1>2. messages[t.room][t.seq] \in Row
  BY <1>1
<1> QED
  BY <1>1, <1>2 DEF PlanOf, Row

(* What post() commits.                                                    *)
LEMMA PostType ==
    ASSUME TypeOK, NEW r \in Rooms, NEW author \in AuthorKinds, NEW mentions \in Seq(Mention),
           NEW depth \in 0 .. MaxHandoffDepth, NEW automationBots \in Seq(Bots),
           Post(r, author, mentions, depth, automationBots)
    PROVE  /\ messages' \in [Rooms -> Seq(Row)]
           /\ Len(messages'[r]) = Len(messages[r]) + 1
           /\ \A s \in Rooms \ {r} : messages'[s] = messages[s]
           /\ admitting[r] = {}
           /\ \E born \in SUBSET {t \in TurnId : t.room = r /\ t.seq = Len(messages[r]) + 1} :
                 /\ born # {}
                 /\ status' = [t \in TurnId |-> IF t \in born THEN "queued" ELSE status[t]]
                 /\ admitting' = [admitting EXCEPT ![r] = born]
<1> DEFINE plan == PlanTurns(Kind[r], author, Members[r], mentions, depth, automationBots)
           n == Len(messages[r]) + 1
           born == {[room |-> r, seq |-> n, bot |-> b] : b \in Planned(plan)}
           row == [author |-> author, command |-> FALSE, plan |-> plan]
<1>1. Kind[r] \in RoomKinds /\ Members[r] \in Seq(Bots) /\ MaxSeq \in Nat
  BY SchedulerAssumption
<1>2. plan \in [Bots -> Plan]
  BY <1>1, PlanTurnsType
<1>3. row \in Row
  BY <1>2 DEF Row
<1>4. messages[r] \in Seq(Row) /\ Len(messages[r]) \in Nat
  BY DEF TypeOK
<1> HIDE DEF plan, row
<1>5. /\ admitting[r] = {} /\ n <= MaxSeq /\ born # {}
      /\ messages' = [messages EXCEPT ![r] = Append(@, row)]
      /\ status' = [t \in TurnId |-> IF t \in born THEN "queued" ELSE status[t]]
      /\ admitting' = [admitting EXCEPT ![r] = born]
  BY DEF Post, plan, row
<1>6. Append(messages[r], row) \in Seq(Row) /\ Len(Append(messages[r], row)) = n
  BY <1>3, <1>4, AppendProperties
<1>7. born \in SUBSET {t \in TurnId : t.room = r /\ t.seq = n}
  BY <1>1, <1>4, <1>5 DEF TurnId, Planned
<1>8. /\ messages' \in [Rooms -> Seq(Row)] /\ messages'[r] = Append(messages[r], row)
      /\ \A s \in Rooms \ {r} : messages'[s] = messages[s]
  BY <1>5, <1>6 DEF TypeOK
<1> QED
  BY <1>5, <1>6, <1>7, <1>8

----------------------------------------------------------------------------
(* The invariant holds in an empty workspace.                              *)
LEMMA HoldInit == Init => HoldInv
<1> SUFFICES ASSUME Init PROVE HoldInv
  OBVIOUS
<1>1. TypeOK
  BY SchedulerAssumption DEF Init, TypeOK, Status, ApprovalStatus, Label
<1>2. Triggered /\ AdmittedHere /\ HeldOnce /\ Down
  <2>1. Range(<<>>) = {} /\ IsInjective(<<>>)
    BY DEF Range, IsInjective
  <2>2. pending = <<>> /\ resuming = {} /\ controllers = {} /\ server = "up"
    BY DEF Init
  <2>3. \A r \in Rooms : admitting[r] = {}
    BY DEF Init
  <2>4. \A t \in TurnId : status[t] = "none" /\ pc[t] = "none" /\ t.room \in Rooms
    BY DEF Init, TurnId
  <2> QED
    BY <2>1, <2>2, <2>3, <2>4 DEF Triggered, AdmittedHere, HeldOnce, Down
<1>3. Held
  BY SchedulerAssumption, FS_EmptySet DEF Init, Held
<1> QED
  BY <1>1, <1>2, <1>3 DEF HoldInv

(* The steps that touch neither the registers, the pending list, nor what  *)
(* admission and messages hold.                                            *)
Still == /\ UNCHANGED <<messages, server, pending, controllers, activeRooms, activeBots,
                        admitting>>
         /\ \A t \in resuming' : t \in resuming \/ status[t] # "none"
         /\ \A t \in TurnId : /\ pc'[t] = "none" <=> pc[t] = "none"
                              /\ status'[t] # "none" => status[t] # "none" \/ pc[t] # "none"

(* A step that leaves the holders alone preserves the invariant.           *)
LEMMA StillHolds ==
    ASSUME HoldInv, Still, TypeOK'
    PROVE  HoldInv'
<1>1. Triggered'
  BY DEF HoldInv, Triggered, Still, Born, TypeOK
<1>2. AdmittedHere' /\ HeldOnce' /\ Down'
  BY DEF HoldInv, AdmittedHere, HeldOnce, Down, Still
<1>3. Held'
  BY DEF HoldInv, Held, Still
<1> QED
  BY <1>1, <1>2, <1>3 DEF HoldInv

(* Steps that move only a program counter keep every holder.               *)
LEMMA MovesHold ==
    ASSUME HoldInv, NEW t \in TurnId, Moves(t)
    PROVE  HoldInv'
<1>1. PICK label \in Label \ {"none"} : pc' = [pc EXCEPT ![t] = label]
  BY MovesMove
<1>2. pc[t] # "none" /\ UNCHANGED <<dbVars, Executing>>
  BY MovesMove
<1>3. TypeOK'
  BY <1>1, <1>2 DEF HoldInv, TypeOK, dbVars, Executing
<1>4. Still
  BY <1>1, <1>2 DEF HoldInv, TypeOK, Still, dbVars, Executing
<1> QED
  BY <1>3, <1>4, StillHolds

(* PostNotice preserves the invariant HoldInv.                             *)
LEMMA PostNoticeHolds ==
    ASSUME HoldInv, NEW t \in TurnId, PostNotice(t)
    PROVE  HoldInv'
<1>1. notices' \in [Rooms -> [1 .. MaxSeq -> Nat]]
  <2>1. t.room \in Rooms /\ t.seq \in 1 .. MaxSeq
    BY DEF TurnId
  <2>2. notices[t.room] \in [1 .. MaxSeq -> Nat]
    BY <2>1 DEF HoldInv, TypeOK
  <2>3. notices[t.room][t.seq] + 1 \in Nat
    <3>1. notices[t.room][t.seq] \in Nat
      BY <2>1, <2>2
    <3> QED
      BY <3>1
  <2>4. [notices[t.room] EXCEPT ![t.seq] = @ + 1] \in [1 .. MaxSeq -> Nat]
    <3> DEFINE n == notices[t.room]
    <3> HIDE DEF n
    <3>1. n \in [1 .. MaxSeq -> Nat] /\ n[t.seq] + 1 \in Nat
      BY <2>2, <2>3 DEF n
    <3>2. [n EXCEPT ![t.seq] = n[t.seq] + 1] \in [1 .. MaxSeq -> Nat]
      BY <3>1
    <3> QED
      BY <3>2 DEF n
  <2>5. notices' = [notices EXCEPT ![t.room] = [notices[t.room] EXCEPT ![t.seq] = @ + 1]]
    BY <2>1, <2>2 DEF HoldInv, TypeOK, PostNotice
  <2> QED
    BY <2>1, <2>4, <2>5 DEF HoldInv, TypeOK
<1>2. TypeOK'
  BY <1>1 DEF HoldInv, TypeOK, PostNotice, At, Goto, Label, Settling, Executing
<1>3. Still
  BY DEF HoldInv, TypeOK, Still, PostNotice, At, Goto, Executing
<1> QED
  BY <1>2, <1>3, StillHolds

(* MarkRunning preserves the invariant HoldInv.                            *)
LEMMA MarkRunningHolds ==
    ASSUME HoldInv, NEW t \in TurnId, MarkRunning(t)
    PROVE  HoldInv'
<1>1. TypeOK'
  BY DEF HoldInv, TypeOK, MarkRunning, At, Goto, Label, Executing, TurnId, Status, Stoppable
<1>2. Still
  BY DEF HoldInv, TypeOK, Still, MarkRunning, At, Goto, Executing
<1> QED
  BY <1>1, <1>2, StillHolds

(* AskApproval preserves the invariant HoldInv.                            *)
LEMMA AskApprovalHolds ==
    ASSUME HoldInv, NEW t \in TurnId, AskApproval(t)
    PROVE  HoldInv'
<1>1. approval' \in [TurnId -> [Slots -> ApprovalStatus]]
  BY DEF HoldInv, TypeOK, AskApproval, ApprovalStatus
<1>2. TypeOK'
  BY <1>1 DEF HoldInv, TypeOK, AskApproval, At, Goto, Label, Executing, TurnId, Status, Stoppable
<1>3. Still
  BY DEF HoldInv, TypeOK, Still, AskApproval, At, Goto, Executing
<1> QED
  BY <1>2, <1>3, StillHolds

(* PostReply preserves the invariant HoldInv.                              *)
LEMMA PostReplyHolds ==
    ASSUME HoldInv, NEW t \in TurnId, PostReply(t)
    PROVE  HoldInv'
<1>1. TypeOK'
  BY DEF HoldInv, TypeOK, PostReply, At, Goto, Label, Settling, Executing
<1>2. Still
  BY DEF HoldInv, TypeOK, Still, PostReply, At, Goto, Executing
<1> QED
  BY <1>1, <1>2, StillHolds

(* Finish preserves the invariant HoldInv.                                 *)
LEMMA FinishHolds ==
    ASSUME HoldInv, NEW t \in TurnId, Finish(t)
    PROVE  HoldInv'
<1>1. Outcome(pc[t]) \in Status
  BY DEF Outcome, Status, Final
<1>2. errors' \subseteq TurnId
  BY DEF HoldInv, TypeOK, Finish
<1>3. TypeOK'
  BY <1>1, <1>2 DEF HoldInv, TypeOK, Finish, Goto, Label, Executing, TurnId
<1>4. Still
  BY DEF HoldInv, TypeOK, Still, Finish, Settling, Goto, Executing
<1> QED
  BY <1>3, <1>4, StillHolds

(* The finally of start() releases exactly what start() took: no other     *)
(* turn that executes has the room or the bot.                             *)
LEMMA ExitHolds ==
    ASSUME HoldInv, NEW t \in TurnId, Exit(t)
    PROVE  HoldInv'
<1>1. /\ pc[t] = "exit" /\ t \in controllers /\ controllers \subseteq TurnId
      /\ controllers' = controllers \ {t}
      /\ activeRooms' = activeRooms \ {t.room}
      /\ activeBots' = activeBots \ {t.bot}
      /\ pc' = [pc EXCEPT ![t] = "none"]
      /\ UNCHANGED <<dbVars, server, pending, admitting, resuming>>
  BY DEF HoldInv, TypeOK, Held, Exit, At, Goto
<1>2. TypeOK'
  <2>1. pumping' \in {"idle", "scheduled", "draining"}
    BY DEF HoldInv, TypeOK, Exit, WakePump
  <2>2. cancelling' \in [TurnId -> {"no", "found", "foundActive", "release"}]
    BY DEF HoldInv, TypeOK, Exit
  <2> QED
    BY <1>1, <2>1, <2>2 DEF HoldInv, TypeOK, Exit, Label, dbVars
<1>3. Triggered' /\ AdmittedHere' /\ HeldOnce' /\ Down'
  BY <1>1 DEF HoldInv, TypeOK, Triggered, Born, AdmittedHere, HeldOnce, Down, dbVars
<1>4. Held'
  <2>1. \A u \in TurnId : pc'[u] # "none" <=> u \in controllers'
    BY <1>1 DEF HoldInv, TypeOK, Held
  <2>2. \A u \in controllers : u # t => u.room # t.room /\ u.bot # t.bot
    BY <1>1 DEF HoldInv, Held
  <2>3. activeRooms' = {u.room : u \in controllers'}
    BY <1>1, <2>2 DEF HoldInv, Held
  <2>4. activeBots' = {u.bot : u \in controllers'}
    BY <1>1, <2>2 DEF HoldInv, Held
  <2>5. Cardinality(controllers') <= MaxConcurrentTurns
    <3>1. IsFiniteSet(controllers) /\ Cardinality(controllers) \in Nat
      BY <1>1, TurnIdFinite, FS_Subset, FS_CardinalityType
    <3>2. Cardinality(controllers \ {t}) = Cardinality(controllers) - 1
      BY <1>1, <3>1, FS_RemoveElement
    <3> QED
      BY <1>1, <3>1, <3>2, SchedulerAssumption DEF HoldInv, Held
  <2> QED
    BY <1>1, <2>1, <2>3, <2>4, <2>5 DEF HoldInv, Held
<1> QED
  BY <1>2, <1>3, <1>4 DEF HoldInv

(* start(): the turn leaves the pending list and takes its room, its bot   *)
(* and one of the slots under the cap.                                     *)
LEMMA StartHolds ==
    ASSUME HoldInv, NEW i \in DOMAIN pending, Start(i)
    PROVE  HoldInv'
<1> DEFINE t == pending[i]
<1>1. pending \in Seq(TurnId) /\ i \in 1 .. Len(pending) /\ t \in TurnId /\ t \in Range(pending)
  BY DEF HoldInv, TypeOK, Range
<1>2. /\ t.room \notin activeRooms /\ t.bot \notin activeBots
      /\ server = "up" /\ Cardinality(controllers) < MaxConcurrentTurns
      /\ pumping' = "draining"
      /\ pending' = RemoveAt(pending, i)
      /\ controllers' = controllers \cup {t}
      /\ activeRooms' = activeRooms \cup {t.room}
      /\ activeBots' = activeBots \cup {t.bot}
      /\ pc' = [pc EXCEPT ![t] = "read"]
      /\ UNCHANGED <<dbVars, server, aborted, admitting, resuming, cancelling, stopped, crashes>>
  BY DEF Start, Startable, CanStart
<1> HIDE DEF t
<1>3. /\ pending' \in Seq(TurnId) /\ IsInjective(pending')
      /\ Range(pending') = Range(pending) \ {t}
  BY <1>1, <1>2, RemoveAtList DEF HoldInv, HeldOnce, t
<1>4. TypeOK'
  <2>1. t.room \in Rooms /\ t.bot \in Bots
    BY <1>1 DEF TurnId
  <2> QED
    BY <1>1, <1>2, <1>3, <2>1 DEF HoldInv, TypeOK, Label, dbVars
<1>5. Triggered' /\ AdmittedHere' /\ Down'
  BY <1>1, <1>2, <1>3 DEF HoldInv, TypeOK, Triggered, Born, AdmittedHere, Down, dbVars
<1>6. HeldOnce'
  BY <1>2, <1>3 DEF HoldInv, HeldOnce
<1>7. Held'
  <2>1. \A u \in TurnId : pc'[u] # "none" <=> u \in controllers'
    BY <1>1, <1>2 DEF HoldInv, TypeOK, Held
  <2>2. /\ activeRooms' = {u.room : u \in controllers'}
        /\ activeBots' = {u.bot : u \in controllers'}
    BY <1>2 DEF HoldInv, Held
  <2>3. \A u \in controllers : u.room # t.room /\ u.bot # t.bot
    BY <1>2 DEF HoldInv, Held
  <2>4. Cardinality(controllers') <= MaxConcurrentTurns
    <3>1. IsFiniteSet(controllers) /\ Cardinality(controllers) \in Nat
      BY TurnIdFinite, FS_Subset, FS_CardinalityType DEF HoldInv, TypeOK
    <3>2. \/ Cardinality(controllers') = Cardinality(controllers)
          \/ Cardinality(controllers') = Cardinality(controllers) + 1
      BY <1>2, <3>1, FS_AddElement
    <3>3. MaxConcurrentTurns \in Nat /\ Cardinality(controllers) < MaxConcurrentTurns
      BY <1>2, SchedulerAssumption
    <3> QED
      BY <3>1, <3>2, <3>3
  <2> QED
    BY <1>2, <2>1, <2>2, <2>3, <2>4 DEF HoldInv, Held
<1> QED
  BY <1>4, <1>5, <1>6, <1>7 DEF HoldInv

(* post() by a member, an automation or the handoff tool: the new turns    *)
(* wait in the admission.                                                  *)
LEMMA PostHolds ==
    ASSUME HoldInv, NEW r \in Rooms, NEW author \in AuthorKinds, NEW mentions \in Seq(Mention),
           NEW depth \in 0 .. MaxHandoffDepth, NEW automationBots \in Seq(Bots),
           Post(r, author, mentions, depth, automationBots),
           pc' \in [TurnId -> Label], \A t \in TurnId : pc'[t] = "none" <=> pc[t] = "none",
           UNCHANGED <<started, errors, approval, botStatus, replies, notices, server, pending,
                       controllers, activeRooms, activeBots, pumping, aborted, resuming,
                       cancelling, stopped, crashes>>
    PROVE  HoldInv'
<1>1. /\ messages' \in [Rooms -> Seq(Row)]
      /\ Len(messages'[r]) = Len(messages[r]) + 1
      /\ \A s \in Rooms \ {r} : messages'[s] = messages[s]
  BY PostType DEF HoldInv
<1>2. PICK born \in SUBSET {t \in TurnId : t.room = r /\ t.seq = Len(messages[r]) + 1} :
         /\ born # {}
         /\ status' = [t \in TurnId |-> IF t \in born THEN "queued" ELSE status[t]]
         /\ admitting' = [admitting EXCEPT ![r] = born]
  <2>1. TypeOK /\ Post(r, author, mentions, depth, automationBots)
    BY DEF HoldInv
  <2> QED
    BY <2>1, PostType
<1>3. \A t \in TurnId : t.room \in Rooms /\ t.seq \in Nat
  BY SchedulerAssumption DEF TurnId
<1>4. \A s \in Rooms : Len(messages[s]) \in Nat /\ Len(messages'[s]) \in Nat
  BY <1>1 DEF HoldInv, TypeOK
<1>5. TypeOK'
  BY <1>1, <1>2 DEF HoldInv, TypeOK, Status, Stoppable
<1>6. \A t \in TurnId : Born(t) \/ t \in born => Born(t)'
  BY <1>1, <1>2, <1>3, <1>4 DEF Born
<1>7. Triggered'
  BY <1>2, <1>3, <1>6 DEF HoldInv, TypeOK, Triggered
<1>8. AdmittedHere'
  BY <1>2 DEF HoldInv, TypeOK, AdmittedHere
<1>9. HeldOnce' /\ Down' /\ Held'
  BY DEF HoldInv, HeldOnce, Down, Held
<1> QED
  BY <1>5, <1>7, <1>8, <1>9 DEF HoldInv

(* PostMessage preserves the invariant HoldInv.                            *)
LEMMA PostMessageHolds ==
    ASSUME HoldInv, NEW r \in Rooms, PostMessage(r)
    PROVE  HoldInv'
<1>1. 0 \in 0 .. MaxHandoffDepth /\ <<>> \in Seq(Mention) /\ <<>> \in Seq(Bots)
  BY PlannerAssumption
<1>2. pc' \in [TurnId -> Label] /\ \A t \in TurnId : pc'[t] = "none" <=> pc[t] = "none"
  BY DEF HoldInv, TypeOK, PostMessage
<1>3. CASE \E m \in Mentions : Post(r, "user", m, 0, <<>>)
  <2>1. PICK m \in Mentions : Post(r, "user", m, 0, <<>>)
    BY <1>3
  <2>2. m \in Seq(Mention) /\ "user" \in AuthorKinds
    BY SchedulerAssumption DEF AuthorKinds
  <2> QED
    BY <1>1, <1>2, <2>1, <2>2, PostHolds DEF PostMessage
<1>4. CASE \E targets \in Automations : Post(r, "system", <<>>, 0, targets)
  <2>1. PICK targets \in Automations : Post(r, "system", <<>>, 0, targets)
    BY <1>4
  <2>2. targets \in Seq(Bots) /\ "system" \in AuthorKinds
    BY SchedulerAssumption DEF AuthorKinds
  <2> QED
    BY <1>1, <1>2, <2>1, <2>2, PostHolds DEF PostMessage
<1> QED
  BY <1>3, <1>4 DEF PostMessage

(* Handoff preserves the invariant HoldInv.                                *)
LEMMA HandoffHolds ==
    ASSUME HoldInv, NEW t \in TurnId, Handoff(t)
    PROVE  HoldInv'
<1>1. pc[t] = "run" /\ pc' = [pc EXCEPT ![t] = "handoff"] /\ t.room \in Rooms
  BY DEF Handoff, At, Goto, TurnId
<1>2. pc' \in [TurnId -> Label] /\ \A u \in TurnId : pc'[u] = "none" <=> pc[u] = "none"
  BY <1>1 DEF HoldInv, TypeOK, Label
<1>3. PICK b \in Range(Members[t.room]) :
         Post(t.room, "bot", <<[id |-> b, handoff |-> TRUE]>>, PlanOf(t).handoffDepth, <<>>)
  BY DEF Handoff
<1>4. b \in Bots
  BY <1>1, SchedulerAssumption DEF Range
<1>5. <<[id |-> b, handoff |-> TRUE]>> \in Seq(Mention) /\ "bot" \in AuthorKinds
      /\ <<>> \in Seq(Bots)
  BY <1>4 DEF Mention, AuthorKinds
<1>6. PlanOf(t).handoffDepth \in 0 .. MaxHandoffDepth
  <2>1. Born(t)
    BY <1>1 DEF HoldInv, Triggered
  <2> QED
    BY <2>1, PlanOfType DEF HoldInv, Plan
<1>7. UNCHANGED <<started, errors, approval, botStatus, replies, notices, server, pending,
                  controllers, activeRooms, activeBots, pumping, aborted, resuming,
                  cancelling, stopped, crashes>>
  BY DEF Handoff
<1> QED
  BY <1>1, <1>2, <1>3, <1>5, <1>6, <1>7, PostHolds

(* enqueue() after an admission adds nobody who is pending or executes.    *)
LEMMA AdmitEnqueueHolds ==
    ASSUME HoldInv, NEW r \in Rooms, AdmitEnqueue(r)
    PROVE  HoldInv'
<1>1. admitting[r] \in SUBSET TurnId
  BY DEF HoldInv, TypeOK
<1>2. /\ pending' \in Seq(TurnId) /\ pumping' \in {"idle", "scheduled", "draining"}
      /\ Range(pending') \subseteq Range(pending) \cup (admitting[r] \ controllers)
      /\ IsInjective(pending')
  BY <1>1, EnqueueAdds DEF AdmitEnqueue, HoldInv, TypeOK, HeldOnce
<1>3. pc' \in [TurnId -> Label] /\ \A t \in TurnId : pc'[t] = "none" <=> pc[t] = "none"
  BY DEF AdmitEnqueue, HoldInv, TypeOK, Label
<1>4. TypeOK'
  BY <1>2, <1>3 DEF AdmitEnqueue, HoldInv, TypeOK, dbVars
<1>5. Triggered'
  <2>1. \A t \in admitting[r] : t.room = r
    BY DEF HoldInv, AdmittedHere
  <2>2. \A t \in TurnId : t \in admitting'[t.room] => t \in admitting[t.room]
    BY DEF AdmitEnqueue, HoldInv, TypeOK, TurnId
  <2>3. \A t \in TurnId : t \in Range(pending') => t \in Range(pending) \/ t \in admitting[t.room]
    BY <1>2, <2>1
  <2> QED
    BY <1>3, <2>2, <2>3 DEF AdmitEnqueue, HoldInv, Triggered, Born, dbVars
<1>6. AdmittedHere'
  BY DEF AdmitEnqueue, HoldInv, TypeOK, AdmittedHere
<1>7. HeldOnce'
  BY <1>2 DEF AdmitEnqueue, HoldInv, HeldOnce
<1>8. Held' /\ Down'
  BY <1>3 DEF AdmitEnqueue, HoldInv, Held, Down, Live
<1> QED
  BY <1>4, <1>5, <1>6, <1>7, <1>8 DEF HoldInv

(* enqueue() after a decision adds nobody who is pending or executes.      *)
LEMMA ResumeHolds ==
    ASSUME HoldInv, NEW t \in TurnId, Resume(t)
    PROVE  HoldInv'
<1>1. {t} \in SUBSET TurnId
  OBVIOUS
<1>2. /\ pending' \in Seq(TurnId) /\ pumping' \in {"idle", "scheduled", "draining"}
      /\ Range(pending') \subseteq Range(pending) \cup ({t} \ controllers)
      /\ IsInjective(pending')
  BY <1>1, EnqueueAdds DEF Resume, HoldInv, TypeOK, HeldOnce
<1>3. TypeOK'
  BY <1>2 DEF Resume, HoldInv, TypeOK, dbVars
<1>4. Triggered' /\ AdmittedHere'
  BY <1>2 DEF Resume, HoldInv, Triggered, AdmittedHere, Born, dbVars
<1>5. HeldOnce'
  BY <1>2 DEF Resume, HoldInv, HeldOnce
<1>6. Held' /\ Down'
  BY DEF Resume, HoldInv, Held, Down, Live
<1> QED
  BY <1>3, <1>4, <1>5, <1>6 DEF HoldInv

(* ConnectCommand preserves the invariant HoldInv.                         *)
LEMMA ConnectCommandHolds ==
    ASSUME HoldInv, NEW r \in Rooms, ConnectCommand(r)
    PROVE  HoldInv'
<1> DEFINE t == [room |-> r, seq |-> Len(messages[r]) + 1, bot |-> Members[r][1]]
           plan == [b \in Bots |-> IF b = t.bot THEN Direct(0, 1) ELSE Unplanned]
           row == [author |-> "user", command |-> TRUE, plan |-> plan]
<1>1. Members[r] \in Seq(Bots) /\ Members[r] # <<>> /\ messages[r] \in Seq(Row)
  BY SchedulerAssumption DEF ConnectCommand, HoldInv, TypeOK
<1>2. Len(messages[r]) + 1 \in 1 .. MaxSeq /\ Members[r][1] \in Bots
  BY <1>1, SchedulerAssumption DEF ConnectCommand
<1>3. t \in TurnId /\ t.room = r /\ t.seq = Len(messages[r]) + 1
  BY <1>2 DEF TurnId
<1>4. Direct(0, 1) \in Plan /\ Unplanned \in Plan
  BY PlannerAssumption DEF Direct, Unplanned, Plan, ReplyModes
<1>5. row \in Row
  BY <1>4 DEF Row, AuthorKinds
<1>6. /\ messages' = [messages EXCEPT ![r] = Append(@, row)]
      /\ status' = [status EXCEPT ![t] = "waiting_approval"]
      /\ \E a \in Slots : approval' = [approval EXCEPT ![t][a] = "pending"]
      /\ UNCHANGED <<started, errors, botStatus, replies, notices, memVars, stopped, crashes>>
  BY DEF ConnectCommand
<1> HIDE DEF t, row
<1>7. /\ Append(messages[r], row) \in Seq(Row)
      /\ Len(Append(messages[r], row)) = Len(messages[r]) + 1
  BY <1>1, <1>5, AppendProperties
<1>8. /\ messages' \in [Rooms -> Seq(Row)] /\ messages'[r] = Append(messages[r], row)
      /\ \A s \in Rooms \ {r} : messages'[s] = messages[s]
  BY <1>6, <1>7 DEF HoldInv, TypeOK
<1>9. TypeOK'
  <2>1. approval' \in [TurnId -> [Slots -> ApprovalStatus]]
    BY <1>3, <1>6 DEF HoldInv, TypeOK, ApprovalStatus
  <2> QED
    BY <1>3, <1>6, <1>8, <2>1 DEF HoldInv, TypeOK, memVars, Status, Stoppable
<1>10. Triggered'
  <2>1. \A u \in TurnId : u.room \in Rooms /\ u.seq \in Nat
    BY SchedulerAssumption DEF TurnId
  <2>2. ASSUME NEW u \in TurnId, Born(u) \/ u = t PROVE Born(u)'
    <3>1. CASE u.room = r
      <4>1. u.seq <= Len(messages[r]) + 1
        BY <1>1, <1>3, <2>1, <2>2, <3>1 DEF Born
      <4>2. Len(messages'[u.room]) = Len(messages[r]) + 1
        BY <1>7, <1>8, <3>1
      <4> QED
        BY <4>1, <4>2 DEF Born
    <3>2. CASE u.room # r
      <4>1. messages'[u.room] = messages[u.room] /\ u # t
        BY <1>3, <1>8, <2>1, <3>2
      <4> QED
        BY <4>1, <2>2 DEF Born
    <3> QED
      BY <3>1, <3>2
  <2> QED
    BY <1>3, <1>6, <2>2 DEF HoldInv, TypeOK, Triggered, memVars
<1>11. AdmittedHere' /\ HeldOnce' /\ Down' /\ Held'
  BY <1>6 DEF HoldInv, AdmittedHere, HeldOnce, Down, Held, memVars
<1> QED
  BY <1>9, <1>10, <1>11 DEF HoldInv

(* Decide preserves the invariant HoldInv.                                 *)
LEMMA DecideHolds ==
    ASSUME HoldInv, NEW t \in TurnId, NEW a \in Slots, NEW verdict \in {"approved", "denied"},
           Decide(t, a, verdict)
    PROVE  HoldInv'
<1>1. approval' \in [TurnId -> [Slots -> ApprovalStatus]]
  BY DEF Decide, HoldInv, TypeOK, ApprovalStatus
<1>2. /\ status' \in [TurnId -> Status] /\ errors' \subseteq TurnId /\ resuming' \subseteq TurnId
      /\ botStatus' \in [Bots -> {"idle", "working", "waiting_approval"}]
  <2>1. {"queued", "done", "skipped"} \subseteq Status /\ t.bot \in Bots
    BY DEF Status, Stoppable, Final, TurnId
  <2>2. CASE OthersPending(t, a)
    BY <2>2 DEF Decide, HoldInv, TypeOK
  <2>3. CASE ~OthersPending(t, a) /\ messages[t.room][t.seq].command
    BY <2>1, <2>3 DEF Decide, HoldInv, TypeOK
  <2>4. CASE ~OthersPending(t, a) /\ ~messages[t.room][t.seq].command
    <3>1. /\ status' = [status EXCEPT ![t] = "queued"] /\ errors' = errors \ {t}
          /\ botStatus' = [botStatus EXCEPT ![t.bot] = "idle"]
          /\ resuming' = resuming \cup {t}
      BY <2>4 DEF Decide
    <3> QED
      BY <2>1, <3>1 DEF HoldInv, TypeOK
  <2> QED
    BY <2>2, <2>3, <2>4
<1>3. TypeOK'
  BY <1>1, <1>2 DEF Decide, HoldInv, TypeOK
<1>4. Still
  BY DEF Decide, HoldInv, TypeOK, Still
<1> QED
  BY <1>3, <1>4, StillHolds

(* Expire preserves the invariant HoldInv.                                 *)
LEMMA ExpireHolds ==
    ASSUME HoldInv, NEW overdue \in SUBSET TurnId, Expire(overdue)
    PROVE  HoldInv'
<1>1. approval' \in [TurnId -> [Slots -> ApprovalStatus]]
  BY DEF Expire, HoldInv, TypeOK, ApprovalStatus
<1>2. /\ status' \in [TurnId -> Status] /\ errors' \subseteq TurnId
      /\ botStatus' \in [Bots -> {"idle", "working", "waiting_approval"}]
  BY DEF Expire, HoldInv, TypeOK, Status, Final
<1>3. TypeOK'
  BY <1>1, <1>2 DEF Expire, HoldInv, TypeOK, memVars
<1>4. Still
  BY DEF Expire, HoldInv, TypeOK, Still, memVars
<1> QED
  BY <1>3, <1>4, StillHolds

(* CancelFind preserves the invariant HoldInv.                             *)
LEMMA CancelFindHolds ==
    ASSUME HoldInv, NEW t \in TurnId, CancelFind(t)
    PROVE  HoldInv'
<1>1. /\ pending' \in Seq(TurnId) /\ Range(pending') \subseteq Range(pending)
      /\ IsInjective(pending')
  <2>1. CASE t \in Range(pending)
    <3>1. FirstPlace(pending, t) \in 1 .. Len(pending)
      BY <2>1, FirstPlaceIsAPlace DEF HoldInv, TypeOK
    <3>2. pending' = RemoveAt(pending, FirstPlace(pending, t))
      BY <2>1 DEF CancelFind, Withdrawn
    <3> QED
      BY <3>1, <3>2, RemoveAtList DEF HoldInv, TypeOK, HeldOnce
  <2>2. CASE t \notin Range(pending)
    BY <2>2 DEF CancelFind, Withdrawn, HoldInv, TypeOK, HeldOnce
  <2> QED
    BY <2>1, <2>2
<1>2. TypeOK'
  BY <1>1 DEF CancelFind, HoldInv, TypeOK, dbVars
<1>3. Triggered' /\ AdmittedHere' /\ HeldOnce'
  BY <1>1 DEF CancelFind, HoldInv, Triggered, AdmittedHere, HeldOnce, Born, dbVars
<1>4. Held' /\ Down'
  BY DEF CancelFind, HoldInv, Held, Down, Live
<1> QED
  BY <1>2, <1>3, <1>4 DEF HoldInv

(* CancelCommit preserves the invariant HoldInv.                           *)
LEMMA CancelCommitHolds ==
    ASSUME HoldInv, NEW t \in TurnId, CancelCommit(t)
    PROVE  HoldInv'
<1>1. TypeOK'
  <2>1. "cancelled" \in Status
    BY DEF Status
  <2>2. CASE Cancellable(t)
    <3>1. status' = [status EXCEPT ![t] = "cancelled"]
      BY <2>2 DEF CancelCommit
    <3>2. aborted' \subseteq TurnId
      BY <2>2 DEF CancelCommit, HoldInv, TypeOK
    <3>3. cancelling' = [cancelling EXCEPT ![t] = "release"]
      BY <2>2 DEF CancelCommit
    <3> QED
      BY <2>1, <3>1, <3>2, <3>3 DEF CancelCommit, HoldInv, TypeOK
  <2>3. CASE ~Cancellable(t)
    BY <2>3 DEF CancelCommit, HoldInv, TypeOK
  <2> QED
    BY <2>2, <2>3
<1>2. Still
  BY DEF CancelCommit, HoldInv, TypeOK, Still, Cancellable, Stoppable
<1> QED
  BY <1>1, <1>2, StillHolds

(* CancelRelease preserves the invariant HoldInv.                          *)
LEMMA CancelReleaseHolds ==
    ASSUME HoldInv, NEW t \in TurnId, CancelRelease(t)
    PROVE  HoldInv'
<1>1. TypeOK'
  BY DEF CancelRelease, HoldInv, TypeOK, TurnId
<1>2. Still
  BY DEF CancelRelease, HoldInv, TypeOK, Still
<1> QED
  BY <1>1, <1>2, StillHolds

(* Shutdown preserves the invariant HoldInv.                               *)
LEMMA ShutdownHolds ==
    ASSUME HoldInv, Shutdown
    PROVE  HoldInv'
<1>1. TypeOK'
  BY DEF Shutdown, HoldInv, TypeOK, dbVars
<1>2. Triggered' /\ AdmittedHere' /\ HeldOnce' /\ Held' /\ Down'
  BY DEF Shutdown, HoldInv, Triggered, AdmittedHere, HeldOnce, Held, Down, Born, dbVars
<1> QED
  BY <1>1, <1>2 DEF HoldInv

(* Crash preserves the invariant HoldInv.                                  *)
LEMMA CrashHolds ==
    ASSUME HoldInv, Crash
    PROVE  HoldInv'
<1>1. <<>> \in Seq(TurnId) /\ Range(<<>>) = {} /\ IsInjective(<<>>)
  BY DEF Range, IsInjective
<1>2. TypeOK'
  BY <1>1 DEF Crash, HoldInv, TypeOK, dbVars, Label
<1>3. Triggered' /\ AdmittedHere' /\ HeldOnce' /\ Down'
  <2>1. \A t \in TurnId : t.room \in Rooms
    BY DEF TurnId
  <2> QED
    BY <1>1, <2>1 DEF Crash, HoldInv, Triggered, AdmittedHere, HeldOnce, Down, Born, dbVars
<1>4. Held'
  BY FS_EmptySet, SchedulerAssumption DEF Crash, Held
<1> QED
  BY <1>2, <1>3, <1>4 DEF HoldInv

(* RecoverRunning preserves the invariant HoldInv.                         *)
LEMMA RecoverRunningHolds ==
    ASSUME HoldInv, NEW t \in TurnId, RecoverRunning(t)
    PROVE  HoldInv'
<1>1. TypeOK'
  BY DEF RecoverRunning, RecoveredStatus, HoldInv, TypeOK, memVars, Status, Final, TurnId
<1>2. Still
  BY DEF RecoverRunning, HoldInv, TypeOK, Still, memVars
<1> QED
  BY <1>1, <1>2, StillHolds

(* RecoverQueued preserves the invariant HoldInv.                          *)
LEMMA RecoverQueuedHolds ==
    ASSUME HoldInv, RecoverQueued
    PROVE  HoldInv'
<1> DEFINE S == {t \in TurnId : status[t] = "queued"}
<1>1. pending' \in Lists(S)
  BY DEF RecoverQueued, RecoveredOrder
<1>2. pending' \in Seq(TurnId) /\ Range(pending') = S /\ IsInjective(pending')
  BY <1>1, ListsAll
<1>3. controllers = {} /\ server' = "up"
  BY DEF RecoverQueued, HoldInv, Down
<1>4. TypeOK'
  BY <1>2 DEF RecoverQueued, HoldInv, TypeOK, dbVars
<1>5. Triggered' /\ AdmittedHere'
  BY <1>2 DEF RecoverQueued, HoldInv, Triggered, AdmittedHere, Born, dbVars
<1>6. HeldOnce' /\ Down' /\ Held'
  BY <1>2, <1>3 DEF RecoverQueued, HoldInv, HeldOnce, Down, Held
<1> QED
  BY <1>4, <1>5, <1>6 DEF HoldInv

(* PumpDone preserves the invariant HoldInv.                               *)
LEMMA PumpDoneHolds ==
    ASSUME HoldInv, PumpDone
    PROVE  HoldInv'
<1>1. TypeOK'
  BY DEF PumpDone, HoldInv, TypeOK, dbVars
<1>2. Triggered' /\ AdmittedHere' /\ HeldOnce' /\ Held' /\ Down'
  BY DEF PumpDone, HoldInv, Triggered, AdmittedHere, HeldOnce, Held, Down, Born, dbVars
<1> QED
  BY <1>1, <1>2 DEF HoldInv

(* Stuttering preserves the invariant.                                     *)
LEMMA StutterHolds ==
    ASSUME HoldInv, UNCHANGED vars
    PROVE  HoldInv'
<1>1. TypeOK'
  BY DEF vars, dbVars, memVars, HoldInv, TypeOK
<1>2. Triggered' /\ AdmittedHere' /\ HeldOnce' /\ Held' /\ Down'
  BY DEF vars, dbVars, memVars, HoldInv, Triggered, AdmittedHere, HeldOnce, Held, Down, Born
<1> QED
  BY <1>1, <1>2 DEF HoldInv

----------------------------------------------------------------------------
(* No step breaks the invariant.                                           *)
LEMMA HoldNext ==
    ASSUME HoldInv, [Next]_vars
    PROVE  HoldInv'
<1>1. CASE UNCHANGED vars
  BY <1>1, StutterHolds
<1>2. CASE Pump
  BY <1>2, PumpDoneHolds, StartHolds DEF Pump
<1>3. ASSUME NEW r \in Rooms, PostMessage(r) \/ AdmitEnqueue(r) \/ ConnectCommand(r)
      PROVE  HoldInv'
  BY <1>3, PostMessageHolds, AdmitEnqueueHolds, ConnectCommandHolds
<1>4. ASSUME NEW t \in TurnId, Execute(t)
      PROVE  HoldInv'
  <2>1. CASE Moves(t)
    BY <2>1, MovesHold
  <2>2. CASE PostNotice(t) \/ MarkRunning(t) \/ AskApproval(t)
    BY <2>2, PostNoticeHolds, MarkRunningHolds, AskApprovalHolds
  <2>3. CASE PostReply(t) \/ Finish(t) \/ Exit(t)
    BY <2>3, PostReplyHolds, FinishHolds, ExitHolds
  <2> QED
    BY <1>4, <2>1, <2>2, <2>3 DEF Execute, Moves
<1>5. ASSUME NEW t \in TurnId, Handoff(t) \/ Resume(t)
      PROVE  HoldInv'
  BY <1>5, HandoffHolds, ResumeHolds
<1>6. ASSUME NEW t \in TurnId, CancelFind(t) \/ CancelCommit(t) \/ CancelRelease(t)
      PROVE  HoldInv'
  BY <1>6, CancelFindHolds, CancelCommitHolds, CancelReleaseHolds
<1>7. ASSUME NEW t \in TurnId, NEW a \in Slots, NEW v \in {"approved", "denied"}, Decide(t, a, v)
      PROVE  HoldInv'
  BY <1>7, DecideHolds
<1>8. CASE ExpireSome
  BY <1>8, ExpireHolds DEF ExpireSome
<1>9. CASE Shutdown \/ Crash \/ RecoverQueued
  BY <1>9, ShutdownHolds, CrashHolds, RecoverQueuedHolds
<1>10. ASSUME NEW t \in TurnId, RecoverRunning(t)
       PROVE  HoldInv'
  BY <1>10, RecoverRunningHolds
<1> QED
  BY <1>1, <1>2, <1>3, <1>4, <1>5, <1>6, <1>7, <1>8, <1>9, <1>10 DEF Next

(* In every reachable state the registers of the scheduler agree.          *)
THEOREM HoldInvariant == Spec => []HoldInv
<1>1. Init => HoldInv
  BY HoldInit
<1>2. HoldInv /\ [Next]_vars => HoldInv'
  BY HoldNext
<1> QED
  BY <1>1, <1>2, PTL DEF Spec

(* The variables keep their types in every instance.                       *)
THEOREM TypeCorrect == Spec => []TypeOK
<1>1. HoldInv => TypeOK
  BY DEF HoldInv
<1> QED
  BY <1>1, HoldInvariant, PTL

(* enqueue(), the pump, cancel() and recover() between them never hold a   *)
(* turn twice.                                                             *)
THEOREM HeldOnceAlways == Spec => []HeldOnce
<1>1. HoldInv => HeldOnce
  BY DEF HoldInv
<1> QED
  BY <1>1, HoldInvariant, PTL

(* In every room one turn at a time, for every bot one turn at a time, and *)
(* never more than the cap, whatever stops, pauses and crashes.            *)
THEOREM WorkIsExclusive == Spec => []ExclusiveWork
<1>1. HoldInv => ExclusiveWork
  <2> SUFFICES ASSUME HoldInv PROVE ExclusiveWork
    OBVIOUS
  <2>1. {t \in TurnId : pc[t] # "none"} = controllers
    BY DEF HoldInv, TypeOK, Held
  <2> QED
    BY <2>1 DEF ExclusiveWork, HoldInv, Held
<1> QED
  BY <1>1, HoldInvariant, PTL

(***************************************************************************)
(* What becomes of a turn: its end is final, it is answered at most once,  *)
(* and its pauses can be answered.                                         *)
(*                                                                         *)
(* finish() and the running transaction write a status without looking at  *)
(* the one they overwrite, so all of this rests on where an execution can  *)
(* stand while a turn has a status: the invariant Phase.                   *)
(***************************************************************************)
Early == {"weigh", "decide", "keyless", "keynote", "provide"}
Late == {"run", "handoff", "ask", "answer", "done", "fail"}
Skips == {"skip", "skipError"}

Open(t) == \E a \in Slots : approval[t][a] = "pending"

Phase(t) ==
    /\ pc[t] \in Early => status[t] \in {"queued", "cancelled"}
    /\ pc[t] \in Late => status[t] \in {"running", "cancelled"}
    /\ pc[t] \in Skips => status[t] \in {"queued", "running", "cancelled"}

(* An execution past its first look at the turn has no open approval.      *)
Settled(t) == pc[t] \in Early \cup Late \cup Skips => ~Open(t)

Answerable(t) ==
    /\ status[t] = "waiting_approval" => Open(t)
    /\ Open(t) => status[t] \in {"waiting_approval", "cancelled"}

(* Once the reply is posted no execution comes near to posting another.    *)
Replied(t) ==
    replies[t] # 0 => /\ replies[t] = 1
                      /\ pc[t] \in {"none", "read", "done", "exit"}
                      /\ status[t] \in {"running", "cancelled", "done", "failed"}

TurnOK(t) == Phase(t) /\ Settled(t) /\ Answerable(t) /\ Replied(t)
TurnInv == \A t \in TurnId : TurnOK(t)

(* The status a step may not change.                                       *)
FinalKept == \A t \in TurnId : status[t] \in Final => status'[t] = status[t]

(* Everything of a turn the invariant speaks of.                           *)
Kept(t) == /\ status'[t] = status[t] /\ pc'[t] = pc[t]
           /\ approval'[t] = approval[t] /\ replies'[t] = replies[t]

(* A turn a step leaves alone stays in order.                              *)
LEMMA KeptOK ==
    ASSUME NEW t \in TurnId, TurnOK(t), Kept(t)
    PROVE  TurnOK(t)' /\ status'[t] = status[t]
BY DEF TurnOK, Phase, Settled, Answerable, Replied, Open, Kept

(* A step of one turn need only be looked at there.                        *)
LEMMA OneTurnSteps ==
    ASSUME TurnInv, NEW t \in TurnId, \A u \in TurnId \ {t} : Kept(u),
           TurnOK(t)', status[t] \in Final => status'[t] = status[t]
    PROVE  TurnInv' /\ FinalKept
BY KeptOK DEF TurnInv, FinalKept

(* A step that touches no turn preserves the invariant.                    *)
LEMMA AllKept ==
    ASSUME TurnInv, \A t \in TurnId : Kept(t)
    PROVE  TurnInv' /\ FinalKept
BY KeptOK DEF TurnInv, FinalKept

----------------------------------------------------------------------------
(* The steps of execute().                                                 *)

(* The first look: only a queued turn goes on, and its pause is over.      *)
LEMMA ReadTurnOK ==
    ASSUME HoldInv, TurnInv, NEW t \in TurnId, ReadTurn(t)
    PROVE  TurnInv' /\ FinalKept
<1>1. \A u \in TurnId \ {t} : Kept(u)
  BY DEF ReadTurn, Goto, UnlessAborted, HoldInv, TypeOK, Kept, dbVars
<1>2. /\ status'[t] = status[t] /\ approval' = approval /\ replies' = replies /\ pc[t] = "read"
      /\ \/ pc'[t] = "exit"
         \/ pc'[t] \in {"weigh", "provide"} /\ status[t] = "queued"
  BY DEF ReadTurn, At, Goto, UnlessAborted, HoldInv, TypeOK, dbVars
<1>3. TurnOK(t)'
  BY <1>2 DEF TurnInv, TurnOK, Phase, Settled, Answerable, Replied, Open, Early, Late, Skips
<1> QED
  BY <1>1, <1>2, <1>3, OneTurnSteps

(* The fallback is decided without writing anything.                       *)
LEMMA WeighFallbackOK ==
    ASSUME HoldInv, TurnInv, NEW t \in TurnId, WeighFallback(t)
    PROVE  TurnInv' /\ FinalKept
<1>1. \A u \in TurnId \ {t} : Kept(u)
  BY DEF WeighFallback, Goto, UnlessAborted, HoldInv, TypeOK, Kept, dbVars
<1>2. /\ status'[t] = status[t] /\ approval' = approval /\ replies' = replies /\ pc[t] = "weigh"
      /\ pc'[t] \in {"decide", "provide", "exit"}
  BY DEF WeighFallback, At, Goto, UnlessAborted, HoldInv, TypeOK, dbVars
<1>3. TurnOK(t)'
  BY <1>2 DEF TurnInv, TurnOK, Phase, Settled, Answerable, Replied, Open, Early, Late, Skips
<1> QED
  BY <1>1, <1>2, <1>3, OneTurnSteps

(* The reply decision moves the execution and nothing else.                *)
LEMMA DecideReplyOK ==
    ASSUME HoldInv, TurnInv, NEW t \in TurnId, DecideReply(t)
    PROVE  TurnInv' /\ FinalKept
<1>1. \A u \in TurnId \ {t} : Kept(u)
  BY DEF DecideReply, AfterVerdict, Goto, HoldInv, TypeOK, Kept, dbVars
<1>2. /\ status'[t] = status[t] /\ approval' = approval /\ replies' = replies /\ pc[t] = "decide"
      /\ pc'[t] \in {"provide", "skip", "skipError", "keyless", "exit"}
  BY DEF DecideReply, AfterVerdict, At, Goto, HoldInv, TypeOK, dbVars
<1>3. TurnOK(t)'
  BY <1>2 DEF TurnInv, TurnOK, Phase, Settled, Answerable, Replied, Open, Early, Late, Skips
<1> QED
  BY <1>1, <1>2, <1>3, OneTurnSteps

(* Looking for and posting a notice leave the turn alone.                  *)
LEMMA NoticeStepsOK ==
    ASSUME HoldInv, TurnInv, NEW t \in TurnId, LookForNotice(t) \/ PostNotice(t)
    PROVE  TurnInv' /\ FinalKept
<1>1. \A u \in TurnId \ {t} : Kept(u)
  BY DEF LookForNotice, PostNotice, Goto, HoldInv, TypeOK, Kept, dbVars
<1>2. /\ status'[t] = status[t] /\ approval' = approval /\ replies' = replies
      /\ pc[t] \in {"keyless", "keynote"}
      /\ pc'[t] \in {"keynote", "skipError"}
  BY DEF LookForNotice, PostNotice, At, Goto, HoldInv, TypeOK, dbVars
<1>3. TurnOK(t)'
  BY <1>2 DEF TurnInv, TurnOK, Phase, Settled, Answerable, Replied, Open, Early, Late, Skips
<1> QED
  BY <1>1, <1>2, <1>3, OneTurnSteps

(* The running transaction finds queued or, after a Stop, cancelled.       *)
LEMMA MarkRunningOK ==
    ASSUME HoldInv, TurnInv, NEW t \in TurnId, MarkRunning(t)
    PROVE  TurnInv' /\ FinalKept
<1>1. \A u \in TurnId \ {t} : Kept(u)
  BY DEF MarkRunning, Goto, HoldInv, TypeOK, Kept
<1>2. /\ status'[t] = "running" /\ approval' = approval /\ replies' = replies
      /\ pc[t] = "provide" /\ pc'[t] = "run"
  BY DEF MarkRunning, At, Goto, HoldInv, TypeOK
<1>3. TurnOK(t)' /\ status[t] \notin Final
  BY <1>2 DEF TurnInv, TurnOK, Phase, Settled, Answerable, Replied, Open, Early, Late, Skips, Final
<1> QED
  BY <1>1, <1>3, OneTurnSteps

(* What the handoff tool does to its own turn.                             *)
LEMMA HandoffPcOK ==
    ASSUME HoldInv, NEW t \in TurnId, Handoff(t)
    PROVE  /\ pc[t] = "run" /\ pc' = [pc EXCEPT ![t] = "handoff"]
           /\ UNCHANGED <<approval, replies>>
BY DEF Handoff, At, Goto

(* The end of the loop moves the execution and nothing else.               *)
LEMMA EndRunOK ==
    ASSUME HoldInv, TurnInv, NEW t \in TurnId, EndRun(t)
    PROVE  TurnInv' /\ FinalKept
<1>1. \A u \in TurnId \ {t} : Kept(u)
  BY DEF EndRun, Goto, HoldInv, TypeOK, Kept, dbVars
<1>2. /\ status'[t] = status[t] /\ approval' = approval /\ replies' = replies
      /\ pc[t] \in {"run", "handoff"} /\ pc'[t] \in {"exit", "answer", "skip", "fail", "ask"}
  BY DEF EndRun, At, Goto, HoldInv, TypeOK, dbVars
<1>3. TurnOK(t)'
  BY <1>2 DEF TurnInv, TurnOK, Phase, Settled, Answerable, Replied, Open, Early, Late, Skips
<1> QED
  BY <1>1, <1>2, <1>3, OneTurnSteps

(* A pause opens the approvals it waits for in the same transaction.       *)
LEMMA AskApprovalOK ==
    ASSUME HoldInv, TurnInv, NEW t \in TurnId, AskApproval(t)
    PROVE  TurnInv' /\ FinalKept
<1>1. \A u \in TurnId \ {t} : Kept(u)
  BY DEF AskApproval, Goto, HoldInv, TypeOK, Kept
<1>2. /\ status'[t] = "waiting_approval" /\ replies' = replies
      /\ pc[t] = "ask" /\ pc'[t] = "cards"
  BY DEF AskApproval, At, Goto, HoldInv, TypeOK
<1>3. Open(t)'
  <2>1. PICK S \in (SUBSET Free(t)) \ {{}} :
           approval' = [approval EXCEPT ![t] =
                           [a \in Slots |-> IF a \in S THEN "pending" ELSE @[a]]]
    BY DEF AskApproval
  <2>2. PICK a \in S : a \in Slots
    BY DEF Free
  <2>3. approval'[t][a] = "pending"
    BY <2>1, <2>2 DEF HoldInv, TypeOK
  <2> QED
    BY <2>2, <2>3 DEF Open
<1>4. TurnOK(t)' /\ status[t] \notin Final
  BY <1>2, <1>3 DEF TurnInv, TurnOK, Phase, Settled, Answerable, Replied, Early, Late, Skips, Final
<1> QED
  BY <1>1, <1>4, OneTurnSteps

(* Posting the cards leaves the turn alone.                                *)
LEMMA CardsPostedOK ==
    ASSUME HoldInv, TurnInv, NEW t \in TurnId, CardsPosted(t)
    PROVE  TurnInv' /\ FinalKept
<1>1. \A u \in TurnId \ {t} : Kept(u)
  BY DEF CardsPosted, Goto, HoldInv, TypeOK, Kept, dbVars
<1>2. /\ status'[t] = status[t] /\ approval' = approval /\ replies' = replies
      /\ pc'[t] = "exit"
  BY DEF CardsPosted, Goto, HoldInv, TypeOK, dbVars
<1>3. TurnOK(t)'
  BY <1>2 DEF TurnInv, TurnOK, Phase, Settled, Answerable, Replied, Open, Early, Late, Skips
<1> QED
  BY <1>1, <1>2, <1>3, OneTurnSteps

(* Nobody posts a second reply: a turn about to answer has none.           *)
LEMMA PostReplyOK ==
    ASSUME HoldInv, TurnInv, NEW t \in TurnId, PostReply(t)
    PROVE  TurnInv' /\ FinalKept
<1>1. \A u \in TurnId \ {t} : Kept(u)
  BY DEF PostReply, Goto, HoldInv, TypeOK, Kept
<1>2. /\ status'[t] = status[t] /\ approval' = approval
      /\ replies'[t] = replies[t] + 1
      /\ pc[t] = "answer" /\ pc'[t] = "done"
  BY DEF PostReply, At, Goto, HoldInv, TypeOK
<1>3. replies[t] = 0
  BY <1>2 DEF TurnInv, TurnOK, Replied
<1>4. TurnOK(t)'
  BY <1>2, <1>3 DEF TurnInv, TurnOK, Phase, Settled, Answerable, Replied, Open, Early, Late, Skips
<1> QED
  BY <1>1, <1>2, <1>4, OneTurnSteps

(* finish() finds no final status, whatever it overwrites.                 *)
LEMMA FinishOK ==
    ASSUME HoldInv, TurnInv, NEW t \in TurnId, Finish(t)
    PROVE  TurnInv' /\ FinalKept
<1>1. \A u \in TurnId \ {t} : Kept(u)
  BY DEF Finish, Goto, HoldInv, TypeOK, Kept
<1>2. /\ status'[t] = Outcome(pc[t]) /\ approval' = approval /\ replies' = replies
      /\ pc[t] \in Settling /\ pc'[t] = "exit"
  BY DEF Finish, Goto, HoldInv, TypeOK
<1>3. TurnOK(t)' /\ status[t] \notin Final
  BY <1>2 DEF TurnInv, TurnOK, Phase, Settled, Answerable, Replied, Open, Early, Late, Skips,
              Settling, Outcome, Final
<1> QED
  BY <1>1, <1>3, OneTurnSteps

(* The finally of start() writes no row.                                   *)
LEMMA ExitOK ==
    ASSUME HoldInv, TurnInv, NEW t \in TurnId, Exit(t)
    PROVE  TurnInv' /\ FinalKept
<1>1. \A u \in TurnId \ {t} : Kept(u)
  BY DEF Exit, Goto, HoldInv, TypeOK, Kept, dbVars
<1>2. /\ status'[t] = status[t] /\ approval' = approval /\ replies' = replies
      /\ pc'[t] = "none"
  BY DEF Exit, Goto, HoldInv, TypeOK, dbVars
<1>3. TurnOK(t)'
  BY <1>2 DEF TurnInv, TurnOK, Phase, Settled, Answerable, Replied, Open, Early, Late, Skips
<1> QED
  BY <1>1, <1>2, <1>3, OneTurnSteps

----------------------------------------------------------------------------
(* Messages, decisions, expiry and Stop.                                   *)

(* The turns post() commits are new, so no execution stands anywhere.      *)
LEMMA PostOK ==
    ASSUME HoldInv, TurnInv, NEW r \in Rooms, NEW author \in AuthorKinds,
           NEW mentions \in Seq(Mention), NEW depth \in 0 .. MaxHandoffDepth,
           NEW automationBots \in Seq(Bots),
           Post(r, author, mentions, depth, automationBots),
           UNCHANGED <<approval, replies>>, NEW w \in TurnId,
           \/ pc' = pc
           \/ pc[w] = "run" /\ pc' = [pc EXCEPT ![w] = "handoff"]
    PROVE  TurnInv' /\ FinalKept
<1>1. PICK born \in SUBSET {t \in TurnId : t.room = r /\ t.seq = Len(messages[r]) + 1} :
         /\ born # {}
         /\ status' = [t \in TurnId |-> IF t \in born THEN "queued" ELSE status[t]]
         /\ admitting' = [admitting EXCEPT ![r] = born]
  BY PostType DEF HoldInv
<1>2. Len(messages[r]) \in Nat /\ pc \in [TurnId -> Label]
  BY DEF HoldInv, TypeOK
<1>3. ASSUME NEW t \in born
      PROVE  TurnOK(t)' /\ status[t] \notin Final
  <2>1. t \in TurnId /\ ~Born(t)
    BY <1>2, <1>3 DEF Born
  <2>2. status[t] = "none" /\ pc[t] = "none"
    BY <2>1 DEF HoldInv, Triggered
  <2>3. status'[t] = "queued" /\ pc'[t] = "none" /\ approval' = approval /\ replies' = replies
    BY <1>1, <2>1, <2>2 DEF HoldInv, TypeOK
  <2> QED
    BY <2>1, <2>2, <2>3 DEF TurnInv, TurnOK, Phase, Settled, Answerable, Replied, Open, Early,
                            Late, Skips, Final
<1>4. ASSUME NEW t \in TurnId \ born
      PROVE  TurnOK(t)' /\ status'[t] = status[t]
  <2>1. status'[t] = status[t] /\ approval' = approval /\ replies' = replies
    BY <1>1, <1>4
  <2>2. pc'[t] = pc[t] \/ (pc[t] = "run" /\ pc'[t] = "handoff")
    <3>1. CASE pc' = pc
      BY <3>1
    <3>2. CASE pc[w] = "run" /\ pc' = [pc EXCEPT ![w] = "handoff"]
      BY <1>2, <1>4, <3>2
    <3> QED
      BY <3>1, <3>2
  <2> QED
    BY <1>4, <2>1, <2>2 DEF TurnInv, TurnOK, Phase, Settled, Answerable, Replied, Open, Early, Late, Skips
<1> QED
  BY <1>3, <1>4 DEF TurnInv, FinalKept

(* A message adds rows and changes none.                                   *)
LEMMA PostMessageOK ==
    ASSUME HoldInv, TurnInv, NEW r \in Rooms, PostMessage(r)
    PROVE  TurnInv' /\ FinalKept
<1> USE PlannerAssumption, SchedulerAssumption
<1>1. 0 \in 0 .. MaxHandoffDepth /\ <<>> \in Seq(Mention) /\ <<>> \in Seq(Bots)
  OBVIOUS
<1>2. UNCHANGED <<approval, replies, pc>>
  BY DEF PostMessage
<1>3. CASE TurnId = {}
  BY <1>3 DEF TurnInv, FinalKept
<1> SUFFICES ASSUME NEW w \in TurnId PROVE TurnInv' /\ FinalKept
  BY <1>3
<1>4. CASE \E m \in Mentions : Post(r, "user", m, 0, <<>>)
  <2>1. PICK m \in Mentions : Post(r, "user", m, 0, <<>>)
    BY <1>4
  <2>2. m \in Seq(Mention) /\ "user" \in AuthorKinds
    BY DEF AuthorKinds
  <2> QED
    BY <1>1, <1>2, <2>1, <2>2, PostOK
<1>5. CASE \E targets \in Automations : Post(r, "system", <<>>, 0, targets)
  <2>1. PICK targets \in Automations : Post(r, "system", <<>>, 0, targets)
    BY <1>5
  <2>2. targets \in Seq(Bots) /\ "system" \in AuthorKinds
    BY DEF AuthorKinds
  <2> QED
    BY <1>1, <1>2, <2>1, <2>2, PostOK
<1> QED
  BY <1>4, <1>5 DEF PostMessage

(* A handoff adds rows for others and keeps its own turn running.          *)
LEMMA HandoffOK ==
    ASSUME HoldInv, TurnInv, NEW t \in TurnId, Handoff(t)
    PROVE  TurnInv' /\ FinalKept
<1>1. pc[t] = "run" /\ pc' = [pc EXCEPT ![t] = "handoff"] /\ t.room \in Rooms
  BY DEF Handoff, At, Goto, TurnId
<1>2. PICK b \in Range(Members[t.room]) :
         Post(t.room, "bot", <<[id |-> b, handoff |-> TRUE]>>, PlanOf(t).handoffDepth, <<>>)
  BY DEF Handoff
<1>3. b \in Bots
  BY <1>1, SchedulerAssumption DEF Range
<1>4. /\ <<[id |-> b, handoff |-> TRUE]>> \in Seq(Mention) /\ "bot" \in AuthorKinds
      /\ <<>> \in Seq(Bots)
  BY <1>3 DEF Mention, AuthorKinds
<1>5. PlanOf(t).handoffDepth \in 0 .. MaxHandoffDepth
  <2>1. Born(t)
    BY <1>1 DEF HoldInv, Triggered
  <2> QED
    BY <2>1, PlanOfType DEF HoldInv, Plan
<1>6. UNCHANGED <<approval, replies>>
  BY DEF Handoff
<1> QED
  BY <1>1, <1>2, <1>4, <1>5, <1>6, PostOK

(* Handing new turns over writes no row.                                   *)
LEMMA AdmitEnqueueOK ==
    ASSUME HoldInv, TurnInv, NEW r \in Rooms, AdmitEnqueue(r)
    PROVE  TurnInv' /\ FinalKept
<1>1. ASSUME NEW t \in TurnId
      PROVE  TurnOK(t)' /\ status'[t] = status[t]
  <2>1. /\ status'[t] = status[t] /\ approval' = approval /\ replies' = replies
        /\ pc'[t] = pc[t] \/ (pc[t] = "handoff" /\ pc'[t] = "run")
    BY DEF AdmitEnqueue, dbVars, HoldInv, TypeOK
  <2> QED
    BY <2>1 DEF TurnInv, TurnOK, Phase, Settled, Answerable, Replied, Open, Early, Late, Skips
<1> QED
  BY <1>1 DEF TurnInv, FinalKept

(* A /connect turn is born with an open approval.                          *)
LEMMA ConnectCommandOK ==
    ASSUME HoldInv, TurnInv, NEW r \in Rooms, ConnectCommand(r)
    PROVE  TurnInv' /\ FinalKept
<1>1. Members[r] \in Seq(Bots) /\ Members[r] # <<>> /\ Len(messages[r]) \in Nat
  <2>1. Members[r] \in Seq(Bots) /\ Members[r] # <<>>
    BY SchedulerAssumption DEF ConnectCommand
  <2>2. messages[r] \in Seq(Row)
    BY DEF HoldInv, TypeOK
  <2> QED
    BY <2>1, <2>2
<1>2. PICK t \in TurnId :
         /\ ~Born(t)
         /\ status' = [status EXCEPT ![t] = "waiting_approval"]
         /\ \E a \in Slots : approval' = [approval EXCEPT ![t][a] = "pending"]
         /\ pc' = pc /\ replies' = replies
  <2> DEFINE c == [room |-> r, seq |-> Len(messages[r]) + 1, bot |-> Members[r][1]]
  <2>1. c \in TurnId /\ ~Born(c)
    BY <1>1, SchedulerAssumption DEF ConnectCommand, TurnId, Born
  <2>2. /\ status' = [status EXCEPT ![c] = "waiting_approval"]
        /\ \E a \in Slots : approval' = [approval EXCEPT ![c][a] = "pending"]
        /\ pc' = pc /\ replies' = replies
    BY DEF ConnectCommand, memVars
  <2> HIDE DEF c
  <2> QED
    BY <2>1, <2>2
<1>3. status[t] = "none" /\ pc[t] = "none"
  BY <1>2 DEF HoldInv, Triggered
<1>4. \A u \in TurnId \ {t} : Kept(u)
  BY <1>2 DEF HoldInv, TypeOK, Kept
<1>5. Open(t)'
  <2>1. PICK a \in Slots : approval' = [approval EXCEPT ![t][a] = "pending"]
    BY <1>2
  <2>2. approval'[t][a] = "pending"
    BY <2>1 DEF HoldInv, TypeOK
  <2> QED
    BY <2>2 DEF Open
<1>6. status'[t] = "waiting_approval"
  BY <1>2 DEF HoldInv, TypeOK
<1>7. replies'[t] = 0 /\ pc'[t] = "none"
  BY <1>2, <1>3 DEF TurnInv, TurnOK, Replied
<1>8. TurnOK(t)' /\ status[t] \notin Final
  BY <1>3, <1>5, <1>6, <1>7 DEF TurnOK, Phase, Settled, Answerable, Replied, Early, Late, Skips, Final
<1> QED
  BY <1>4, <1>8, OneTurnSteps

(* A decision ends the pause only if it is the last one of the turn.       *)
LEMMA DecideOK ==
    ASSUME HoldInv, TurnInv, NEW t \in TurnId, NEW a \in Slots, NEW verdict \in {"approved", "denied"},
           Decide(t, a, verdict)
    PROVE  TurnInv' /\ FinalKept
<1>1. /\ status[t] = "waiting_approval" /\ pc' = pc /\ replies' = replies
      /\ approval' = [approval EXCEPT ![t][a] = verdict]
  BY DEF Decide
<1>2. \A u \in TurnId \ {t} : Kept(u)
  BY <1>1 DEF Decide, HoldInv, TypeOK, Kept
<1>3. \A x \in Slots : approval'[t][x] = IF x = a THEN verdict ELSE approval[t][x]
  BY <1>1 DEF HoldInv, TypeOK
<1>4. pc[t] \notin Early \cup Late \cup Skips /\ replies[t] = 0
  BY <1>1 DEF TurnInv, TurnOK, Phase, Replied, Early, Late, Skips
<1>5. CASE OthersPending(t, a)
  <2>1. status'[t] = "waiting_approval" /\ Open(t)'
    BY <1>1, <1>3, <1>5 DEF Decide, OthersPending, Open
  <2>2. TurnOK(t)' /\ status[t] \notin Final
    BY <1>1, <1>4, <2>1 DEF TurnOK, Phase, Settled, Answerable, Replied, Early, Late, Skips, Final
  <2> QED
    BY <1>2, <2>2, OneTurnSteps
<1>6. CASE ~OthersPending(t, a)
  <2>1. ~Open(t)'
    BY <1>3, <1>6 DEF OthersPending, Open
  <2>2. status'[t] \in {"queued", "done", "skipped"}
    BY <1>6 DEF Decide, HoldInv, TypeOK
  <2>3. TurnOK(t)' /\ status[t] \notin Final
    BY <1>1, <1>4, <2>1, <2>2 DEF TurnOK, Phase, Settled, Answerable, Replied, Early, Late, Skips, Final
  <2> QED
    BY <1>2, <2>3, OneTurnSteps
<1> QED
  BY <1>5, <1>6

(* Expiry closes every open approval of a turn and its pause together.     *)
LEMMA ExpireOK ==
    ASSUME HoldInv, TurnInv, NEW overdue \in SUBSET TurnId, Expire(overdue)
    PROVE  TurnInv' /\ FinalKept
<1>1. ASSUME NEW t \in TurnId \ overdue
      PROVE  TurnOK(t)' /\ status'[t] = status[t]
  <2>1. approval'[t] = approval[t]
    BY DEF Expire, HoldInv, TypeOK
  <2>2. status'[t] = status[t] /\ pc' = pc /\ replies' = replies
    BY DEF Expire, memVars
  <2> QED
    BY <2>1, <2>2, KeptOK DEF TurnInv, Kept
<1>2. ASSUME NEW t \in overdue
      PROVE  TurnOK(t)' /\ (status[t] \in Final => status'[t] = status[t])
  <2>1. ~Open(t)'
    BY DEF Expire, Open
  <2>2. /\ status'[t] = IF status[t] = "waiting_approval" THEN "failed" ELSE status[t]
        /\ pc' = pc /\ replies' = replies
    BY DEF Expire, memVars
  <2> QED
    BY <2>1, <2>2 DEF TurnInv, TurnOK, Phase, Settled, Answerable, Replied, Early, Late, Skips, Final
<1> QED
  BY <1>1, <1>2 DEF TurnInv, FinalKept

(* The guarded update of cancel() never meets a final status.              *)
LEMMA CancelCommitOK ==
    ASSUME HoldInv, TurnInv, NEW t \in TurnId, CancelCommit(t)
    PROVE  TurnInv' /\ FinalKept
<1>1. UNCHANGED <<approval, replies, pc>>
  BY DEF CancelCommit
<1>2. CASE Cancellable(t)
  <2>1. status' = [status EXCEPT ![t] = "cancelled"] /\ status[t] \in Stoppable
    BY <1>2 DEF CancelCommit, Cancellable
  <2>2. \A u \in TurnId \ {t} : Kept(u)
    BY <1>1, <2>1 DEF HoldInv, TypeOK, Kept
  <2>3. status'[t] = "cancelled"
    BY <2>1 DEF HoldInv, TypeOK
  <2>4. TurnOK(t)' /\ status[t] \notin Final
    BY <1>1, <2>1, <2>3 DEF TurnInv, TurnOK, Phase, Settled, Answerable, Replied, Open, Early, Late,
                            Skips, Final, Stoppable
  <2> QED
    BY <2>2, <2>4, OneTurnSteps
<1>3. CASE ~Cancellable(t)
  BY <1>1, <1>3, AllKept DEF CancelCommit, Kept
<1> QED
  BY <1>2, <1>3

(* A crash forgets every execution; what was running then fails, and if it *)
(* had posted its reply the turn fails all the same.                       *)
LEMMA CrashOK ==
    ASSUME HoldInv, TurnInv, Crash
    PROVE  TurnInv' /\ FinalKept
<1>1. ASSUME NEW t \in TurnId
      PROVE  TurnOK(t)' /\ status'[t] = status[t]
  <2>1. pc'[t] = "none" /\ status' = status /\ approval' = approval /\ replies' = replies
    BY DEF Crash, dbVars
  <2> QED
    BY <2>1 DEF TurnInv, TurnOK, Phase, Settled, Answerable, Replied, Open, Early, Late, Skips
<1> QED
  BY <1>1 DEF TurnInv, FinalKept

(* Recovery fails what was running and nothing else.                       *)
LEMMA RecoverRunningOK ==
    ASSUME HoldInv, TurnInv, NEW t \in TurnId, RecoverRunning(t)
    PROVE  TurnInv' /\ FinalKept
<1>1. \A u \in TurnId \ {t} : Kept(u)
  BY DEF RecoverRunning, HoldInv, TypeOK, Kept, memVars
<1>2. /\ status[t] = "running" /\ status'[t] = "failed"
      /\ pc' = pc /\ approval' = approval /\ replies' = replies
  BY DEF RecoverRunning, RecoveredStatus, HoldInv, TypeOK, memVars
<1>3. pc[t] = "none"
  BY DEF RecoverRunning, HoldInv, Down, Held
<1>4. TurnOK(t)' /\ status[t] \notin Final
  BY <1>2, <1>3 DEF TurnInv, TurnOK, Phase, Settled, Answerable, Replied, Open, Early, Late, Skips, Final
<1> QED
  BY <1>1, <1>4, OneTurnSteps

(* start() enters the execution at its first look.                         *)
LEMMA StartOK ==
    ASSUME HoldInv, TurnInv, NEW i \in DOMAIN pending, Start(i)
    PROVE  TurnInv' /\ FinalKept
<1>1. PICK t \in TurnId : t = pending[i] /\ pc' = [pc EXCEPT ![t] = "read"]
  <2>1. pending \in Seq(TurnId)
    BY DEF HoldInv, TypeOK
  <2>2. pending[i] \in TurnId
    BY <2>1
  <2> QED
    BY <2>2 DEF Start
<1>2. UNCHANGED <<status, approval, replies>>
  BY DEF Start, dbVars
<1>3. pc[t] = "none"
  BY <1>1 DEF HoldInv, HeldOnce, Held, Range
<1>4. pc'[t] = "read" /\ \A u \in TurnId \ {t} : Kept(u)
  BY <1>1, <1>2 DEF HoldInv, TypeOK, Kept
<1>5. TurnOK(t)'
  BY <1>2, <1>3, <1>4 DEF TurnInv, TurnOK, Phase, Settled, Answerable, Replied, Open, Early, Late,
                          Skips
<1> QED
  BY <1>2, <1>4, <1>5, OneTurnSteps

(* The steps that change nothing of any turn.                              *)
LEMMA OtherStepsOK ==
    ASSUME TurnInv,
           \/ UNCHANGED vars \/ PumpDone \/ Shutdown \/ RecoverQueued
           \/ \E t \in TurnId : Resume(t) \/ CancelFind(t) \/ CancelRelease(t)
    PROVE  TurnInv' /\ FinalKept
<1>1. UNCHANGED <<status, pc, approval, replies>>
  BY DEF vars, dbVars, memVars, PumpDone, Shutdown, RecoverQueued, Resume, CancelFind, CancelRelease
<1> QED
  BY <1>1, AllKept DEF Kept

(* No step breaks the invariant or changes a final status.                 *)
LEMMA TurnNext ==
    ASSUME HoldInv, TurnInv, [Next]_vars
    PROVE  TurnInv' /\ FinalKept
<1>1. CASE UNCHANGED vars \/ PumpDone \/ Shutdown \/ RecoverQueued
  BY <1>1, OtherStepsOK
<1>2. ASSUME NEW i \in DOMAIN pending, Start(i)
      PROVE  TurnInv' /\ FinalKept
  BY <1>2, StartOK
<1>3. ASSUME NEW r \in Rooms, PostMessage(r) \/ AdmitEnqueue(r) \/ ConnectCommand(r)
      PROVE  TurnInv' /\ FinalKept
  BY <1>3, PostMessageOK, AdmitEnqueueOK, ConnectCommandOK
<1>4. ASSUME NEW t \in TurnId, Execute(t)
      PROVE  TurnInv' /\ FinalKept
  <2>1. CASE ReadTurn(t) \/ WeighFallback(t) \/ DecideReply(t) \/ LookForNotice(t) \/ PostNotice(t)
    BY <2>1, ReadTurnOK, WeighFallbackOK, DecideReplyOK, NoticeStepsOK
  <2>2. CASE MarkRunning(t) \/ EndRun(t) \/ AskApproval(t) \/ CardsPosted(t)
    BY <2>2, MarkRunningOK, EndRunOK, AskApprovalOK, CardsPostedOK
  <2>3. CASE PostReply(t) \/ Finish(t) \/ Exit(t)
    BY <2>3, PostReplyOK, FinishOK, ExitOK
  <2> QED
    BY <1>4, <2>1, <2>2, <2>3 DEF Execute
<1>5. ASSUME NEW t \in TurnId,
             Handoff(t) \/ Resume(t) \/ CancelFind(t) \/ CancelCommit(t) \/ CancelRelease(t)
      PROVE  TurnInv' /\ FinalKept
  BY <1>5, HandoffOK, CancelCommitOK, OtherStepsOK
<1>6. ASSUME NEW t \in TurnId, NEW a \in Slots, NEW v \in {"approved", "denied"}, Decide(t, a, v)
      PROVE  TurnInv' /\ FinalKept
  BY <1>6, DecideOK
<1>7. CASE ExpireSome
  BY <1>7, ExpireOK DEF ExpireSome
<1>8. CASE Crash
  BY <1>8, CrashOK
<1>9. ASSUME NEW t \in TurnId, RecoverRunning(t)
      PROVE  TurnInv' /\ FinalKept
  BY <1>9, RecoverRunningOK
<1> QED
  BY <1>1, <1>2, <1>3, <1>4, <1>5, <1>6, <1>7, <1>8, <1>9 DEF Next, Pump

(* The invariant holds in an empty workspace.                              *)
LEMMA TurnInit == Init => TurnInv
BY DEF Init, TurnInv, TurnOK, Phase, Settled, Answerable, Replied, Open, Early, Late, Skips, TurnId

----------------------------------------------------------------------------
(* In every reachable state, each turn is where its status allows.         *)
THEOREM TurnInvariant == Spec => [](HoldInv /\ TurnInv)
<1>1. Init => HoldInv /\ TurnInv
  BY HoldInit, TurnInit
<1>2. HoldInv /\ TurnInv /\ [Next]_vars => (HoldInv /\ TurnInv)'
  BY HoldNext, TurnNext
<1> QED
  BY <1>1, <1>2, PTL DEF Spec

(* The end of a turn is final: finish() and the running transaction, which *)
(* do not look at the status they overwrite, never overwrite one.          *)
THEOREM FinalIsFinal == Spec => FinalStaysFinal
<1>1. HoldInv /\ TurnInv /\ [Next]_vars
      => [\A t \in TurnId : status[t] \in Final => status'[t] = status[t]]_vars
  BY TurnNext DEF FinalKept
<1> QED
  BY <1>1, TurnInvariant, PTL DEF Spec, FinalStaysFinal

(* A turn posts at most one reply, crashes and approvals included.         *)
THEOREM AnswersAtMostOnce == Spec => []AnswersOnce
<1>1. HoldInv /\ TurnInv => AnswersOnce
  BY DEF TurnInv, TurnOK, Replied, AnswersOnce
<1> QED
  BY <1>1, TurnInvariant, PTL

(* Whoever waits for an approval has one a member can still decide.        *)
THEOREM PausesAreAnswerable == Spec => []WaitingIsAnswerable
<1>1. HoldInv /\ TurnInv => WaitingIsAnswerable
  BY DEF TurnInv, TurnOK, Answerable, Open, WaitingIsAnswerable
<1> QED
  BY <1>1, TurnInvariant, PTL

----------------------------------------------------------------------------
(* A turn about to post the notice of a missing key saw none, and nobody   *)
(* else of its room can have posted one since: executions of a room are    *)
(* exclusive.                                                              *)
NoticeInv ==
    /\ OneNotice
    /\ \A t \in TurnId : pc[t] = "keynote" => notices[t.room][t.seq] = 0

(* The notice posted is the first of its message.                          *)
LEMMA PostNoticeOnce ==
    ASSUME HoldInv, NoticeInv, NEW t \in TurnId, PostNotice(t)
    PROVE  NoticeInv'
<1>1. /\ pc[t] = "keynote" /\ t.room \in Rooms /\ t.seq \in 1 .. MaxSeq
      /\ notices' = [notices EXCEPT ![t.room][t.seq] = @ + 1]
      /\ pc' = [pc EXCEPT ![t] = "skipError"]
  BY DEF PostNotice, At, Goto, TurnId
<1>2. notices[t.room][t.seq] = 0
  BY <1>1 DEF NoticeInv
<1>3. notices \in [Rooms -> [1 .. MaxSeq -> Nat]]
  BY DEF HoldInv, TypeOK
<1>4. \A r \in Rooms, n \in 1 .. MaxSeq :
         notices'[r][n] = IF r = t.room /\ n = t.seq THEN 1 ELSE notices[r][n]
  <2>1. PICK row : row = notices[t.room]
    OBVIOUS
  <2>2. row \in [1 .. MaxSeq -> Nat] /\ row[t.seq] = 0
    BY <1>1, <1>2, <1>3, <2>1
  <2>3. PICK after : after = [row EXCEPT ![t.seq] = 1]
    OBVIOUS
  <2>4. \A n \in 1 .. MaxSeq : after[n] = IF n = t.seq THEN 1 ELSE row[n]
    BY <2>2, <2>3
  <2>5. notices' = [notices EXCEPT ![t.room] = [row EXCEPT ![t.seq] = row[t.seq] + 1]]
    BY <1>1, <2>1
  <2>6. row[t.seq] + 1 = 1
    BY <2>2
  <2>7. notices' = [notices EXCEPT ![t.room] = after]
    BY <2>3, <2>5, <2>6
  <2>8. \A r \in Rooms : notices'[r] = IF r = t.room THEN after ELSE notices[r]
    BY <1>1, <1>3, <2>7
  <2> QED
    BY <2>1, <2>4, <2>8
<1>5. OneNotice'
  BY <1>4 DEF NoticeInv, OneNotice
<1>6. ASSUME NEW u \in TurnId, pc'[u] = "keynote"
      PROVE  notices'[u.room][u.seq] = 0
  <2>1. u # t /\ pc[u] = "keynote"
    BY <1>1, <1>6 DEF HoldInv, TypeOK
  <2>2. u.room # t.room
    BY <1>1, <2>1 DEF HoldInv, Held
  <2>3. u.room \in Rooms /\ u.seq \in 1 .. MaxSeq
    BY DEF TurnId
  <2> QED
    BY <1>4, <2>1, <2>2, <2>3 DEF NoticeInv
<1> QED
  BY <1>5, <1>6 DEF NoticeInv

(* A step that posts no notice and brings nobody to posting one is harmless. *)
LEMMA NoticesKept ==
    ASSUME NoticeInv, notices' = notices,
           \A t \in TurnId : pc'[t] = "keynote" => pc[t] = "keynote"
    PROVE  NoticeInv'
BY DEF NoticeInv, OneNotice

(* Whoever is about to post has just seen none.                            *)
LEMMA LookForNoticeOnce ==
    ASSUME HoldInv, NoticeInv, NEW t \in TurnId, LookForNotice(t)
    PROVE  NoticeInv'
<1>1. /\ notices' = notices /\ t.room \in Rooms /\ t.seq \in 1 .. MaxSeq
      /\ \A u \in TurnId \ {t} : pc'[u] = pc[u]
      /\ pc'[t] = "keynote" => ~(notices[t.room][t.seq] > 0)
  BY DEF LookForNotice, At, Goto, dbVars, HoldInv, TypeOK, TurnId
<1>2. notices[t.room][t.seq] \in Nat
  <2>1. notices[t.room] \in [1 .. MaxSeq -> Nat]
    BY <1>1 DEF HoldInv, TypeOK
  <2> QED
    BY <1>1, <2>1
<1>3. \A u \in TurnId : pc'[u] = "keynote" => notices'[u.room][u.seq] = 0
  BY <1>1, <1>2 DEF NoticeInv
<1> QED
  BY <1>1, <1>3 DEF NoticeInv, OneNotice

(* No step breaks NoticeInv.                                               *)
LEMMA NoticeNext ==
    ASSUME HoldInv, NoticeInv, [Next]_vars
    PROVE  NoticeInv'
<1>1. CASE UNCHANGED vars \/ PumpDone \/ Shutdown \/ Crash \/ RecoverQueued
  BY <1>1, NoticesKept
     DEF vars, dbVars, memVars, PumpDone, Shutdown, Crash, RecoverQueued, HoldInv, TypeOK
<1>2. ASSUME NEW i \in DOMAIN pending, Start(i)
      PROVE  NoticeInv'
  BY <1>2, NoticesKept DEF Start, dbVars, HoldInv, TypeOK
<1>3. ASSUME NEW r \in Rooms, PostMessage(r) \/ AdmitEnqueue(r) \/ ConnectCommand(r)
      PROVE  NoticeInv'
  BY <1>3, NoticesKept
     DEF PostMessage, AdmitEnqueue, ConnectCommand, dbVars, memVars, HoldInv, TypeOK
<1>4. ASSUME NEW t \in TurnId, Execute(t)
      PROVE  NoticeInv'
  <2>1. CASE LookForNotice(t) \/ PostNotice(t)
    BY <2>1, LookForNoticeOnce, PostNoticeOnce
  <2>2. CASE ReadTurn(t) \/ WeighFallback(t) \/ DecideReply(t) \/ EndRun(t) \/ CardsPosted(t)
    BY <2>2, NoticesKept DEF ReadTurn, WeighFallback, DecideReply, AfterVerdict, EndRun,
                             CardsPosted, At, Goto,
                             UnlessAborted, dbVars, HoldInv, TypeOK
  <2>3. CASE MarkRunning(t) \/ AskApproval(t) \/ PostReply(t) \/ Finish(t) \/ Exit(t)
    BY <2>3, NoticesKept DEF MarkRunning, AskApproval, PostReply, Finish, Exit, Goto, dbVars,
                             HoldInv, TypeOK
  <2> QED
    BY <1>4, <2>1, <2>2, <2>3 DEF Execute
<1>5. ASSUME NEW t \in TurnId, \/ Handoff(t) \/ Resume(t) \/ RecoverRunning(t)
                               \/ CancelFind(t) \/ CancelCommit(t) \/ CancelRelease(t)
      PROVE  NoticeInv'
  BY <1>5, NoticesKept DEF Handoff, Goto, Resume, RecoverRunning, CancelFind, CancelCommit,
                           CancelRelease, dbVars, memVars, HoldInv, TypeOK
<1>6. ASSUME NEW t \in TurnId, NEW a \in Slots, NEW v \in {"approved", "denied"}, Decide(t, a, v)
      PROVE  NoticeInv'
  BY <1>6, NoticesKept DEF Decide
<1>7. CASE ExpireSome
  BY <1>7, NoticesKept DEF ExpireSome, Expire, memVars
<1> QED
  BY <1>1, <1>2, <1>3, <1>4, <1>5, <1>6, <1>7 DEF Next, Pump

(* However many optional turns of a message miss the key, the room gets    *)
(* one notice about it: looking and posting are separated by awaits, but   *)
(* no other turn of the room executes between them.                        *)
THEOREM OneNoticeOnly == Spec => []OneNotice
<1>1. Init => NoticeInv
  BY DEF Init, NoticeInv, OneNotice, TurnId
<1>2. HoldInv /\ NoticeInv /\ [Next]_vars => NoticeInv'
  BY NoticeNext
<1>3. NoticeInv => OneNotice
  BY DEF NoticeInv
<1> QED
  BY <1>1, <1>2, <1>3, HoldInvariant, PTL DEF Spec

----------------------------------------------------------------------------

Command(t) == messages[t.room][t.seq].command

(* Nobody has begun to work on it, and it never paused.                    *)
Untouched(t) == status[t] = "queued" /\ ~Asked(t)
Carried(t) == t \in admitting[t.room] \cup Range(pending) \cup controllers

(* What is held about a turn, is held about one that exists.               *)
Attached(t) == t \in aborted \/ cancelling[t] # "no" \/ Asked(t) => Born(t)

(* An untouched turn is carried, and no execution or cancel() is about to  *)
(* drop it.                                                                *)
Found(t) ==
    Untouched(t) =>
        /\ cancelling[t] # "release" /\ pc[t] # "cards"
        /\ server = "up" => /\ t \notin aborted /\ pc[t] # "exit"
                            /\ cancelling[t] = "no" => Carried(t)

(* Whatever waits to be executed is queued, and waits in one place, unless *)
(* somebody pressed Stop.                                                  *)
Unstopped(t) ==
    t \notin stopped =>
        /\ status[t] # "cancelled" /\ cancelling[t] = "no"
        /\ \/ t \in Range(pending) \/ t \in resuming \/ t \in admitting[t.room]
           \/ pc[t] \in {"read"} \cup Early
           => status[t] = "queued"
        /\ t \in resuming => t \notin Range(pending) /\ pc[t] \in {"none", "cards", "exit"}

(* While a post holds the room's queue, nobody has got to its turns.       *)
Young(t) ==
    admitting[t.room] # {} /\ t.seq = Len(messages[t.room]) =>
        /\ pc[t] = "none" /\ t \notin Range(pending) /\ t \notin resuming
        /\ status[t] \in {"none", "queued", "cancelled"}

Resumed(t) == t \in resuming => Asked(t)

(* A turn that ran left startedAt, a turn that failed left an error.       *)
Paid(t) == Born(t) /\ ~Command(t) =>
    (status[t] \in {"running", "done"} \/ pc[t] \in Late \/ Asked(t) => t \in started)
Recorded(t) == status[t] = "failed" => t \in errors

Deep(t) == Attached(t) /\ Found(t) /\ Unstopped(t) /\ Young(t) /\ Resumed(t) /\ Paid(t) /\ Recorded(t)

(* The room's queue is held for its last message, and by nobody while the  *)
(* process is down.                                                        *)
Newest == \A r \in Rooms : \A t \in admitting[r] : t.seq = Len(messages[r])
Asleep == server = "down" => aborted = {} /\ resuming = {} /\ \A r \in Rooms : admitting[r] = {}

DeepInv == Newest /\ Asleep /\ \A t \in TurnId : Deep(t)

----------------------------------------------------------------------------
(* DeepInv: what a step leaves alone.                                      *)
Same(t) ==
    /\ status'[t] = status[t] /\ approval'[t] = approval[t]
    /\ pc'[t] = pc[t] /\ cancelling'[t] = cancelling[t]
    /\ t \in aborted' => t \in aborted
    /\ t \in resuming' => t \in resuming
    /\ t \in Range(pending') <=> t \in Range(pending)
    /\ t \in controllers => t \in controllers'
    /\ t \in started => t \in started'
    /\ t \in errors => t \in errors'
    /\ t \in stopped => t \in stopped'

(* A turn a step leaves alone stays as it should be.                       *)
LEMMA SameDeep ==
    ASSUME NEW t \in TurnId, Deep(t), Same(t), server' = server,
           messages'[t.room] = messages[t.room], admitting'[t.room] = admitting[t.room]
    PROVE  Deep(t)'
<1>1. Asked(t)' <=> Asked(t)
  BY DEF Same, Asked
<1>2. Attached(t)' /\ Resumed(t)' /\ Recorded(t)'
  BY <1>1 DEF Same, Deep, Attached, Resumed, Recorded, Born
<1>3. Found(t)'
  BY <1>1 DEF Same, Deep, Found, Untouched, Carried
<1>4. Unstopped(t)'
  BY DEF Same, Deep, Unstopped
<1>5. Young(t)' /\ Paid(t)'
  BY <1>1 DEF Same, Deep, Young, Paid, Born, Command
<1> QED
  BY <1>2, <1>3, <1>4, <1>5 DEF Deep

(* A step of one turn need only be looked at there.                        *)
LEMMA OneDeep ==
    ASSUME DeepInv, NEW t \in TurnId, UNCHANGED <<messages, server, admitting>>,
           \A u \in TurnId \ {t} : Same(u), Deep(t)',
           server = "down" => aborted' = {} /\ resuming' = {}
    PROVE  DeepInv'
<1>1. \A u \in TurnId : Deep(u)'
  <2>1. ASSUME NEW u \in TurnId \ {t} PROVE Deep(u)'
    BY <2>1, SameDeep DEF DeepInv
  <2> QED
    BY <2>1
<1>2. Newest' /\ Asleep'
  BY DEF DeepInv, Newest, Asleep
<1> QED
  BY <1>1, <1>2 DEF DeepInv

(* What holds of a turn that executes.                                     *)
LEMMA ExecutingTurn ==
    ASSUME HoldInv, DeepInv, NEW t \in TurnId, pc[t] # "none"
    PROVE  /\ Deep(t) /\ Born(t) /\ t \in controllers /\ t \notin Range(pending)
           /\ t \notin admitting[t.room]
           /\ ~(admitting[t.room] # {} /\ t.seq = Len(messages[t.room]))
           /\ pc[t] \notin {"cards", "exit"} => (t \in resuming => t \in stopped)
<1>1. Deep(t) /\ Born(t) /\ t \in controllers /\ t \notin Range(pending)
  BY DEF DeepInv, HoldInv, Triggered, Held, HeldOnce
<1>2. ~(admitting[t.room] # {} /\ t.seq = Len(messages[t.room]))
  BY <1>1 DEF Deep, Young
<1>3. t \notin admitting[t.room]
  BY <1>2 DEF DeepInv, Newest, TurnId
<1>4. pc[t] \notin {"cards", "exit"} => (t \in resuming => t \in stopped)
  BY <1>1 DEF Deep, Unstopped
<1> QED
  BY <1>1, <1>2, <1>3, <1>4

(* A step of execute() that moves its program counter drops no untouched   *)
(* turn when it leaves only a turn that is not queued any more or, with    *)
(* the server up, one that was stopped.                                    *)
LEMMA MovedDeep ==
    ASSUME HoldInv, DeepInv, NEW t \in TurnId, NEW label,
           Live, pc[t] \notin {"none", "exit"}, pc' = [pc EXCEPT ![t] = label],
           UNCHANGED <<messages, status, approval, started, errors, Executing>>,
           label \notin {"none", "cards"},
           label = "exit" => \/ t \in aborted \/ status[t] # "queued" \/ pc[t] = "cards",
           label \in {"read"} \cup Early => pc[t] \in {"read"} \cup Early,
           label \in Late => pc[t] \in Late,
           pc[t] = "cards" => label = "exit"
    PROVE  DeepInv'
<1>1. pc'[t] = label /\ \A u \in TurnId \ {t} : pc'[u] = pc[u]
  BY DEF HoldInv, TypeOK
<1>2. \A u \in TurnId \ {t} : Same(u)
  BY <1>1 DEF Same, Executing
<1>3. /\ Deep(t) /\ Born(t) /\ t \in controllers /\ t \notin Range(pending)
      /\ t \notin admitting[t.room]
      /\ ~(admitting[t.room] # {} /\ t.seq = Len(messages[t.room]))
      /\ pc[t] \notin {"cards", "exit"} => (t \in resuming => t \in stopped)
  BY ExecutingTurn
<1>4. UNCHANGED <<messages, status, approval, started, errors, server, pending, controllers, aborted,
                  admitting, resuming, cancelling, stopped>> /\ (Asked(t)' <=> Asked(t)) /\ (Born(t)' <=> Born(t))
  BY DEF Executing, Asked, Born
<1>5. Attached(t)' /\ Resumed(t)' /\ Recorded(t)' /\ Young(t)'
  BY <1>3, <1>4 DEF Deep, Attached, Resumed, Recorded, Young
<1>6. Found(t)'
  BY <1>1, <1>3, <1>4 DEF Deep, Found, Untouched, Carried
<1>7. Unstopped(t)'
  BY <1>1, <1>3, <1>4 DEF Deep, Unstopped
<1>8. Paid(t)'
  BY <1>1, <1>3, <1>4 DEF Deep, Paid, Command
<1>9. Deep(t)'
  BY <1>5, <1>6, <1>7, <1>8 DEF Deep
<1>10. server # "down"
  BY DEF Live
<1> QED
  BY <1>2, <1>4, <1>9, <1>10, OneDeep

(* The steps that move only a program counter are such steps.              *)
LEMMA MovesDeep ==
    ASSUME HoldInv, TurnInv, DeepInv, NEW t \in TurnId, Moves(t)
    PROVE  DeepInv'
<1>1. PICK label \in Label \ {"none"} : pc' = [pc EXCEPT ![t] = label]
  BY MovesMove
<1>2. Live /\ pc[t] # "none" /\ UNCHANGED <<dbVars, Executing>>
  BY MovesMove
<1>3. pc'[t] = label
  BY <1>1 DEF HoldInv, TypeOK
<1>4. Phase(t)
  BY DEF TurnInv, TurnOK
<1>5. /\ label # "cards"
      /\ label = "exit" => \/ t \in aborted \/ status[t] # "queued" \/ pc[t] = "cards"
      /\ label \in {"read"} \cup Early => pc[t] \in {"read"} \cup Early
      /\ label \in Late => pc[t] \in Late
      /\ pc[t] = "cards" => label = "exit"
      /\ pc[t] # "exit"
  <2>1. CASE ReadTurn(t)
    BY <1>3, <2>1 DEF ReadTurn, At, Goto, UnlessAborted, HoldInv, TypeOK, Early, Late
  <2>2. CASE WeighFallback(t)
    BY <1>3, <2>2 DEF WeighFallback, At, Goto, UnlessAborted, HoldInv, TypeOK, Early, Late
  <2>3. CASE DecideReply(t)
    <3>1. label \in {"exit", "provide", "skip", "skipError", "keyless"} /\ pc[t] = "decide"
      BY <1>3, <2>3 DEF DecideReply, AfterVerdict, At, Goto, HoldInv, TypeOK
    <3>2. label = "exit" => t \in aborted
      BY <1>3, <2>3, SchedulerAssumption DEF DecideReply, Verdicts, AfterVerdict, Goto, HoldInv, TypeOK
    <3> QED
      BY <3>1, <3>2 DEF Early, Late
  <2>4. CASE LookForNotice(t)
    BY <1>3, <2>4 DEF LookForNotice, At, Goto, HoldInv, TypeOK, Early, Late
  <2>5. CASE EndRun(t)
    <3>1. pc[t] \in {"run", "handoff"} /\ label \in {"exit", "answer", "skip", "fail", "ask"}
      BY <1>3, <2>5 DEF EndRun, At, Goto, HoldInv, TypeOK
    <3>2. status[t] # "queued"
      BY <1>4, <3>1 DEF Phase, Late
    <3> QED
      BY <3>1, <3>2 DEF Early, Late
  <2>6. CASE CardsPosted(t)
    BY <1>3, <2>6 DEF CardsPosted, At, Goto, HoldInv, TypeOK, Early, Late
  <2> QED
    BY <2>1, <2>2, <2>3, <2>4, <2>5, <2>6 DEF Moves
<1> QED
  BY <1>1, <1>2, <1>5, MovedDeep DEF dbVars

(* Posting a notice or the reply moves the execution on.                   *)
LEMMA PostingDeep ==
    ASSUME HoldInv, DeepInv, NEW t \in TurnId, PostNotice(t) \/ PostReply(t)
    PROVE  DeepInv'
<1>1. CASE PostNotice(t)
  <2>1. /\ Live /\ pc[t] = "keynote" /\ pc' = [pc EXCEPT ![t] = "skipError"]
        /\ UNCHANGED <<messages, status, approval, started, errors, Executing>>
    BY <1>1 DEF PostNotice, At, Goto
  <2> QED
    BY <2>1, MovedDeep DEF Early, Late
<1>2. CASE PostReply(t)
  <2>1. /\ Live /\ pc[t] = "answer" /\ pc' = [pc EXCEPT ![t] = "done"]
        /\ UNCHANGED <<messages, status, approval, started, errors, Executing>>
    BY <1>2 DEF PostReply, At, Goto
  <2> QED
    BY <2>1, MovedDeep DEF Early, Late
<1> QED
  BY <1>1, <1>2

(* The running transaction sets startedAt with the status.                 *)
LEMMA MarkRunningDeep ==
    ASSUME HoldInv, DeepInv, NEW t \in TurnId, MarkRunning(t)
    PROVE  DeepInv'
<1>1. /\ server # "down" /\ pc[t] = "provide" /\ pc'[t] = "run" /\ status'[t] = "running"
      /\ started' = started \cup {t} /\ t \in started'
      /\ UNCHANGED <<messages, approval, errors, server, pending, controllers, aborted,
                     admitting, resuming, cancelling, stopped>>
  BY DEF MarkRunning, At, Goto, Live, Executing, HoldInv, TypeOK
<1>2. \A u \in TurnId \ {t} : pc'[u] = pc[u] /\ status'[u] = status[u]
  BY DEF MarkRunning, Goto, HoldInv, TypeOK
<1>3. \A u \in TurnId \ {t} : Same(u)
  BY <1>1, <1>2 DEF Same
<1>4. /\ Deep(t) /\ t \notin Range(pending) /\ t \notin admitting[t.room]
      /\ ~(admitting[t.room] # {} /\ t.seq = Len(messages[t.room]))
      /\ t \in resuming => t \in stopped
  BY <1>1, ExecutingTurn
<1>5. (Asked(t)' <=> Asked(t)) /\ (Born(t)' <=> Born(t))
  BY <1>1 DEF Asked, Born
<1>6. Attached(t)' /\ Resumed(t)' /\ Recorded(t)' /\ Young(t)'
  BY <1>1, <1>4, <1>5 DEF Deep, Attached, Resumed, Recorded, Young
<1>7. Found(t)' /\ Paid(t)'
  BY <1>1 DEF Found, Untouched, Paid
<1>8. Unstopped(t)'
  BY <1>1, <1>4 DEF Deep, Unstopped, Early
<1> QED
  BY <1>1, <1>3, <1>6, <1>7, <1>8, OneDeep DEF Deep

(* Only a run asks for approvals, and a run has started.                   *)
LEMMA AskApprovalDeep ==
    ASSUME HoldInv, DeepInv, NEW t \in TurnId, AskApproval(t)
    PROVE  DeepInv'
<1>1. /\ server # "down" /\ pc[t] = "ask" /\ pc'[t] = "cards" /\ status'[t] = "waiting_approval"
      /\ UNCHANGED <<messages, started, errors, server, pending, controllers, aborted,
                     admitting, resuming, cancelling, stopped>>
  BY DEF AskApproval, At, Goto, Live, Executing, HoldInv, TypeOK
<1>2. \A u \in TurnId \ {t} : pc'[u] = pc[u] /\ status'[u] = status[u] /\ approval'[u] = approval[u]
  BY DEF AskApproval, Goto, HoldInv, TypeOK
<1>3. \A u \in TurnId \ {t} : Same(u)
  BY <1>1, <1>2 DEF Same
<1>4. /\ Deep(t) /\ Born(t) /\ t \notin Range(pending) /\ t \notin admitting[t.room]
      /\ ~(admitting[t.room] # {} /\ t.seq = Len(messages[t.room]))
      /\ t \in resuming => t \in stopped
  BY <1>1, ExecutingTurn
<1>5. Asked(t) => Asked(t)'
  BY DEF AskApproval, Asked, HoldInv, TypeOK
<1>6. Attached(t)' /\ Resumed(t)' /\ Recorded(t)' /\ Young(t)'
  BY <1>1, <1>4, <1>5 DEF Deep, Attached, Resumed, Recorded, Young, Born
<1>7. Found(t)'
  BY <1>1 DEF Found, Untouched
<1>8. Paid(t)'
  BY <1>1, <1>4 DEF Deep, Paid, Late, Born, Command
<1>9. Unstopped(t)'
  BY <1>1, <1>4 DEF Deep, Unstopped, Early
<1> QED
  BY <1>1, <1>3, <1>6, <1>7, <1>8, <1>9, OneDeep DEF Deep

(* finish() writes an error with "failed".                                 *)
LEMMA FinishDeep ==
    ASSUME HoldInv, DeepInv, NEW t \in TurnId, Finish(t)
    PROVE  DeepInv'
<1>1. /\ server # "down" /\ pc[t] \in Settling /\ pc'[t] = "exit" /\ status'[t] = Outcome(pc[t])
      /\ errors \subseteq errors' /\ (pc[t] = "fail" => t \in errors')
      /\ UNCHANGED <<messages, started, approval, server, pending, controllers, aborted,
                     admitting, resuming, cancelling, stopped>>
  BY DEF Finish, Goto, Live, Executing, HoldInv, TypeOK
<1>2. \A u \in TurnId \ {t} : pc'[u] = pc[u] /\ status'[u] = status[u]
  BY DEF Finish, Goto, HoldInv, TypeOK
<1>3. \A u \in TurnId \ {t} : Same(u)
  BY <1>1, <1>2 DEF Same
<1>4. /\ Deep(t) /\ t \notin Range(pending) /\ t \notin admitting[t.room]
      /\ ~(admitting[t.room] # {} /\ t.seq = Len(messages[t.room]))
      /\ t \in resuming => t \in stopped
  BY <1>1, ExecutingTurn DEF Settling
<1>5. /\ status'[t] \in Final
      /\ status'[t] = "done" => pc[t] = "done"
      /\ status'[t] = "failed" => pc[t] = "fail"
  BY <1>1 DEF Outcome, Final
<1>6. (Asked(t)' <=> Asked(t)) /\ (Born(t)' <=> Born(t))
  BY <1>1 DEF Asked, Born
<1>7. Attached(t)' /\ Resumed(t)' /\ Recorded(t)' /\ Young(t)'
  BY <1>1, <1>4, <1>5, <1>6 DEF Deep, Attached, Resumed, Recorded, Young
<1>8. Found(t)'
  BY <1>5 DEF Found, Untouched, Final
<1>9. Paid(t)'
  BY <1>1, <1>4, <1>5, <1>6 DEF Deep, Paid, Late, Command, Final
<1>10. Unstopped(t)'
  BY <1>1, <1>4, <1>5 DEF Deep, Unstopped, Early, Final
<1> QED
  BY <1>1, <1>3, <1>7, <1>8, <1>9, <1>10, OneDeep DEF Deep

(* The finally of start() lets go of no untouched turn while the server is *)
(* up; a cancel() that held the controller is there because of a Stop.     *)
LEMMA ExitDeep ==
    ASSUME HoldInv, DeepInv, NEW t \in TurnId, Exit(t)
    PROVE  DeepInv'
<1>1. /\ server # "down" /\ pc[t] = "exit" /\ pc'[t] = "none"
      /\ controllers' = controllers \ {t} /\ aborted' = aborted \ {t}
      /\ cancelling'[t] = IF cancelling[t] = "foundActive" THEN "found" ELSE cancelling[t]
      /\ UNCHANGED <<messages, status, approval, started, errors, server, pending,
                     admitting, resuming, stopped>>
  BY DEF Exit, At, Goto, Live, dbVars, HoldInv, TypeOK
<1>2. \A u \in TurnId \ {t} : pc'[u] = pc[u] /\ cancelling'[u] = cancelling[u]
  BY DEF Exit, Goto, HoldInv, TypeOK
<1>3. \A u \in TurnId \ {t} : Same(u)
  BY <1>1, <1>2 DEF Same
<1>4. /\ Deep(t) /\ t \notin Range(pending) /\ t \notin admitting[t.room]
      /\ ~(admitting[t.room] # {} /\ t.seq = Len(messages[t.room]))
  BY <1>1, ExecutingTurn
<1>5. (Asked(t)' <=> Asked(t)) /\ (Born(t)' <=> Born(t))
  BY <1>1 DEF Asked, Born
<1>6. Attached(t)' /\ Resumed(t)' /\ Recorded(t)' /\ Young(t)'
  BY <1>1, <1>4, <1>5 DEF Deep, Attached, Resumed, Recorded, Young
<1>7. Found(t)'
  BY <1>1, <1>4, <1>5 DEF Deep, Found, Untouched
<1>8. Paid(t)'
  BY <1>1, <1>4, <1>5 DEF Deep, Paid, Late, Command
<1>9. Unstopped(t)'
  BY <1>1, <1>4 DEF Deep, Unstopped, Early
<1> QED
  BY <1>1, <1>3, <1>6, <1>7, <1>8, <1>9, OneDeep DEF Deep

(* start() moves a turn from the pending list to an execution.             *)
LEMMA StartDeep ==
    ASSUME HoldInv, DeepInv, NEW i \in DOMAIN pending, Start(i)
    PROVE  DeepInv'
<1>0. pending \in Seq(TurnId) /\ i \in 1 .. Len(pending)
  BY DEF HoldInv, TypeOK
<1> PICK t \in TurnId : t = pending[i]
  BY <1>0
<1>1. t \in Range(pending)
  BY <1>0 DEF Range
<1>2. /\ server = "up" /\ pending' = RemoveAt(pending, i) /\ controllers' = controllers \cup {t}
      /\ pc' = [pc EXCEPT ![t] = "read"]
      /\ UNCHANGED <<messages, status, approval, started, errors, server, aborted,
                     admitting, resuming, cancelling, stopped>>
  BY DEF Start, CanStart, dbVars
<1>3. Range(pending') = Range(pending) \ {t}
  BY <1>0, <1>2, RemoveAtList DEF HoldInv, HeldOnce
<1>4. pc'[t] = "read" /\ \A u \in TurnId \ {t} : pc'[u] = pc[u]
  BY <1>1, <1>2 DEF HoldInv, TypeOK
<1>5. \A u \in TurnId \ {t} : Same(u)
  BY <1>2, <1>3, <1>4 DEF Same
<1>6. Deep(t)
  BY <1>1 DEF DeepInv
<1>7. (Asked(t)' <=> Asked(t)) /\ (Born(t)' <=> Born(t))
  BY <1>2 DEF Asked, Born
<1>8. Attached(t)' /\ Resumed(t)' /\ Recorded(t)' /\ Young(t)'
  BY <1>1, <1>2, <1>6, <1>7 DEF Deep, Attached, Resumed, Recorded, Young
<1>9. Found(t)'
  BY <1>2, <1>4, <1>6, <1>7 DEF Deep, Found, Untouched, Carried
<1>10. Paid(t)'
  BY <1>2, <1>4, <1>6, <1>7 DEF Deep, Paid, Late, Command
<1>11. Unstopped(t)'
  BY <1>1, <1>2, <1>6 DEF Deep, Unstopped
<1> QED
  BY <1>1, <1>2, <1>5, <1>8, <1>9, <1>10, <1>11, OneDeep DEF Deep

(* A paused turn that nobody stopped is in nobody's hands but perhaps in   *)
(* the execution that paused it.                                           *)
LEMMA PausedTurn ==
    ASSUME HoldInv, TurnInv, DeepInv, NEW t \in TurnId, status[t] = "waiting_approval"
    PROVE  /\ Deep(t) /\ Born(t)
           /\ ~(admitting[t.room] # {} /\ t.seq = Len(messages[t.room]))
           /\ t \notin stopped => /\ t \notin Range(pending) /\ t \notin resuming
                                  /\ t \notin admitting[t.room] /\ pc[t] \in {"none", "cards", "exit"}
<1>1. Deep(t) /\ Born(t) /\ Phase(t) /\ pc[t] \in Label
  BY DEF DeepInv, HoldInv, TypeOK, Triggered, TurnInv, TurnOK
<1>2. ~(admitting[t.room] # {} /\ t.seq = Len(messages[t.room]))
  BY <1>1 DEF Deep, Young
<1>3. pc[t] \notin Late \cup Skips
  BY <1>1 DEF Phase
<1>4. pc[t] \in {"none", "read", "cards", "exit"} \cup Early
  BY <1>1, <1>3 DEF Label, Settling, Early, Late, Skips
<1> QED
  BY <1>1, <1>2, <1>4 DEF Deep, Unstopped

(* A decision removes an error only of a turn that has run.                *)
LEMMA DecideDeep ==
    ASSUME HoldInv, TurnInv, DeepInv, NEW t \in TurnId, NEW a \in Slots,
           NEW verdict \in {"approved", "denied"}, Decide(t, a, verdict)
    PROVE  DeepInv'
<1>1. /\ server # "down" /\ status[t] = "waiting_approval" /\ approval[t][a] = "pending"
      /\ approval' = [approval EXCEPT ![t][a] = verdict]
      /\ UNCHANGED <<messages, started, server, pending, controllers, pc, aborted,
                     admitting, cancelling, stopped>>
  BY DEF Decide, Live
<1>2. /\ \A u \in TurnId \ {t} : /\ status'[u] = status[u] /\ approval'[u] = approval[u]
                                 /\ u \in errors => u \in errors'
                                 /\ u \in resuming' => u \in resuming
      /\ \/ status'[t] = "waiting_approval" /\ resuming' = resuming
         \/ status'[t] \in {"done", "skipped"} /\ Command(t) /\ resuming' = resuming
         \/ status'[t] = "queued" /\ resuming' = resuming \cup {t}
  BY <1>1 DEF Decide, Command, HoldInv, TypeOK
<1>3. \A u \in TurnId \ {t} : Same(u)
  BY <1>1, <1>2 DEF Same
<1>4. /\ Deep(t) /\ Born(t)
      /\ ~(admitting[t.room] # {} /\ t.seq = Len(messages[t.room]))
      /\ t \notin stopped => /\ t \notin Range(pending) /\ t \notin resuming
                             /\ t \notin admitting[t.room] /\ pc[t] \in {"none", "cards", "exit"}
  BY <1>1, PausedTurn
<1>5. Asked(t) /\ Asked(t)' /\ (Born(t)' <=> Born(t))
  <2>1. approval'[t][a] = verdict
    BY <1>1 DEF HoldInv, TypeOK
  <2> QED
    BY <1>1, <2>1 DEF Asked, Born
<1>6. Attached(t)' /\ Resumed(t)' /\ Recorded(t)' /\ Young(t)' /\ Found(t)'
  BY <1>1, <1>2, <1>4, <1>5 DEF Attached, Resumed, Recorded, Young, Found, Untouched
<1>7. Paid(t)'
  BY <1>1, <1>4, <1>5 DEF Deep, Paid, Late, Command
<1>8. Unstopped(t)'
  BY <1>1, <1>2, <1>4 DEF Deep, Unstopped, Early
<1>9. server = "down" => aborted' = {} /\ resuming' = {}
  BY <1>1
<1> QED
  BY <1>1, <1>3, <1>6, <1>7, <1>8, <1>9, OneDeep DEF Deep

(* Expiry fails turns that wait, which nobody holds.                       *)
LEMMA ExpireDeep ==
    ASSUME HoldInv, TurnInv, DeepInv, NEW overdue \in SUBSET TurnId, Expire(overdue)
    PROVE  DeepInv'
<1>1. /\ UNCHANGED <<messages, started, server, pending, controllers, pc, aborted,
                     admitting, resuming, cancelling, stopped>>
      /\ errors \subseteq errors'
  BY DEF Expire, memVars
<1>2. ASSUME NEW t \in TurnId PROVE Asked(t)' <=> Asked(t)
  BY DEF Expire, Asked, HoldInv, TypeOK
<1>3. ASSUME NEW t \in TurnId, status[t] = "waiting_approval", t \in overdue
      PROVE  Deep(t)'
  <2>1. status'[t] = "failed" /\ t \in errors'
    BY <1>3 DEF Expire
  <2>2. /\ Deep(t) /\ Born(t)
        /\ ~(admitting[t.room] # {} /\ t.seq = Len(messages[t.room]))
        /\ t \notin stopped => /\ t \notin Range(pending) /\ t \notin resuming
                               /\ t \notin admitting[t.room] /\ pc[t] \in {"none", "cards", "exit"}
    BY <1>3, PausedTurn
  <2>3. Born(t)' <=> Born(t)
    BY <1>1 DEF Born
  <2>4. Attached(t)' /\ Resumed(t)' /\ Recorded(t)' /\ Young(t)' /\ Found(t)'
    BY <1>1, <1>2, <2>1, <2>2, <2>3 DEF Deep, Attached, Resumed, Recorded, Young, Found, Untouched
  <2>5. Paid(t)'
    BY <1>1, <1>2, <2>1, <2>2, <2>3 DEF Deep, Paid, Late, Command
  <2>6. Unstopped(t)'
    BY <1>1, <2>1, <2>2 DEF Deep, Unstopped, Early
  <2> QED
    BY <2>4, <2>5, <2>6 DEF Deep
<1>4. ASSUME NEW t \in TurnId, ~(status[t] = "waiting_approval" /\ t \in overdue)
      PROVE  Deep(t)'
  <2>1. status'[t] = status[t]
    BY <1>4 DEF Expire
  <2>2. Deep(t) /\ (Born(t)' <=> Born(t))
    BY <1>1 DEF DeepInv, Born
  <2>3. Attached(t)' /\ Resumed(t)' /\ Recorded(t)' /\ Young(t)' /\ Found(t)'
    BY <1>1, <1>2, <2>1, <2>2
       DEF Deep, Attached, Resumed, Recorded, Young, Found, Untouched, Carried
  <2>4. Paid(t)' /\ Unstopped(t)'
    BY <1>1, <1>2, <2>1, <2>2 DEF Deep, Paid, Command, Unstopped
  <2> QED
    BY <2>3, <2>4 DEF Deep
<1>5. Newest' /\ Asleep'
  BY <1>1 DEF DeepInv, Newest, Asleep
<1> QED
  BY <1>3, <1>4, <1>5 DEF DeepInv

(* cancel() takes the turn out of the pending list and stays with it.      *)
LEMMA CancelFindDeep ==
    ASSUME HoldInv, DeepInv, NEW t \in TurnId, CancelFind(t)
    PROVE  DeepInv'
<1>1. /\ server # "down" /\ (t \in Range(pending) \/ status[t] \in Stoppable)
      /\ cancelling'[t] \in {"found", "foundActive"} /\ stopped' = stopped \cup {t}
      /\ UNCHANGED <<messages, status, approval, started, errors, server, controllers, pc, aborted,
                     admitting, resuming>>
  BY DEF CancelFind, Live, dbVars, HoldInv, TypeOK
<1>2. \A u \in TurnId \ {t} : cancelling'[u] = cancelling[u]
  BY DEF CancelFind, HoldInv, TypeOK
<1>3. Range(pending') = Range(pending) \ {t}
  <2>1. pending \in Seq(TurnId) /\ IsInjective(pending) /\ pending' = Withdrawn(t)
    BY DEF CancelFind, HoldInv, TypeOK, HeldOnce
  <2>2. CASE t \in Range(pending)
    <3>1. FirstPlace(pending, t) \in 1 .. Len(pending) /\ pending[FirstPlace(pending, t)] = t
      BY <2>1, <2>2, FirstPlaceIsAPlace
    <3>2. pending' = RemoveAt(pending, FirstPlace(pending, t))
      BY <2>1, <2>2 DEF Withdrawn
    <3> QED
      BY <2>1, <3>1, <3>2, RemoveAtList
  <2>3. CASE t \notin Range(pending)
    BY <2>1, <2>3 DEF Withdrawn
  <2> QED
    BY <2>2, <2>3
<1>4. \A u \in TurnId \ {t} : Same(u)
  BY <1>1, <1>2, <1>3 DEF Same
<1>5. Deep(t) /\ Born(t)
  BY <1>1 DEF DeepInv, HoldInv, Triggered, Stoppable
<1>6. (Asked(t)' <=> Asked(t)) /\ (Born(t)' <=> Born(t))
  BY <1>1 DEF Asked, Born
<1>7. Attached(t)' /\ Resumed(t)' /\ Recorded(t)' /\ Young(t)'
  BY <1>1, <1>3, <1>5, <1>6 DEF Deep, Attached, Resumed, Recorded, Young
<1>8. Found(t)'
  BY <1>1, <1>5, <1>6 DEF Deep, Found, Untouched
<1>9. Paid(t)' /\ Unstopped(t)'
  BY <1>1, <1>5, <1>6 DEF Deep, Paid, Command, Unstopped
<1> QED
  BY <1>1, <1>4, <1>7, <1>8, <1>9, OneDeep DEF Deep

(* The guarded update, and the abort of the controller that was found.     *)
LEMMA CancelCommitDeep ==
    ASSUME HoldInv, DeepInv, NEW t \in TurnId, CancelCommit(t)
    PROVE  DeepInv'
<1>1. /\ server # "down" /\ cancelling[t] # "no" /\ cancelling[t] # "release"
      /\ \/ status'[t] = "cancelled"
         \/ status' = status /\ aborted' = aborted /\ status[t] # "queued"
      /\ UNCHANGED <<messages, approval, started, errors, server, pending, controllers, pc,
                     admitting, resuming, stopped>>
  BY DEF CancelCommit, Cancellable, Stoppable, Live, HoldInv, TypeOK
<1>2. \A u \in TurnId \ {t} : /\ cancelling'[u] = cancelling[u] /\ status'[u] = status[u]
                              /\ u \in aborted' => u \in aborted
  BY DEF CancelCommit, HoldInv, TypeOK
<1>3. \A u \in TurnId \ {t} : Same(u)
  BY <1>1, <1>2 DEF Same
<1>4. Deep(t) /\ Born(t) /\ t \in stopped
  BY <1>1 DEF DeepInv, Deep, Attached, Unstopped
<1>5. (Asked(t)' <=> Asked(t)) /\ (Born(t)' <=> Born(t))
  BY <1>1 DEF Asked, Born
<1>6. Attached(t)' /\ Resumed(t)' /\ Recorded(t)' /\ Young(t)'
  BY <1>1, <1>4, <1>5 DEF Deep, Attached, Resumed, Recorded, Young
<1>7. Found(t)' /\ Unstopped(t)'
  BY <1>1, <1>4 DEF Found, Untouched, Unstopped
<1>8. Paid(t)'
  BY <1>1, <1>4, <1>5 DEF Deep, Paid, Command
<1> QED
  BY <1>1, <1>3, <1>6, <1>7, <1>8, OneDeep DEF Deep

(* The end of cancel() leaves a turn that it has just cancelled.           *)
LEMMA CancelReleaseDeep ==
    ASSUME HoldInv, DeepInv, NEW t \in TurnId, CancelRelease(t)
    PROVE  DeepInv'
<1>1. /\ server # "down" /\ cancelling[t] = "release" /\ cancelling'[t] = "no"
      /\ UNCHANGED <<messages, status, approval, started, errors, server, pending, controllers, pc,
                     aborted, admitting, resuming, stopped>>
  BY DEF CancelRelease, Live, HoldInv, TypeOK
<1>2. \A u \in TurnId \ {t} : cancelling'[u] = cancelling[u]
  BY DEF CancelRelease, HoldInv, TypeOK
<1>3. \A u \in TurnId \ {t} : Same(u)
  BY <1>1, <1>2 DEF Same
<1>4. Deep(t) /\ Born(t) /\ t \in stopped /\ ~Untouched(t)
  BY <1>1 DEF DeepInv, Deep, Attached, Unstopped, Found
<1>5. (Asked(t)' <=> Asked(t)) /\ (Born(t)' <=> Born(t))
  BY <1>1 DEF Asked, Born
<1>6. Attached(t)' /\ Resumed(t)' /\ Recorded(t)' /\ Young(t)'
  BY <1>1, <1>4, <1>5 DEF Deep, Attached, Resumed, Recorded, Young
<1>7. Found(t)' /\ Unstopped(t)'
  BY <1>1, <1>4, <1>5 DEF Found, Untouched, Unstopped
<1>8. Paid(t)'
  BY <1>1, <1>4, <1>5 DEF Deep, Paid, Command
<1> QED
  BY <1>1, <1>3, <1>6, <1>7, <1>8, OneDeep DEF Deep

(* The handler of a decision hands its turn over once.                     *)
LEMMA ResumeDeep ==
    ASSUME HoldInv, DeepInv, NEW t \in TurnId, Resume(t)
    PROVE  DeepInv'
<1>1. /\ server # "down" /\ t \in resuming /\ resuming' = resuming \ {t} /\ Enqueue({t})
      /\ UNCHANGED <<messages, status, approval, started, errors, server, controllers, pc,
                     aborted, admitting, cancelling, stopped>>
  BY DEF Resume, Live, dbVars
<1>2. /\ Range(pending') \subseteq Range(pending) \cup {t}
      /\ server = "up" => Range(pending) \subseteq Range(pending')
      /\ server # "up" => pending' = pending
  <2>1. {t} \in SUBSET TurnId
    OBVIOUS
  <2>2. /\ Range(pending') \subseteq Range(pending) \cup ({t} \ controllers)
        /\ server = "up" => Range(pending') = Range(pending) \cup ({t} \ controllers)
    BY <1>1, <2>1, EnqueueAdds DEF HoldInv, TypeOK
  <2>3. server # "up" => pending' = pending
    BY <1>1 DEF Enqueue
  <2> QED
    BY <2>2, <2>3
<1>3. \A u \in TurnId \ {t} : Same(u)
  BY <1>1, <1>2 DEF Same
<1>4. Deep(t) /\ Asked(t) /\ ~(admitting[t.room] # {} /\ t.seq = Len(messages[t.room]))
  BY <1>1 DEF DeepInv, Deep, Resumed, Young
<1>5. (Asked(t)' <=> Asked(t)) /\ (Born(t)' <=> Born(t))
  BY <1>1 DEF Asked, Born
<1>6. Attached(t)' /\ Resumed(t)' /\ Recorded(t)' /\ Young(t)'
  BY <1>1, <1>4, <1>5 DEF Deep, Attached, Resumed, Recorded, Young
<1>7. Found(t)' /\ Unstopped(t)'
  BY <1>1, <1>4, <1>5 DEF Deep, Found, Untouched, Unstopped
<1>8. Paid(t)'
  BY <1>1, <1>4, <1>5 DEF Deep, Paid, Command
<1> QED
  BY <1>1, <1>3, <1>6, <1>7, <1>8, OneDeep DEF Deep

(* The admission hands its turns to the pending list before it lets the    *)
(* room's queue go, and the handoff tool returns to its run.               *)
LEMMA AdmitEnqueueDeep ==
    ASSUME HoldInv, DeepInv, NEW r \in Rooms, AdmitEnqueue(r)
    PROVE  DeepInv'
<1>1. /\ server # "down" /\ Enqueue(admitting[r]) /\ admitting' = [admitting EXCEPT ![r] = {}]
      /\ UNCHANGED <<messages, status, approval, started, errors, server, controllers,
                     aborted, resuming, cancelling, stopped>>
  BY DEF AdmitEnqueue, Live, dbVars
<1>2. \A u \in TurnId : pc'[u] = pc[u] \/ (pc[u] = "handoff" /\ pc'[u] = "run")
  BY DEF AdmitEnqueue
<1>3. admitting[r] \in SUBSET TurnId /\ admitting'[r] = {}
      /\ \A s \in Rooms \ {r} : admitting'[s] = admitting[s]
  BY <1>1 DEF HoldInv, TypeOK
<1>4. /\ Range(pending') \subseteq Range(pending) \cup (admitting[r] \ controllers)
      /\ server = "up" => Range(pending') = Range(pending) \cup (admitting[r] \ controllers)
      /\ server # "up" => pending' = pending
  BY <1>1, <1>3, EnqueueAdds DEF HoldInv, TypeOK, Enqueue
<1>5. ASSUME NEW t \in TurnId PROVE Deep(t)'
  <2>1. Deep(t) /\ (Asked(t)' <=> Asked(t)) /\ (Born(t)' <=> Born(t)) /\ t.room \in Rooms
    BY <1>1 DEF DeepInv, Asked, Born, TurnId
  <2>2. t \in admitting[r] => /\ t \in admitting[t.room] /\ t.room = r
                              /\ t \notin resuming /\ pc[t] = "none"
    <3> SUFFICES ASSUME t \in admitting[r]
                 PROVE  t \in admitting[t.room] /\ t.room = r /\ t \notin resuming /\ pc[t] = "none"
      OBVIOUS
    <3>1. t.room = r /\ t.seq = Len(messages[r])
      BY DEF HoldInv, AdmittedHere, DeepInv, Newest
    <3> QED
      BY <2>1, <3>1 DEF Deep, Young
  <2>3. t \in admitting'[t.room] => t \in admitting[t.room] /\ admitting'[t.room] = admitting[t.room]
    BY <1>3, <2>1
  <2>4. Attached(t)' /\ Resumed(t)' /\ Recorded(t)'
    BY <1>1, <2>1 DEF Deep, Attached, Resumed, Recorded
  <2>5. Young(t)'
    <3>1. t.room # r => (t \in Range(pending') => t \in Range(pending)) /\ pc'[t] = pc[t]
      BY <1>4, <2>2 DEF AdmitEnqueue
    <3> QED
      BY <1>1, <1>3, <2>1, <3>1 DEF Deep, Young
  <2>6. Found(t)'
    <3>1. t \in admitting[t.room] => t \in admitting'[t.room] \/ t \in admitting[r]
      BY <1>3, <2>1
    <3>2. server = "up" /\ Carried(t) => Carried(t)'
      BY <1>1, <1>4, <3>1 DEF Carried
    <3> QED
      BY <1>1, <1>2, <2>1, <3>2 DEF Deep, Found, Untouched
  <2>7. Unstopped(t)'
    <3>1. t \in Range(pending') => t \in Range(pending) \/ t \in admitting[r]
      BY <1>4
    <3>2. pc'[t] \in {"read"} \cup Early => pc[t] = pc'[t]
      BY <1>2 DEF Early
    <3>3. pc[t] \in {"none", "cards", "exit"} => pc'[t] \in {"none", "cards", "exit"}
      BY <1>2
    <3> QED
      BY <1>1, <2>1, <2>2, <2>3, <3>1, <3>2, <3>3 DEF Deep, Unstopped
  <2>8. Paid(t)'
    BY <1>1, <1>2, <2>1 DEF Deep, Paid, Command, Late
  <2> QED
    BY <2>4, <2>5, <2>6, <2>7, <2>8 DEF Deep
<1>6. Newest' /\ Asleep'
  BY <1>1, <1>3 DEF DeepInv, Newest, Asleep
<1> QED
  BY <1>5, <1>6 DEF DeepInv

----------------------------------------------------------------------------
(* What post() writes: one row, and the rows of the turns it plans.        *)
LEMMA PostWrites ==
    ASSUME TypeOK, NEW r \in Rooms, NEW author \in AuthorKinds, NEW mentions \in Seq(Mention),
           NEW depth \in 0 .. MaxHandoffDepth, NEW automationBots \in Seq(Bots),
           Post(r, author, mentions, depth, automationBots)
    PROVE  /\ Len(messages[r]) \in Nat
           /\ messages'[r][Len(messages[r]) + 1] =
                 [author |-> author, command |-> FALSE,
                  plan |-> PlanTurns(Kind[r], author, Members[r], mentions, depth, automationBots)]
           /\ \A n \in 1 .. Len(messages[r]) : messages'[r][n] = messages[r][n]
<1> DEFINE row == [author |-> author, command |-> FALSE,
                   plan |-> PlanTurns(Kind[r], author, Members[r], mentions, depth, automationBots)]
<1>1. Kind[r] \in RoomKinds /\ Members[r] \in Seq(Bots)
  BY SchedulerAssumption
<1>2. row \in Row
  BY <1>1, PlanTurnsType DEF Row
<1>3. messages[r] \in Seq(Row) /\ Len(messages[r]) \in Nat
  BY DEF TypeOK
<1>4. messages' = [messages EXCEPT ![r] = Append(@, row)]
  BY DEF Post
<1> HIDE DEF row
<1>5. messages'[r] = Append(messages[r], row)
  BY <1>4 DEF TypeOK
<1>6. /\ Append(messages[r], row)[Len(messages[r]) + 1] = row
      /\ \A n \in 1 .. Len(messages[r]) : Append(messages[r], row)[n] = messages[r][n]
  BY <1>2, <1>3, AppendProperties
<1> QED
  BY <1>3, <1>5, <1>6 DEF row

(* Nothing is held about a turn that does not exist.                       *)
LEMMA UnbornTurn ==
    ASSUME HoldInv, DeepInv, NEW t \in TurnId, ~Born(t)
    PROVE  /\ status[t] = "none" /\ pc[t] = "none" /\ cancelling[t] = "no" /\ ~Asked(t)
           /\ t \notin Range(pending) /\ t \notin resuming /\ t \notin admitting[t.room]
           /\ t \notin aborted
BY DEF HoldInv, Triggered, DeepInv, Deep, Attached

(* post() commits its turns into the hands of its admission.               *)
LEMMA PostDeep ==
    ASSUME HoldInv, DeepInv, Live, NEW r \in Rooms, NEW author \in AuthorKinds,
           NEW mentions \in Seq(Mention), NEW depth \in 0 .. MaxHandoffDepth,
           NEW automationBots \in Seq(Bots),
           Post(r, author, mentions, depth, automationBots),
           \A t \in TurnId : pc'[t] = pc[t] \/ (pc[t] = "run" /\ pc'[t] = "handoff"),
           UNCHANGED <<approval, started, errors, server, pending, controllers, aborted,
                       resuming, cancelling, stopped>>
    PROVE  DeepInv'
<1>1. /\ Len(messages[r]) \in Nat /\ Len(messages'[r]) = Len(messages[r]) + 1
      /\ \A s \in Rooms \ {r} : messages'[s] = messages[s]
      /\ \A n \in 1 .. Len(messages[r]) : messages'[r][n] = messages[r][n]
      /\ admitting[r] = {}
  BY PostType, PostWrites DEF HoldInv
<1>2. PICK born \in SUBSET {t \in TurnId : t.room = r /\ t.seq = Len(messages[r]) + 1} :
         /\ born # {}
         /\ status' = [t \in TurnId |-> IF t \in born THEN "queued" ELSE status[t]]
         /\ admitting' = [admitting EXCEPT ![r] = born]
  <2>1. TypeOK /\ Post(r, author, mentions, depth, automationBots)
    BY DEF HoldInv
  <2> QED
    BY <2>1, PostType
<1>3. admitting'[r] = born /\ \A s \in Rooms \ {r} : admitting'[s] = admitting[s]
  BY <1>2 DEF HoldInv, TypeOK
<1>4. ASSUME NEW t \in TurnId PROVE Deep(t)'
  <2>1. /\ Deep(t) /\ (Asked(t)' <=> Asked(t)) /\ t.room \in Rooms /\ t.seq \in 1 .. MaxSeq
        /\ pc'[t] = pc[t] \/ (pc[t] = "run" /\ pc'[t] = "handoff")
    BY DEF DeepInv, Asked, TurnId
  <2>2. CASE ~Born(t)
    <3>1. /\ status[t] = "none" /\ pc[t] = "none" /\ cancelling[t] = "no" /\ ~Asked(t)
          /\ t \notin Range(pending) /\ t \notin resuming /\ t \notin admitting[t.room]
          /\ t \notin aborted
      BY <2>2, UnbornTurn
    <3>2. status'[t] \in {"none", "queued"} /\ (status'[t] = "queued" => t \in admitting'[t.room])
      BY <1>2, <1>3, <3>1
    <3>3. pc'[t] = "none" /\ (t \in admitting'[t.room] => t \in born)
      BY <1>3, <2>1, <3>1
    <3>4. Attached(t)' /\ Resumed(t)' /\ Recorded(t)' /\ Young(t)'
      BY <2>1, <3>1, <3>2, <3>3 DEF Attached, Resumed, Recorded, Young
    <3>5. Found(t)' /\ Paid(t)'
      BY <2>1, <3>1, <3>2, <3>3 DEF Found, Carried, Untouched, Paid, Late
    <3>6. Unstopped(t)'
      BY <1>2, <3>1, <3>2, <3>3 DEF Unstopped, Early
    <3> QED
      BY <3>4, <3>5, <3>6 DEF Deep
  <2>3. CASE Born(t)
    <3>1. t \notin born /\ status'[t] = status[t]
      BY <1>1, <1>2, <2>3 DEF Born
    <3>2. /\ Born(t)' /\ (Command(t)' <=> Command(t)) /\ (t \in admitting'[t.room] <=> t \in admitting[t.room])
          /\ admitting'[t.room] # {} /\ t.seq = Len(messages'[t.room])
             => admitting[t.room] # {} /\ t.seq = Len(messages[t.room])
      <4>1. CASE t.room = r
        <5>1. t.seq \in 1 .. Len(messages[r]) /\ t.seq # Len(messages'[r]) /\ t.seq <= Len(messages'[r])
          BY <1>1, <2>1, <2>3, <4>1, SchedulerAssumption DEF Born
        <5>2. messages'[t.room][t.seq] = messages[t.room][t.seq]
          BY <1>1, <4>1, <5>1
        <5>3. t \notin admitting[t.room] /\ t \notin admitting'[t.room]
          BY <1>1, <1>3, <3>1, <4>1
        <5> QED
          BY <4>1, <5>1, <5>2, <5>3 DEF Born, Command
      <4>2. CASE t.room # r
        BY <1>1, <1>3, <2>1, <2>3, <4>2 DEF Born, Command
      <4> QED
        BY <4>1, <4>2
    <3>3. Attached(t)' /\ Resumed(t)' /\ Recorded(t)'
      BY <2>1, <3>1, <3>2 DEF Deep, Attached, Resumed, Recorded
    <3>4. Young(t)'
      BY <2>1, <3>1, <3>2 DEF Deep, Young
    <3>5. Found(t)'
      BY <2>1, <3>1, <3>2 DEF Deep, Found, Carried, Untouched
    <3>6. Paid(t)'
      BY <2>1, <2>3, <3>1, <3>2 DEF Deep, Paid, Late
    <3>7. Unstopped(t)'
      BY <2>1, <3>1, <3>2 DEF Deep, Unstopped, Early
    <3> QED
      BY <3>3, <3>4, <3>5, <3>6, <3>7 DEF Deep
  <2> QED
    BY <2>2, <2>3
<1>5. Newest'
  BY <1>1, <1>3 DEF DeepInv, Newest
<1>6. Asleep'
  BY DEF Asleep, Live
<1> QED
  BY <1>4, <1>5, <1>6 DEF DeepInv

(* A member's message, an automation's and a handoff are posts.            *)
LEMMA MessagesPost ==
    ASSUME HoldInv,
           \/ \E r \in Rooms : PostMessage(r)
           \/ \E t \in TurnId : Handoff(t)
    PROVE  \E r \in Rooms, author \in AuthorKinds, mentions \in Seq(Mention),
              depth \in 0 .. MaxHandoffDepth, automationBots \in Seq(Bots) :
              /\ Post(r, author, mentions, depth, automationBots)
              /\ author = "system" => Automations # {}
              /\ Live
              /\ \A t \in TurnId : pc'[t] = pc[t] \/ (pc[t] = "run" /\ pc'[t] = "handoff")
              /\ UNCHANGED <<approval, started, errors, server, pending, controllers, aborted,
                             resuming, cancelling, stopped, crashes>>
<1> USE PlannerAssumption, SchedulerAssumption
<1>1. /\ 0 \in 0 .. MaxHandoffDepth /\ <<>> \in Seq(Mention) /\ <<>> \in Seq(Bots)
      /\ {"user", "system", "bot"} \subseteq AuthorKinds
  BY DEF AuthorKinds
<1>2. CASE \E r \in Rooms : PostMessage(r)
  <2>1. PICK r \in Rooms : PostMessage(r)
    BY <1>2
  <2>2. /\ Live
        /\ UNCHANGED <<approval, started, errors, server, pending, controllers, pc, aborted,
                       resuming, cancelling, stopped, crashes>>
    BY <2>1 DEF PostMessage
  <2>3. CASE \E m \in Mentions : Post(r, "user", m, 0, <<>>)
    <3>1. PICK m \in Mentions : Post(r, "user", m, 0, <<>>)
      BY <2>3
    <3>2. m \in Seq(Mention)
      OBVIOUS
    <3> QED
      BY <1>1, <2>2, <3>1, <3>2
  <2>4. CASE \E targets \in Automations : Post(r, "system", <<>>, 0, targets)
    <3>1. PICK targets \in Automations : Post(r, "system", <<>>, 0, targets)
      BY <2>4
    <3>2. targets \in Seq(Bots) /\ Automations # {}
      OBVIOUS
    <3> QED
      BY <1>1, <2>2, <3>1, <3>2
  <2> QED
    BY <2>1, <2>3, <2>4 DEF PostMessage
<1>3. CASE \E t \in TurnId : Handoff(t)
  <2> PICK t \in TurnId : Handoff(t)
    BY <1>3
  <2>1. /\ Live /\ pc[t] = "run" /\ pc' = [pc EXCEPT ![t] = "handoff"] /\ t.room \in Rooms
        /\ UNCHANGED <<approval, started, errors, server, pending, controllers, aborted,
                       resuming, cancelling, stopped, crashes>>
    BY DEF Handoff, At, Goto, TurnId
  <2>2. PICK b \in Range(Members[t.room]) :
           Post(t.room, "bot", <<[id |-> b, handoff |-> TRUE]>>, PlanOf(t).handoffDepth, <<>>)
    BY DEF Handoff
  <2>3. b \in Bots
    <3>1. Members[t.room] \in Seq(Bots)
      BY <2>1
    <3> QED
      BY <3>1 DEF Range
  <2>4. <<[id |-> b, handoff |-> TRUE]>> \in Seq(Mention)
    BY <2>3 DEF Mention
  <2>5. PlanOf(t).handoffDepth \in 0 .. MaxHandoffDepth
    BY <2>1, PlanOfType DEF HoldInv, Triggered, Plan
  <2>6. \A u \in TurnId : pc'[u] = pc[u] \/ (pc[u] = "run" /\ pc'[u] = "handoff")
    BY <2>1 DEF HoldInv, TypeOK
  <2> QED
    BY <1>1, <2>1, <2>2, <2>4, <2>5, <2>6
<1> QED
  BY <1>2, <1>3

(* So messages take no turn out of anybody's hands.                        *)
LEMMA MessagesDeep ==
    ASSUME HoldInv, DeepInv,
           \/ \E r \in Rooms : PostMessage(r)
           \/ \E t \in TurnId : Handoff(t)
    PROVE  DeepInv'
BY MessagesPost, PostDeep

(* What /connect writes: a turn that waits from its birth.                 *)
LEMMA ConnectWrites ==
    ASSUME TypeOK, NEW r \in Rooms, ConnectCommand(r)
    PROVE  \E t \in TurnId :
              /\ t.room = r /\ t.seq = Len(messages[r]) + 1 /\ ~Born(t)
              /\ status' = [status EXCEPT ![t] = "waiting_approval"]
              /\ \E a \in Slots : approval' = [approval EXCEPT ![t][a] = "pending"]
              /\ Len(messages[r]) \in Nat /\ Len(messages'[r]) = Len(messages[r]) + 1
              /\ messages'[r][Len(messages[r]) + 1].command
              /\ messages'[r][Len(messages[r]) + 1].author = "user"
              /\ messages'[r][Len(messages[r]) + 1].plan \in
                    [Bots -> [replyMode : {"direct", "none"}, handoffDepth : {0}, slot : Nat]]
              /\ \A n \in 1 .. Len(messages[r]) : messages'[r][n] = messages[r][n]
              /\ \A s \in Rooms \ {r} : messages'[s] = messages[s]
              /\ server # "down" /\ admitting[r] = {}
              /\ UNCHANGED <<started, errors, memVars, stopped>>
<1> DEFINE n == Len(messages[r]) + 1
           t == [room |-> r, seq |-> n, bot |-> Members[r][1]]
           row == [author |-> "user", command |-> TRUE,
                   plan |-> [b \in Bots |-> IF b = t.bot THEN Direct(0, 1) ELSE Unplanned]]
<1>1. /\ n <= MaxSeq /\ admitting[r] = {} /\ server # "down"
      /\ messages' = [messages EXCEPT ![r] = Append(@, row)]
      /\ status' = [status EXCEPT ![t] = "waiting_approval"]
      /\ \E a \in Slots : approval' = [approval EXCEPT ![t][a] = "pending"]
      /\ UNCHANGED <<started, errors, memVars, stopped>>
  BY DEF ConnectCommand, Live
<1>2. messages[r] \in Seq(Row) /\ Len(messages[r]) \in Nat /\ MaxSeq \in Nat
  BY SchedulerAssumption DEF TypeOK
<1>3. Members[r] \in Seq(Bots) /\ Members[r] # <<>>
  BY SchedulerAssumption DEF ConnectCommand
<1>4. Members[r][1] \in Bots
  BY <1>3
<1>5. t \in TurnId /\ ~Born(t) /\ t.room = r /\ t.seq = n
  BY <1>1, <1>2, <1>4 DEF TurnId, Born
<1>6. row.plan \in [Bots -> [replyMode : {"direct", "none"}, handoffDepth : {0}, slot : Nat]]
  BY DEF Direct, Unplanned
<1>7. row \in Row
  <2>1. \A x \in [replyMode : {"direct", "none"}, handoffDepth : {0}, slot : Nat] : x \in Plan
    BY PlannerAssumption DEF Plan, ReplyModes
  <2>2. row.plan \in [Bots -> Plan]
    BY <1>6, <2>1
  <2> QED
    BY <2>2 DEF Row, AuthorKinds
<1>8. row.command /\ row.author = "user"
  OBVIOUS
<1> HIDE DEF t, row
<1>9. /\ messages'[r] = Append(messages[r], row)
      /\ \A s \in Rooms \ {r} : messages'[s] = messages[s]
  BY <1>1 DEF TypeOK
<1>10. /\ messages'[r][n] = row /\ Len(messages'[r]) = n
       /\ \A i \in 1 .. Len(messages[r]) : messages'[r][i] = messages[r][i]
  BY <1>2, <1>7, <1>9, AppendProperties
<1> QED
  BY <1>1, <1>2, <1>5, <1>6, <1>8, <1>9, <1>10

(* /connect leaves every other turn alone.                                 *)
LEMMA ConnectDeep ==
    ASSUME HoldInv, DeepInv, NEW r \in Rooms, ConnectCommand(r)
    PROVE  DeepInv'
<1>1. PICK c \in TurnId :
        /\ c.room = r /\ c.seq = Len(messages[r]) + 1 /\ ~Born(c)
        /\ status' = [status EXCEPT ![c] = "waiting_approval"]
        /\ \E a \in Slots : approval' = [approval EXCEPT ![c][a] = "pending"]
        /\ Len(messages[r]) \in Nat /\ Len(messages'[r]) = Len(messages[r]) + 1
        /\ messages'[r][Len(messages[r]) + 1].command
        /\ \A n \in 1 .. Len(messages[r]) : messages'[r][n] = messages[r][n]
        /\ \A s \in Rooms \ {r} : messages'[s] = messages[s]
        /\ server # "down" /\ admitting[r] = {}
        /\ UNCHANGED <<started, errors, memVars, stopped>>
  BY ConnectWrites DEF HoldInv
<1>2. /\ UNCHANGED <<started, errors, server, pending, controllers, pc, aborted, admitting,
                     resuming, cancelling, stopped>>
      /\ status'[c] = "waiting_approval"
      /\ \A u \in TurnId \ {c} : status'[u] = status[u] /\ approval'[u] = approval[u]
  BY <1>1 DEF memVars, HoldInv, TypeOK
<1>3. ASSUME NEW t \in TurnId PROVE Deep(t)'
  <2>1. /\ Deep(t) /\ t.room \in Rooms /\ t.seq \in 1 .. MaxSeq
    BY DEF DeepInv, TurnId
  <2>2. CASE t = c
    <3>1. /\ status[t] = "none" /\ pc[t] = "none" /\ cancelling[t] = "no"
          /\ t \notin Range(pending) /\ t \notin resuming /\ t \notin admitting[t.room]
          /\ t \notin aborted
      BY <1>1, <2>2, UnbornTurn
    <3>2. Born(t)' /\ Command(t)' /\ admitting'[t.room] = {}
      BY <1>1, <1>2, <2>2 DEF Born, Command
    <3>3. Attached(t)' /\ Resumed(t)' /\ Recorded(t)' /\ Young(t)' /\ Found(t)' /\ Paid(t)'
      BY <1>2, <2>2, <3>1, <3>2 DEF Attached, Resumed, Recorded, Young, Found, Untouched, Paid
    <3>4. Unstopped(t)'
      BY <1>2, <2>2, <3>1 DEF Unstopped, Early
    <3> QED
      BY <3>3, <3>4 DEF Deep
  <2>3. CASE t # c
    <3>1. status'[t] = status[t] /\ (Asked(t)' <=> Asked(t))
      BY <1>2, <2>3 DEF Asked
    <3>2. /\ Born(t) => Born(t)' /\ (Command(t)' <=> Command(t))
          /\ admitting'[t.room] # {} /\ t.seq = Len(messages'[t.room])
             => admitting[t.room] # {} /\ t.seq = Len(messages[t.room])
      <4>1. CASE t.room = r
        <5>1. Born(t) => t.seq \in 1 .. Len(messages[r])
          BY <1>1, <2>1, <4>1, SchedulerAssumption DEF Born
        <5> QED
          BY <1>1, <1>2, <4>1, <5>1 DEF Born, Command
      <4>2. CASE t.room # r
        BY <1>1, <1>2, <2>1, <4>2 DEF Born, Command
      <4> QED
        BY <4>1, <4>2
    <3>3. Attached(t)' /\ Resumed(t)' /\ Recorded(t)'
      BY <1>2, <2>1, <3>1, <3>2 DEF Deep, Attached, Resumed, Recorded
    <3>4. Young(t)' /\ Found(t)'
      BY <1>2, <2>1, <3>1, <3>2 DEF Deep, Young, Found, Carried, Untouched
    <3>5. Unstopped(t)'
      BY <1>2, <2>1, <3>1, <3>2 DEF Deep, Unstopped
    <3>6. Paid(t)'
      <4>1. CASE Born(t)
        BY <1>2, <2>1, <3>1, <3>2, <4>1 DEF Deep, Paid
      <4>2. CASE ~Born(t)
        <5>1. status[t] = "none" /\ pc[t] = "none" /\ ~Asked(t)
          BY <4>2, UnbornTurn
        <5> QED
          BY <1>2, <3>1, <5>1 DEF Paid, Late
      <4> QED
        BY <4>1, <4>2
    <3> QED
      BY <3>3, <3>4, <3>5, <3>6 DEF Deep
  <2> QED
    BY <2>2, <2>3
<1>4. Newest'
  BY <1>1, <1>2 DEF DeepInv, Newest
<1>5. Asleep'
  BY <1>1, <1>2 DEF Asleep
<1> QED
  BY <1>3, <1>4, <1>5 DEF DeepInv

----------------------------------------------------------------------------
(* The end of the process and recover().                                   *)

(* A shutdown aborts what executes: the boot finds those turns.            *)
LEMMA ShutdownDeep ==
    ASSUME HoldInv, DeepInv, Shutdown
    PROVE  DeepInv'
<1>1. /\ server' = "stopping" /\ aborted' = controllers
      /\ UNCHANGED <<messages, status, approval, started, errors, pending, controllers, pc,
                     admitting, resuming, cancelling, stopped>>
  BY DEF Shutdown, dbVars
<1>2. ASSUME NEW t \in TurnId PROVE Deep(t)'
  <2>1. Deep(t) /\ (Asked(t)' <=> Asked(t)) /\ (Born(t)' <=> Born(t))
    BY <1>1 DEF DeepInv, Asked, Born
  <2>2. t \in controllers => Born(t)
    BY DEF HoldInv, Triggered, Held
  <2>3. Attached(t)' /\ Resumed(t)' /\ Recorded(t)' /\ Young(t)'
    BY <1>1, <2>1, <2>2 DEF Deep, Attached, Resumed, Recorded, Young
  <2>4. Found(t)' /\ Unstopped(t)'
    BY <1>1, <2>1 DEF Deep, Found, Untouched, Unstopped
  <2>5. Paid(t)'
    BY <1>1, <2>1 DEF Deep, Paid, Command
  <2> QED
    BY <2>3, <2>4, <2>5 DEF Deep
<1>3. Newest' /\ Asleep'
  BY <1>1 DEF DeepInv, Newest, Asleep
<1> QED
  BY <1>2, <1>3 DEF DeepInv

(* A crash forgets who held what, and no row changes.                      *)
LEMMA CrashDeep ==
    ASSUME HoldInv, DeepInv, Crash
    PROVE  DeepInv'
<1>1. /\ server' = "down" /\ aborted' = {} /\ resuming' = {} /\ pending' = <<>>
      /\ \A r \in Rooms : admitting'[r] = {}
      /\ \A t \in TurnId : pc'[t] = "none" /\ cancelling'[t] = "no" /\ t.room \in Rooms
      /\ UNCHANGED <<messages, status, approval, started, errors, stopped>>
  BY DEF Crash, dbVars, TurnId
<1>2. Range(pending') = {}
  BY <1>1 DEF Range
<1>3. ASSUME NEW t \in TurnId PROVE Deep(t)'
  <2>1. Deep(t) /\ (Asked(t)' <=> Asked(t)) /\ (Born(t)' <=> Born(t))
    BY <1>1 DEF DeepInv, Asked, Born
  <2>2. Attached(t)' /\ Resumed(t)' /\ Recorded(t)' /\ Young(t)'
    BY <1>1, <2>1 DEF Deep, Attached, Resumed, Recorded, Young
  <2>3. Found(t)'
    BY <1>1 DEF Found
  <2>4. Unstopped(t)'
    BY <1>1, <1>2, <2>1 DEF Deep, Unstopped, Early
  <2>5. Paid(t)'
    BY <1>1, <2>1 DEF Deep, Paid, Command, Late
  <2> QED
    BY <2>2, <2>3, <2>4, <2>5 DEF Deep
<1>4. Newest' /\ Asleep'
  BY <1>1 DEF Newest, Asleep
<1> QED
  BY <1>3, <1>4 DEF DeepInv

(* While the process is down nobody has a turn in hand.                    *)
LEMMA DownHoldsNone ==
    ASSUME HoldInv, DeepInv, server = "down", NEW t \in TurnId
    PROVE  /\ pc[t] = "none" /\ t \notin Range(pending) /\ t \notin resuming /\ t \notin aborted
           /\ admitting[t.room] = {}
<1>1. controllers = {} /\ pending = <<>> /\ aborted = {} /\ resuming = {} /\ admitting[t.room] = {}
  BY DEF HoldInv, Down, DeepInv, Asleep, TurnId
<1>2. pc[t] = "none"
  BY <1>1 DEF HoldInv, Held
<1> QED
  BY <1>1, <1>2 DEF Range

(* recover() fails what was running, with an error.                        *)
LEMMA RecoverRunningDeep ==
    ASSUME HoldInv, DeepInv, NEW t \in TurnId, RecoverRunning(t)
    PROVE  DeepInv'
<1>1. /\ server = "down" /\ status'[t] = "failed" /\ t \in errors' /\ errors \subseteq errors'
      /\ status[t] = "running"
      /\ UNCHANGED <<messages, started, approval, server, pending, controllers, pc, aborted,
                     admitting, resuming, cancelling, stopped>>
  BY DEF RecoverRunning, RecoveredStatus, memVars, HoldInv, TypeOK
<1>2. \A u \in TurnId \ {t} : status'[u] = status[u]
  BY DEF RecoverRunning, HoldInv, TypeOK
<1>3. \A u \in TurnId \ {t} : Same(u)
  BY <1>1, <1>2 DEF Same
<1>4. /\ pc[t] = "none" /\ t \notin Range(pending) /\ t \notin resuming /\ t \notin aborted
      /\ admitting[t.room] = {} /\ Deep(t)
  BY <1>1, DownHoldsNone DEF DeepInv
<1>5. (Asked(t)' <=> Asked(t)) /\ (Born(t)' <=> Born(t))
  BY <1>1 DEF Asked, Born
<1>6. Attached(t)' /\ Resumed(t)' /\ Recorded(t)' /\ Young(t)' /\ Found(t)'
  BY <1>1, <1>4, <1>5 DEF Deep, Attached, Resumed, Recorded, Young, Found, Untouched
<1>7. Paid(t)' /\ Unstopped(t)'
  BY <1>1, <1>4, <1>5 DEF Deep, Paid, Command, Late, Unstopped, Early
<1>8. server = "down" => aborted' = {} /\ resuming' = {}
  BY <1>1 DEF DeepInv, Asleep
<1> QED
  BY <1>1, <1>3, <1>6, <1>7, <1>8, OneDeep DEF Deep

(* recover() hands every queued turn to the pending list.                  *)
LEMMA RecoverQueuedDeep ==
    ASSUME HoldInv, DeepInv, RecoverQueued
    PROVE  DeepInv'
<1>1. /\ server = "down" /\ server' = "up"
      /\ pending' \in RecoveredOrder({t \in TurnId : status[t] = "queued"})
      /\ UNCHANGED <<messages, status, approval, started, errors, controllers, pc, aborted,
                     admitting, resuming, cancelling, stopped>>
  BY DEF RecoverQueued, dbVars
<1>2. Range(pending') = {t \in TurnId : status[t] = "queued"}
  <2>1. {t \in TurnId : status[t] = "queued"} \in SUBSET TurnId
    OBVIOUS
  <2>2. pending' \in Lists({t \in TurnId : status[t] = "queued"})
    BY <1>1 DEF RecoveredOrder
  <2> QED
    BY <2>1, <2>2, ListsAll
<1>3. ASSUME NEW t \in TurnId PROVE Deep(t)'
  <2>1. /\ pc[t] = "none" /\ t \notin resuming /\ t \notin aborted
        /\ admitting[t.room] = {} /\ Deep(t)
    BY <1>1, DownHoldsNone DEF DeepInv
  <2>2. (Asked(t)' <=> Asked(t)) /\ (Born(t)' <=> Born(t))
    BY <1>1 DEF Asked, Born
  <2>3. Attached(t)' /\ Resumed(t)' /\ Recorded(t)' /\ Young(t)'
    BY <1>1, <2>1, <2>2 DEF Deep, Attached, Resumed, Recorded, Young
  <2>4. Found(t)'
    BY <1>1, <1>2, <2>1, <2>2 DEF Deep, Found, Untouched, Carried
  <2>5. Paid(t)' /\ Unstopped(t)'
    BY <1>1, <1>2, <2>1, <2>2 DEF Deep, Paid, Command, Late, Unstopped, Early
  <2> QED
    BY <2>3, <2>4, <2>5 DEF Deep
<1>4. Newest' /\ Asleep'
  BY <1>1 DEF DeepInv, Newest, Asleep
<1> QED
  BY <1>3, <1>4 DEF DeepInv

(* The steps that touch no turn.                                           *)
LEMMA IdleDeep ==
    ASSUME HoldInv, DeepInv, UNCHANGED vars \/ PumpDone
    PROVE  DeepInv'
<1>1. UNCHANGED <<messages, status, approval, started, errors, server, pending, controllers, pc,
                  aborted, admitting, resuming, cancelling, stopped>>
  BY DEF PumpDone, vars, dbVars, memVars
<1>2. \A t \in TurnId : Same(t) /\ Deep(t)
  BY <1>1 DEF Same, DeepInv
<1>3. \A t \in TurnId : Deep(t)'
  BY <1>1, <1>2, SameDeep
<1>4. Newest' /\ Asleep'
  BY <1>1 DEF DeepInv, Newest, Asleep
<1> QED
  BY <1>3, <1>4 DEF DeepInv

(* In an empty workspace nothing is queued.                                *)
LEMMA DeepInit == Init => DeepInv
<1> SUFFICES ASSUME Init PROVE DeepInv
  OBVIOUS
<1>1. /\ aborted = {} /\ resuming = {} /\ server = "up" /\ Range(pending) = {} /\ errors = {}
      /\ \A r \in Rooms : admitting[r] = {}
  BY DEF Init, Range
<1>2. ASSUME NEW t \in TurnId PROVE Deep(t)
  <2>1. /\ status[t] = "none" /\ pc[t] = "none" /\ cancelling[t] = "no" /\ ~Asked(t)
        /\ admitting[t.room] = {}
    BY DEF Init, Asked, TurnId
  <2>2. Attached(t) /\ Resumed(t) /\ Recorded(t) /\ Young(t) /\ Found(t) /\ Paid(t)
    BY <1>1, <2>1 DEF Attached, Resumed, Recorded, Young, Found, Untouched, Paid, Late
  <2>3. Unstopped(t)
    BY <1>1, <2>1 DEF Unstopped, Early
  <2> QED
    BY <2>2, <2>3 DEF Deep
<1>3. Newest /\ Asleep
  BY <1>1 DEF Newest, Asleep
<1> QED
  BY <1>2, <1>3 DEF DeepInv

(* Every step preserves the invariant DeepInv.                             *)
LEMMA DeepNext ==
    ASSUME HoldInv, TurnInv, DeepInv, [Next]_vars
    PROVE  DeepInv'
<1>1. CASE UNCHANGED vars \/ PumpDone
  BY <1>1, IdleDeep
<1>2. ASSUME NEW i \in DOMAIN pending, Start(i) PROVE DeepInv'
  BY <1>2, StartDeep
<1>3. ASSUME NEW r \in Rooms, PostMessage(r) \/ AdmitEnqueue(r) \/ ConnectCommand(r) PROVE DeepInv'
  BY <1>3, MessagesDeep, AdmitEnqueueDeep, ConnectDeep
<1>4. ASSUME NEW t \in TurnId, Execute(t) PROVE DeepInv'
  <2>1. CASE Moves(t)
    BY <2>1, MovesDeep
  <2>2. CASE PostNotice(t) \/ PostReply(t)
    BY <2>2, PostingDeep
  <2>3. CASE MarkRunning(t) \/ AskApproval(t)
    BY <2>3, MarkRunningDeep, AskApprovalDeep
  <2>4. CASE Finish(t) \/ Exit(t)
    BY <2>4, FinishDeep, ExitDeep
  <2> QED
    BY <1>4, <2>1, <2>2, <2>3, <2>4 DEF Execute, Moves
<1>5. ASSUME NEW t \in TurnId, Handoff(t) \/ Resume(t) PROVE DeepInv'
  BY <1>5, MessagesDeep, ResumeDeep
<1>6. ASSUME NEW t \in TurnId, CancelFind(t) \/ CancelCommit(t) \/ CancelRelease(t) PROVE DeepInv'
  BY <1>6, CancelFindDeep, CancelCommitDeep, CancelReleaseDeep
<1>7. ASSUME NEW t \in TurnId, NEW a \in Slots, NEW v \in {"approved", "denied"}, Decide(t, a, v)
      PROVE  DeepInv'
  BY <1>7, DecideDeep
<1>8. CASE ExpireSome
  <2>1. PICK S \in SUBSET TurnId : Expire(S)
    BY <1>8 DEF ExpireSome
  <2> QED
    BY <2>1, ExpireDeep
<1>9. CASE Shutdown \/ Crash \/ RecoverQueued
  BY <1>9, ShutdownDeep, CrashDeep, RecoverQueuedDeep
<1>10. ASSUME NEW t \in TurnId, RecoverRunning(t) PROVE DeepInv'
  BY <1>10, RecoverRunningDeep
<1> QED
  BY <1>1, <1>2, <1>3, <1>4, <1>5, <1>6, <1>7, <1>8, <1>9, <1>10 DEF Next, Pump

(* In every reachable state an untouched turn is found, a turn that ran    *)
(* has its startedAt and a turn that failed its error.                     *)
THEOREM DeepInvariant == Spec => [](HoldInv /\ TurnInv /\ DeepInv)
<1>1. Init => HoldInv /\ TurnInv /\ DeepInv
  BY HoldInit, TurnInit, DeepInit
<1>2. HoldInv /\ TurnInv /\ DeepInv /\ [Next]_vars => (HoldInv /\ TurnInv /\ DeepInv)'
  BY HoldNext, TurnNext, DeepNext
<1> QED
  BY <1>1, <1>2, PTL DEF Spec

(* A queued turn that never paused is always in someone's hands: of the    *)
(* admission that committed it, of the pending list, of its execution, or  *)
(* of a cancel(); restarts lose none (enqueue, cancel and recover of       *)
(* scheduler.ts).                                                          *)
THEOREM FreshTurnsAreHeld == Spec => []FreshIsHeld
<1>1. HoldInv /\ TurnInv /\ DeepInv => FreshIsHeld
  BY DEF DeepInv, Deep, Found, Untouched, Carried, Fresh, FreshIsHeld
<1> QED
  BY <1>1, DeepInvariant, PTL

----------------------------------------------------------------------------
(* What is known of the message of a turn.                                 *)
RowOK(row) ==
    /\ \A b \in Bots : row.plan[b].replyMode = "optional" => row.author = "user"
    /\ row.author = "system" => Automations # {}
RowsOK == \A r \in Rooms : \A n \in 1 .. Len(messages[r]) : RowOK(messages[r][n])

(* Only a person's message has optional turns (planTurns of planner.ts).   *)
LEMMA OptionalFromUser ==
    ASSUME NEW kind, NEW author, NEW members, NEW mentions, NEW depth, NEW automationBots,
           NEW b \in Bots,
           PlanTurns(kind, author, members, mentions, depth, automationBots)[b].replyMode = "optional",
           author \in AuthorKinds
    PROVE  author = "user"
BY DEF PlanTurns, AuthorKinds, Direct, Unplanned

(* A step writes no row but a new one.                                     *)
Grown(r) ==
    /\ Len(messages'[r]) = Len(messages[r]) + 1
    /\ \A n \in 1 .. Len(messages[r]) : messages'[r][n] = messages[r][n]
    /\ RowOK(messages'[r][Len(messages[r]) + 1])

(* post() adds one row, planned by planTurns.                              *)
LEMMA PostGrows ==
    ASSUME HoldInv, NEW r \in Rooms, NEW author \in AuthorKinds,
           NEW mentions \in Seq(Mention), NEW depth \in 0 .. MaxHandoffDepth,
           NEW automationBots \in Seq(Bots),
           Post(r, author, mentions, depth, automationBots),
           author = "system" => Automations # {}
    PROVE  Grown(r) /\ \A s \in Rooms \ {r} : messages'[s] = messages[s]
<1> DEFINE plan == PlanTurns(Kind[r], author, Members[r], mentions, depth, automationBots)
<1>1. /\ Len(messages[r]) \in Nat /\ Len(messages'[r]) = Len(messages[r]) + 1
      /\ \A s \in Rooms \ {r} : messages'[s] = messages[s]
      /\ \A n \in 1 .. Len(messages[r]) : messages'[r][n] = messages[r][n]
      /\ messages'[r][Len(messages[r]) + 1] = [author |-> author, command |-> FALSE, plan |-> plan]
  BY PostType, PostWrites DEF HoldInv
<1>2. \A b \in Bots : plan[b].replyMode = "optional" => author = "user"
  BY OptionalFromUser
<1> HIDE DEF plan
<1>3. RowOK(messages'[r][Len(messages[r]) + 1])
  BY <1>1, <1>2 DEF RowOK
<1> QED
  BY <1>1, <1>3 DEF Grown

(* The rows of messages are only appended to.                              *)
LEMMA RowsGrow ==
    ASSUME HoldInv, [Next]_vars, NEW r \in Rooms
    PROVE  messages'[r] = messages[r] \/ Grown(r)
<1>3. CASE (\E s \in Rooms : PostMessage(s)) \/ (\E t \in TurnId : Handoff(t))
  BY <1>3, MessagesPost, PostGrows
<1>4. ASSUME NEW s \in Rooms, ConnectCommand(s) PROVE messages'[r] = messages[r] \/ Grown(r)
  <2>1. /\ Len(messages'[s]) = Len(messages[s]) + 1
        /\ messages'[s][Len(messages[s]) + 1].author = "user"
        /\ \A n \in 1 .. Len(messages[s]) : messages'[s][n] = messages[s][n]
        /\ \A u \in Rooms \ {s} : messages'[u] = messages[u]
    BY <1>4, ConnectWrites DEF HoldInv
  <2> QED
    BY <2>1 DEF Grown, RowOK
<1>5. \/ UNCHANGED messages
      \/ \E s \in Rooms : PostMessage(s) \/ ConnectCommand(s)
      \/ \E t \in TurnId : Handoff(t)
  <2>1. ASSUME NEW t \in TurnId, Execute(t) PROVE UNCHANGED messages
    <3>1. CASE Moves(t)
      BY <3>1, MovesMove DEF dbVars
    <3>2. CASE \/ PostNotice(t) \/ MarkRunning(t) \/ AskApproval(t) \/ PostReply(t)
               \/ Finish(t) \/ Exit(t)
      BY <3>2 DEF PostNotice, MarkRunning, AskApproval, PostReply, Finish, Exit, dbVars
    <3> QED
      BY <2>1, <3>1, <3>2 DEF Execute, Moves
  <2>2. CASE UNCHANGED vars \/ Pump \/ ExpireSome \/ Shutdown \/ Crash \/ RecoverQueued
    BY <2>2 DEF vars, dbVars, Pump, PumpDone, Start, ExpireSome, Expire, Shutdown, Crash, RecoverQueued
  <2>3. ASSUME NEW t \in TurnId,
               \/ Resume(t) \/ CancelFind(t) \/ CancelCommit(t) \/ CancelRelease(t) \/ RecoverRunning(t)
        PROVE  UNCHANGED messages
    BY <2>3 DEF Resume, CancelFind, CancelCommit, CancelRelease, RecoverRunning, dbVars
  <2>4. ASSUME NEW t \in TurnId, NEW a \in Slots, NEW v \in {"approved", "denied"}, Decide(t, a, v)
        PROVE  UNCHANGED messages
    BY <2>4 DEF Decide
  <2>5. ASSUME NEW s \in Rooms, AdmitEnqueue(s) PROVE UNCHANGED messages
    BY <2>5 DEF AdmitEnqueue, dbVars
  <2> QED
    BY <2>1, <2>2, <2>3, <2>4, <2>5 DEF Next
<1> QED
  BY <1>3, <1>4, <1>5

(* The row of a turn that exists never changes.                            *)
LEMMA RowKept ==
    ASSUME HoldInv, [Next]_vars, NEW t \in TurnId, Born(t)
    PROVE  Born(t)' /\ messages'[t.room][t.seq] = messages[t.room][t.seq]
<1>1. t.room \in Rooms /\ t.seq \in 1 .. Len(messages[t.room]) /\ Len(messages[t.room]) \in Nat
  <2>1. t.room \in Rooms /\ t.seq \in 1 .. MaxSeq /\ MaxSeq \in Nat
    BY SchedulerAssumption DEF TurnId
  <2>2. Len(messages[t.room]) \in Nat
    BY <2>1 DEF HoldInv, TypeOK
  <2> QED
    BY <2>1, <2>2 DEF Born
<1> QED
  BY <1>1, RowsGrow DEF Grown, Born

(* Every row stays as planTurns or /connect made it.                       *)
LEMMA RowsNext ==
    ASSUME HoldInv, RowsOK, [Next]_vars
    PROVE  RowsOK'
<1>1. ASSUME NEW r \in Rooms, NEW n \in 1 .. Len(messages'[r]) PROVE RowOK(messages'[r][n])
  <2>1. Len(messages[r]) \in Nat
    BY DEF HoldInv, TypeOK
  <2> QED
    BY <1>1, <2>1, RowsGrow DEF RowsOK, Grown
<1> QED
  BY <1>1 DEF RowsOK, RowOK

----------------------------------------------------------------------------
(* No silence: a message that nothing was heard of has a turn that will    *)
(* not just decline.                                                       *)
Heard(t) == t \in started \cup errors \cup stopped
Speaking(t) == status[t] = "queued" /\ pc[t] \notin {"decide", "skip"}
Hope(r, n) ==
    TurnsOf(r, n) # {} /\ ~messages[r][n].command =>
        \E t \in TurnsOf(r, n) : Heard(t) \/ Speaking(t)
Hopeful == \A r \in Rooms, n \in 1 .. MaxSeq : Hope(r, n)

(* Only an optional turn weighs whether it is the fallback.                *)
Weighed == \A t \in TurnId : pc[t] = "weigh" => PlanOf(t).replyMode = "optional"

VoiceInv == RowsOK /\ Weighed /\ Hopeful

(* A step after which no less is heard or to be expected of t.             *)
Steady(t) ==
    /\ status'[t] = "none" <=> status[t] = "none"
    /\ Heard(t) => Heard(t)' \/ Command(t)
    /\ Speaking(t) => Speaking(t)' \/ Heard(t)'

(* Hope is only lost when a turn of the message changes.                   *)
LEMMA HopeKept ==
    ASSUME NEW r \in Rooms, NEW n \in 1 .. MaxSeq, Hope(r, n),
           messages'[r][n] = messages[r][n],
           \A t \in TurnId : t.room = r /\ t.seq = n => Steady(t)
    PROVE  Hope(r, n)'
<1>1. TurnsOf(r, n)' = TurnsOf(r, n)
  BY DEF TurnsOf, Steady
<1> SUFFICES ASSUME TurnsOf(r, n) # {}, ~messages[r][n].command
             PROVE  \E t \in TurnsOf(r, n) : Heard(t)' \/ Speaking(t)'
  BY <1>1 DEF Hope
<1>2. PICK t \in TurnsOf(r, n) : Heard(t) \/ Speaking(t)
  BY DEF Hope
<1>3. t \in TurnId /\ t.room = r /\ t.seq = n
  BY DEF TurnsOf
<1>4. Steady(t) /\ ~Command(t)
  BY <1>3 DEF Command
<1> QED
  BY <1>2, <1>4 DEF Steady

(* The steps of execute() but two: what is skipped without a word was no   *)
(* longer speaking.                                                        *)
LEMMA ExecuteSteady ==
    ASSUME HoldInv, TurnInv, DeepInv, NEW w \in TurnId, Execute(w), ~WeighFallback(w), NEW t \in TurnId
    PROVE  Steady(t)
<1>0. stopped' = stopped /\ pc[w] # "none" /\ Phase(w)
  <2>1. CASE Moves(w)
    BY <2>1, MovesMove DEF Executing, TurnInv, TurnOK
  <2>2. CASE PostNotice(w) \/ MarkRunning(w) \/ AskApproval(w) \/ PostReply(w) \/ Finish(w) \/ Exit(w)
    BY <2>2 DEF PostNotice, MarkRunning, AskApproval, PostReply, Finish, Exit, At, Executing, Settling,
                TurnInv, TurnOK
  <2> QED
    BY <2>1, <2>2 DEF Execute, Moves
<1>1. CASE Moves(w)
  <2>1. UNCHANGED <<status, started, errors, stopped>>
    BY <1>1, MovesMove DEF dbVars, Executing
  <2>2. pc'[t] \in {"decide", "skip"} => status[t] # "queued" \/ pc[t] \in {"decide", "skip"}
    <3>1. PICK label \in Label \ {"none"} : pc' = [pc EXCEPT ![w] = label]
      BY <1>1, MovesMove
    <3>2. pc'[w] = label /\ (t # w => pc'[t] = pc[t])
      BY <3>1 DEF HoldInv, TypeOK
    <3>3. CASE ReadTurn(w) \/ LookForNotice(w) \/ CardsPosted(w)
      <4>1. label \notin {"decide", "skip"}
        BY <3>2, <3>3 DEF ReadTurn, LookForNotice, CardsPosted, Goto, UnlessAborted, HoldInv, TypeOK
      <4> QED
        BY <3>2, <4>1
    <3>4. CASE DecideReply(w)
      BY <3>2, <3>4 DEF DecideReply, At
    <3>5. CASE EndRun(w)
      BY <1>0, <3>2, <3>5 DEF EndRun, At, Phase, Late
    <3> QED
      BY <1>1, <3>3, <3>4, <3>5 DEF Moves
  <2> QED
    BY <2>1, <2>2 DEF Steady, Heard, Speaking
<1>2. CASE PostNotice(w) \/ PostReply(w) \/ Exit(w)
  <2>1. UNCHANGED <<status, started, errors, stopped>> /\ (pc'[t] = pc[t] \/ pc'[t] \notin {"decide", "skip"})
    BY <1>0, <1>2 DEF PostNotice, PostReply, Exit, Goto, HoldInv, TypeOK, dbVars, Executing
  <2> QED
    BY <2>1 DEF Steady, Heard, Speaking
<1>3. CASE MarkRunning(w)
  <2>1. /\ started' = started \cup {w} /\ errors' = errors
        /\ t # w => status'[t] = status[t] /\ pc'[t] = pc[t]
        /\ status'[w] = "running" /\ status[w] # "none"
    BY <1>0, <1>3 DEF MarkRunning, At, Goto, Phase, Early, HoldInv, TypeOK
  <2> QED
    BY <1>0, <2>1 DEF Steady, Heard, Speaking
<1>4. CASE AskApproval(w)
  <2>1. /\ UNCHANGED <<started, errors>>
        /\ t # w => status'[t] = status[t] /\ pc'[t] = pc[t]
        /\ status'[w] = "waiting_approval" /\ status[w] \notin {"none", "queued"}
    BY <1>0, <1>4 DEF AskApproval, At, Goto, Phase, Late, HoldInv, TypeOK
  <2> QED
    BY <1>0, <2>1 DEF Steady, Heard, Speaking
<1>5. CASE Finish(w)
  <2>1. /\ started' = started /\ errors \subseteq errors'
        /\ t # w => status'[t] = status[t] /\ pc'[t] = pc[t]
        /\ status'[w] # "none" /\ status[w] # "none"
        /\ status[w] = "queued" => pc[w] = "skip" \/ w \in errors'
    BY <1>0, <1>5 DEF Finish, Goto, Phase, Late, Skips, Settling, Outcome, HoldInv, TypeOK
  <2> QED
    BY <1>0, <2>1 DEF Steady, Heard, Speaking
<1> QED
  BY <1>1, <1>2, <1>3, <1>4, <1>5 DEF Execute, Moves

(* A decision removes the error only of a turn that had started.           *)
LEMMA DecideSteady ==
    ASSUME HoldInv, TurnInv, DeepInv, NEW w \in TurnId, NEW a \in Slots,
           NEW verdict \in {"approved", "denied"}, Decide(w, a, verdict), NEW t \in TurnId
    PROVE  Steady(t)
<1>1. /\ status[w] = "waiting_approval" /\ approval[w][a] = "pending"
      /\ UNCHANGED <<messages, started, pc, stopped>>
      /\ status'[w] # "none" /\ errors \subseteq errors' \cup {w}
      /\ t # w => status'[t] = status[t]
  BY DEF Decide, HoldInv, TypeOK
<1>2. w \in started \/ Command(w)
  <2>1. Asked(w) /\ Born(w) /\ Paid(w)
    BY <1>1 DEF Asked, HoldInv, Triggered, DeepInv, Deep
  <2> QED
    BY <2>1 DEF Paid
<1> QED
  BY <1>1, <1>2 DEF Steady, Heard, Speaking

(* A turn is cancelled only when somebody pressed Stop.                    *)
LEMMA CancelSteady ==
    ASSUME HoldInv, DeepInv, NEW w \in TurnId,
           CancelFind(w) \/ CancelCommit(w) \/ CancelRelease(w), NEW t \in TurnId
    PROVE  Steady(t)
<1>1. UNCHANGED <<started, errors, pc>> /\ stopped \subseteq stopped'
  BY DEF CancelFind, CancelCommit, CancelRelease, dbVars
<1>2. \/ status' = status
      \/ /\ cancelling[w] # "no" /\ status[w] # "none" /\ status'[w] # "none"
         /\ t # w => status'[t] = status[t]
  BY DEF CancelFind, CancelCommit, CancelRelease, Cancellable, Stoppable, dbVars, HoldInv, TypeOK
<1>3. cancelling[w] # "no" => w \in stopped
  BY DEF DeepInv, Deep, Unstopped
<1> QED
  BY <1>1, <1>2, <1>3 DEF Steady, Heard, Speaking

(* The other steps that add no message.                                    *)
LEMMA OtherSteady ==
    ASSUME HoldInv, TurnInv, DeepInv, NEW t \in TurnId,
           \/ UNCHANGED vars \/ Pump \/ ExpireSome \/ Shutdown \/ Crash \/ RecoverQueued
           \/ \E r \in Rooms : AdmitEnqueue(r)
           \/ \E w \in TurnId : Resume(w) \/ RecoverRunning(w)
    PROVE  Steady(t)
<1>1. CASE \/ UNCHANGED vars \/ PumpDone \/ Shutdown \/ Crash \/ RecoverQueued
           \/ \E r \in Rooms : AdmitEnqueue(r)
           \/ \E w \in TurnId : Resume(w)
  <2>1. UNCHANGED <<status, started, errors, stopped>> /\ (pc'[t] = pc[t] \/ pc'[t] \in {"none", "run"})
    BY <1>1 DEF vars, dbVars, memVars, PumpDone, Shutdown, Crash, RecoverQueued, AdmitEnqueue, Resume
  <2> QED
    BY <2>1 DEF Steady, Heard, Speaking
<1>2. ASSUME NEW i \in DOMAIN pending, Start(i) PROVE Steady(t)
  <2>1. pending \in Seq(TurnId)
    BY DEF HoldInv, TypeOK
  <2>2. UNCHANGED <<status, started, errors, stopped>> /\ (pc'[t] = pc[t] \/ pc'[t] = "read")
    BY <1>2, <2>1 DEF Start, dbVars, HoldInv, TypeOK
  <2> QED
    BY <2>2 DEF Steady, Heard, Speaking
<1>3. CASE ExpireSome
  <2>1. /\ UNCHANGED <<started, stopped, pc>> /\ errors \subseteq errors'
        /\ status'[t] = status[t] \/ (status[t] = "waiting_approval" /\ status'[t] = "failed")
    BY <1>3 DEF ExpireSome, Expire, memVars
  <2> QED
    BY <2>1 DEF Steady, Heard, Speaking
<1>4. ASSUME NEW w \in TurnId, RecoverRunning(w) PROVE Steady(t)
  <2>1. /\ UNCHANGED <<started, stopped, pc>> /\ errors \subseteq errors'
        /\ status'[t] = status[t] \/ (status[t] = "running" /\ status'[t] = "failed")
    BY <1>4 DEF RecoverRunning, RecoveredStatus, memVars, HoldInv, TypeOK
  <2> QED
    BY <2>1 DEF Steady, Heard, Speaking
<1> QED
  BY <1>1, <1>2, <1>3, <1>4 DEF Pump

(* A turn that exists and is not the one that executes has been heard of,  *)
(* was skipped without a word, or will still speak.                        *)
LEMMA OthersSpeak ==
    ASSUME HoldInv, TurnInv, DeepInv, NEW t \in TurnId, pc[t] # "none",
           NEW u \in TurnsOf(t.room, t.seq), u # t, ~Command(t),
           ~(status[u] = "skipped" /\ u \notin errors)
    PROVE  Heard(u) \/ (Speaking(u) /\ pc[u] = "none")
<1>1. u \in TurnId /\ u.room = t.room /\ u.seq = t.seq /\ status[u] # "none" /\ ~Command(u)
  BY DEF TurnsOf, Command
<1>2. Born(u) /\ Deep(u) /\ TurnOK(u) /\ status[u] \in Status
  BY <1>1 DEF HoldInv, Triggered, DeepInv, TurnInv, TypeOK
<1>3. pc[u] = "none"
  BY <1>1 DEF HoldInv, Held
<1>4. CASE status[u] = "queued"
  BY <1>3, <1>4 DEF Speaking
<1>5. CASE status[u] \in {"running", "done"}
  BY <1>1, <1>2, <1>5 DEF Deep, Paid, Heard
<1>6. CASE status[u] = "waiting_approval"
  <2>1. Asked(u)
    BY <1>2, <1>6 DEF TurnOK, Answerable, Open, Asked
  <2> QED
    BY <1>1, <1>2, <2>1 DEF Deep, Paid, Heard
<1>7. CASE status[u] \in {"failed", "skipped"}
  BY <1>2, <1>7 DEF Deep, Recorded, Heard
<1>8. CASE status[u] = "cancelled"
  BY <1>2, <1>8 DEF Deep, Unstopped, Heard
<1> QED
  BY <1>1, <1>2, <1>4, <1>5, <1>6, <1>7, <1>8 DEF Status, Stoppable, Final

(* The designated fallback: an optional turn asks its model only when      *)
(* another turn of the message has been or will be heard.                  *)
LEMMA WeighFallbackHope ==
    ASSUME HoldInv, TurnInv, DeepInv, VoiceInv, NEW t \in TurnId, WeighFallback(t)
    PROVE  Hopeful'
<1>1. /\ pc[t] = "weigh" /\ UNCHANGED <<messages, status, started, errors, stopped>>
      /\ \A u \in TurnId \ {t} : pc'[u] = pc[u]
      /\ \/ pc'[t] \notin {"decide", "skip"}
         \/ ~DesignatedFallback(t)
  BY DEF WeighFallback, At, Goto, UnlessAborted, dbVars, Executing, HoldInv, TypeOK
<1>2. Born(t) /\ PlanOf(t).replyMode = "optional" /\ t.room \in Rooms /\ t.seq \in 1 .. Len(messages[t.room])
      /\ t.bot \in Bots
  <2>1. Born(t) /\ t.room \in Rooms /\ t.seq \in 1 .. MaxSeq /\ t.bot \in Bots
    BY <1>1 DEF HoldInv, Triggered, TurnId
  <2>2. Len(messages[t.room]) \in Nat /\ MaxSeq \in Nat
    BY <2>1, SchedulerAssumption DEF HoldInv, TypeOK
  <2> QED
    BY <1>1, <2>1, <2>2 DEF VoiceInv, Weighed, Born
<1>3. messages[t.room][t.seq].author = "user"
  BY <1>2 DEF VoiceInv, RowsOK, RowOK, PlanOf
<1>4. ASSUME NEW r \in Rooms, NEW n \in 1 .. MaxSeq PROVE Hope(r, n)'
  <2>0. Hope(r, n) /\ TurnsOf(r, n)' = TurnsOf(r, n)
    BY <1>1 DEF VoiceInv, Hopeful, TurnsOf
  <2>1. CASE pc'[t] \notin {"decide", "skip"} \/ ~(t.room = r /\ t.seq = n)
    <3>1. \A u \in TurnId : u.room = r /\ u.seq = n => Steady(u)
      BY <1>1, <2>1 DEF Steady, Heard, Speaking
    <3> QED
      BY <1>1, <2>0, <3>1, HopeKept
  <2>2. CASE ~DesignatedFallback(t) /\ t.room = r /\ t.seq = n
    <3> SUFFICES ASSUME ~messages[r][n].command
                 PROVE  \E u \in TurnsOf(r, n) : Heard(u)' \/ Speaking(u)'
      BY <1>1, <2>0 DEF Hope
    <3>1. Deep(t) /\ Phase(t) /\ ~Command(t)
      BY <2>2 DEF DeepInv, TurnInv, TurnOK, Command
    <3>2. CASE status[t] = "cancelled"
      <4>1. Heard(t)' /\ t \in TurnsOf(r, n)
        BY <1>1, <2>2, <3>1, <3>2 DEF Deep, Unstopped, Heard, TurnsOf
      <4> QED
        BY <4>1
    <3>3. CASE status[t] = "queued"
      <4>1. PICK u \in TurnsOf(r, n) \ {t} : ~(status[u] = "skipped" /\ u \notin errors)
        <5> SUFFICES ASSUME \A u \in TurnsOf(r, n) \ {t} : status[u] = "skipped" /\ u \notin errors
                     PROVE  FALSE
          OBVIOUS
        <5>1. t \in TurnsOf(r, n)
          BY <2>2, <3>3 DEF TurnsOf
        <5>2. Unresolved(TurnsOf(r, n)) = {t}
          BY <3>3, <5>1 DEF Unresolved, Stoppable
        <5> QED
          BY <1>3, <2>2, <5>2 DEF DesignatedFallback
      <4>2. Heard(u) \/ (Speaking(u) /\ pc[u] = "none")
        BY <1>1, <2>2, <3>1, <4>1, OthersSpeak
      <4>3. u \in TurnId \ {t}
        BY <4>1 DEF TurnsOf
      <4>4. Heard(u)' \/ Speaking(u)'
        BY <1>1, <4>2, <4>3 DEF Heard, Speaking
      <4> QED
        BY <4>1, <4>4
    <3> QED
      BY <1>1, <3>1, <3>2, <3>3 DEF Phase, Early
  <2> QED
    BY <1>1, <2>1, <2>2
<1> QED
  BY <1>4 DEF Hopeful

(* A message has its turns queued when it is committed.                    *)
LEMMA PostHope ==
    ASSUME HoldInv, DeepInv, VoiceInv, NEW r \in Rooms, NEW author \in AuthorKinds,
           NEW mentions \in Seq(Mention), NEW depth \in 0 .. MaxHandoffDepth,
           NEW automationBots \in Seq(Bots),
           Post(r, author, mentions, depth, automationBots),
           \A t \in TurnId : pc'[t] = pc[t] \/ (pc[t] = "run" /\ pc'[t] = "handoff"),
           UNCHANGED <<started, errors, stopped>>
    PROVE  Hopeful'
<1>1. /\ Len(messages[r]) \in Nat
      /\ \A s \in Rooms \ {r} : messages'[s] = messages[s]
      /\ \A n \in 1 .. Len(messages[r]) : messages'[r][n] = messages[r][n]
  BY PostType, PostWrites DEF HoldInv
<1>2. PICK born \in SUBSET {t \in TurnId : t.room = r /\ t.seq = Len(messages[r]) + 1} :
         /\ born # {}
         /\ status' = [t \in TurnId |-> IF t \in born THEN "queued" ELSE status[t]]
         /\ admitting' = [admitting EXCEPT ![r] = born]
  <2>1. TypeOK /\ Post(r, author, mentions, depth, automationBots)
    BY DEF HoldInv
  <2> QED
    BY <2>1, PostType
<1>3. \A t \in TurnId : ~Born(t) => status[t] = "none" /\ pc[t] = "none"
  BY UnbornTurn
<1>4. \A t \in born : t \in TurnId /\ ~Born(t)
  BY <1>1, <1>2 DEF Born
<1>5. \A t \in TurnId \ born : Steady(t)
  BY <1>2 DEF Steady, Heard, Speaking
<1>6. ASSUME NEW s \in Rooms, NEW n \in 1 .. MaxSeq PROVE Hope(s, n)'
  <2>0. Hope(s, n) /\ n \in Nat
    BY SchedulerAssumption DEF VoiceInv, Hopeful
  <2>1. CASE s = r /\ n = Len(messages[r]) + 1
    <3>1. PICK t \in born : TRUE
      BY <1>2
    <3>2. t \in TurnId /\ t.room = s /\ t.seq = n /\ status'[t] = "queued" /\ pc'[t] = "none"
      BY <1>2, <1>3, <1>4, <2>1
    <3>3. t \in TurnsOf(s, n)' /\ Speaking(t)'
      BY <3>2 DEF TurnsOf, Speaking
    <3> QED
      BY <3>3 DEF Hope
  <2>2. CASE s = r /\ n > Len(messages[r]) + 1
    <3>1. \A t \in TurnId : t.room = s /\ t.seq = n => ~Born(t) /\ t \notin born
      BY <1>1, <1>2, <2>0, <2>2 DEF Born
    <3>2. TurnsOf(s, n)' = {}
      BY <1>2, <1>3, <3>1 DEF TurnsOf
    <3> QED
      BY <3>2 DEF Hope
  <2>3. CASE s # r \/ n <= Len(messages[r])
    <3>1. messages'[s][n] = messages[s][n]
      BY <1>1, <2>0, <2>3
    <3>2. \A t \in TurnId : t.room = s /\ t.seq = n => t \notin born
      BY <1>1, <1>2, <2>0, <2>3
    <3> QED
      BY <1>5, <2>0, <3>1, <3>2, HopeKept
  <2> QED
    BY <1>1, <2>0, <2>1, <2>2, <2>3
<1> QED
  BY <1>6 DEF Hopeful

(* So every message is given hope.                                         *)
LEMMA MessagesHope ==
    ASSUME HoldInv, DeepInv, VoiceInv,
           \/ \E r \in Rooms : PostMessage(r)
           \/ \E t \in TurnId : Handoff(t)
    PROVE  Hopeful'
BY MessagesPost, PostHope

(* /connect is a command: nothing is expected of its turn.                 *)
LEMMA ConnectHope ==
    ASSUME HoldInv, DeepInv, VoiceInv, NEW r \in Rooms, ConnectCommand(r)
    PROVE  Hopeful'
<1>1. PICK c \in TurnId :
        /\ c.room = r /\ c.seq = Len(messages[r]) + 1 /\ ~Born(c)
        /\ status' = [status EXCEPT ![c] = "waiting_approval"]
        /\ Len(messages[r]) \in Nat
        /\ messages'[r][Len(messages[r]) + 1].command
        /\ \A n \in 1 .. Len(messages[r]) : messages'[r][n] = messages[r][n]
        /\ \A s \in Rooms \ {r} : messages'[s] = messages[s]
        /\ UNCHANGED <<started, errors, memVars, stopped>>
  BY ConnectWrites DEF HoldInv
<1>2. /\ UNCHANGED <<started, errors, pc, stopped>>
      /\ \A u \in TurnId \ {c} : status'[u] = status[u]
  BY <1>1 DEF memVars, HoldInv, TypeOK
<1>3. \A t \in TurnId \ {c} : Steady(t)
  BY <1>2 DEF Steady, Heard, Speaking
<1>4. ASSUME NEW s \in Rooms, NEW n \in 1 .. MaxSeq PROVE Hope(s, n)'
  <2>0. Hope(s, n) /\ n \in Nat
    BY SchedulerAssumption DEF VoiceInv, Hopeful
  <2>1. CASE s = r /\ n = Len(messages[r]) + 1
    BY <1>1, <2>1 DEF Hope
  <2>2. CASE s = r /\ n > Len(messages[r]) + 1
    <3>1. \A t \in TurnId : t.room = s /\ t.seq = n => ~Born(t) /\ t # c
      BY <1>1, <2>0, <2>2 DEF Born
    <3>2. TurnsOf(s, n)' = {}
      BY <1>2, <3>1, UnbornTurn DEF TurnsOf
    <3> QED
      BY <3>2 DEF Hope
  <2>3. CASE s # r \/ n <= Len(messages[r])
    <3>1. messages'[s][n] = messages[s][n]
      BY <1>1, <2>0, <2>3
    <3>2. \A t \in TurnId : t.room = s /\ t.seq = n => t # c
      BY <1>1, <2>0, <2>3
    <3> QED
      BY <1>3, <2>0, <3>1, <3>2, HopeKept
  <2> QED
    BY <1>1, <2>0, <2>1, <2>2, <2>3
<1> QED
  BY <1>4 DEF Hopeful

(* Only the first look at an optional turn sends it to weigh.              *)
LEMMA WeighedNext ==
    ASSUME HoldInv, Weighed, [Next]_vars
    PROVE  Weighed'
<1>1. ASSUME NEW t \in TurnId, pc'[t] = "weigh" PROVE Born(t) /\ PlanOf(t).replyMode = "optional"
  <2>1. ASSUME NEW w \in TurnId, Execute(w)
        PROVE  pc[t] = "weigh" \/ (pc[t] = "read" /\ PlanOf(t).replyMode = "optional")
    <3>1. CASE ReadTurn(w) \/ WeighFallback(w) \/ LookForNotice(w) \/ CardsPosted(w)
      BY <1>1, <3>1 DEF ReadTurn, WeighFallback, LookForNotice, CardsPosted, At, Goto, UnlessAborted,
                        HoldInv, TypeOK
    <3>2. CASE DecideReply(w) \/ EndRun(w)
      BY <1>1, <3>2 DEF DecideReply, AfterVerdict, EndRun, Goto, HoldInv, TypeOK
    <3>3. CASE PostNotice(w) \/ MarkRunning(w) \/ AskApproval(w) \/ PostReply(w) \/ Finish(w) \/ Exit(w)
      BY <1>1, <3>3 DEF PostNotice, MarkRunning, AskApproval, PostReply, Finish, Exit, Goto, HoldInv, TypeOK
    <3> QED
      BY <2>1, <3>1, <3>2, <3>3 DEF Execute
  <2>2. ASSUME (\E s \in Rooms : PostMessage(s)) \/ (\E w \in TurnId : Handoff(w))
        PROVE  pc[t] = "weigh"
    <3>1. pc'[t] = pc[t] \/ pc'[t] = "handoff"
      BY <2>2, MessagesPost
    <3> QED
      BY <1>1, <3>1
  <2>3. ASSUME UNCHANGED vars \/ PumpDone \/ ExpireSome \/ Shutdown \/ RecoverQueued
        PROVE  pc[t] = "weigh"
    BY <1>1, <2>3 DEF vars, memVars, PumpDone, ExpireSome, Expire, Shutdown, RecoverQueued
  <2>4. ASSUME NEW i \in DOMAIN pending, Start(i) PROVE pc[t] = "weigh"
    <3>1. pending \in Seq(TurnId)
      BY DEF HoldInv, TypeOK
    <3> QED
      BY <1>1, <2>4, <3>1 DEF Start, HoldInv, TypeOK
  <2>5. ASSUME NEW w \in TurnId,
               \/ Resume(w) \/ CancelFind(w) \/ CancelCommit(w) \/ CancelRelease(w) \/ RecoverRunning(w)
        PROVE  pc[t] = "weigh"
    BY <1>1, <2>5 DEF Resume, CancelFind, CancelCommit, CancelRelease, RecoverRunning, memVars
  <2>6. ASSUME NEW w \in TurnId, NEW a \in Slots, NEW v \in {"approved", "denied"}, Decide(w, a, v)
        PROVE  pc[t] = "weigh"
    BY <1>1, <2>6 DEF Decide
  <2>7. ASSUME NEW s \in Rooms, AdmitEnqueue(s) \/ ConnectCommand(s) PROVE pc[t] = "weigh"
    BY <1>1, <2>7 DEF AdmitEnqueue, ConnectCommand, memVars
  <2>8. ~Crash
    BY <1>1 DEF Crash
  <2>9. pc[t] = "weigh" \/ (pc[t] = "read" /\ PlanOf(t).replyMode = "optional")
    BY <1>1, <2>1, <2>2, <2>3, <2>4, <2>5, <2>6, <2>7, <2>8 DEF Next, Pump
  <2> QED
    BY <2>9 DEF Weighed, HoldInv, Triggered
<1>2. ASSUME NEW t \in TurnId, pc'[t] = "weigh" PROVE PlanOf(t)'.replyMode = "optional"
  <2>1. PlanOf(t)' = PlanOf(t)
    BY <1>1, <1>2, RowKept DEF PlanOf
  <2> QED
    BY <1>1, <1>2, <2>1
<1> QED
  BY <1>2 DEF Weighed

(* Every step keeps the hope for a word.                                   *)
LEMMA VoiceNext ==
    ASSUME HoldInv, TurnInv, DeepInv, VoiceInv, [Next]_vars
    PROVE  VoiceInv'
<1>1. RowsOK' /\ Weighed'
  BY RowsNext, WeighedNext DEF VoiceInv
<1>2. ASSUME \A t \in TurnId : Steady(t), UNCHANGED messages
      PROVE  Hopeful'
  BY <1>2, HopeKept DEF VoiceInv, Hopeful
<1>3. ASSUME NEW w \in TurnId, Execute(w) PROVE Hopeful'
  <2>1. CASE WeighFallback(w)
    BY <2>1, WeighFallbackHope
  <2>2. CASE ~WeighFallback(w)
    <3>1. \A t \in TurnId : Steady(t)
      BY <1>3, <2>2, ExecuteSteady
    <3>2. CASE Moves(w)
      BY <1>2, <3>1, <3>2, MovesMove DEF dbVars
    <3>3. CASE PostNotice(w) \/ MarkRunning(w) \/ AskApproval(w) \/ PostReply(w) \/ Finish(w) \/ Exit(w)
      BY <1>2, <3>1, <3>3 DEF PostNotice, MarkRunning, AskApproval, PostReply, Finish, Exit, dbVars
    <3> QED
      BY <1>3, <3>2, <3>3 DEF Execute, Moves
  <2> QED
    BY <2>1, <2>2
<1>4. ASSUME (\E s \in Rooms : PostMessage(s)) \/ (\E w \in TurnId : Handoff(w))
      PROVE  Hopeful'
  BY <1>4, MessagesHope
<1>5. ASSUME NEW s \in Rooms, ConnectCommand(s) PROVE Hopeful'
  BY <1>5, ConnectHope
<1>6. ASSUME \/ UNCHANGED vars \/ Pump \/ ExpireSome \/ Shutdown \/ Crash \/ RecoverQueued
             \/ \E r \in Rooms : AdmitEnqueue(r)
             \/ \E w \in TurnId : Resume(w) \/ RecoverRunning(w)
      PROVE  Hopeful'
  <2>1. \A t \in TurnId : Steady(t)
    BY <1>6, OtherSteady
  <2>2. UNCHANGED messages
    BY <1>6 DEF vars, dbVars, Pump, PumpDone, Start, ExpireSome, Expire, Shutdown, Crash, RecoverQueued,
                AdmitEnqueue, Resume, RecoverRunning
  <2> QED
    BY <1>2, <2>1, <2>2
<1>7. ASSUME NEW w \in TurnId, CancelFind(w) \/ CancelCommit(w) \/ CancelRelease(w) PROVE Hopeful'
  <2>1. \A t \in TurnId : Steady(t)
    BY <1>7, CancelSteady
  <2>2. UNCHANGED messages
    BY <1>7 DEF CancelFind, CancelCommit, CancelRelease, dbVars
  <2> QED
    BY <1>2, <2>1, <2>2
<1>8. ASSUME NEW w \in TurnId, NEW a \in Slots, NEW v \in {"approved", "denied"}, Decide(w, a, v)
      PROVE  Hopeful'
  <2>1. \A t \in TurnId : Steady(t)
    BY <1>8, DecideSteady
  <2>2. UNCHANGED messages
    BY <1>8 DEF Decide
  <2> QED
    BY <1>2, <2>1, <2>2
<1>9. Hopeful'
  BY <1>3, <1>4, <1>5, <1>6, <1>7, <1>8 DEF Next
<1> QED
  BY <1>1, <1>9 DEF VoiceInv

(* A person's message is never met with silence: once all its turns have   *)
(* ended, one of them ran, recorded an error or was stopped (the           *)
(* designated fallback of scheduler.ts, ARCHITECTURE 4.3), in every        *)
(* instance and through every crash and restart.                           *)
THEOREM NobodyIsIgnored == Spec => []NeverSilent
<1>1. Init => VoiceInv
  <2> SUFFICES ASSUME Init PROVE VoiceInv
    OBVIOUS
  <2>1. RowsOK
    <3>1. \A r \in Rooms : messages[r] = <<>>
      BY DEF Init
    <3> QED
      BY <3>1 DEF RowsOK
  <2>2. Weighed /\ Hopeful
    BY DEF Init, Weighed, Hopeful, Hope, TurnsOf
  <2> QED
    BY <2>1, <2>2 DEF VoiceInv
<1>2. HoldInv /\ TurnInv /\ DeepInv /\ VoiceInv /\ [Next]_vars => VoiceInv'
  BY VoiceNext
<1>3. HoldInv /\ TurnInv /\ DeepInv /\ VoiceInv => NeverSilent
  BY DEF VoiceInv, Hopeful, Hope, Heard, Speaking, NeverSilent, Final
<1> QED
  BY <1>1, <1>2, <1>3, DeepInvariant, PTL DEF Spec

----------------------------------------------------------------------------
(* Turns wait in the order in which they were planned; those of a message  *)
(* of an automation no longer after a restart, for recover() does not ask  *)
(* the planner for the automation's bots.                                  *)
Ordered(t, u) ==
    \/ Before(t, u)
    \/ crashes > 0 /\ t.seq = u.seq /\ messages[t.room][t.seq].author = "system"
Queued == \A i, j \in DOMAIN pending :
    i < j /\ pending[i].room = pending[j].room /\ Untouched(pending[j]) => Ordered(pending[i], pending[j])

Counted == crashes <= MaxCrashes /\ (server = "down" => crashes > 0)
OrderInv == Queued /\ Counted

(* No step makes a turn that exists untouched again.                       *)
LEMMA UntouchedBefore ==
    ASSUME HoldInv, DeepInv, [Next]_vars, NEW t \in TurnId, Born(t), Untouched(t)'
    PROVE  Untouched(t)
<1>1. ASSUME UNCHANGED <<status, approval>> PROVE Untouched(t)
  BY <1>1 DEF Untouched, Asked
<1>2. ASSUME NEW w \in TurnId, Execute(w) PROVE Untouched(t)
  <2>1. CASE Moves(w)
    BY <1>1, <2>1, MovesMove DEF dbVars
  <2>2. CASE PostNotice(w) \/ PostReply(w) \/ Exit(w)
    BY <1>1, <2>2 DEF PostNotice, PostReply, Exit, dbVars
  <2>3. CASE MarkRunning(w) \/ Finish(w)
    BY <2>3 DEF MarkRunning, Finish, Outcome, Untouched, Asked, HoldInv, TypeOK
  <2>4. CASE AskApproval(w)
    BY <2>4 DEF AskApproval, Untouched, Asked, HoldInv, TypeOK
  <2> QED
    BY <1>2, <2>1, <2>2, <2>3, <2>4 DEF Execute, Moves
<1>3. ASSUME (\E r \in Rooms : PostMessage(r)) \/ (\E w \in TurnId : Handoff(w))
      PROVE  Untouched(t)
  <2>1. PICK r \in Rooms, author \in AuthorKinds, mentions \in Seq(Mention),
             depth \in 0 .. MaxHandoffDepth, automationBots \in Seq(Bots) :
                Post(r, author, mentions, depth, automationBots) /\ approval' = approval
    BY <1>3, MessagesPost
  <2>2. PICK born \in SUBSET {u \in TurnId : u.room = r /\ u.seq = Len(messages[r]) + 1} :
           /\ born # {}
           /\ status' = [u \in TurnId |-> IF u \in born THEN "queued" ELSE status[u]]
           /\ admitting' = [admitting EXCEPT ![r] = born]
    <3>1. Post(r, author, mentions, depth, automationBots)
      BY <2>1
    <3> QED
      BY <3>1, PostType DEF HoldInv
  <2>3. Len(messages[r]) \in Nat
    BY DEF HoldInv, TypeOK
  <2>4. t \notin born
    BY <2>2, <2>3 DEF Born
  <2> QED
    BY <2>1, <2>2, <2>4 DEF Untouched, Asked
<1>4. ASSUME NEW r \in Rooms, ConnectCommand(r) PROVE Untouched(t)
  <2>1. PICK c \in TurnId :
           /\ ~Born(c) /\ status' = [status EXCEPT ![c] = "waiting_approval"]
           /\ \E a \in Slots : approval' = [approval EXCEPT ![c][a] = "pending"]
    BY <1>4, ConnectWrites DEF HoldInv
  <2> QED
    BY <2>1 DEF Untouched, Asked, HoldInv, TypeOK
<1>5. ASSUME NEW w \in TurnId, NEW a \in Slots, NEW v \in {"approved", "denied"}, Decide(w, a, v)
      PROVE  Untouched(t)
  <2>1. approval' = [approval EXCEPT ![w][a] = v] /\ approval[w][a] = "pending"
        /\ (t # w => status'[t] = status[t])
    BY <1>5 DEF Decide, HoldInv, TypeOK
  <2>2. t # w
    BY <2>1 DEF Untouched, Asked, HoldInv, TypeOK
  <2> QED
    BY <2>1, <2>2 DEF Untouched, Asked, HoldInv, TypeOK
<1>6. ASSUME ExpireSome PROVE Untouched(t)
  <2>1. PICK S \in SUBSET TurnId : Expire(S)
    BY <1>6 DEF ExpireSome
  <2>2. Asked(t) => Asked(t)'
    BY <2>1 DEF Expire, Asked
  <2> QED
    BY <2>1, <2>2 DEF Expire, Untouched
<1>7. ASSUME \/ UNCHANGED vars \/ Pump \/ Shutdown \/ Crash \/ RecoverQueued
             \/ \E r \in Rooms : AdmitEnqueue(r)
             \/ \E w \in TurnId : Resume(w) \/ CancelFind(w) \/ CancelRelease(w)
      PROVE  Untouched(t)
  BY <1>1, <1>7 DEF vars, dbVars, Pump, PumpDone, Start, Shutdown, Crash, RecoverQueued, AdmitEnqueue,
                    Resume, CancelFind, CancelRelease
<1>8. ASSUME NEW w \in TurnId, CancelCommit(w) \/ RecoverRunning(w) PROVE Untouched(t)
  BY <1>8 DEF CancelCommit, RecoverRunning, RecoveredStatus, Untouched, Asked, HoldInv, TypeOK
<1> QED
  BY <1>2, <1>3, <1>4, <1>5, <1>6, <1>7, <1>8 DEF Next

(* What was in order stays in order.                                       *)
LEMMA OrderedKept ==
    ASSUME HoldInv, [Next]_vars, NEW t \in TurnId, NEW u \in TurnId, Born(t), Born(u),
           Ordered(t, u), crashes' \in {crashes, crashes + 1}
    PROVE  Ordered(t, u)'
<1>1. /\ messages'[t.room][t.seq] = messages[t.room][t.seq]
      /\ messages'[u.room][u.seq] = messages[u.room][u.seq]
  BY RowKept
<1>2. crashes \in Nat
  BY DEF HoldInv, TypeOK
<1> QED
  BY <1>1, <1>2 DEF Ordered, Before, PlanOf

(* Taking turns out of the list keeps its order.                           *)
LEMMA ThinnedQueue ==
    ASSUME HoldInv, DeepInv, Queued, [Next]_vars, crashes' \in {crashes, crashes + 1},
           \A i, j \in DOMAIN pending' : i < j =>
               \E k, l \in DOMAIN pending : k < l /\ pending'[i] = pending[k] /\ pending'[j] = pending[l]
    PROVE  Queued'
<1> SUFFICES ASSUME NEW i \in DOMAIN pending', NEW j \in DOMAIN pending', i < j,
                    pending'[i].room = pending'[j].room, Untouched(pending[j])'
             PROVE  Ordered(pending[i], pending[j])'
  BY DEF Queued
<1>1. PICK k \in DOMAIN pending, l \in DOMAIN pending :
         k < l /\ pending'[i] = pending[k] /\ pending'[j] = pending[l]
  OBVIOUS
<1>2. PICK t \in TurnId, u \in TurnId : t = pending[k] /\ u = pending[l]
  BY DEF HoldInv, TypeOK
<1>3. Born(t) /\ Born(u)
  BY <1>2 DEF HoldInv, Triggered, Range
<1>4. Untouched(u)'
  BY <1>1, <1>2 DEF Untouched, Asked
<1>5. Untouched(u)
  BY <1>3, <1>4, UntouchedBefore
<1>6. Ordered(t, u)
  BY <1>1, <1>2, <1>5 DEF Queued
<1>7. Ordered(t, u)'
  BY <1>3, <1>6, OrderedKept
<1> QED
  BY <1>1, <1>2, <1>7 DEF Ordered, Before, PlanOf

(* splice(i, 1) takes one turn out and keeps the order.                    *)
LEMMA RemoveAtThins ==
    ASSUME NEW X, NEW s \in Seq(X), NEW n \in 1 .. Len(s)
    PROVE  \A i, j \in DOMAIN RemoveAt(s, n) : i < j =>
               \E k, l \in DOMAIN s : k < l /\ RemoveAt(s, n)[i] = s[k] /\ RemoveAt(s, n)[j] = s[l]
<1> DEFINE r == RemoveAt(s, n)
<1>1. Len(s) \in Nat /\ DOMAIN s = 1 .. Len(s)
  OBVIOUS
<1>2. /\ DOMAIN r = 1 .. Len(s) - 1
      /\ \A j \in 1 .. Len(s) - 1 : r[j] = IF j < n THEN s[j] ELSE s[j + 1]
  BY RemoveAtPlaces
<1> HIDE DEF r
<1>3. ASSUME NEW i \in DOMAIN r, NEW j \in DOMAIN r, i < j
      PROVE  \E k, l \in DOMAIN s : k < l /\ r[i] = s[k] /\ r[j] = s[l]
  <2> DEFINE k == IF i < n THEN i ELSE i + 1
             l == IF j < n THEN j ELSE j + 1
  <2>1. k \in DOMAIN s /\ l \in DOMAIN s /\ k < l
    BY <1>1, <1>2, <1>3
  <2>2. r[i] = s[k] /\ r[j] = s[l]
    BY <1>1, <1>2
  <2> QED
    BY <2>1, <2>2
<1> QED
  BY <1>3 DEF r

(* A turn enqueued behind the others comes in order when it was planned    *)
(* after them or is no longer untouched.                                   *)
LEMMA EnqueueOrder ==
    ASSUME HoldInv, DeepInv, Queued, [Next]_vars, crashes' = crashes,
           NEW turns \in SUBSET TurnId, Enqueue(turns), UNCHANGED <<messages, status, approval>>,
           \A t \in Range(pending), u \in turns : t.room = u.room /\ Untouched(u) => Before(t, u)
    PROVE  Queued'
<1>0. pending \in Seq(TurnId) /\ crashes \in Nat
  BY DEF HoldInv, TypeOK
<1>1. CASE server # "up"
  <2>1. pending' = pending
    BY <1>1 DEF Enqueue
  <2> QED
    BY <2>1, ThinnedQueue
<1>2. CASE server = "up"
  <2>1. PICK q \in InOrder(Addable(turns)) : pending' = pending \o q
    BY <1>2 DEF Enqueue
  <2>2. q \in Seq(TurnId) /\ Range(q) = Addable(turns)
    <3>1. Addable(turns) \in SUBSET TurnId
      BY DEF Addable
    <3>2. q \in Lists(Addable(turns))
      BY <2>1 DEF InOrder
    <3> QED
      BY <3>1, <3>2, ListsAll
  <2>3. /\ DOMAIN pending' = 1 .. Len(pending) + Len(q)
        /\ \A i \in 1 .. Len(pending) + Len(q) :
              pending'[i] = IF i <= Len(pending) THEN pending[i] ELSE q[i - Len(pending)]
    BY <1>0, <2>1, <2>2, ConcatProperties
  <2>4. Len(pending) \in Nat /\ Len(q) \in Nat /\ DOMAIN pending = 1 .. Len(pending) /\ DOMAIN q = 1 .. Len(q)
    BY <1>0, <2>2
  <2>5. ASSUME NEW i \in DOMAIN pending', NEW j \in DOMAIN pending', i < j,
               pending'[i].room = pending'[j].room, Untouched(pending'[j])
        PROVE  Ordered(pending'[i], pending'[j])
    <3>1. CASE j <= Len(pending)
      <4>1. /\ i \in DOMAIN pending /\ j \in DOMAIN pending
            /\ pending'[i] = pending[i] /\ pending'[j] = pending[j]
        BY <2>3, <2>4, <2>5, <3>1
      <4> QED
        BY <2>5, <4>1 DEF Queued
    <3>2. CASE i <= Len(pending) /\ j > Len(pending)
      <4>1. /\ i \in DOMAIN pending /\ j - Len(pending) \in DOMAIN q
            /\ pending'[i] = pending[i] /\ pending'[j] = q[j - Len(pending)]
        BY <2>3, <2>4, <2>5, <3>2
      <4>2. pending'[i] \in Range(pending) /\ pending'[j] \in turns
        BY <2>2, <4>1 DEF Range, Addable
      <4> QED
        BY <2>5, <4>2 DEF Ordered
    <3>3. CASE i > Len(pending)
      <4>1. /\ i - Len(pending) \in DOMAIN q /\ j - Len(pending) \in DOMAIN q
            /\ i - Len(pending) < j - Len(pending)
            /\ pending'[i] = q[i - Len(pending)] /\ pending'[j] = q[j - Len(pending)]
        <5>1. i \in 1 .. Len(pending) + Len(q) /\ j \in 1 .. Len(pending) + Len(q) /\ j > Len(pending)
          BY <2>3, <2>4, <2>5, <3>3
        <5>2. i - Len(pending) \in 1 .. Len(q) /\ j - Len(pending) \in 1 .. Len(q)
          BY <2>4, <3>3, <5>1
        <5>3. i - Len(pending) < j - Len(pending) /\ ~(i <= Len(pending)) /\ ~(j <= Len(pending))
          BY <2>4, <2>5, <3>3, <5>1
        <5>4. pending'[i] = q[i - Len(pending)] /\ pending'[j] = q[j - Len(pending)]
          BY <2>3, <5>1, <5>3
        <5> QED
          BY <2>4, <5>2, <5>3, <5>4
      <4>2. Before(pending'[i], pending'[j])
        BY <2>1, <4>1 DEF InOrder
      <4> QED
        BY <4>2 DEF Ordered
    <3>4. j <= Len(pending) \/ (i <= Len(pending) /\ j > Len(pending)) \/ i > Len(pending)
      BY <2>3, <2>4, <2>5
    <3> QED
      BY <3>1, <3>2, <3>3, <3>4
  <2> QED
    BY <2>5 DEF Queued, Untouched, Asked, Ordered, Before, PlanOf
<1> QED
  BY <1>1, <1>2

(* Every step keeps the order of the queue, and only a restart counts one. *)
LEMMA OrderNext ==
    ASSUME HoldInv, DeepInv, OrderInv, [Next]_vars
    PROVE  OrderInv'
<1>0. Queued /\ Counted /\ crashes \in Nat /\ MaxCrashes \in Nat /\ pending \in Seq(TurnId)
  BY SchedulerAssumption DEF OrderInv, HoldInv, TypeOK
<1>1. ASSUME pending' = pending, UNCHANGED <<server, crashes>> PROVE OrderInv'
  <2>1. Queued'
    BY <1>0, <1>1, ThinnedQueue
  <2> QED
    BY <1>0, <1>1, <2>1 DEF OrderInv, Counted
<1>2. ASSUME NEW i \in DOMAIN pending, Start(i) PROVE OrderInv'
  <2>1. pending' = RemoveAt(pending, i) /\ UNCHANGED <<server, crashes>>
    BY <1>2 DEF Start
  <2>2. Queued'
    BY <1>0, <2>1, RemoveAtThins, ThinnedQueue
  <2> QED
    BY <1>0, <2>1, <2>2 DEF OrderInv, Counted
<1>3. ASSUME NEW t \in TurnId, CancelFind(t) PROVE OrderInv'
  <2>1. pending' = Withdrawn(t) /\ UNCHANGED <<server, crashes>>
    BY <1>3 DEF CancelFind
  <2>2. CASE t \in Range(pending)
    <3>1. FirstPlace(pending, t) \in 1 .. Len(pending)
      BY <1>0, <2>2, FirstPlaceIsAPlace
    <3>2. pending' = RemoveAt(pending, FirstPlace(pending, t))
      BY <2>1, <2>2 DEF Withdrawn
    <3>3. Queued'
      BY <1>0, <2>1, <3>1, <3>2, RemoveAtThins, ThinnedQueue
    <3> QED
      BY <1>0, <2>1, <3>3 DEF OrderInv, Counted
  <2>3. CASE t \notin Range(pending)
    BY <1>1, <2>1, <2>3 DEF Withdrawn
  <2> QED
    BY <2>2, <2>3
<1>4. ASSUME NEW r \in Rooms, AdmitEnqueue(r) PROVE OrderInv'
  <2>1. /\ Enqueue(admitting[r]) /\ admitting[r] # {} /\ admitting[r] \in SUBSET TurnId
        /\ UNCHANGED <<messages, status, approval, server, crashes>>
    BY <1>4 DEF AdmitEnqueue, dbVars, HoldInv, TypeOK
  <2>2. ASSUME NEW t \in Range(pending), NEW u \in admitting[r], t.room = u.room
        PROVE  Before(t, u)
    <3>1. t \in TurnId /\ Born(t) /\ Young(t)
      BY <1>0 DEF HoldInv, Triggered, Range, DeepInv, Deep
    <3>2. u.seq = Len(messages[r]) /\ u.room = r
      BY DEF HoldInv, AdmittedHere, DeepInv, Newest
    <3>3. t.seq # Len(messages[r]) /\ t.seq <= Len(messages[r])
      BY <2>1, <2>2, <3>1, <3>2 DEF Young, Born
    <3>4. t.seq \in Nat /\ Len(messages[r]) \in Nat
      BY <3>1 DEF TurnId, HoldInv, TypeOK
    <3> QED
      BY <3>2, <3>3, <3>4 DEF Before
  <2>3. Queued'
    BY <1>0, <2>1, <2>2, EnqueueOrder
  <2> QED
    BY <1>0, <2>1, <2>3 DEF OrderInv, Counted
<1>5. ASSUME NEW t \in TurnId, Resume(t) PROVE OrderInv'
  <2>1. /\ Enqueue({t}) /\ t \in resuming
        /\ UNCHANGED <<messages, status, approval, server, crashes>>
    BY <1>5 DEF Resume, dbVars
  <2>2. ~Untouched(t) /\ {t} \in SUBSET TurnId
    BY <2>1 DEF DeepInv, Deep, Resumed, Untouched
  <2>3. Queued'
    BY <1>0, <2>1, <2>2, EnqueueOrder
  <2> QED
    BY <1>0, <2>1, <2>3 DEF OrderInv, Counted
<1>6. ASSUME RecoverQueued PROVE OrderInv'
  <2>1. /\ server = "down" /\ server' = "up" /\ crashes' = crashes /\ messages' = messages
        /\ pending' \in RecoveredOrder({t \in TurnId : status[t] = "queued"})
    BY <1>6 DEF RecoverQueued, dbVars
  <2>2. crashes > 0
    BY <1>0, <2>1 DEF Counted
  <2>3. \A i, j \in DOMAIN pending' : i < j => RecoveredBefore(pending'[i], pending'[j])
    BY <2>1 DEF RecoveredOrder
  <2>4. ASSUME NEW i \in DOMAIN pending', NEW j \in DOMAIN pending', i < j,
               pending'[i].room = pending'[j].room
        PROVE  Ordered(pending'[i], pending'[j])
    BY <2>2, <2>3, <2>4 DEF RecoveredBefore, Ordered, Before
  <2>5. Queued'
    BY <2>1, <2>4 DEF Queued, Ordered, Before, PlanOf
  <2> QED
    BY <1>0, <2>1, <2>5 DEF OrderInv, Counted
<1>7. ASSUME Crash PROVE OrderInv'
  <2>1. pending' = <<>> /\ crashes' = crashes + 1 /\ crashes < MaxCrashes
    BY <1>7 DEF Crash
  <2>2. Queued'
    BY <2>1 DEF Queued
  <2> QED
    BY <1>0, <2>1, <2>2 DEF OrderInv, Counted
<1>8. ASSUME Shutdown PROVE OrderInv'
  <2>1. UNCHANGED <<pending, crashes>> /\ server' = "stopping"
    BY <1>8 DEF Shutdown
  <2>2. Queued'
    BY <1>0, <2>1, ThinnedQueue
  <2> QED
    BY <1>0, <2>1, <2>2 DEF OrderInv, Counted
<1>9. ASSUME NEW t \in TurnId, Execute(t) PROVE OrderInv'
  <2>1. CASE Moves(t)
    BY <1>1, <2>1, MovesMove DEF Executing
  <2>2. CASE PostNotice(t) \/ MarkRunning(t) \/ AskApproval(t) \/ PostReply(t) \/ Finish(t) \/ Exit(t)
    BY <1>1, <2>2 DEF PostNotice, MarkRunning, AskApproval, PostReply, Finish, Exit, Executing
  <2> QED
    BY <1>9, <2>1, <2>2 DEF Execute, Moves
<1>10. ASSUME (\E r \in Rooms : PostMessage(r)) \/ (\E t \in TurnId : Handoff(t)) PROVE OrderInv'
  BY <1>1, <1>10, MessagesPost
<1>11. ASSUME \/ UNCHANGED vars \/ PumpDone \/ ExpireSome
              \/ \E r \in Rooms : ConnectCommand(r)
              \/ \E t \in TurnId : CancelCommit(t) \/ CancelRelease(t) \/ RecoverRunning(t)
       PROVE  OrderInv'
  BY <1>1, <1>11 DEF vars, memVars, PumpDone, ExpireSome, Expire, ConnectCommand, CancelCommit,
                     CancelRelease, RecoverRunning
<1>12. ASSUME NEW t \in TurnId, NEW a \in Slots, NEW v \in {"approved", "denied"}, Decide(t, a, v)
       PROVE  OrderInv'
  BY <1>1, <1>12 DEF Decide
<1> QED
  BY <1>2, <1>3, <1>4, <1>5, <1>6, <1>7, <1>8, <1>9, <1>10, <1>11, <1>12 DEF Next, Pump

(* The queue's order in every reachable state.                             *)
THEOREM OrderInvariant == Spec => [](HoldInv /\ DeepInv /\ RowsOK /\ OrderInv)
<1>1. Init => RowsOK /\ OrderInv
  <2> SUFFICES ASSUME Init PROVE RowsOK /\ OrderInv
    OBVIOUS
  <2>1. RowsOK
    <3>1. \A r \in Rooms : messages[r] = <<>>
      BY DEF Init
    <3> QED
      BY <3>1 DEF RowsOK
  <2>2. OrderInv
    BY SchedulerAssumption DEF Init, OrderInv, Queued, Counted
  <2> QED
    BY <2>1, <2>2
<1>2. HoldInv /\ DeepInv /\ RowsOK /\ OrderInv /\ [Next]_vars => (RowsOK /\ OrderInv)'
  BY RowsNext, OrderNext
<1> QED
  BY <1>1, <1>2, DeepInvariant, PTL DEF Spec

(* Only start() begins an execution.                                       *)
LEMMA OnlyStartBegins ==
    ASSUME HoldInv, [Next]_vars, NEW t \in TurnId, pc[t] = "none", pc'[t] = "read"
    PROVE  \E i \in DOMAIN pending : Start(i) /\ pending[i] = t
<1>1. ASSUME NEW w \in TurnId, Execute(w) PROVE FALSE
  <2>1. pc[w] # "none" /\ (w # t => pc'[t] = pc[t])
    <3>1. CASE Moves(w)
      BY <3>1, MovesMove DEF HoldInv, TypeOK
    <3>2. CASE PostNotice(w) \/ MarkRunning(w) \/ AskApproval(w) \/ PostReply(w) \/ Finish(w) \/ Exit(w)
      BY <3>2 DEF PostNotice, MarkRunning, AskApproval, PostReply, Finish, Exit, At, Goto, Settling,
                  HoldInv, TypeOK
    <3> QED
      BY <1>1, <3>1, <3>2 DEF Execute, Moves
  <2> QED
    BY <2>1
<1>2. ~((\E r \in Rooms : PostMessage(r)) \/ (\E w \in TurnId : Handoff(w)))
  BY MessagesPost
<1>3. ~(UNCHANGED vars \/ PumpDone \/ ExpireSome \/ Shutdown \/ Crash \/ RecoverQueued)
  BY DEF vars, memVars, PumpDone, ExpireSome, Expire, Shutdown, Crash, RecoverQueued
<1>4. \A w \in TurnId : ~(\/ Resume(w) \/ CancelFind(w) \/ CancelCommit(w) \/ CancelRelease(w)
                          \/ RecoverRunning(w))
  BY DEF Resume, CancelFind, CancelCommit, CancelRelease, RecoverRunning, memVars
<1>5. \A w \in TurnId, a \in Slots, v \in {"approved", "denied"} : ~Decide(w, a, v)
  BY DEF Decide
<1>6. \A r \in Rooms : ~(AdmitEnqueue(r) \/ ConnectCommand(r))
  BY DEF AdmitEnqueue, ConnectCommand, memVars
<1>7. PICK i \in DOMAIN pending : Start(i)
  BY <1>1, <1>2, <1>3, <1>4, <1>5, <1>6 DEF Next, Pump
<1>8. pending[i] = t
  BY <1>7 DEF Start, HoldInv, TypeOK
<1> QED
  BY <1>7, <1>8

(* The turn that start() picks is ahead of every untouched turn of its     *)
(* room that waits.                                                        *)
LEMMA PickedInOrder ==
    ASSUME HoldInv, DeepInv, OrderInv, [Next]_vars, NEW t \in TurnId, NEW u \in TurnId,
           pc[t] = "none", pc'[t] = "read", t.room = u.room, t # u, Fresh(u)
    PROVE  Ordered(t, u) \/ u \in admitting[u.room]
<1> SUFFICES ASSUME u \notin admitting[u.room] PROVE Ordered(t, u)
  OBVIOUS
<1>1. PICK i \in DOMAIN pending : Start(i) /\ pending[i] = t
  BY OnlyStartBegins
<1>2. /\ server = "up" /\ t.room \notin activeRooms
      /\ \A j \in 1 .. i - 1 : pending[j].room # t.room
  BY <1>1 DEF Start, CanStart, Startable
<1>3. Untouched(u) /\ u \in Range(pending) \cup controllers
  BY <1>2 DEF Fresh, DeepInv, Deep, Found, Untouched, Carried
<1>4. u \notin controllers
  BY <1>2 DEF HoldInv, Held
<1>5. PICK j \in DOMAIN pending : pending[j] = u
  BY <1>3, <1>4 DEF Range
<1>6. i < j
  <2>1. DOMAIN pending = 1 .. Len(pending) /\ Len(pending) \in Nat
    BY DEF HoldInv, TypeOK
  <2> QED
    BY <1>1, <1>2, <1>5, <2>1
<1> QED
  BY <1>1, <1>3, <1>5, <1>6 DEF OrderInv, Queued

(* Turns of a room start in the order in which they were planned, in every *)
(* instance, but for one exception, which the code has: after a restart    *)
(* the turns of one message of an automation start in any order.           *)
THEOREM StartsInOrder ==
    Spec => [][\A t, u \in TurnId :
                  /\ pc[t] = "none" /\ pc'[t] = "read"
                  /\ t.room = u.room /\ t # u /\ Fresh(u)
                  => Ordered(t, u) \/ u \in admitting[u.room]]_vars
<1>1. HoldInv /\ DeepInv /\ RowsOK /\ OrderInv /\ [Next]_vars
      => [\A t, u \in TurnId :
             /\ pc[t] = "none" /\ pc'[t] = "read"
             /\ t.room = u.room /\ t # u /\ Fresh(u)
             => Ordered(t, u) \/ u \in admitting[u.room]]_vars
  BY PickedInOrder
<1> QED
  BY <1>1, OrderInvariant, PTL DEF Spec

(* Where no automation fires, or the process never ends, that exception    *)
(* cannot arise and the planned order is kept without it.                  *)
THEOREM PlannedOrderKept ==
    ASSUME Automations = {} \/ MaxCrashes = 0
    PROVE  Spec => PlannedOrder
<1>1. HoldInv /\ DeepInv /\ RowsOK /\ OrderInv /\ [Next]_vars
      => [\A t, u \in TurnId :
             /\ pc[t] = "none" /\ pc'[t] = "read"
             /\ t.room = u.room /\ t # u /\ Fresh(u)
             => Before(t, u) \/ u \in admitting[u.room]]_vars
  <2> SUFFICES ASSUME HoldInv, DeepInv, RowsOK, OrderInv, [Next]_vars, NEW t \in TurnId, NEW u \in TurnId,
                      pc[t] = "none", pc'[t] = "read", t.room = u.room, t # u, Fresh(u)
               PROVE  Before(t, u) \/ u \in admitting[u.room]
    OBVIOUS
  <2>1. Ordered(t, u) \/ u \in admitting[u.room]
    BY PickedInOrder
  <2>2. crashes > 0 => Automations = {}
    BY SchedulerAssumption DEF OrderInv, Counted, HoldInv, TypeOK
  <2>3. Automations = {} => messages[t.room][t.seq].author # "system"
    <3>1. Born(t)
      <4>1. PICK i \in DOMAIN pending : pending[i] = t
        BY OnlyStartBegins
      <4> QED
        BY <4>1 DEF HoldInv, Triggered, Range
    <3>2. t.room \in Rooms /\ t.seq \in 1 .. Len(messages[t.room])
      <4>1. t.room \in Rooms /\ t.seq \in 1 .. MaxSeq /\ MaxSeq \in Nat
        BY SchedulerAssumption DEF TurnId
      <4>2. Len(messages[t.room]) \in Nat
        BY <4>1 DEF HoldInv, TypeOK
      <4> QED
        BY <3>1, <4>1, <4>2 DEF Born
    <3> QED
      BY <3>2 DEF RowsOK, RowOK
  <2> QED
    BY <2>1, <2>2, <2>3 DEF Ordered
<1> QED
  BY <1>1, OrderInvariant, PTL DEF Spec, PlannedOrder

----------------------------------------------------------------------------
(* The scheduler implements TurnLifecycle while nobody presses Stop.       *)

(* One turn changes its status.                                            *)
LEMMA OneBecomes ==
    ASSUME TypeOK, NEW t \in TurnId, NEW s, status' = [status EXCEPT ![t] = s]
    PROVE  Promise!Become({t}, s)
BY DEF TypeOK, Promise!Become

(* What executes is worked on, and its status is the one its place in      *)
(* execute() takes for granted.                                            *)
LEMMA WorkedOn ==
    ASSUME HoldInv, TurnInv, DeepInv, stopped = {}, NEW t \in TurnId, pc[t] # "none"
    PROVE  /\ t \in controllers
           /\ pc[t] \in Early => status[t] = "queued"
           /\ pc[t] \in Late => status[t] = "running"
           /\ pc[t] \in Skips => status[t] \in {"queued", "running"}
<1>1. t \in controllers /\ Phase(t) /\ Unstopped(t)
  BY DEF HoldInv, Held, TurnInv, TurnOK, DeepInv, Deep
<1> QED
  BY <1>1 DEF Phase, Unstopped

(* The steps of execute().                                                 *)
LEMMA ExecuteKeeps ==
    ASSUME HoldInv, TurnInv, DeepInv, stopped = {}, NEW t \in TurnId, Execute(t)
    PROVE  [Promise!Next]_<<status, controllers>>
<1>1. CASE Moves(t)
  BY <1>1, MovesMove DEF dbVars, Executing
<1>2. CASE PostNotice(t) \/ PostReply(t)
  BY <1>2 DEF PostNotice, PostReply, Executing
<1>3. CASE MarkRunning(t)
  <2>1. /\ pc[t] = "provide" /\ status' = [status EXCEPT ![t] = "running"] /\ controllers' = controllers
    BY <1>3 DEF MarkRunning, At, Executing
  <2>2. t \in controllers /\ status[t] = "queued" /\ Promise!Become({t}, "running")
    BY <2>1, WorkedOn, OneBecomes DEF Early, HoldInv
  <2>3. Promise!Work(t, "queued", "running")
    BY <2>1, <2>2 DEF Promise!Work
  <2> QED
    BY <2>3 DEF Promise!Next
<1>4. CASE AskApproval(t)
  <2>1. /\ pc[t] = "ask" /\ status' = [status EXCEPT ![t] = "waiting_approval"] /\ controllers' = controllers
    BY <1>4 DEF AskApproval, At, Executing
  <2>2. t \in controllers /\ status[t] = "running" /\ Promise!Become({t}, "waiting_approval")
    BY <2>1, WorkedOn, OneBecomes DEF Late, HoldInv
  <2>3. Promise!Work(t, "running", "waiting_approval")
    BY <2>1, <2>2 DEF Promise!Work
  <2> QED
    BY <2>3 DEF Promise!Next
<1>5. CASE Finish(t)
  <2>1. /\ pc[t] \in Settling /\ status' = [status EXCEPT ![t] = Outcome(pc[t])] /\ controllers' = controllers
    BY <1>5 DEF Finish, Executing
  <2>2. t \in controllers /\ Promise!Become({t}, Outcome(pc[t]))
    BY <2>1, WorkedOn, OneBecomes DEF Settling, HoldInv
  <2>3. CASE pc[t] \in {"done", "fail"}
    <3>1. status[t] = "running" /\ Outcome(pc[t]) \in {"done", "failed"}
      BY <2>3, WorkedOn DEF Late, Outcome
    <3>2. Promise!Work(t, "running", Outcome(pc[t]))
      BY <2>1, <2>2, <3>1 DEF Promise!Work
    <3> QED
      BY <3>1, <3>2 DEF Promise!Next
  <2>4. CASE pc[t] \in {"skip", "skipError"}
    <3>1. status[t] \in {"queued", "running"} /\ Outcome(pc[t]) = "skipped"
      BY <2>4, WorkedOn DEF Skips, Outcome
    <3>2. Promise!Work(t, "queued", "skipped") \/ Promise!Work(t, "running", "skipped")
      BY <2>1, <2>2, <3>1 DEF Promise!Work
    <3> QED
      BY <3>2 DEF Promise!Next
  <2> QED
    BY <2>1, <2>3, <2>4 DEF Settling
<1>6. CASE Exit(t)
  <2>1. pc[t] = "exit" /\ controllers' = controllers \ {t} /\ status' = status
    BY <1>6 DEF Exit, At, dbVars
  <2>2. Promise!Leave(t)
    BY <2>1, WorkedOn DEF Promise!Leave
  <2> QED
    BY <2>2 DEF Promise!Next
<1> QED
  BY <1>1, <1>2, <1>3, <1>4, <1>5, <1>6 DEF Execute, Moves

(* start() takes a queued turn whose room and bot are at rest.             *)
LEMMA StartKeeps ==
    ASSUME HoldInv, DeepInv, stopped = {}, NEW i \in DOMAIN pending, Start(i)
    PROVE  Promise!Next
<1>1. PICK t \in TurnId : t = pending[i] /\ t \in Range(pending)
  BY DEF HoldInv, TypeOK, Range
<1>2. /\ Cardinality(controllers) < MaxConcurrentTurns /\ t.room \notin activeRooms
      /\ t.bot \notin activeBots /\ controllers' = controllers \cup {t} /\ status' = status
  BY <1>1 DEF Start, CanStart, Startable, dbVars
<1>3. status[t] = "queued"
  BY <1>1 DEF DeepInv, Deep, Unstopped
<1>4. \A u \in controllers : u.room # t.room /\ u.bot # t.bot
  BY <1>2 DEF HoldInv, Held
<1>5. Promise!Cardinality(controllers) = Cardinality(controllers)
  BY DEF Promise!Cardinality, Cardinality
<1>6. Promise!Take(t)
  BY <1>2, <1>3, <1>4, <1>5 DEF Promise!Take
<1> QED
  BY <1>6 DEF Promise!Next

(* Messages plan turns, /connect makes one that waits.                     *)
LEMMA MessagesKeep ==
    ASSUME HoldInv,
           \/ \E r \in Rooms : PostMessage(r) \/ ConnectCommand(r)
           \/ \E t \in TurnId : Handoff(t)
    PROVE  Promise!Next
<1>1. CASE (\E r \in Rooms : PostMessage(r)) \/ (\E t \in TurnId : Handoff(t))
  <2>1. PICK r \in Rooms, author \in AuthorKinds, mentions \in Seq(Mention),
             depth \in 0 .. MaxHandoffDepth, automationBots \in Seq(Bots) :
                Post(r, author, mentions, depth, automationBots) /\ controllers' = controllers
    BY <1>1, MessagesPost
  <2>2. PICK born \in SUBSET {u \in TurnId : u.room = r /\ u.seq = Len(messages[r]) + 1} :
           /\ born # {}
           /\ status' = [u \in TurnId |-> IF u \in born THEN "queued" ELSE status[u]]
           /\ admitting' = [admitting EXCEPT ![r] = born]
    <3>1. Post(r, author, mentions, depth, automationBots)
      BY <2>1
    <3> QED
      BY <3>1, PostType DEF HoldInv
  <2>3. PICK t \in born : t \in TurnId /\ t.room = r
    BY <2>2
  <2>4. \A u \in born : u \in TurnId /\ u.room = r /\ status[u] = "none"
    <3>1. Len(messages[r]) \in Nat
      BY DEF HoldInv, TypeOK
    <3> QED
      BY <2>2, <3>1 DEF HoldInv, Triggered, Born
  <2>5. born \in SUBSET Promise!Unborn(t.room) /\ Promise!Plan(born)
    BY <2>1, <2>2, <2>3, <2>4 DEF Promise!Unborn, Promise!Plan, Promise!Become
  <2> QED
    BY <2>3, <2>5 DEF Promise!Next
<1>2. ASSUME NEW r \in Rooms, ConnectCommand(r) PROVE Promise!Next
  <2>1. PICK c \in TurnId :
           ~Born(c) /\ status' = [status EXCEPT ![c] = "waiting_approval"] /\ UNCHANGED memVars
    BY <1>2, ConnectWrites DEF HoldInv
  <2>2. status[c] = "none" /\ controllers' = controllers /\ Promise!Become({c}, "waiting_approval")
    BY <2>1, OneBecomes DEF HoldInv, Triggered, memVars
  <2>3. Promise!Connect(c)
    BY <2>2 DEF Promise!Connect
  <2> QED
    BY <2>3 DEF Promise!Next
<1> QED
  BY <1>1, <1>2

(* A decision ends the pause of a turn or leaves it as it is.              *)
LEMMA DecideKeeps ==
    ASSUME HoldInv, NEW t \in TurnId, NEW a \in Slots, NEW verdict \in {"approved", "denied"},
           Decide(t, a, verdict)
    PROVE  [Promise!Next]_<<status, controllers>>
<1>1. /\ status[t] = "waiting_approval" /\ controllers' = controllers
      /\ \/ status' = status
         \/ \E to \in {"queued", "done", "skipped"} : status' = [status EXCEPT ![t] = to]
  BY DEF Decide
<1>2. ASSUME NEW to \in {"queued", "done", "skipped"}, status' = [status EXCEPT ![t] = to]
      PROVE  Promise!Next
  <2>1. Promise!Answered(t, to)
    BY <1>1, <1>2, OneBecomes DEF Promise!Answered, HoldInv
  <2> QED
    BY <2>1 DEF Promise!Next
<1> QED
  BY <1>1, <1>2

(* Expiry fails turns that wait.                                           *)
LEMMA ExpireKeeps ==
    ASSUME HoldInv, NEW overdue \in SUBSET TurnId, Expire(overdue)
    PROVE  [Promise!Next]_<<status, controllers>>
<1> DEFINE failed == {t \in overdue : status[t] = "waiting_approval"}
<1>1. /\ status' = [t \in TurnId |-> IF t \in failed THEN "failed" ELSE status[t]]
      /\ controllers' = controllers
  BY DEF Expire, memVars
<1>2. CASE failed = {}
  <2>1. status' = status
    BY <1>1, <1>2 DEF HoldInv, TypeOK
  <2> QED
    BY <1>1, <2>1
<1>3. CASE failed # {}
  <2>1. failed \in SUBSET Promise!Waiting
    BY DEF Promise!Waiting
  <2>2. Promise!Expired(failed)
    BY <1>1, <1>3 DEF Promise!Expired, Promise!Become
  <2> QED
    BY <2>1, <2>2 DEF Promise!Next
<1> QED
  BY <1>2, <1>3

(* The end of the process and recover() of what was running.               *)
LEMMA RestartKeeps ==
    ASSUME HoldInv, Crash \/ (\E t \in TurnId : RecoverRunning(t))
    PROVE  Promise!Next
<1>1. CASE Crash
  <2>1. Promise!Restart
    BY <1>1 DEF Crash, dbVars, Promise!Restart
  <2> QED
    BY <2>1 DEF Promise!Next
<1>2. ASSUME NEW t \in TurnId, RecoverRunning(t) PROVE Promise!Next
  <2>1. /\ status[t] = "running" /\ status' = [status EXCEPT ![t] = "failed"]
        /\ controllers' = controllers /\ controllers = {}
    BY <1>2 DEF RecoverRunning, RecoveredStatus, memVars, HoldInv, Down
  <2>2. Promise!Recover(t)
    BY <2>1, OneBecomes DEF Promise!Recover, HoldInv
  <2> QED
    BY <2>2 DEF Promise!Next
<1> QED
  BY <1>1, <1>2

(* Without a Stop every step is one of TurnLifecycle, or stutters there.   *)
LEMMA StepKeeps ==
    ASSUME HoldInv, TurnInv, DeepInv, stopped = {}, [Next]_vars
    PROVE  [Promise!Next]_<<status, controllers>>
<1>1. ASSUME NEW t \in TurnId, Execute(t) PROVE [Promise!Next]_<<status, controllers>>
  BY <1>1, ExecuteKeeps
<1>2. ASSUME NEW i \in DOMAIN pending, Start(i) PROVE Promise!Next
  BY <1>2, StartKeeps
<1>3. ASSUME \/ \E r \in Rooms : PostMessage(r) \/ ConnectCommand(r)
             \/ \E t \in TurnId : Handoff(t)
      PROVE  Promise!Next
  BY <1>3, MessagesKeep
<1>4. ASSUME NEW t \in TurnId, NEW a \in Slots, NEW v \in {"approved", "denied"}, Decide(t, a, v)
      PROVE  [Promise!Next]_<<status, controllers>>
  BY <1>4, DecideKeeps
<1>5. ASSUME ExpireSome PROVE [Promise!Next]_<<status, controllers>>
  <2>1. PICK S \in SUBSET TurnId : Expire(S)
    BY <1>5 DEF ExpireSome
  <2> QED
    BY <2>1, ExpireKeeps
<1>6. ASSUME Crash \/ (\E t \in TurnId : RecoverRunning(t)) PROVE Promise!Next
  BY <1>6, RestartKeeps
<1>7. ASSUME \/ UNCHANGED vars \/ PumpDone \/ Shutdown \/ RecoverQueued
             \/ \E r \in Rooms : AdmitEnqueue(r)
             \/ \E t \in TurnId : Resume(t) \/ CancelFind(t) \/ CancelRelease(t)
      PROVE  UNCHANGED <<status, controllers>>
  BY <1>7 DEF vars, dbVars, memVars, PumpDone, Shutdown, RecoverQueued, AdmitEnqueue, Resume, CancelFind,
              CancelRelease
<1>8. \A t \in TurnId : ~CancelCommit(t)
  BY DEF CancelCommit, DeepInv, Deep, Unstopped
<1> QED
  BY <1>1, <1>2, <1>3, <1>4, <1>5, <1>6, <1>7, <1>8 DEF Next, Pump

(* While nobody presses Stop, the scheduler implements what members are    *)
(* promised about turns: their statuses follow TurnLifecycle, and what is  *)
(* worked on is what it allows, through pauses, crashes and restarts.      *)
THEOREM ImplementsLifecycle == Spec /\ [](stopped = {}) => KeepsPromise
<1>1. Init => Promise!Init
  BY DEF Init, Promise!Init
<1>2. HoldInv /\ TurnInv /\ DeepInv /\ stopped = {} /\ [Next]_vars => [Promise!Next]_<<status, controllers>>
  BY StepKeeps
<1> QED
  BY <1>1, <1>2, DeepInvariant, PTL DEF Spec, KeepsPromise, Promise!Spec

(* An instance whose members have no Stop button implements it outright.   *)
THEOREM LifecycleWithoutStop ==
    ASSUME MaxStops = 0
    PROVE  Spec => KeepsPromise
<1>1. Init => stopped = {}
  BY DEF Init
<1>2. HoldInv /\ stopped = {} /\ [Next]_vars => (stopped = {})'
  <2> SUFFICES ASSUME HoldInv, stopped = {}, [Next]_vars, stopped' # {}
               PROVE  FALSE
    OBVIOUS
  <2>1. \E t \in TurnId : CancelFind(t)
    <3>1. ASSUME NEW t \in TurnId, Execute(t) PROVE stopped' = stopped
      <4>1. CASE Moves(t)
        BY <4>1, MovesMove DEF Executing
      <4>2. CASE PostNotice(t) \/ MarkRunning(t) \/ AskApproval(t) \/ PostReply(t) \/ Finish(t) \/ Exit(t)
        BY <4>2 DEF PostNotice, MarkRunning, AskApproval, PostReply, Finish, Exit, Executing
      <4> QED
        BY <3>1, <4>1, <4>2 DEF Execute, Moves
    <3>2. ASSUME (\E r \in Rooms : PostMessage(r)) \/ (\E t \in TurnId : Handoff(t))
          PROVE  stopped' = stopped
      BY <3>2, MessagesPost
    <3>3. ASSUME \/ UNCHANGED vars \/ Pump \/ ExpireSome \/ Shutdown \/ Crash \/ RecoverQueued
                 \/ \E r \in Rooms : AdmitEnqueue(r) \/ ConnectCommand(r)
                 \/ \E t \in TurnId : Resume(t) \/ CancelCommit(t) \/ CancelRelease(t) \/ RecoverRunning(t)
                 \/ \E t \in TurnId, a \in Slots, v \in {"approved", "denied"} : Decide(t, a, v)
          PROVE  stopped' = stopped
      BY <3>3 DEF vars, Pump, PumpDone, Start, ExpireSome, Expire, Shutdown, Crash, RecoverQueued,
                  AdmitEnqueue, ConnectCommand, Resume, CancelCommit, CancelRelease, RecoverRunning, Decide
    <3> QED
      BY <3>1, <3>2, <3>3 DEF Next
  <2>2. PICK t \in TurnId : Cardinality({t}) <= MaxStops
    BY <2>1 DEF CancelFind
  <2> QED
    BY <2>2, FS_Singleton
<1>3. Spec => [](stopped = {})
  BY <1>1, <1>2, HoldInvariant, PTL DEF Spec
<1> QED
  BY <1>3, ImplementsLifecycle, PTL
=============================================================================
