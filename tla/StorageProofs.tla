--------------------------- MODULE StorageProofs ---------------------------
(***************************************************************************)
(* ComputerStorage, for every number of files, writes, turns, requests and *)
(* faults: its types, who holds the lock, that every object arrives on the *)
(* open computer, and that a reconciliation neither deletes what nobody    *)
(* removed nor brings back an old copy.                                    *)
(***************************************************************************)
EXTENDS ComputerStorage, SequenceTheorems, TLAPS

(* The lock's queue: who asks for the lock is in it, each once, and who    *)
(* does what needs the lock is the first.                                  *)
InLock(x) == \E i \in DOMAIN lock : lock[i] = x
Once == \A i, j \in DOMAIN lock : lock[i] = lock[j] => i = j
Working == {"put", "opening", "opened", "refused", "written"}
Wanted(x) ==
    CASE x = "open" -> opening.at = "copy"
      [] x = "sync" -> call["sync"].at \in {"queued", "keys"}
      [] OTHER      -> call[x].at \in {"queued"} \cup Working
Inside(x) ==
    CASE x = "open" -> opening.at = "copy" /\ opening.todo # Keys
      [] x = "sync" -> call["sync"].at = "keys"
      [] OTHER      -> call[x].at \in Working
Queue == Once /\ \A x \in Lockers : (InLock(x) <=> Wanted(x)) /\ (Inside(x) => Holds(x))

(* Whoever goes on after an opening has a computer.                        *)
Equipped ==
    /\ opening.at = "copy" => opening.handle = Len(handles) /\ opening.handle # 0
    /\ \A a \in Actors \ {"owner"} : call[a].at = "opened" => call[a].handle # 0
    /\ \A w \in Writers :
        /\ call[w].at = "written" => call[w].handle # 0
        /\ call[w].at \in {"queued"} \cup Working => call[w].key \in Keys
    /\ call["owner"].at = "opened" /\ request.step = "destroy" => call["owner"].handle # 0
    /\ call["sync"].at \in {"queued", "keys"} => sync.handle = call["sync"].handle /\ sync.handle # 0
    /\ call["sync"].at \notin {"queued", "keys"} => sync = NotSyncing
    /\ \A k \in sync.todo : sync.seen[k] # Nothing
    /\ request.kind = "switch" => request.id \in Providers
    /\ call["owner"].at \in {"releasing", "closing", "update"} => request.step = "release"
    /\ call["owner"].at = "update" => request.kind = "switch"

(* A writer that got a computer while it held the lock has the open one,   *)
(* or none is open since.                                                  *)
SameComputer ==
    \A w \in Writers : call[w].at \in {"opened", "written"} => active \in {0, call[w].handle}

(* An opening is of the driver there is, unless the owner has just changed *)
(* it and waits for it.                                                    *)
Chosen ==
    ~(call["owner"].at = "opening" /\ request.step = "initialize") =>
        /\ opening.at \in Providers => opening.at = driver
        /\ opening.at = "copy" => Provider(opening.handle) = driver
AsChosen == call["owner"].at = "update" => active = 0 \/ Provider(active) = driver

(* A host directory is never written through to.                           *)
Remote ==
    \A w \in Writers :
        /\ call[w].at = "opening" => ~IsDirect(driver) \/ active = 0 \/ ~IsDirect(Provider(active))
        /\ call[w].at \in {"opened", "written"} => ~IsDirect(Provider(call[w].handle))

(* As long as nothing straddled a switch, everybody works on the computer  *)
(* of the driver.                                                          *)
Together ==
    ~straddled =>
        /\ active # 0 => Provider(active) = driver
        /\ \A a \in Actors : call[a].handle # 0 => Provider(call[a].handle) = driver
        /\ opening.at \in Providers => opening.at = driver
        /\ opening.at = "copy" => Provider(opening.handle) = driver
        /\ call["sync"].at \in {"queued", "keys"} => sync.direct = IsDirect(driver)

Attachments == SameComputer /\ Chosen /\ AsChosen /\ Remote /\ Together

(* While the owner destroys a computer it is the open one, nothing opens   *)
(* another of its kind, and afterwards only bots write there.              *)
Settled ==
    call["owner"].at = "opened" /\ request.step = "destroy" =>
        active = call["owner"].handle /\ Attached = driver /\ opening.at \in {"no", "driver"}
Elsewhere ==
    /\ opening.at \in Providers => Attached # opening.at
    /\ opening.at = "copy" => Attached # Provider(opening.handle) /\ opening.handle \notin dead
Wiped(h) == \A k \in Keys : files[Provider(h)][k] \in Turns \cup {Nothing}
Emptied ==
    /\ active # 0 /\ active \in dead => Wiped(active)
    /\ \A w \in Writers : call[w].at = "opened" /\ call[w].handle \in dead => Wiped(call[w].handle)
Destruction == Settled /\ Elsewhere /\ Emptied

(* What a computer was given is there, or a bot removed it.                *)
There(p, k) == files[p][k] # Nothing \/ k \in gone[p]
Kept ==
    \A h \in 1..Len(handles) :
        /\ IsDirect(Provider(h)) => materialized[h] = {}
        /\ h \in dead \/ \A k \in materialized[h] : There(Provider(h), k)
Marked ==
    \A w \in Writers : call[w].at = "written" =>
        call[w].handle \in dead \/ There(Provider(call[w].handle), call[w].key)
Scanned == call["sync"].at = "keys" => \A k \in materialized[sync.handle] : sync.seen[k] # Nothing \/ k \in sync.lost

(* A write that holds the lock and has not got to the computer yet.        *)
Owed(k) == \E w \in Writers : call[w].at \in {"put", "opening", "opened"} /\ call[w].key = k

Given(h, k) == h \in dead \/ store[k] = Nothing \/ There(Provider(h), k) \/ Owed(k)
Refused == faults = 0 => \A w \in Writers : call[w].at # "refused"
Arriving ==
    faults = 0 /\ ~straddled /\ ~IsDirect(driver) =>
        /\ active # 0 => \A k \in Keys : Given(active, k)
        /\ opening.at = "copy" => \A k \in Keys \ opening.todo : Given(opening.handle, k)

(* What the server wrote, or found, is not older on the computer than in   *)
(* the index.                                                              *)
Current(k) ==
    files[driver][k] \in Turns \cup {Nothing, index[k]} \/ store[k] = Nothing \/ Owed(k)
Reached(k) == active # 0 \/ call["sync"].handle # 0 \/ (opening.at = "copy" /\ k \notin opening.todo)
(* The index has what a write is about to put on the computer.             *)
Noted == \A w \in Writers : call[w].at \in {"put", "opening", "opened"} => index[call[w].key] = w
UpToDate ==
    faults = 0 /\ ~straddled /\ ~IsDirect(driver) => \A k \in Keys : Reached(k) => Current(k)
Marks == Kept /\ Marked /\ Scanned
Fresh == Refused /\ Arriving /\ Noted /\ UpToDate

StorageInv ==
    /\ TypeOK /\ Queue /\ Equipped /\ Attachments /\ Destruction
    /\ Marks /\ Fresh

-----------------------------------------------------------------------------
(* The names of actors and of places are apart.                            *)
LEMMA Names ==
    /\ Nothing \notin Providers /\ "no" \notin Providers /\ "driver" \notin Providers /\ "copy" \notin Providers
    /\ "open" \notin Writers /\ "sync" \notin Writers /\ "owner" \notin Writers
    /\ "sync" \notin Turns /\ "owner" \notin Turns
    /\ "open" \in Lockers /\ "sync" \in Lockers /\ Writers \subseteq Lockers
    /\ \A x \in Lockers : x \in {"open", "sync"} \/ x \in Writers
    /\ Writers \subseteq Actors /\ Turns \subseteq Actors /\ "sync" \in Actors /\ "owner" \in Actors
    /\ \A w \in Writers : w \notin Turns /\ w \in Contents /\ w # Nothing
    /\ \A t \in Turns : t \notin Writers /\ t \in Contents /\ t # Nothing
    /\ Nothing \notin Contents
BY StorageAssumption DEF Actors, Contents, Lockers

(* Where everybody is, after one of them moved.                            *)
Stay(S) == \A b \in Actors \ S : call'[b] = call[b]

(* One caller moves; the others stay where they are.                     *)
LEMMA CallGoes ==
    ASSUME call \in [Actors -> CallState], NEW a \in Actors, NEW c \in CallState, call' = [call EXCEPT ![a] = c]
    PROVE  call' \in [Actors -> CallState] /\ call'[a] = c /\ Stay({a})
BY DEF Stay

Spots == Places \cup {"put", "written", "keys", "releasing", "closing", "update"}

(* One that goes on to its next await keeps its computer and its key.      *)
LEMMA AtGoes ==
    ASSUME call \in [Actors -> CallState], NEW a \in Actors, NEW place \in Spots, At(a, place)
    PROVE  /\ call' \in [Actors -> CallState] /\ Stay({a})
           /\ call'[a].at = place /\ call'[a].handle = call[a].handle /\ call'[a].key = call[a].key
<1> DEFINE c == [call[a] EXCEPT !.at = place]
<1>1. call[a] \in CallState
  OBVIOUS
<1>2. c \in CallState /\ c.at = place /\ c.handle = call[a].handle /\ c.key = call[a].key
  BY <1>1 DEF CallState, Spots
<1>3. call' = [call EXCEPT ![a] = c]
  BY DEF At
<1> HIDE DEF c
<1> QED
  BY <1>2, <1>3, CallGoes

(* One that has ended has no computer.                                     *)
Done == [Idle EXCEPT !.at = "done"]
(* A caller that rests, or has ended, is a state of a caller.            *)
LEMMA IdleState ==
    ASSUME handles \in Seq(Providers)
    PROVE  /\ Idle \in CallState /\ Idle.at = "idle" /\ Idle.handle = 0 /\ Idle.key = Nothing
           /\ Done \in CallState /\ Done.at = "done" /\ Done.handle = 0 /\ Done.key = Nothing
<1>1. 0 \in Handles
  BY DEF Handles
<1> QED
  BY <1>1 DEF Idle, Done, CallState, Places

(* A caller that ends.                                                   *)
LEMMA EndsGoes ==
    ASSUME call \in [Actors -> CallState], handles \in Seq(Providers), NEW a \in Actors, Ends(a)
    PROVE  call' \in [Actors -> CallState] /\ Stay({a}) /\ call'[a] = Done
<1>1. call' = [call EXCEPT ![a] = Done]
  BY DEF Ends, Done
<1> QED
  BY <1>1, IdleState, CallGoes

(* A caller that has to wait for the opening waits for the one under way,  *)
(* or for one that begins.                                                 *)
NewOpening == [NotOpening EXCEPT !.at = "driver"]
(* No opening, and one that begins, are states of the opening.           *)
LEMMA NoOpening ==
    ASSUME handles \in Seq(Providers)
    PROVE  /\ NotOpening \in OpeningState /\ NotOpening.at = "no"
           /\ NewOpening \in OpeningState /\ NewOpening.at = "driver"
<1>1. 0 \in Handles
  BY DEF Handles
<1> QED
  BY <1>1 DEF NotOpening, NewOpening, OpeningState

(* Nothing opens that did not before, except by looking at the driver.     *)
Looks == opening' = opening \/ (opening.at = "no" /\ opening' = NewOpening)

(* A caller that asks for the computer waits, and the opening begins     *)
(* unless it is under way.                                               *)
LEMMA ResolveGoes ==
    ASSUME call \in [Actors -> CallState], NEW a \in Actors, Resolve(a)
    PROVE  /\ call' \in [Actors -> CallState] /\ Stay({a})
           /\ call'[a].at = "opening" /\ call'[a].handle = call[a].handle /\ call'[a].key = call[a].key
           /\ Looks
<1>1. "opening" \in Spots
  BY DEF Spots, Places
<1>2. At(a, "opening") /\ Looks
  BY DEF Resolve, Looks, NewOpening
<1> QED
  BY <1>1, <1>2, AtGoes

(* When an opening ends, those who wait for it have its computer, or none, *)
(* and nobody else notices.                                                *)
Answered(h) ==
    \A b \in Actors :
        IF call[b].at = "opening"
        THEN /\ call'[b].at = (IF h = 0 THEN "refused" ELSE "opened")
             /\ call'[b].handle = h /\ call'[b].key = call[b].key
        ELSE call'[b] = call[b]

(* The end of an opening answers everybody who waits for it.             *)
LEMMA OpeningEnds ==
    ASSUME call \in [Actors -> CallState], NEW h \in Handles, EndOpening(h)
    PROVE  call' \in [Actors -> CallState] /\ Answered(h) /\ opening' = NotOpening
<1> DEFINE c(b) == [call[b] EXCEPT !.at = IF h = 0 THEN "refused" ELSE "opened", !.handle = h]
<1>1. ASSUME NEW b \in Actors
      PROVE  /\ c(b) \in CallState /\ c(b).at = (IF h = 0 THEN "refused" ELSE "opened")
             /\ c(b).handle = h /\ c(b).key = call[b].key
  <2>1. call[b] \in CallState
    OBVIOUS
  <2> QED
    BY <2>1 DEF CallState, Places
<1>2. call' = [b \in Actors |-> IF call[b].at # "opening" THEN call[b] ELSE c(b)]
  BY DEF EndOpening, Opened
<1>3. opening' = NotOpening
  BY DEF EndOpening
<1> HIDE DEF c
<1>4. call' \in [Actors -> CallState]
  BY <1>1, <1>2
<1> QED
  BY <1>1, <1>2, <1>3, <1>4 DEF Answered

(* When a flight ends, a release that awaits it may fail with it.          *)
LEMMA FlightEnds ==
    ASSUME call \in [Actors -> CallState], handles \in Seq(Providers), NEW ok \in BOOLEAN, EndSync(ok)
    PROVE  /\ call' \in [Actors -> CallState] /\ Stay({"sync", "owner"})
           /\ call'["sync"] = Idle /\ sync' = NotSyncing
           /\ call'["owner"].handle = call["owner"].handle
           /\ \/ call'["owner"].at = call["owner"].at
              \/ call["owner"].at = "releasing" /\ call'["owner"].at = "refused"
<1> DEFINE at == IF ~ok /\ call["owner"].at = "releasing" THEN "refused" ELSE call["owner"].at
           c == [call["owner"] EXCEPT !.at = at]
<1>1. call["owner"] \in CallState
  BY Names
<1>a. at \in Spots /\ (at = call["owner"].at \/ (call["owner"].at = "releasing" /\ at = "refused"))
  <2>1. call["owner"].at \in Spots /\ "refused" \in Spots
    BY <1>1 DEF CallState, Places, Spots
  <2>2. CASE ~ok /\ call["owner"].at = "releasing"
    BY <2>1, <2>2
  <2>3. CASE ~(~ok /\ call["owner"].at = "releasing")
    BY <2>1, <2>3
  <2> QED
    BY <2>2, <2>3
<1> HIDE DEF at
<1>2. c \in CallState /\ c.handle = call["owner"].handle /\ c.at = at
  BY <1>1, <1>a DEF CallState, Spots
<1>3. call' = [call EXCEPT !["sync"] = Idle, !["owner"] = c]
  <2> USE DEF at
  <2> QED
    BY Names DEF EndSync
<1>4. sync' = NotSyncing
  BY DEF EndSync
<1> HIDE DEF c
<1> QED
  BY <1>2, <1>3, <1>4, <1>a, IdleState, Names DEF Stay

(* The owner is done with a request.                                       *)
LEMMA OwnerGoes ==
    ASSUME call \in [Actors -> CallState], handles \in Seq(Providers), OwnerRests
    PROVE  call' \in [Actors -> CallState] /\ Stay({"owner"}) /\ call'["owner"] = Idle /\ request' = NoRequest
<1>1. call' = [call EXCEPT !["owner"] = Idle]
  BY DEF OwnerRests
<1> QED
  BY <1>1, IdleState, CallGoes, Names DEF OwnerRests

-----------------------------------------------------------------------------
(* Who asks is the last in it.                                             *)
LEMMA LockGrows ==
    ASSUME lock \in Seq(Lockers), Once,
           NEW x \in Lockers, ~InLock(x), lock' = Append(lock, x)
    PROVE  /\ lock' \in Seq(Lockers) /\ Once'
           /\ \A y : InLock(y)' <=> InLock(y) \/ y = x
           /\ \A y : Holds(y) => Holds(y)'
<1>1. /\ Len(lock') = Len(lock) + 1 /\ Len(lock) \in Nat
      /\ \A i \in 1..Len(lock) : lock'[i] = lock[i]
      /\ lock'[Len(lock) + 1] = x /\ lock' \in Seq(Lockers)
      /\ DOMAIN lock = 1..Len(lock) /\ DOMAIN lock' = 1..(Len(lock) + 1)
  OBVIOUS
<1>2. Once'
  BY <1>1 DEF Once, InLock
<1>3. ASSUME NEW y PROVE InLock(y)' <=> InLock(y) \/ y = x
  <2>1. InLock(y) => InLock(y)'
    BY <1>1 DEF InLock
  <2>2. y = x => InLock(y)'
    <3>1. Len(lock) + 1 \in DOMAIN lock'
      BY <1>1
    <3> QED
      BY <1>1, <3>1 DEF InLock
  <2>3. InLock(y)' => InLock(y) \/ y = x
    BY <1>1 DEF InLock
  <2> QED
    BY <2>1, <2>2, <2>3
<1>4. ASSUME NEW y, Holds(y) PROVE Holds(y)'
  <2>1. lock # <<>> /\ Head(lock) = y
    BY <1>4 DEF Holds
  <2>2. Len(lock) >= 1 /\ Head(lock) = lock[1]
    BY <2>1
  <2>3. lock' # <<>> /\ Head(lock') = lock'[1] /\ lock'[1] = lock[1]
    BY <2>2, <1>1
  <2> QED
    BY <2>1, <2>2, <2>3 DEF Holds
<1> QED
  BY <1>1, <1>2, <1>3, <1>4

(* Who holds it is the first.                                              *)
LEMMA HolderFirst ==
    ASSUME lock \in Seq(Lockers), NEW x, Holds(x)
    PROVE  InLock(x) /\ x \in Lockers /\ \A y : Holds(y) => y = x
<1>1. lock # <<>> /\ Head(lock) = x
  BY DEF Holds
<1>2. 1 \in DOMAIN lock /\ lock[1] = x /\ lock[1] \in Lockers
  BY <1>1
<1> QED
  BY <1>2 DEF Holds, InLock

(* And leaves it when it frees the lock.                                   *)
LEMMA LockFrees ==
    ASSUME lock \in Seq(Lockers), Once, NEW x, Holds(x), lock' = Tail(lock)
    PROVE  /\ lock' \in Seq(Lockers) /\ Once'
           /\ \A y : InLock(y)' <=> InLock(y) /\ y # x
<1>1. lock # <<>> /\ Head(lock) = x
  BY DEF Holds
<1>2. /\ Len(lock) \in Nat /\ Len(lock) >= 1 /\ lock[1] = x
      /\ Len(lock') = Len(lock) - 1 /\ lock' \in Seq(Lockers)
      /\ \A i \in 1..Len(lock') : lock'[i] = lock[i + 1]
      /\ DOMAIN lock = 1..Len(lock) /\ DOMAIN lock' = 1..(Len(lock) - 1)
  BY <1>1
<1>3. Once'
  <2> SUFFICES ASSUME NEW i \in DOMAIN lock', NEW j \in DOMAIN lock', lock'[i] = lock'[j] PROVE i = j
    BY DEF Once
  <2>1. i \in Nat /\ j \in Nat /\ i + 1 \in DOMAIN lock /\ j + 1 \in DOMAIN lock
    BY <1>2
  <2>2. lock[i + 1] = lock[j + 1]
    BY <1>2
  <2>3. i + 1 = j + 1
    BY <2>1, <2>2 DEF Once
  <2> QED
    BY <2>1, <2>3
<1>4. ASSUME NEW y, InLock(y)' PROVE InLock(y) /\ y # x
  <2>1. PICK i \in DOMAIN lock' : lock'[i] = y
    BY <1>4 DEF InLock
  <2>2. i \in Nat /\ i + 1 \in DOMAIN lock /\ lock[i + 1] = y /\ i + 1 # 1 /\ 1 \in DOMAIN lock
    BY <1>2, <2>1
  <2>3. lock[i + 1] # lock[1]
    BY <2>2 DEF Once
  <2> QED
    BY <1>2, <2>2, <2>3 DEF InLock
<1>5. ASSUME NEW y, InLock(y), y # x PROVE InLock(y)'
  <2>1. PICK i \in DOMAIN lock : lock[i] = y
    BY <1>5 DEF InLock
  <2>2. i # 1 /\ i - 1 \in DOMAIN lock'
    BY <1>2, <1>5, <2>1
  <2>3. lock'[i - 1] = y
    BY <1>2, <2>1, <2>2
  <2> QED
    BY <2>2, <2>3 DEF InLock
<1> QED
  BY <1>2, <1>3, <1>4, <1>5

-----------------------------------------------------------------------------
(* Types.  They depend on the computers that were opened only.             *)
LEMMA SameTypes ==
    ASSUME handles' = handles
    PROVE  Handles' = Handles /\ OpeningState' = OpeningState /\ SyncState' = SyncState /\ CallState' = CallState
BY DEF Handles, OpeningState, SyncState, CallState

(* A computer more: the others keep their number and their provider.     *)
LEMMA TypesGrow ==
    ASSUME handles \in Seq(Providers), NEW p \in Providers, handles' = Append(handles, p)
    PROVE  /\ handles' \in Seq(Providers) /\ Len(handles') = Len(handles) + 1 /\ Len(handles) \in Nat
           /\ \A h \in 1..Len(handles) : handles'[h] = handles[h]
           /\ handles'[Len(handles) + 1] = p
           /\ Handles \subseteq Handles' /\ OpeningState \subseteq OpeningState'
           /\ SyncState \subseteq SyncState' /\ CallState \subseteq CallState'
<1>1. /\ handles' \in Seq(Providers) /\ Len(handles') = Len(handles) + 1 /\ Len(handles) \in Nat
      /\ \A h \in 1..Len(handles) : handles'[h] = handles[h]
      /\ handles'[Len(handles) + 1] = p
  OBVIOUS
<1>2. Handles \subseteq Handles'
  BY <1>1 DEF Handles
<1>3. OpeningState \subseteq OpeningState'
  BY <1>2 DEF OpeningState
<1>4. SyncState \subseteq SyncState'
  BY <1>2 DEF SyncState
<1>5. CallState \subseteq CallState'
  BY <1>2 DEF CallState
<1> QED
  BY <1>1, <1>2, <1>3, <1>4, <1>5

(* A computer has a provider.                                              *)
LEMMA ProviderType ==
    ASSUME handles \in Seq(Providers), NEW h \in Handles, h # 0
    PROVE  h \in 1..Len(handles) /\ Provider(h) \in Providers
<1>1. h \in 1..Len(handles)
  BY DEF Handles
<1> QED
  BY <1>1 DEF Provider

(* Fields of an opening and of a flight.                                   *)
LEMMA OpeningFields ==
    ASSUME NEW o \in OpeningState
    PROVE  o.at \in {"no", "driver", "copy"} \cup Providers /\ o.handle \in Handles /\ o.todo \subseteq Keys
BY DEF OpeningState

(* The fields of a reconciliation.                                       *)
LEMMA SyncFields ==
    ASSUME NEW y \in SyncState
    PROVE  /\ y.handle \in Handles /\ y.direct \in BOOLEAN /\ y.seen \in Files
           /\ y.same \subseteq Keys /\ y.lost \subseteq Keys /\ y.todo \subseteq Keys
BY DEF SyncState

(* The fields of a caller.                                               *)
LEMMA CallFields ==
    ASSUME NEW c \in CallState
    PROVE  c.at \in Spots /\ c.handle \in Handles /\ c.key \in Keys \cup {Nothing}
BY DEF CallState, Spots

(* Nothing is under way.                                                   *)
LEMMA NoFlight ==
    ASSUME handles \in Seq(Providers)
    PROVE  /\ NotSyncing \in SyncState /\ NotSyncing.handle = 0 /\ NotSyncing.direct = FALSE
           /\ NotSyncing.todo = {} /\ NotSyncing.lost = {} /\ NotSyncing.seen = [k \in Keys |-> Nothing]
<1>1. 0 \in Handles
  BY DEF Handles
<1>2. [k \in Keys |-> Nothing] \in Files
  BY DEF Files
<1>3. FALSE \in BOOLEAN
  OBVIOUS
<1> QED
  BY <1>1, <1>2, <1>3 DEF NotSyncing, SyncState

(* A file more or less.                                                    *)
LEMMA FilePut ==
    ASSUME NEW f \in Files, NEW k \in Keys, NEW c \in Contents \cup {Nothing}
    PROVE  [f EXCEPT ![k] = c] \in Files
BY DEF Files

(* A file more, or less, on one computer.                                *)
LEMMA ComputerPut ==
    ASSUME files \in [Providers -> Files], NEW p \in Providers, NEW k \in Keys, NEW c \in Contents \cup {Nothing},
           files' = [files EXCEPT ![p][k] = c]
    PROVE  /\ files' \in [Providers -> Files]
           /\ \A q \in Providers, i \in Keys : files'[q][i] = IF q = p /\ i = k THEN c ELSE files[q][i]
<1> DEFINE f == [files[p] EXCEPT ![k] = c]
<1>1. files[p] \in Files
  OBVIOUS
<1>2. f \in Files /\ \A i \in Keys : f[i] = IF i = k THEN c ELSE files[p][i]
  BY <1>1 DEF Files
<1>3. files' = [files EXCEPT ![p] = f]
  OBVIOUS
<1> HIDE DEF f
<1>4. files' \in [Providers -> Files] /\ files'[p] = f /\ \A q \in Providers : q # p => files'[q] = files[q]
  BY <1>2, <1>3
<1> QED
  BY <1>2, <1>4

(* Computers have a provider, and providers have files.                  *)
LEMMA ContentTypes ==
    ASSUME TypeOK
    PROVE  /\ \A h \in Handles : h # 0 => h \in 1..Len(handles) /\ Provider(h) \in Providers
           /\ \A p \in Providers : FilesOf(p) \in Files
           /\ \A w \in Writers \cup Turns : w \in Contents \cup {Nothing}
<1>1. \A h \in Handles : h # 0 => h \in 1..Len(handles) /\ Provider(h) \in Providers
  BY ProviderType DEF TypeOK
<1> QED
  BY <1>1, Names DEF TypeOK, FilesOf

(* A row more or less.                                                     *)
LEMMA RowPut ==
    ASSUME NEW f \in [Keys -> Providers \cup {Nothing}], NEW k, NEW c \in Providers \cup {Nothing}
    PROVE  [f EXCEPT ![k] = c] \in [Keys -> Providers \cup {Nothing}]
OBVIOUS

(* A key that a computer was given.                                        *)
LEMMA MarkPut ==
    ASSUME materialized \in Seq(SUBSET Keys), NEW h \in 1..Len(materialized), NEW K \in SUBSET Keys,
           materialized' = [materialized EXCEPT ![h] = K]
    PROVE  /\ materialized' \in Seq(SUBSET Keys) /\ Len(materialized') = Len(materialized)
           /\ \A i \in 1..Len(materialized) : materialized'[i] = IF i = h THEN K ELSE materialized[i]
OBVIOUS

(* One step of the opening.                                                *)
LEMMA OpenTyped ==
    ASSUME TypeOK, OpenStep, Queue, Equipped
    PROVE  TypeOK'
<1> USE DEF kept, machines, noted, bounds
<1>1. ASSUME OpenDriver PROVE TypeOK'
  <2>1. CASE Attached = driver
    <3>1. EndOpening(active)
      BY <1>1, <2>1 DEF OpenDriver
    <3>2. call' \in [Actors -> CallState] /\ opening' = NotOpening /\ NotOpening \in OpeningState
      BY <3>1, OpeningEnds, NoOpening DEF TypeOK
    <3> QED
      BY <1>1, <3>2, SameTypes DEF TypeOK, OpenDriver
  <2>2. CASE Attached # driver
    <3>1. opening' \in OpeningState
      BY <1>1, <2>2 DEF OpenDriver, TypeOK, OpeningState
    <3> QED
      BY <1>1, <2>2, <3>1, SameTypes DEF TypeOK, OpenDriver
  <2> QED
    BY <2>1, <2>2
<1>2. ASSUME OpenFails PROVE TypeOK'
  <2>1. EndOpening(0) /\ 0 \in Handles /\ faults' \in 0..MaxFaults
    BY <1>2, StorageAssumption DEF OpenFails, Fault, Handles, TypeOK
  <2>2. call' \in [Actors -> CallState] /\ opening' = NotOpening /\ NotOpening \in OpeningState
    BY <2>1, OpeningEnds, NoOpening DEF TypeOK
  <2> QED
    BY <1>2, <2>1, <2>2, SameTypes DEF TypeOK, OpenFails
<1>3. ASSUME OpenProvider PROVE TypeOK'
  <2>1. opening.at \in Providers /\ handles' = Append(handles, opening.at)
    BY <1>3 DEF OpenProvider
  <2>2. /\ Handles \subseteq Handles' /\ OpeningState \subseteq OpeningState' /\ SyncState \subseteq SyncState'
        /\ CallState \subseteq CallState' /\ handles' \in Seq(Providers) /\ Len(handles') = Len(handles) + 1
        /\ Len(handles) \in Nat
    BY <2>1, TypesGrow DEF TypeOK
  <2>3. materialized' \in Seq(SUBSET Keys) /\ Len(materialized') = Len(handles')
    BY <1>3, <2>2 DEF OpenProvider, TypeOK
  <2>4. lock' \in Seq(Lockers)
    BY <1>3, Names DEF OpenProvider, TypeOK
  <2>5. opening' \in OpeningState'
    <3>1. Len(handles) + 1 \in Handles'
      BY <2>2 DEF Handles
    <3> QED
      BY <1>3, <3>1 DEF OpenProvider, OpeningState
  <2>6. dead' \subseteq 1..Len(handles')
    BY <1>3, <2>2 DEF OpenProvider, TypeOK
  <2>7. call' \in [Actors -> CallState']
    BY <1>3, <2>2 DEF OpenProvider, TypeOK
  <2> QED
    BY <1>3, <2>2, <2>3, <2>4, <2>5, <2>6, <2>7 DEF TypeOK, OpenProvider
<1>4. ASSUME NEW k \in Keys, Copy(k) PROVE TypeOK'
  <2>1. opening.handle \in Handles /\ opening.handle # 0
    BY <1>4, OpeningFields DEF Copy, TypeOK, Equipped
  <2>2. opening.handle \in 1..Len(handles) /\ Provider(opening.handle) \in Providers
    BY <2>1, ContentTypes
  <2>3. opening' \in OpeningState
    BY <1>4 DEF Copy, TypeOK, OpeningState
  <2>4. inPlace' \subseteq Keys
    BY <1>4 DEF Copy, Indexed, TypeOK
  <2>5. store[k] \in Contents \cup {Nothing} /\ [index EXCEPT ![k] = store[k]] \in Files
    BY FilePut DEF TypeOK, Files
  <2>6. CASE IsDirect(Provider(opening.handle))
    <3>1. mtime' \in [Keys -> Providers \cup {Nothing}]
      BY <1>4, <2>2, <2>6 DEF Copy, TypeOK
    <3> QED
      BY <1>4, <2>3, <2>4, <2>5, <2>6, <3>1, SameTypes DEF Copy, TypeOK
  <2>7. CASE ~IsDirect(Provider(opening.handle)) /\ store[k] = Nothing
    BY <1>4, <2>3, <2>4, <2>7, SameTypes DEF Copy, TypeOK
  <2>8. CASE ~IsDirect(Provider(opening.handle)) /\ store[k] # Nothing
    <3>1. files' \in [Providers -> Files]
      BY <1>4, <2>2, <2>5, <2>8, ComputerPut DEF Copy, TypeOK
    <3>2. mtime' \in [Keys -> Providers \cup {Nothing}]
      BY <1>4, <2>8 DEF Copy, TypeOK
    <3>3. materialized' \in Seq(SUBSET Keys) /\ Len(materialized') = Len(handles)
      <4>1. opening.handle \in 1..Len(materialized) /\ materialized \in Seq(SUBSET Keys)
        BY <2>2 DEF TypeOK
      <4>2. materialized[opening.handle] \cup {k} \in SUBSET Keys
        BY <4>1
      <4>3. materialized' = [materialized EXCEPT ![opening.handle] = materialized[opening.handle] \cup {k}]
        BY <1>4, <2>8 DEF Copy
      <4> QED
        BY <4>1, <4>2, <4>3, MarkPut DEF TypeOK
    <3>4. gone' \in [Providers -> SUBSET Keys]
      BY <1>4, <2>2, <2>8 DEF Copy, TypeOK
    <3> QED
      BY <1>4, <2>3, <2>4, <2>5, <2>8, <3>1, <3>2, <3>3, <3>4, SameTypes DEF Copy, TypeOK
  <2> QED
    BY <2>6, <2>7, <2>8
<1>5. ASSUME CopyFails PROVE TypeOK'
  <2>1. EndOpening(0) /\ 0 \in Handles /\ faults' \in 0..MaxFaults
    BY <1>5, StorageAssumption DEF CopyFails, Fault, Handles, TypeOK
  <2>2. call' \in [Actors -> CallState] /\ opening' = NotOpening /\ NotOpening \in OpeningState
    BY <2>1, OpeningEnds, NoOpening DEF TypeOK
  <2>3. lock' \in Seq(Lockers)
    BY <1>5, LockFrees DEF CopyFails, TypeOK, Queue
  <2> QED
    BY <1>5, <2>1, <2>2, <2>3, SameTypes DEF TypeOK, CopyFails
<1>6. ASSUME OpenDone PROVE TypeOK'
  <2>1. EndOpening(opening.handle) /\ opening.handle \in Handles
    BY <1>6, OpeningFields DEF OpenDone, TypeOK
  <2>2. call' \in [Actors -> CallState] /\ opening' = NotOpening /\ NotOpening \in OpeningState
    BY <2>1, OpeningEnds, NoOpening DEF TypeOK
  <2>3. lock' \in Seq(Lockers)
    BY <1>6, LockFrees DEF OpenDone, TypeOK, Queue
  <2> QED
    BY <1>6, <2>1, <2>2, <2>3, SameTypes DEF TypeOK, OpenDone
<1> QED
  BY <1>1, <1>2, <1>3, <1>4, <1>5, <1>6 DEF OpenStep

(* The queue a step leaves.                                                *)
LEMMA LockTyped ==
    ASSUME TypeOK, Queue
    PROVE  /\ \A x : Holds(x) /\ lock' = Tail(lock) => lock' \in Seq(Lockers)
           /\ \A x \in Lockers : lock' = Append(lock, x) => lock' \in Seq(Lockers)
<1>1. \A x : Holds(x) /\ lock' = Tail(lock) => lock' \in Seq(Lockers)
  BY LockFrees DEF TypeOK, Queue
<1>2. ASSUME NEW x \in Lockers, lock' = Append(lock, x)
      PROVE  lock' \in Seq(Lockers)
  BY <1>2 DEF TypeOK
<1> QED
  BY <1>1, <1>2

(* A caller knows the computer it was given.                               *)
LEMMA Computer ==
    ASSUME TypeOK, NEW a \in Actors, call[a].handle # 0
    PROVE  call[a].handle \in 1..Len(handles) /\ Provider(call[a].handle) \in Providers
<1>1. call[a].handle \in Handles
  BY CallFields DEF TypeOK
<1> QED
  BY <1>1, ContentTypes

(* One step of a write.                                                    *)
LEMMA WriteTyped ==
    ASSUME TypeOK, Queue, Equipped, NEW w \in Writers, WriteStep(w) \/ \E k \in Keys : Write(w, k)
    PROVE  TypeOK'
<1> USE DEF kept, machines, noted, bounds
<1>w. w \in Actors /\ w \in Contents \cup {Nothing} /\ w \in Lockers
  BY Names, ContentTypes
<1>1. ASSUME NEW k \in Keys, Write(w, k) PROVE TypeOK'
  <2> DEFINE c == [call[w] EXCEPT !.at = "queued", !.key = k]
  <2>1. c \in CallState
    BY <1>w DEF TypeOK, CallState, Places
  <2>2. call' = [call EXCEPT ![w] = c]
    BY <1>1 DEF Write
  <2> HIDE DEF c
  <2>3. call' \in [Actors -> CallState]
    BY <2>1, <2>2 DEF TypeOK
  <2>4. lock' \in Seq(Lockers)
    BY <1>1, <1>w, LockTyped DEF Write
  <2> QED
    BY <1>1, <2>3, <2>4, SameTypes DEF Write, TypeOK
<1>2. ASSUME WritePut(w) PROVE TypeOK'
  <2>1. call[w].key \in Keys
    BY <1>2 DEF WritePut, Equipped
  <2>2. store' \in Files /\ index' \in Files
    BY <1>2, <2>1, <1>w, FilePut DEF WritePut, TypeOK
  <2>3. mtime' \in [Keys -> Providers \cup {Nothing}]
    BY <1>2, RowPut DEF WritePut, TypeOK
  <2>4. inPlace' \subseteq Keys
    BY <1>2 DEF WritePut, Indexed, TypeOK
  <2>5. call' \in [Actors -> CallState]
    BY <1>2, <1>w, AtGoes DEF WritePut, TypeOK, Spots
  <2> QED
    BY <1>2, <2>2, <2>3, <2>4, <2>5, SameTypes DEF WritePut, TypeOK
<1>3. ASSUME WriteAttach(w) PROVE TypeOK'
  <2>1. CASE IsDirect(driver)
    <3>1. call' \in [Actors -> CallState]
      BY <1>3, <1>w, <2>1, EndsGoes DEF WriteAttach, TypeOK
    <3>2. lock' \in Seq(Lockers)
      BY <1>3, <2>1, LockTyped DEF WriteAttach
    <3> QED
      BY <1>3, <2>1, <3>1, <3>2, SameTypes DEF WriteAttach, TypeOK
  <2>2. CASE ~IsDirect(driver)
    <3>1. call' \in [Actors -> CallState] /\ Looks
      BY <1>3, <1>w, <2>2, ResolveGoes DEF WriteAttach, TypeOK
    <3>2. opening' \in OpeningState
      BY <3>1, NoOpening DEF TypeOK, Looks
    <3> QED
      BY <1>3, <2>2, <3>1, <3>2, SameTypes DEF WriteAttach, TypeOK
  <2> QED
    BY <2>1, <2>2
<1>4. ASSUME WriteFile(w) PROVE TypeOK'
  <2>1. call[w].key \in Keys /\ call[w].handle # 0
    BY <1>4, <1>w, Names DEF WriteFile, Working, Equipped
  <2>2. Provider(call[w].handle) \in Providers
    BY <2>1, <1>w, Computer
  <2>3. call' \in [Actors -> CallState]
    BY <1>4, <1>w, AtGoes DEF WriteFile, TypeOK, Spots
  <2>4. CASE IsDirect(Provider(call[w].handle))
    <3>1. store' \in Files
      <4>1. store' = [store EXCEPT ![call[w].key] = w]
        BY <1>4, <2>4 DEF WriteFile
      <4> QED
        BY <4>1, <1>w, <2>1, FilePut DEF TypeOK
    <3> QED
      BY <1>4, <2>3, <2>4, <3>1, SameTypes DEF WriteFile, TypeOK
  <2>5. CASE ~IsDirect(Provider(call[w].handle))
    <3>1. files' \in [Providers -> Files]
      BY <1>4, <1>w, <2>1, <2>2, <2>5, ComputerPut DEF WriteFile, TypeOK
    <3>2. gone' \in [Providers -> SUBSET Keys]
      BY <1>4, <2>2, <2>5 DEF WriteFile, TypeOK
    <3> QED
      BY <1>4, <2>3, <2>5, <3>1, <3>2, SameTypes DEF WriteFile, TypeOK
  <2> QED
    BY <2>4, <2>5
<1>5. ASSUME WriteMark(w) PROVE TypeOK'
  <2>1. call[w].key \in Keys
    BY <1>5 DEF WriteMark, Working, Equipped
  <2>2. call' \in [Actors -> CallState]
    BY <1>5, <1>w, EndsGoes DEF WriteMark, TypeOK
  <2>3. lock' \in Seq(Lockers)
    BY <1>5, LockTyped DEF WriteMark
  <2>4. materialized' \in Seq(SUBSET Keys) /\ Len(materialized') = Len(handles)
    <3>1. CASE active = 0
      BY <1>5, <3>1 DEF WriteMark, TypeOK
    <3>2. CASE active # 0
      <4>1. active \in 1..Len(materialized) /\ materialized \in Seq(SUBSET Keys)
        BY <3>2, ContentTypes DEF TypeOK
      <4>2. materialized[active] \cup {call[w].key} \in SUBSET Keys
        BY <2>1, <4>1
      <4>3. materialized' = [materialized EXCEPT ![active] = materialized[active] \cup {call[w].key}]
        BY <1>5, <3>2 DEF WriteMark
      <4> QED
        BY <4>1, <4>2, <4>3, MarkPut DEF TypeOK
    <3> QED
      BY <3>1, <3>2
  <2> QED
    BY <1>5, <2>2, <2>3, <2>4, SameTypes DEF WriteMark, TypeOK
<1>6. ASSUME WriteFails(w) PROVE TypeOK'
  <2>1. call' \in [Actors -> CallState]
    BY <1>6, <1>w, EndsGoes DEF WriteFails, TypeOK
  <2>2. lock' \in Seq(Lockers)
    BY <1>6, LockTyped DEF WriteFails
  <2>3. faults' \in 0..MaxFaults
    BY <1>6, StorageAssumption DEF WriteFails, Fault, TypeOK
  <2> QED
    BY <1>6, <2>1, <2>2, <2>3, SameTypes DEF WriteFails, TypeOK
<1> QED
  BY <1>1, <1>2, <1>3, <1>4, <1>5, <1>6 DEF WriteStep

(* One step of a turn.                                                     *)
LEMMA TurnTyped ==
    ASSUME TypeOK, Equipped, NEW t \in Turns,
           TurnStart(t) \/ TurnEnds(t) \/ \E k \in Keys, c \in {t, Nothing} : TurnEdits(t, k, c)
    PROVE  TypeOK'
<1> USE DEF kept, machines, noted, bounds
<1>t. t \in Actors /\ t \in Contents \cup {Nothing} /\ t # "owner" /\ t # "sync" /\ "sync" \in Actors
  BY Names, ContentTypes
<1>1. ASSUME TurnStart(t) PROVE TypeOK'
  <2>1. call' \in [Actors -> CallState] /\ Looks
    BY <1>1, <1>t, ResolveGoes DEF TurnStart, TypeOK
  <2>2. opening' \in OpeningState
    BY <2>1, NoOpening DEF TypeOK, Looks
  <2> QED
    BY <1>1, <2>1, <2>2, SameTypes DEF TurnStart, TypeOK
<1>2. ASSUME NEW k \in Keys, NEW c \in {t, Nothing}, TurnEdits(t, k, c) PROVE TypeOK'
  <2>1. Provider(call[t].handle) \in Providers /\ c \in Contents \cup {Nothing}
    BY <1>2, <1>t, Computer DEF TurnEdits, Equipped
  <2>2. mtime' \in [Keys -> Providers \cup {Nothing}]
    BY <1>2 DEF TurnEdits, Changed, TypeOK
  <2>3. sync' \in SyncState
    BY <1>2 DEF TurnEdits, Changed, TypeOK, SyncState
  <2>4. CASE IsDirect(Provider(call[t].handle))
    <3>1. store' = [store EXCEPT ![k] = c] /\ inPlace' = inPlace \cup {k}
      BY <1>2, <2>4 DEF TurnEdits
    <3>2. store' \in Files /\ inPlace' \subseteq Keys
      BY <2>1, <3>1, FilePut DEF TypeOK
    <3> QED
      BY <1>2, <2>2, <2>3, <2>4, <3>2, SameTypes DEF TurnEdits, TypeOK
  <2>5. CASE ~IsDirect(Provider(call[t].handle))
    <3>1. files' \in [Providers -> Files]
      BY <1>2, <2>1, <2>5, ComputerPut DEF TurnEdits, TypeOK
    <3>2. gone' \in [Providers -> SUBSET Keys]
      BY <1>2, <2>1, <2>5 DEF TurnEdits, TypeOK
    <3> QED
      BY <1>2, <2>2, <2>3, <2>5, <3>1, <3>2, SameTypes DEF TurnEdits, TypeOK
  <2> QED
    BY <2>4, <2>5
<1>3. ASSUME TurnEnds(t) PROVE TypeOK'
  <2>1. CASE call["sync"].at = "idle"
    <3> DEFINE c == [call["sync"] EXCEPT !.at = "opening"]
    <3>1. c \in CallState
      BY <1>t DEF TypeOK, CallState, Places
    <3>2. call' = [call EXCEPT ![t] = Done, !["sync"] = c]
      BY <1>3, <1>t, <2>1 DEF TurnEnds, Done, TypeOK
    <3> HIDE DEF c
    <3>3. call' \in [Actors -> CallState]
      BY <3>1, <3>2, IdleState DEF TypeOK
    <3>4. opening' \in OpeningState
      BY <1>3, <2>1, NoOpening DEF TurnEnds, NewOpening, TypeOK
    <3> QED
      BY <1>3, <2>1, <3>3, <3>4, SameTypes DEF TurnEnds, TypeOK
  <2>2. CASE call["sync"].at # "idle"
    <3>1. call' \in [Actors -> CallState]
      BY <1>3, <1>t, <2>2, EndsGoes DEF TurnEnds, TypeOK
    <3> QED
      BY <1>3, <2>2, <3>1, SameTypes DEF TurnEnds, TypeOK
  <2> QED
    BY <2>1, <2>2
<1> QED
  BY <1>1, <1>2, <1>3

(* One step of a reconciliation.                                           *)
LEMMA SyncTyped ==
    ASSUME TypeOK, Queue, Equipped, SyncStep \/ SyncNow
    PROVE  TypeOK'
<1> USE DEF kept, machines, noted, bounds
<1>s. "sync" \in Actors /\ sync.handle \in Handles
  BY Names, SyncFields DEF TypeOK
<1>1. ASSUME SyncNow PROVE TypeOK'
  <2>1. call' \in [Actors -> CallState] /\ Looks
    BY <1>1, <1>s, ResolveGoes DEF SyncNow, TypeOK
  <2>2. opening' \in OpeningState
    BY <2>1, NoOpening DEF TypeOK, Looks
  <2> QED
    BY <1>1, <2>1, <2>2, SameTypes DEF SyncNow, TypeOK
<1>2. ASSUME SyncAttach PROVE TypeOK'
  <2>1. call' \in [Actors -> CallState]
    BY <1>2, <1>s, AtGoes DEF SyncAttach, TypeOK, Spots, Places
  <2>2. call["sync"].handle \in Handles /\ IsDirect(driver) \in BOOLEAN
    BY <1>s, CallFields DEF TypeOK, IsDirect
  <2>3. sync' \in SyncState
    BY <1>2, <2>2, NoFlight DEF SyncAttach, TypeOK, SyncState
  <2>4. lock' \in Seq(Lockers)
    BY <1>2, Names, LockTyped DEF SyncAttach
  <2> QED
    BY <1>2, <2>1, <2>3, <2>4, SameTypes DEF SyncAttach, TypeOK
<1>3. ASSUME SyncScan PROVE TypeOK'
  <2>1. call' \in [Actors -> CallState]
    BY <1>3, <1>s, AtGoes DEF SyncScan, TypeOK, Spots
  <2>2. Provider(sync.handle) \in Providers
    BY <1>3, <1>s, ContentTypes DEF SyncScan, Equipped
  <2>3. FilesOf(Provider(sync.handle)) \in Files /\ gone[Provider(sync.handle)] \subseteq Keys
    BY <2>2, ContentTypes DEF TypeOK
  <2>4. sync' \in SyncState
    BY <1>3, <2>3 DEF SyncScan, TypeOK, SyncState
  <2> QED
    BY <1>3, <2>1, <2>4, SameTypes DEF SyncScan, TypeOK
<1>4. ASSUME SyncFails PROVE TypeOK'
  <2>1. EndSync(FALSE) /\ FALSE \in BOOLEAN
    BY <1>4 DEF SyncFails
  <2>2. call' \in [Actors -> CallState] /\ sync' = NotSyncing
    BY <2>1, FlightEnds DEF TypeOK
  <2>3. sync' \in SyncState
    BY <2>2, NoFlight DEF TypeOK
  <2>4. lock' \in Seq(Lockers)
    BY <1>4, LockTyped DEF SyncFails, TypeOK
  <2>5. faults' \in 0..MaxFaults
    BY <1>4, StorageAssumption DEF SyncFails, Fault, TypeOK
  <2> QED
    BY <1>4, <2>2, <2>3, <2>4, <2>5, SameTypes DEF SyncFails, TypeOK
<1>5. ASSUME NEW k \in Keys, SyncKey(k) PROVE TypeOK'
  <2>1. Provider(sync.handle) \in Providers
    BY <1>5, <1>s, ContentTypes DEF SyncKey, Equipped
  <2>2. sync.seen[k] \in Contents \cup {Nothing}
    BY SyncFields DEF TypeOK, Files
  <2>3. [store EXCEPT ![k] = sync.seen[k]] \in Files /\ [index EXCEPT ![k] = sync.seen[k]] \in Files
    BY <2>2, FilePut DEF TypeOK
  <2>4. store' \in Files /\ index' \in Files
    <3>1. store' \in {store, [store EXCEPT ![k] = sync.seen[k]]}
      BY <1>5 DEF SyncKey
    <3>2. index' \in {index, [index EXCEPT ![k] = sync.seen[k]]}
      BY <1>5 DEF SyncKey
    <3> QED
      BY <2>3, <3>1, <3>2 DEF TypeOK
  <2>5. mtime' \in [Keys -> Providers \cup {Nothing}]
    <3> DEFINE m(c) == [mtime EXCEPT ![k] = c]
    <3>1. m(Provider(sync.handle)) \in [Keys -> Providers \cup {Nothing}] /\ m(Nothing) \in [Keys -> Providers \cup {Nothing}]
      BY <2>1, RowPut DEF TypeOK
    <3>2. mtime' \in {mtime, m(Provider(sync.handle)), m(Nothing)}
      BY <1>5 DEF SyncKey
    <3> HIDE DEF m
    <3> QED
      BY <3>1, <3>2 DEF TypeOK
  <2>6. inPlace' \subseteq Keys
    BY <1>5 DEF SyncKey, Indexed, TypeOK
  <2>7. sync' \in SyncState
    BY <1>5 DEF SyncKey, TypeOK, SyncState
  <2> QED
    BY <1>5, <2>4, <2>5, <2>6, <2>7, SameTypes DEF SyncKey, TypeOK
<1>6. ASSUME SyncDelete PROVE TypeOK'
  <2> DEFINE h == sync.handle
             known == IF sync.direct THEN {k \in Keys : index[k] # Nothing} ELSE materialized[h]
             missing == {k \in known : sync.seen[k] = Nothing}
             Without(rows) == [k \in Keys |-> IF k \in missing THEN Nothing ELSE rows[k]]
  <2>1. EndSync(TRUE) /\ TRUE \in BOOLEAN
    BY <1>6 DEF SyncDelete
  <2>2. call' \in [Actors -> CallState] /\ sync' = NotSyncing
    BY <2>1, FlightEnds DEF TypeOK
  <2>3. sync' \in SyncState
    BY <2>2, NoFlight DEF TypeOK
  <2>4. lock' \in Seq(Lockers)
    BY <1>6, LockTyped DEF SyncDelete
  <2>5. /\ store' = (IF sync.direct THEN store ELSE Without(store)) /\ index' = Without(index)
        /\ mtime' = Without(mtime) /\ materialized' = [materialized EXCEPT ![h] = materialized[h] \ missing]
    BY <1>6 DEF SyncDelete
  <2> HIDE DEF missing
  <2>6. Without(store) \in Files /\ Without(index) \in Files
    BY DEF TypeOK, Files
  <2>7. Without(mtime) \in [Keys -> Providers \cup {Nothing}]
    BY DEF TypeOK
  <2> HIDE DEF Without
  <2>8. h \in 1..Len(materialized) /\ materialized \in Seq(SUBSET Keys)
    BY <1>6, <1>s, ContentTypes DEF SyncDelete, Equipped, TypeOK
  <2>9. materialized[h] \ missing \in SUBSET Keys
    BY <2>8
  <2> HIDE DEF h
  <2>10. materialized' \in Seq(SUBSET Keys) /\ Len(materialized') = Len(handles)
    BY <2>5, <2>8, <2>9, MarkPut DEF TypeOK
  <2>11. inPlace' \subseteq Keys
    BY <1>6 DEF SyncDelete, Indexed, TypeOK
  <2>12. store' \in Files
    BY <2>5, <2>6 DEF TypeOK
  <2>13. UNCHANGED <<files, driver, handles, active, dead, opening, request, gone, straddled, bounds>>
    BY <1>6 DEF SyncDelete
  <2> QED
    BY <2>2, <2>3, <2>4, <2>5, <2>6, <2>7, <2>10, <2>11, <2>12, <2>13, SameTypes DEF TypeOK
<1> QED
  BY <1>1, <1>2, <1>3, <1>4, <1>5, <1>6 DEF SyncStep

(* One step of the owner.                                                  *)
LEMMA OwnerTyped ==
    ASSUME TypeOK, Equipped, OwnerStep \/ \E kind \in Requests, id \in Providers : Ask(kind, id)
    PROVE  TypeOK'
<1> USE DEF kept, machines, noted, bounds
<1>o. "owner" \in Actors /\ call["owner"].handle \in Handles
  BY Names, CallFields DEF TypeOK
<1>r. NoRequest \in RequestState
  BY DEF NoRequest, RequestState
<1>1. ASSUME NEW kind \in Requests, NEW id \in Providers, Ask(kind, id) PROVE TypeOK'
  <2>1. requests' \in 0..MaxRequests
    BY <1>1, StorageAssumption DEF Ask, TypeOK
  <2>2. request' \in RequestState
    BY <1>1 DEF Ask, RequestState
  <2>3. call' \in [Actors -> CallState] /\ Looks
    <3>1. CASE kind = "destroy"
      BY <1>1, <1>o, <3>1, ResolveGoes DEF Ask, TypeOK
    <3>2. CASE kind # "destroy"
      <4>1. \E place \in {"opened", "opening"} : At("owner", place)
        BY <1>1, <3>2 DEF Ask
      <4>2. Looks
        BY <1>1, <3>2 DEF Ask, Looks
      <4> QED
        BY <1>o, <4>1, <4>2, AtGoes DEF TypeOK, Spots, Places
    <3> QED
      BY <3>1, <3>2
  <2>4. opening' \in OpeningState
    BY <2>3, NoOpening DEF TypeOK, Looks
  <2> QED
    BY <1>1, <2>1, <2>2, <2>3, <2>4, SameTypes DEF Ask, TypeOK
<1>2. ASSUME OwnerDestroys PROVE TypeOK'
  <2>1. call["owner"].handle # 0
    BY <1>2 DEF OwnerDestroys, Equipped
  <2>2. Provider(call["owner"].handle) \in Providers
    BY <1>o, <2>1, ContentTypes
  <2>3. call' \in [Actors -> CallState] /\ opening' = opening
    <3>1. AwaitOpening("release")
      BY <1>2 DEF OwnerDestroys
    <3>2. \E place \in {"opened", "opening"} : At("owner", place)
      BY <3>1 DEF AwaitOpening
    <3> QED
      BY <1>o, <3>1, <3>2, AtGoes DEF TypeOK, Spots, Places, AwaitOpening
  <2>4. request' \in RequestState
    BY <1>2 DEF OwnerDestroys, AwaitOpening, TypeOK, RequestState
  <2>5. files' \in [Providers -> Files]
    <3>1. [k \in Keys |-> Nothing] \in Files
      BY DEF Files
    <3> QED
      BY <1>2, <2>2, <3>1 DEF OwnerDestroys, TypeOK
  <2>6. dead' \subseteq 1..Len(handles) /\ gone' \in [Providers -> SUBSET Keys]
    BY <1>2, <2>2 DEF OwnerDestroys, TypeOK
  <2> QED
    BY <1>2, <2>3, <2>4, <2>5, <2>6, SameTypes DEF OwnerDestroys, TypeOK
<1>3. ASSUME OwnerReleases PROVE TypeOK'
  <2>1. OwnerRests \/ (At("owner", "releasing") /\ UNCHANGED request)
    BY <1>3 DEF OwnerReleases
  <2>2. call' \in [Actors -> CallState] /\ request' \in RequestState
    <3>1. CASE OwnerRests
      BY <1>r, <3>1, OwnerGoes DEF TypeOK
    <3>2. CASE At("owner", "releasing") /\ UNCHANGED request
      BY <1>o, <3>2, AtGoes DEF TypeOK, Spots
    <3> QED
      BY <2>1, <3>1, <3>2
  <2> QED
    BY <1>3, <2>2, SameTypes DEF OwnerReleases, TypeOK
<1>4. ASSUME OwnerCloses PROVE TypeOK'
  <2>1. call' \in [Actors -> CallState]
    BY <1>4, <1>o, AtGoes DEF OwnerCloses, TypeOK, Spots
  <2> QED
    BY <1>4, <2>1, SameTypes DEF OwnerCloses, TypeOK
<1>5. ASSUME OwnerClears PROVE TypeOK'
  <2>1. OwnerRests \/ (At("owner", "update") /\ UNCHANGED request)
    BY <1>5 DEF OwnerClears
  <2>2. call' \in [Actors -> CallState] /\ request' \in RequestState
    <3>1. CASE OwnerRests
      BY <1>r, <3>1, OwnerGoes DEF TypeOK
    <3>2. CASE At("owner", "update") /\ UNCHANGED request
      BY <1>o, <3>2, AtGoes DEF TypeOK, Spots
    <3> QED
      BY <2>1, <3>1, <3>2
  <2>3. active' \in Handles
    BY <1>5 DEF OwnerClears, Handles, TypeOK
  <2> QED
    BY <1>5, <2>2, <2>3, SameTypes DEF OwnerClears, TypeOK
<1>6. ASSUME OwnerSwitches PROVE TypeOK'
  <2>1. request.id \in Providers
    BY <1>6 DEF OwnerSwitches, Equipped
  <2>2. request' \in RequestState
    BY <1>6 DEF OwnerSwitches, TypeOK, RequestState
  <2>3. call' \in [Actors -> CallState] /\ Looks
    BY <1>6, <1>o, ResolveGoes DEF OwnerSwitches, TypeOK
  <2>4. opening' \in OpeningState
    BY <2>3, NoOpening DEF TypeOK, Looks
  <2>5. straddled' \in BOOLEAN
    BY <1>6 DEF OwnerSwitches, UnderWay, TypeOK
  <2> QED
    BY <1>6, <2>1, <2>2, <2>3, <2>4, <2>5, SameTypes DEF OwnerSwitches, TypeOK
<1>7. ASSUME OwnerDone PROVE TypeOK'
  <2>1. call' \in [Actors -> CallState] /\ request' \in RequestState
    BY <1>7, <1>r, OwnerGoes DEF OwnerDone, TypeOK
  <2> QED
    BY <1>7, <2>1, SameTypes DEF OwnerDone, TypeOK
<1> QED
  BY <1>1, <1>2, <1>3, <1>4, <1>5, <1>6, <1>7 DEF OwnerStep

(* Every step keeps the types.                                           *)
LEMMA TypeNext ==
    ASSUME TypeOK, Queue, Equipped, [Next]_vars
    PROVE  TypeOK'
<1>1. CASE UNCHANGED vars
  BY <1>1, SameTypes DEF vars, TypeOK
<1>2. CASE Poll
  <2>1. opening' \in OpeningState
    BY <1>2, NoOpening DEF Poll, NewOpening, TypeOK
  <2> QED
    BY <1>2, <2>1, SameTypes DEF Poll, TypeOK, kept, machines, noted, bounds
<1>3. CASE OpenStep \/ SyncNow \/ SyncStep
  BY <1>3, OpenTyped, SyncTyped
<1>4. ASSUME NEW w \in Writers, WriteStep(w) \/ \E k \in Keys : Write(w, k) PROVE TypeOK'
  BY <1>4, WriteTyped
<1>5. ASSUME NEW t \in Turns, TurnStart(t) \/ TurnEnds(t) \/ \E k \in Keys, c \in {t, Nothing} : TurnEdits(t, k, c)
      PROVE TypeOK'
  BY <1>5, TurnTyped
<1>6. CASE OwnerStep \/ \E kind \in Requests, id \in Providers : Ask(kind, id)
  BY <1>6, OwnerTyped
<1> QED
  BY <1>1, <1>2, <1>3, <1>4, <1>5, <1>6 DEF Next

-----------------------------------------------------------------------------
(* Who asks for the lock, by name.                                         *)
LEMMA Askers ==
    /\ Wanted("open") <=> opening.at = "copy"
    /\ Inside("open") <=> opening.at = "copy" /\ opening.todo # Keys
    /\ Wanted("sync") <=> call["sync"].at \in {"queued", "keys"}
    /\ Inside("sync") <=> call["sync"].at = "keys"
    /\ \A w \in Writers : /\ Wanted(w) <=> call[w].at \in {"queued"} \cup Working
                          /\ Inside(w) <=> call[w].at \in Working
    /\ Wanted("open")' <=> opening'.at = "copy"
    /\ Inside("open")' <=> opening'.at = "copy" /\ opening'.todo # Keys
    /\ Wanted("sync")' <=> call'["sync"].at \in {"queued", "keys"}
    /\ Inside("sync")' <=> call'["sync"].at = "keys"
    /\ \A w \in Writers : /\ Wanted(w)' <=> call'[w].at \in {"queued"} \cup Working
                          /\ Inside(w)' <=> call'[w].at \in Working
BY Names DEF Wanted, Inside

(* Whoever does what needs the lock has it, and nobody else does.          *)
LEMMA OneInside ==
    ASSUME TypeOK, Queue, NEW x, Holds(x), NEW y \in Lockers, Inside(y)
    PROVE  y = x
BY HolderFirst DEF TypeOK, Queue

(* A step that leaves the queue alone.                                     *)
LEMMA QueueCalm ==
    ASSUME Queue, lock' = lock,
           \A y \in Lockers : (Wanted(y)' <=> Wanted(y)) /\ (Inside(y)' => Inside(y) \/ Holds(y))
    PROVE  Queue'
<1>1. Once' /\ (\A y : InLock(y)' <=> InLock(y)) /\ (\A y : Holds(y)' <=> Holds(y))
  BY DEF Queue, Once, InLock, Holds
<1> QED
  BY <1>1 DEF Queue

(* One that asks for the lock.                                             *)
LEMMA QueueGrows ==
    ASSUME TypeOK, Queue, NEW x \in Lockers, lock' = Append(lock, x), ~Wanted(x), Wanted(x)',
           \A y \in Lockers : (y # x => (Wanted(y)' <=> Wanted(y))) /\ (Inside(y)' => Inside(y))
    PROVE  Queue'
<1>1. Once /\ ~InLock(x)
  BY DEF Queue
<1>2. Once' /\ (\A y : InLock(y)' <=> InLock(y) \/ y = x) /\ (\A y : Holds(y) => Holds(y)')
  BY <1>1, LockGrows DEF TypeOK
<1> QED
  BY <1>2 DEF Queue

(* One that frees it.                                                      *)
LEMMA QueueFrees ==
    ASSUME TypeOK, Queue, NEW x \in Lockers, Holds(x), lock' = Tail(lock), ~Wanted(x)', ~Inside(x)',
           \A y \in Lockers : y # x => (Wanted(y)' <=> Wanted(y)) /\ (Inside(y)' => Inside(y))
    PROVE  Queue'
<1>1. Once' /\ (\A y : InLock(y)' <=> InLock(y) /\ y # x)
  BY LockFrees DEF TypeOK, Queue
<1>2. ASSUME NEW y \in Lockers, y # x PROVE ~Inside(y)'
  BY <1>2, OneInside
<1> QED
  BY <1>1, <1>2 DEF Queue

(* When an opening ends, writers keep their places and nobody else asked   *)
(* for the lock.                                                           *)
LEMMA AnsweredAsks ==
    ASSUME NEW h, Answered(h)
    PROVE  /\ call'["sync"].at \in {"queued", "keys"} <=> call["sync"].at \in {"queued", "keys"}
           /\ call'["sync"].at = "keys" <=> call["sync"].at = "keys"
           /\ \A w \in Writers :
                /\ call'[w].at \in {"queued"} \cup Working <=> call[w].at \in {"queued"} \cup Working
                /\ call'[w].at \in Working <=> call[w].at \in Working
BY Names DEF Answered, Working

(* And when one begins.                                                    *)
LEMMA LooksAsks ==
    ASSUME handles \in Seq(Providers), Looks
    PROVE  /\ opening'.at = "copy" <=> opening.at = "copy"
           /\ opening'.at = "copy" => opening' = opening
BY NoOpening DEF Looks

(* The opening asks for the lock when it begins to copy and gives it     *)
(* back when it ends.                                                    *)
LEMMA QueueOpen ==
    ASSUME TypeOK, Queue, OpenStep \/ Poll
    PROVE  Queue'
<1> USE DEF kept, machines, noted, bounds
<1>1. ASSUME OpenDriver PROVE Queue'
  <2>1. lock' = lock
    BY <1>1 DEF OpenDriver
  <2>2. CASE Attached = driver
    <3>1. Answered(active) /\ opening' = NotOpening
      BY <1>1, <2>2, OpeningEnds DEF OpenDriver, TypeOK
    <3>2. opening.at = "driver" /\ opening'.at = "no"
      BY <1>1, <3>1, NoOpening DEF OpenDriver, TypeOK
    <3> QED
      BY <2>1, <3>1, <3>2, AnsweredAsks, Askers, QueueCalm, Names
  <2>3. CASE Attached # driver
    <3>1. opening.at = "driver" /\ opening'.at \in Providers /\ call' = call
      BY <1>1, <2>3 DEF OpenDriver, TypeOK, OpeningState
    <3>2. opening'.at # "copy"
      BY <3>1, Names
    <3> QED
      BY <2>1, <3>1, <3>2, Askers, QueueCalm, Names
  <2> QED
    BY <2>2, <2>3
<1>2. ASSUME OpenFails PROVE Queue'
  <2>1. 0 \in Handles /\ EndOpening(0) /\ lock' = lock /\ opening.at # "copy"
    BY <1>2, Names DEF OpenFails, Handles, TypeOK
  <2>2. Answered(0) /\ opening'.at = "no"
    BY <2>1, OpeningEnds, NoOpening DEF TypeOK
  <2> QED
    BY <2>1, <2>2, AnsweredAsks, Askers, QueueCalm, Names
<1>3. ASSUME OpenProvider PROVE Queue'
  <2>1. lock' = Append(lock, "open") /\ opening.at # "copy" /\ opening'.at = "copy" /\ opening'.todo = Keys /\ call' = call
    BY <1>3, Names DEF OpenProvider
  <2> QED
    BY <2>1, Askers, QueueGrows, Names
<1>4. ASSUME NEW k \in Keys, Copy(k) PROVE Queue'
  <2>1. lock' = lock /\ Holds("open") /\ opening.at = "copy" /\ opening'.at = "copy" /\ call' = call
    BY <1>4 DEF Copy, TypeOK, OpeningState
  <2> QED
    BY <2>1, Askers, QueueCalm, Names
<1>5. ASSUME CopyFails PROVE Queue'
  <2>1. 0 \in Handles /\ EndOpening(0) /\ lock' = Tail(lock) /\ Holds("open")
    BY <1>5 DEF CopyFails, Handles, TypeOK
  <2>2. Answered(0) /\ opening'.at = "no"
    BY <2>1, OpeningEnds, NoOpening DEF TypeOK
  <2> QED
    BY <2>1, <2>2, AnsweredAsks, Askers, QueueFrees, Names
<1>6. ASSUME OpenDone PROVE Queue'
  <2>1. opening.handle \in Handles /\ EndOpening(opening.handle) /\ lock' = Tail(lock) /\ Holds("open")
    BY <1>6, OpeningFields DEF OpenDone, TypeOK
  <2>2. Answered(opening.handle) /\ opening'.at = "no"
    BY <2>1, OpeningEnds, NoOpening DEF TypeOK
  <2> QED
    BY <2>1, <2>2, AnsweredAsks, Askers, QueueFrees, Names
<1>7. ASSUME Poll PROVE Queue'
  <2>1. lock' = lock /\ opening.at = "no" /\ opening'.at = "driver" /\ call' = call
    BY <1>7, NoOpening DEF Poll, NewOpening, TypeOK
  <2> QED
    BY <2>1, Askers, QueueCalm, Names
<1> QED
  BY <1>1, <1>2, <1>3, <1>4, <1>5, <1>6, <1>7 DEF OpenStep

(* A write holds the lock from its object to its mark, whatever fails.   *)
LEMMA QueueWrite ==
    ASSUME TypeOK, Queue, NEW w \in Writers, WriteStep(w) \/ \E k \in Keys : Write(w, k)
    PROVE  Queue'
<1> USE DEF kept, machines, noted, bounds
<1>w. w \in Actors /\ w \in Lockers /\ w # "sync" /\ w # "open" /\ w # "owner"
  BY Names
<1>1. ASSUME NEW k \in Keys, Write(w, k) PROVE Queue'
  <2>1. lock' = Append(lock, w) /\ opening' = opening /\ call[w].at = "idle"
    BY <1>1 DEF Write
  <2>2. call'[w].at = "queued" /\ Stay({w})
    BY <1>1, <1>w DEF Write, Stay, TypeOK, CallState
  <2> QED
    BY <1>w, <2>1, <2>2, Askers, QueueGrows, Names DEF Stay, Working
<1>2. ASSUME WritePut(w) PROVE Queue'
  <2>1. lock' = lock /\ opening' = opening /\ call[w].at = "queued" /\ Holds(w)
    BY <1>2 DEF WritePut
  <2>2. call'[w].at = "put" /\ Stay({w})
    BY <1>2, <1>w, AtGoes DEF WritePut, TypeOK, Spots
  <2> QED
    BY <1>w, <2>1, <2>2, Askers, QueueCalm, Names DEF Stay, Working
<1>3. ASSUME WriteAttach(w) PROVE Queue'
  <2>1. Holds(w) /\ call[w].at = "put"
    BY <1>3 DEF WriteAttach
  <2>2. CASE IsDirect(driver)
    <3>1. lock' = Tail(lock) /\ opening' = opening /\ Ends(w)
      BY <1>3, <2>2 DEF WriteAttach
    <3>2. call'[w].at = "done" /\ Stay({w})
      BY <1>w, <3>1, EndsGoes, IdleState DEF TypeOK
    <3> QED
      BY <1>w, <2>1, <3>1, <3>2, Askers, QueueFrees, Names DEF Stay, Working
  <2>3. CASE ~IsDirect(driver)
    <3>1. lock' = lock /\ Resolve(w)
      BY <1>3, <2>3 DEF WriteAttach
    <3>2. call'[w].at = "opening" /\ Stay({w}) /\ Looks
      BY <1>w, <3>1, ResolveGoes DEF TypeOK
    <3> QED
      BY <1>w, <2>1, <3>1, <3>2, LooksAsks, Askers, QueueCalm, Names DEF Stay, Working, TypeOK
  <2> QED
    BY <2>2, <2>3
<1>4. ASSUME WriteFile(w) PROVE Queue'
  <2>1. lock' = lock /\ opening' = opening /\ call[w].at = "opened" /\ Holds(w)
    BY <1>4 DEF WriteFile
  <2>2. call'[w].at = "written" /\ Stay({w})
    BY <1>4, <1>w, AtGoes DEF WriteFile, TypeOK, Spots
  <2> QED
    BY <1>w, <2>1, <2>2, Askers, QueueCalm, Names DEF Stay, Working
<1>5. ASSUME WriteMark(w) \/ WriteFails(w) PROVE Queue'
  <2>1. lock' = Tail(lock) /\ opening' = opening /\ Ends(w) /\ Holds(w)
    BY <1>5 DEF WriteMark, WriteFails
  <2>2. call'[w].at = "done" /\ Stay({w})
    BY <1>w, <2>1, EndsGoes, IdleState DEF TypeOK
  <2> QED
    BY <1>w, <2>1, <2>2, Askers, QueueFrees, Names DEF Stay, Working
<1> QED
  BY <1>1, <1>2, <1>3, <1>4, <1>5 DEF WriteStep

(* Turns never touch the lock.                                           *)
LEMMA QueueTurn ==
    ASSUME TypeOK, Queue, NEW t \in Turns,
           TurnStart(t) \/ TurnEnds(t) \/ \E k \in Keys, c \in {t, Nothing} : TurnEdits(t, k, c)
    PROVE  Queue'
<1> USE DEF kept, machines, noted, bounds
<1>t. t \in Actors /\ t \notin Writers /\ t # "sync" /\ t # "owner" /\ t # "open"
  BY Names, StorageAssumption
<1>1. ASSUME TurnStart(t) PROVE Queue'
  <2>1. lock' = lock /\ Resolve(t)
    BY <1>1 DEF TurnStart
  <2>2. Stay({t}) /\ Looks
    BY <1>t, <2>1, ResolveGoes DEF TypeOK
  <2> QED
    BY <1>t, <2>1, <2>2, LooksAsks, Askers, QueueCalm, Names DEF Stay, TypeOK
<1>2. ASSUME NEW k \in Keys, NEW c \in {t, Nothing}, TurnEdits(t, k, c) PROVE Queue'
  <2>1. lock' = lock /\ opening' = opening /\ call' = call
    BY <1>2 DEF TurnEdits
  <2> QED
    BY <2>1, Askers, QueueCalm, Names
<1>3. ASSUME TurnEnds(t) PROVE Queue'
  <2>1. lock' = lock
    BY <1>3 DEF TurnEnds
  <2>2. CASE call["sync"].at = "idle"
    <3>1. Looks
      BY <1>3, <2>2 DEF TurnEnds, Looks, NewOpening
    <3>2. call'["sync"].at = "opening" /\ Stay({t, "sync"})
      BY <1>3, <1>t, <2>2, Names DEF TurnEnds, Stay, TypeOK, CallState
    <3> QED
      BY <1>t, <2>1, <2>2, <3>1, <3>2, LooksAsks, Askers, QueueCalm, Names DEF Stay, TypeOK
  <2>3. CASE call["sync"].at # "idle"
    <3>1. Ends(t) /\ opening' = opening
      BY <1>3, <2>3 DEF TurnEnds
    <3>2. Stay({t})
      BY <1>t, <3>1, EndsGoes DEF TypeOK
    <3> QED
      BY <1>t, <2>1, <3>1, <3>2, Askers, QueueCalm, Names DEF Stay
  <2> QED
    BY <2>2, <2>3
<1> QED
  BY <1>1, <1>2, <1>3

(* A reconciliation asks for the lock before its inventory and gives it  *)
(* back at the end of the flight.                                        *)
LEMMA QueueSync ==
    ASSUME TypeOK, Queue, SyncNow \/ SyncStep
    PROVE  Queue'
<1> USE DEF kept, machines, noted, bounds
<1>s. "sync" \in Actors /\ "sync" \in Lockers /\ "sync" \notin Writers
  BY Names
<1>1. ASSUME SyncNow PROVE Queue'
  <2>1. lock' = lock /\ Resolve("sync") /\ call["sync"].at = "idle"
    BY <1>1 DEF SyncNow
  <2>2. call'["sync"].at = "opening" /\ Stay({"sync"}) /\ Looks
    BY <1>s, <2>1, ResolveGoes DEF TypeOK
  <2> QED
    BY <1>s, <2>1, <2>2, LooksAsks, Askers, QueueCalm, Names DEF Stay, TypeOK
<1>2. ASSUME SyncAttach PROVE Queue'
  <2>1. lock' = Append(lock, "sync") /\ opening' = opening /\ call["sync"].at = "opened"
    BY <1>2 DEF SyncAttach
  <2>2. call'["sync"].at = "queued" /\ Stay({"sync"})
    BY <1>2, <1>s, AtGoes DEF SyncAttach, TypeOK, Spots, Places
  <2> QED
    BY <1>s, <2>1, <2>2, Askers, QueueGrows, Names DEF Stay
<1>3. ASSUME SyncScan PROVE Queue'
  <2>1. lock' = lock /\ opening' = opening /\ Holds("sync") /\ call["sync"].at = "queued"
    BY <1>3 DEF SyncScan
  <2>2. call'["sync"].at = "keys" /\ Stay({"sync"})
    BY <1>3, <1>s, AtGoes DEF SyncScan, TypeOK, Spots
  <2> QED
    BY <1>s, <2>1, <2>2, Askers, QueueCalm, Names DEF Stay
<1>4. ASSUME SyncFails \/ SyncDelete PROVE Queue'
  <2>1. opening' = opening /\ \E ok \in BOOLEAN : EndSync(ok)
    BY <1>4 DEF SyncFails, SyncDelete
  <2>2. call'["sync"].at = "idle" /\ Stay({"sync", "owner"})
    BY <2>1, FlightEnds, IdleState DEF TypeOK
  <2>3. CASE lock' = Tail(lock) /\ Holds("sync")
    BY <1>s, <2>1, <2>2, <2>3, Askers, QueueFrees, Names DEF Stay
  <2>4. CASE lock' = lock /\ call["sync"].at = "refused"
    BY <1>s, <2>1, <2>2, <2>4, Askers, QueueCalm, Names DEF Stay
  <2> QED
    BY <1>4, <2>3, <2>4 DEF SyncFails, SyncDelete
<1>5. ASSUME NEW k \in Keys, SyncKey(k) PROVE Queue'
  <2>1. lock' = lock /\ opening' = opening /\ call' = call
    BY <1>5 DEF SyncKey
  <2> QED
    BY <2>1, Askers, QueueCalm, Names
<1> QED
  BY <1>1, <1>2, <1>3, <1>4, <1>5 DEF SyncStep

(* The owner moves by itself, and may begin an opening.                    *)
LEMMA OwnerMoves ==
    ASSUME TypeOK, OwnerStep \/ \E kind \in Requests, id \in Providers : Ask(kind, id)
    PROVE  lock' = lock /\ Stay({"owner"}) /\ Looks
<1> USE DEF kept, machines, noted, bounds
<1>o. "owner" \in Actors
  BY Names
<1>p. \A place \in Spots : At("owner", place) => Stay({"owner"})
  BY <1>o, AtGoes DEF TypeOK
<1>r. (Resolve("owner") => Stay({"owner"}) /\ Looks) /\ (OwnerRests => Stay({"owner"}))
  BY <1>o, ResolveGoes, OwnerGoes DEF TypeOK
<1>1. ASSUME NEW kind \in Requests, NEW id \in Providers, Ask(kind, id) PROVE lock' = lock /\ Stay({"owner"}) /\ Looks
  <2>1. CASE kind = "destroy"
    BY <1>1, <1>r, <2>1 DEF Ask
  <2>2. CASE kind # "destroy"
    BY <1>1, <1>p, <2>2 DEF Ask, Looks, Spots, Places
  <2> QED
    BY <2>1, <2>2
<1>2. ASSUME OwnerDestroys PROVE lock' = lock /\ Stay({"owner"}) /\ Looks
  BY <1>2, <1>p DEF OwnerDestroys, AwaitOpening, Looks, Spots, Places
<1>3. ASSUME OwnerReleases PROVE lock' = lock /\ Stay({"owner"}) /\ Looks
  BY <1>3, <1>p, <1>r DEF OwnerReleases, Looks, Spots
<1>4. ASSUME OwnerCloses PROVE lock' = lock /\ Stay({"owner"}) /\ Looks
  BY <1>4, <1>p DEF OwnerCloses, Looks, Spots
<1>5. ASSUME OwnerClears PROVE lock' = lock /\ Stay({"owner"}) /\ Looks
  BY <1>5, <1>p, <1>r DEF OwnerClears, Looks, Spots
<1>6. ASSUME OwnerSwitches PROVE lock' = lock /\ Stay({"owner"}) /\ Looks
  BY <1>6, <1>r DEF OwnerSwitches
<1>7. ASSUME OwnerDone PROVE lock' = lock /\ Stay({"owner"}) /\ Looks
  BY <1>7, <1>r DEF OwnerDone, Looks
<1> QED
  BY <1>1, <1>2, <1>3, <1>4, <1>5, <1>6, <1>7 DEF OwnerStep

(* Every step keeps the queue.                                           *)
LEMMA QueueNext ==
    ASSUME TypeOK, Queue, [Next]_vars
    PROVE  Queue'
<1>1. CASE UNCHANGED vars
  <2>1. lock' = lock /\ opening' = opening /\ call' = call
    BY <1>1 DEF vars
  <2> QED
    BY <2>1, Askers, QueueCalm, Names
<1>2. CASE OpenStep \/ Poll \/ SyncNow \/ SyncStep
  BY <1>2, QueueOpen, QueueSync
<1>3. ASSUME NEW w \in Writers, WriteStep(w) \/ \E k \in Keys : Write(w, k) PROVE Queue'
  BY <1>3, QueueWrite
<1>4. ASSUME NEW t \in Turns, TurnStart(t) \/ TurnEnds(t) \/ \E k \in Keys, c \in {t, Nothing} : TurnEdits(t, k, c)
      PROVE Queue'
  BY <1>4, QueueTurn
<1>5. CASE OwnerStep \/ \E kind \in Requests, id \in Providers : Ask(kind, id)
  <2>1. lock' = lock /\ Stay({"owner"}) /\ Looks
    BY <1>5, OwnerMoves
  <2>2. handles \in Seq(Providers) /\ "sync" # "owner"
    BY DEF TypeOK
  <2> QED
    BY <2>1, <2>2, LooksAsks, Askers, QueueCalm, Names DEF Stay
<1> QED
  BY <1>1, <1>2, <1>3, <1>4, <1>5 DEF Next

-----------------------------------------------------------------------------
(* Who goes on after an opening has a computer.                            *)
LEMMA EquippedOpen ==
    ASSUME TypeOK, Queue, Equipped, OpenStep \/ Poll
    PROVE  Equipped'
<1> USE DEF kept, machines, noted, bounds
<1>n. "owner" \in Actors /\ "sync" \in Actors /\ "owner" \notin Writers /\ Writers \subseteq Actors
  BY Names
<1>a. ASSUME NEW h \in Handles, Answered(h), opening'.at # "copy", sync' = sync, request' = request PROVE Equipped'
  <2>1. /\ call'["sync"].at \in {"queued", "keys"} => call["sync"].at \in {"queued", "keys"} /\ call'["sync"] = call["sync"]
        /\ call'["sync"].at \notin {"queued", "keys"} => call["sync"].at \notin {"queued", "keys"}
    BY <1>a, <1>n DEF Answered
  <2>2. \A b \in Actors : call'[b].at = "opened" => call'[b].handle # 0 \/ (call'[b] = call[b] /\ call[b].at = "opened")
    BY <1>a DEF Answered
  <2>3. call'["owner"].at \in {"releasing", "closing", "update"} => call'["owner"].at = call["owner"].at
    BY <1>a, <1>n DEF Answered
  <2>4. \A w \in Writers :
          /\ call'[w].at = "written" => call'[w].handle = call[w].handle /\ call[w].at = "written"
          /\ call'[w].at \in {"queued"} \cup Working => call'[w].key = call[w].key /\ call[w].at \in {"queued"} \cup Working
    BY <1>a, <1>n DEF Answered, Working
  <2> QED
    BY <1>a, <1>n, <2>1, <2>2, <2>3, <2>4 DEF Equipped
<1>1. ASSUME OpenDriver PROVE Equipped'
  <2>1. CASE Attached = driver
    <3>1. Answered(active) /\ opening' = NotOpening
      BY <1>1, <2>1, OpeningEnds DEF OpenDriver, TypeOK
    <3>2. opening'.at # "copy" /\ active \in Handles
      BY <3>1, NoOpening DEF TypeOK
    <3> QED
      BY <1>1, <1>a, <3>1, <3>2 DEF OpenDriver
  <2>2. CASE Attached # driver
    <3>1. opening'.at \in Providers /\ call' = call
      BY <1>1, <2>2 DEF OpenDriver, TypeOK, OpeningState
    <3>2. opening'.at # "copy"
      BY <3>1, Names
    <3> QED
      BY <1>1, <3>1, <3>2 DEF OpenDriver, Equipped
  <2> QED
    BY <2>1, <2>2
<1>2. ASSUME OpenFails \/ CopyFails PROVE Equipped'
  <2>1. 0 \in Handles /\ EndOpening(0)
    BY <1>2 DEF OpenFails, CopyFails, Handles, TypeOK
  <2>2. Answered(0) /\ opening'.at # "copy"
    BY <2>1, OpeningEnds, NoOpening DEF TypeOK
  <2> QED
    BY <1>2, <1>a, <2>1, <2>2 DEF OpenFails, CopyFails
<1>3. ASSUME OpenProvider PROVE Equipped'
  <2>1. opening'.handle = Len(handles) + 1 /\ Len(handles') = Len(handles) + 1 /\ Len(handles) \in Nat
    BY <1>3 DEF OpenProvider, TypeOK
  <2> QED
    BY <1>3, <2>1 DEF OpenProvider, Equipped
<1>4. ASSUME NEW k \in Keys, Copy(k) PROVE Equipped'
  <2>1. opening'.handle = opening.handle /\ opening.at = "copy"
    BY <1>4 DEF Copy, TypeOK, OpeningState
  <2> QED
    BY <1>4, <2>1 DEF Copy, Equipped
<1>6. ASSUME OpenDone PROVE Equipped'
  <2>1. opening.handle \in Handles /\ EndOpening(opening.handle)
    BY <1>6, OpeningFields DEF OpenDone, TypeOK
  <2>2. Answered(opening.handle) /\ opening'.at # "copy"
    BY <2>1, OpeningEnds, NoOpening DEF TypeOK
  <2> QED
    BY <1>6, <1>a, <2>1, <2>2 DEF OpenDone
<1>7. ASSUME Poll PROVE Equipped'
  <2>1. opening'.at = "driver"
    BY <1>7, NoOpening DEF Poll, NewOpening, TypeOK
  <2> QED
    BY <1>7, <2>1 DEF Poll, Equipped
<1> QED
  BY <1>1, <1>2, <1>3, <1>4, <1>6, <1>7 DEF OpenStep

(* A step of one actor, other than the owner or the reconciliation.        *)
LEMMA EquippedMove ==
    ASSUME TypeOK, Equipped, NEW a \in Writers \cup Turns, Stay({a}), Looks,
           UNCHANGED <<handles, request, sync>>,
           call'[a].at \in {"opened", "written"} => call'[a].handle # 0,
           a \in Writers /\ call'[a].at \in {"queued"} \cup Working => call'[a].key \in Keys
    PROVE  Equipped'
<1>n. /\ a \in Actors /\ a # "sync" /\ a # "owner" /\ "sync" \in Actors /\ "owner" \in Actors
      /\ Writers \subseteq Actors
  BY Names
<1>1. call'["sync"] = call["sync"] /\ call'["owner"] = call["owner"]
  BY <1>n DEF Stay
<1>2. \A b \in Actors : b # a => call'[b] = call[b]
  BY DEF Stay
<1>3. opening'.at = "copy" => opening' = opening
  BY LooksAsks DEF TypeOK
<1> QED
  BY <1>n, <1>1, <1>2, <1>3 DEF Equipped

(* A write goes on with the computer it was given.                       *)
LEMMA EquippedWrite ==
    ASSUME TypeOK, Queue, Equipped, NEW w \in Writers, WriteStep(w) \/ \E k \in Keys : Write(w, k)
    PROVE  Equipped'
<1> USE DEF kept, machines, noted, bounds
<1>w. w \in Actors /\ w # "owner" /\ w \in Writers \cup Turns
  BY Names
<1>1. ASSUME NEW k \in Keys, Write(w, k) PROVE Equipped'
  <2>1. call'[w].at = "queued" /\ call'[w].key = k /\ Stay({w})
    BY <1>1, <1>w DEF Write, Stay, TypeOK, CallState
  <2> QED
    BY <1>1, <1>w, <2>1, EquippedMove DEF Write, Looks
<1>2. ASSUME WritePut(w) PROVE Equipped'
  <2>1. call'[w].at = "put" /\ call'[w].key = call[w].key /\ Stay({w})
    BY <1>2, <1>w, AtGoes DEF WritePut, TypeOK, Spots
  <2> QED
    BY <1>2, <1>w, <2>1, EquippedMove DEF WritePut, Looks, Equipped
<1>3. ASSUME WriteAttach(w) PROVE Equipped'
  <2>1. CASE IsDirect(driver)
    <3>1. call'[w].at = "done" /\ Stay({w}) /\ Looks
      BY <1>3, <1>w, <2>1, EndsGoes, IdleState DEF WriteAttach, TypeOK, Looks
    <3> QED
      BY <1>3, <1>w, <3>1, EquippedMove DEF WriteAttach, Working
  <2>2. CASE ~IsDirect(driver)
    <3>1. call'[w].at = "opening" /\ call'[w].key = call[w].key /\ Stay({w}) /\ Looks
      BY <1>3, <1>w, <2>2, ResolveGoes DEF WriteAttach, TypeOK
    <3>2. call[w].key \in Keys
      BY <1>3 DEF WriteAttach, Equipped, Working
    <3> QED
      BY <1>3, <1>w, <3>1, <3>2, EquippedMove DEF WriteAttach
  <2> QED
    BY <2>1, <2>2
<1>4. ASSUME WriteFile(w) PROVE Equipped'
  <2>1. call'[w].at = "written" /\ call'[w].key = call[w].key /\ call'[w].handle = call[w].handle /\ Stay({w})
    BY <1>4, <1>w, AtGoes DEF WriteFile, TypeOK, Spots
  <2>2. call[w].key \in Keys /\ call[w].handle # 0
    BY <1>4, <1>w DEF WriteFile, Equipped, Working
  <2> QED
    BY <1>4, <1>w, <2>1, <2>2, EquippedMove DEF WriteFile, Looks
<1>5. ASSUME WriteMark(w) \/ WriteFails(w) PROVE Equipped'
  <2>1. Ends(w) /\ UNCHANGED <<handles, request, sync, opening>>
    BY <1>5 DEF WriteMark, WriteFails
  <2>2. call'[w].at = "done" /\ Stay({w})
    BY <1>w, <2>1, EndsGoes, IdleState DEF TypeOK
  <2> QED
    BY <1>w, <2>1, <2>2, EquippedMove DEF Looks, Working
<1> QED
  BY <1>1, <1>2, <1>3, <1>4, <1>5 DEF WriteStep

(* So does a turn.                                                       *)
LEMMA EquippedTurn ==
    ASSUME TypeOK, Equipped, NEW t \in Turns,
           TurnStart(t) \/ TurnEnds(t) \/ \E k \in Keys, c \in {t, Nothing} : TurnEdits(t, k, c)
    PROVE  Equipped'
<1> USE DEF kept, machines, noted, bounds
<1>t. t \in Actors /\ t \notin Writers /\ t # "sync" /\ t # "owner" /\ t \in Writers \cup Turns
  BY Names, StorageAssumption
<1>1. ASSUME TurnStart(t) PROVE Equipped'
  <2>1. call'[t].at = "opening" /\ Stay({t}) /\ Looks
    BY <1>1, <1>t, ResolveGoes DEF TurnStart, TypeOK
  <2> QED
    BY <1>1, <1>t, <2>1, EquippedMove DEF TurnStart
<1>2. ASSUME NEW k \in Keys, NEW c \in {t, Nothing}, TurnEdits(t, k, c) PROVE Equipped'
  <2>1. UNCHANGED <<handles, request, call, opening>>
    BY <1>2 DEF TurnEdits
  <2>2. sync' = sync \/ (sync.handle # 0 /\ sync' = [sync EXCEPT !.same = sync.same \ {k}])
    BY <1>2 DEF TurnEdits, Changed
  <2>3. sync'.handle = sync.handle /\ sync'.todo = sync.todo /\ sync'.seen = sync.seen
    BY <2>2 DEF TypeOK, SyncState
  <2>4. sync = NotSyncing => sync' = sync
    BY <2>2, NoFlight DEF TypeOK
  <2> QED
    BY <2>1, <2>3, <2>4 DEF Equipped
<1>3. ASSUME TurnEnds(t) PROVE Equipped'
  <2>1. CASE call["sync"].at = "idle"
    <3>1. Looks /\ UNCHANGED <<handles, request, sync>>
      BY <1>3, <2>1 DEF TurnEnds, Looks, NewOpening
    <3>2. call'["sync"].at = "opening" /\ call'[t].at = "done" /\ Stay({t, "sync"})
      BY <1>3, <1>t, <2>1, Names DEF TurnEnds, Stay, TypeOK, CallState, Idle
    <3>3. opening'.at = "copy" => opening' = opening
      BY <3>1, LooksAsks DEF TypeOK
    <3> QED
      BY <1>t, <2>1, <3>1, <3>2, <3>3, Names DEF Stay, Equipped
  <2>2. CASE call["sync"].at # "idle"
    <3>1. call'[t].at = "done" /\ Stay({t})
      BY <1>3, <1>t, <2>2, EndsGoes, IdleState DEF TurnEnds, TypeOK
    <3> QED
      BY <1>3, <1>t, <2>2, <3>1, EquippedMove DEF TurnEnds, Looks
  <2> QED
    BY <2>1, <2>2
<1> QED
  BY <1>1, <1>2, <1>3

(* A reconciliation works on the computer it was given until its flight  *)
(* ends.                                                                 *)
LEMMA EquippedSync ==
    ASSUME TypeOK, Equipped, SyncNow \/ SyncStep
    PROVE  Equipped'
<1> USE DEF kept, machines, noted, bounds
<1>s. /\ "sync" \in Actors /\ "owner" \in Actors /\ "sync" \notin Writers /\ "owner" \notin Writers
      /\ Writers \subseteq Actors
  BY Names
<1>1. ASSUME SyncNow PROVE Equipped'
  <2>1. call'["sync"].at = "opening" /\ Stay({"sync"}) /\ Looks /\ call["sync"].at = "idle"
    BY <1>1, <1>s, ResolveGoes DEF SyncNow, TypeOK
  <2>2. opening'.at = "copy" => opening' = opening
    BY <2>1, LooksAsks DEF TypeOK
  <2> QED
    BY <1>1, <1>s, <2>1, <2>2 DEF SyncNow, Stay, Equipped
<1>2. ASSUME SyncAttach PROVE Equipped'
  <2>1. call["sync"].at = "opened"
    BY <1>2 DEF SyncAttach
  <2>2. call'["sync"].at = "queued" /\ call'["sync"].handle = call["sync"].handle /\ Stay({"sync"})
    BY <1>2, <1>s, AtGoes DEF SyncAttach, TypeOK, Spots, Places
  <2>3. sync'.handle = call["sync"].handle /\ sync'.todo = {}
    BY <1>2 DEF SyncAttach, NotSyncing
  <2>4. call["sync"].handle # 0
    BY <1>s, <2>1 DEF Equipped
  <2> QED
    BY <1>2, <1>s, <2>2, <2>3, <2>4 DEF SyncAttach, Stay, Equipped
<1>3. ASSUME SyncScan PROVE Equipped'
  <2>1. call["sync"].at = "queued"
    BY <1>3 DEF SyncScan
  <2>2. call'["sync"].at = "keys" /\ call'["sync"].handle = call["sync"].handle /\ Stay({"sync"})
    BY <1>3, <1>s, AtGoes DEF SyncScan, TypeOK, Spots
  <2>3. sync'.handle = sync.handle /\ \A k \in sync'.todo : sync'.seen[k] # Nothing
    BY <1>3 DEF SyncScan, TypeOK, SyncState
  <2> QED
    BY <1>3, <1>s, <2>1, <2>2, <2>3 DEF SyncScan, Stay, Equipped
<1>4. ASSUME SyncFails \/ SyncDelete PROVE Equipped'
  <2>1. UNCHANGED <<opening, handles, request>> /\ \E ok \in BOOLEAN : EndSync(ok)
    BY <1>4 DEF SyncFails, SyncDelete
  <2>2. /\ call'["sync"].at = "idle" /\ Stay({"sync", "owner"}) /\ sync' = NotSyncing
        /\ call'["owner"].handle = call["owner"].handle
        /\ call'["owner"].at = call["owner"].at \/ call'["owner"].at = "refused"
    BY <2>1, FlightEnds, IdleState DEF TypeOK
  <2>3. NotSyncing.todo = {}
    BY DEF NotSyncing
  <2>4. sync'.todo = {}
    BY <2>2, <2>3
  <2> QED
    BY <1>s, <2>1, <2>2, <2>4 DEF Stay, Equipped
<1>5. ASSUME NEW k \in Keys, SyncKey(k) PROVE Equipped'
  <2>1. UNCHANGED <<opening, handles, request, call>> /\ call["sync"].at = "keys"
    BY <1>5 DEF SyncKey
  <2>2. sync'.handle = sync.handle /\ sync'.seen = sync.seen /\ sync'.todo \subseteq sync.todo
    BY <1>5 DEF SyncKey, TypeOK, SyncState
  <2> QED
    BY <2>1, <2>2 DEF Equipped
<1> QED
  BY <1>1, <1>2, <1>3, <1>4, <1>5 DEF SyncStep

(* The owner destroys the computer it was given, and asks again after a  *)
(* switch.                                                               *)
LEMMA EquippedOwner ==
    ASSUME TypeOK, Equipped, OwnerStep \/ \E kind \in Requests, id \in Providers : Ask(kind, id)
    PROVE  Equipped'
<1> USE DEF kept, machines, noted, bounds
<1>o. /\ "sync" \in Actors /\ "owner" \in Actors /\ "sync" # "owner" /\ "owner" \notin Writers
      /\ Writers \subseteq Actors
  BY Names
<1>m. Stay({"owner"}) /\ Looks /\ UNCHANGED <<handles, sync>>
  BY OwnerMoves DEF OwnerStep, Ask, OwnerDestroys, OwnerReleases, OwnerCloses, OwnerClears, OwnerSwitches, OwnerDone
<1>c. opening'.at = "copy" => opening' = opening
  BY <1>m, LooksAsks DEF TypeOK
<1>q. ASSUME /\ call'["owner"].at = "opened" /\ request'.step = "destroy" => call'["owner"].handle # 0
             /\ request'.kind = "switch" => request'.id \in Providers
             /\ call'["owner"].at \in {"releasing", "closing", "update"} => request'.step = "release"
             /\ call'["owner"].at = "update" => request'.kind = "switch"
      PROVE  Equipped'
  BY <1>o, <1>m, <1>c, <1>q DEF Stay, Equipped
<1>p. \A place \in Spots : At("owner", place) => call'["owner"].at = place
  BY <1>o, AtGoes DEF TypeOK
<1>r. /\ Resolve("owner") => call'["owner"].at = "opening"
      /\ OwnerRests => call'["owner"].at = "idle" /\ request' = NoRequest
  BY <1>o, ResolveGoes, OwnerGoes, IdleState DEF TypeOK
<1>n. NoRequest.kind = "none"
  BY DEF NoRequest
<1>1. ASSUME NEW kind \in Requests, NEW id \in Providers, Ask(kind, id) PROVE Equipped'
  <2>1. CASE kind = "destroy"
    <3>1. call'["owner"].at = "opening" /\ request'.kind = "destroy"
      BY <1>1, <1>r, <2>1 DEF Ask
    <3> QED
      BY <1>q, <3>1
  <2>2. CASE kind # "destroy"
    <3>1. call'["owner"].at \in {"opened", "opening"} /\ request'.step = "release" /\ request'.id = id
      BY <1>1, <1>p, <2>2 DEF Ask, Spots, Places
    <3> QED
      BY <1>q, <3>1
  <2> QED
    BY <2>1, <2>2
<1>2. ASSUME OwnerDestroys PROVE Equipped'
  <2>1. AwaitOpening("release")
    BY <1>2 DEF OwnerDestroys
  <2>2. call'["owner"].at \in {"opened", "opening"}
    BY <1>p, <2>1 DEF AwaitOpening, Spots, Places
  <2>3. request'.step = "release" /\ request'.kind = request.kind /\ request'.id = request.id
    BY <2>1 DEF AwaitOpening, TypeOK, RequestState
  <2> QED
    BY <1>q, <2>2, <2>3 DEF Equipped
<1>3. ASSUME OwnerReleases \/ OwnerDone PROVE Equipped'
  <2>1. CASE OwnerRests
    BY <1>q, <1>r, <1>n, <2>1
  <2>2. CASE At("owner", "releasing") /\ UNCHANGED request /\ request.step = "release"
    <3>1. call'["owner"].at = "releasing"
      BY <1>p, <2>2 DEF Spots
    <3> QED
      BY <1>q, <2>2, <3>1 DEF Equipped
  <2> QED
    BY <1>3, <2>1, <2>2 DEF OwnerReleases, OwnerDone
<1>4. ASSUME OwnerCloses PROVE Equipped'
  <2>1. call'["owner"].at = "closing" /\ request' = request /\ call["owner"].at = "releasing"
    BY <1>4, <1>p DEF OwnerCloses, Spots
  <2> QED
    BY <1>q, <2>1 DEF Equipped
<1>5. ASSUME OwnerClears PROVE Equipped'
  <2>1. CASE OwnerRests
    BY <1>q, <1>r, <1>n, <2>1
  <2>2. CASE At("owner", "update") /\ UNCHANGED request /\ request.kind = "switch"
    <3>1. call'["owner"].at = "update"
      BY <1>p, <2>2 DEF Spots
    <3>2. request.step = "release"
      BY <1>5 DEF OwnerClears, Equipped
    <3> QED
      BY <1>q, <2>2, <3>1, <3>2 DEF Equipped
  <2> QED
    BY <1>5, <2>1, <2>2 DEF OwnerClears
<1>6. ASSUME OwnerSwitches PROVE Equipped'
  <2>1. call'["owner"].at = "opening"
    BY <1>6, <1>r DEF OwnerSwitches
  <2>2. request'.kind = request.kind /\ request'.id = request.id
    BY <1>6 DEF OwnerSwitches, TypeOK, RequestState
  <2> QED
    BY <1>q, <2>1, <2>2 DEF Equipped
<1> QED
  BY <1>1, <1>2, <1>3, <1>4, <1>5, <1>6 DEF OwnerStep

-----------------------------------------------------------------------------
(* Which computer everybody has.                                           *)
Begins == opening'.at \in Providers \cup {"copy"}

(* A step in which nobody gets another one.                                *)
LEMMA AttachCalm ==
    ASSUME TypeOK, Attachments, UNCHANGED <<handles, driver, straddled>>, active' \in {0, active},
           Begins => opening'.at = opening.at /\ opening'.handle = opening.handle,
           call["owner"].at = "opening" /\ request.step = "initialize"
               => ~Begins \/ (call'["owner"].at = "opening" /\ request'.step = "initialize"),
           call'["owner"].at = "update" => call["owner"].at = "update" \/ active' = 0,
           \A a \in Actors : call'[a].handle \in {0, call[a].handle},
           \A w \in Writers :
               /\ call'[w].at \in {"opened", "written"}
                  => call[w].at \in {"opened", "written"} /\ call'[w].handle = call[w].handle
               /\ call'[w].at = "opening" => call[w].at = "opening" \/ ~IsDirect(driver),
           call'["sync"].at \in {"queued", "keys"} =>
               \/ call["sync"].at \in {"queued", "keys"} /\ sync'.direct = sync.direct
               \/ sync'.direct = IsDirect(driver)
    PROVE  Attachments'
<1>n. "sync" \in Actors /\ "owner" \in Actors /\ Writers \subseteq Actors
  BY Names
<1>p. \A h : Provider(h)' = Provider(h)
  BY DEF Provider
<1>1. SameComputer'
  BY DEF Attachments, SameComputer
<1>2. Chosen'
  BY <1>p DEF Attachments, Chosen, Begins
<1>3. AsChosen'
  BY <1>p DEF Attachments, AsChosen
<1>4. Remote'
  BY <1>p DEF Attachments, Remote
<1>5. Together'
  BY <1>n, <1>p DEF Attachments, Together, Begins
<1> QED
  BY <1>1, <1>2, <1>3, <1>4, <1>5 DEF Attachments

(* One that ends an opening.                                               *)
LEMMA AttachEnds ==
    ASSUME TypeOK, Attachments, UNCHANGED <<handles, driver, straddled, request, sync>>,
           NEW h \in Handles, Answered(h), opening' = NotOpening,
           \/ h = 0 /\ active' = active
           \/ h # 0 /\ h = active /\ active' = active /\ Provider(h) = driver
           \/ /\ h # 0 /\ active' = h /\ opening.at = "copy" /\ h = opening.handle
              /\ \A w \in Writers : call[w].at \notin Working
    PROVE  Attachments'
<1>n. "sync" \in Actors /\ "owner" \in Actors /\ Writers \subseteq Actors
  BY Names
<1>p. \A i : Provider(i)' = Provider(i)
  BY DEF Provider
<1>o. ~Begins
  BY NoOpening, Names DEF Begins, TypeOK
<1>u. /\ call'["owner"].at = "update" => call["owner"].at = "update"
      /\ call'["sync"].at \in {"queued", "keys"} => call["sync"].at \in {"queued", "keys"}
      /\ \A a \in Actors : call'[a].handle \in {h, call[a].handle}
      /\ \A w \in Writers :
            /\ call'[w].at # "opening"
            /\ call'[w].at \in {"opened", "written"} =>
                \/ call[w].at \in {"opened", "written"} /\ call'[w].handle = call[w].handle
                \/ call[w].at = "opening" /\ call'[w].handle = h /\ h # 0
  BY <1>n DEF Answered
<1>w. {"opening", "opened", "written"} \subseteq Working
  BY DEF Working
<1>1. SameComputer'
  BY <1>u, <1>w DEF Attachments, SameComputer
<1>2. Chosen'
  BY <1>o DEF Chosen, Begins
<1>3. AsChosen'
  BY <1>p, <1>u DEF Attachments, AsChosen, Chosen
<1>4. Remote'
  BY <1>p, <1>u, <1>w DEF Attachments, Remote
<1>5. Together'
  <2>1. ~straddled /\ h # 0 => Provider(h) = driver
    BY DEF Attachments, Together
  <2> QED
    BY <1>n, <1>p, <1>o, <1>u, <2>1 DEF Attachments, Together, Begins
<1> QED
  BY <1>1, <1>2, <1>3, <1>4, <1>5 DEF Attachments

(* What an opening attaches is the computer of the driver it looked at.  *)
LEMMA AttachOpen ==
    ASSUME TypeOK, Queue, Equipped, Attachments, OpenStep \/ Poll
    PROVE  Attachments'
<1> USE DEF kept, machines, noted, bounds
<1>n. /\ "sync" \in Actors /\ "owner" \in Actors /\ Writers \subseteq Actors /\ "open" \in Lockers
      /\ Writers \subseteq Lockers /\ "open" \notin Writers /\ driver # Nothing
      /\ Providers \cap {"no", "driver", "copy"} = {}
  BY Names DEF TypeOK
<1>1. ASSUME OpenDriver PROVE Attachments'
  <2>1. CASE Attached = driver
    <3>1. Answered(active) /\ opening' = NotOpening /\ active \in Handles
      BY <1>1, <2>1, OpeningEnds DEF OpenDriver, TypeOK
    <3>2. active # 0 /\ Provider(active) = driver
      BY <1>n, <2>1 DEF Attached
    <3> QED
      BY <1>1, <3>1, <3>2, AttachEnds DEF OpenDriver
  <2>2. CASE Attached # driver
    <3>1. opening'.at = driver /\ driver \in Providers /\ UNCHANGED <<call, handles, driver, straddled, request, sync, active>>
      BY <1>1, <2>2 DEF OpenDriver, TypeOK, OpeningState
    <3>2. \A h : Provider(h)' = Provider(h)
      BY <3>1 DEF Provider
    <3> QED
      BY <1>n, <3>1, <3>2 DEF Attachments, SameComputer, Chosen, AsChosen, Remote, Together
  <2> QED
    BY <2>1, <2>2
<1>2. ASSUME OpenFails \/ CopyFails PROVE Attachments'
  <2>1. 0 \in Handles /\ EndOpening(0) /\ UNCHANGED <<handles, driver, straddled, request, sync, active>>
    BY <1>2 DEF OpenFails, CopyFails, Handles, TypeOK
  <2>2. Answered(0) /\ opening' = NotOpening
    BY <2>1, OpeningEnds DEF TypeOK
  <2> QED
    BY <2>1, <2>2, AttachEnds
<1>3. ASSUME OpenProvider PROVE Attachments'
  <2>1. /\ opening.at \in Providers /\ handles' = Append(handles, opening.at)
        /\ opening'.at = "copy" /\ opening'.handle = Len(handles) + 1
        /\ UNCHANGED <<call, driver, straddled, request, sync, active>>
    BY <1>3 DEF OpenProvider
  <2>2. /\ \A h \in 1..Len(handles) : Provider(h)' = Provider(h)
        /\ handles'[Len(handles) + 1] = opening.at
    BY <2>1, TypesGrow DEF TypeOK, Provider
  <2>3. \A a \in Actors : call[a].handle # 0 => call[a].handle \in 1..Len(handles)
    BY Computer
  <2>4. active # 0 => active \in 1..Len(handles)
    BY ContentTypes DEF TypeOK
  <2>5. \A w \in Writers : call[w].at \in {"opened", "written"} => call[w].handle # 0
    BY <1>n, Names DEF Equipped
  <2>6. SameComputer' /\ AsChosen'
    BY <2>1, <2>2, <2>4 DEF Attachments, SameComputer, AsChosen
  <2>7. Chosen'
    BY <1>n, <2>1, <2>2 DEF Attachments, Chosen, Provider
  <2>8. Remote'
    BY <1>n, <2>1, <2>2, <2>3, <2>4, <2>5 DEF Attachments, Remote
  <2>9. Together'
    BY <1>n, <2>1, <2>2, <2>3, <2>4 DEF Attachments, Together, Provider
  <2> QED
    BY <2>6, <2>7, <2>8, <2>9 DEF Attachments
<1>4. ASSUME NEW k \in Keys, Copy(k) PROVE Attachments'
  <2>1. /\ opening'.at = opening.at /\ opening'.handle = opening.handle
        /\ UNCHANGED <<call, handles, driver, straddled, request, sync, active>>
    BY <1>4 DEF Copy, TypeOK, OpeningState
  <2> QED
    BY <1>n, <2>1, AttachCalm
<1>6. ASSUME OpenDone PROVE Attachments'
  <2>1. /\ opening.handle \in Handles /\ EndOpening(opening.handle) /\ opening.at = "copy" /\ Holds("open")
        /\ active' = opening.handle /\ UNCHANGED <<handles, driver, straddled, request, sync>>
    BY <1>6, OpeningFields DEF OpenDone, TypeOK
  <2>2. Answered(opening.handle) /\ opening' = NotOpening /\ opening.handle # 0
    BY <2>1, OpeningEnds DEF TypeOK, Equipped
  <2>3. \A w \in Writers : call[w].at \notin Working
    BY <1>n, <2>1, OneInside, Askers
  <2> QED
    BY <2>1, <2>2, <2>3, AttachEnds
<1>7. ASSUME Poll PROVE Attachments'
  <2>1. opening'.at = "driver" /\ UNCHANGED <<call, handles, driver, straddled, request, sync, active>>
    BY <1>7, NoOpening DEF Poll, NewOpening, TypeOK
  <2>2. ~Begins
    BY <1>n, <2>1 DEF Begins
  <2> QED
    BY <1>n, <2>1, <2>2, AttachCalm
<1> QED
  BY <1>1, <1>2, <1>3, <1>4, <1>6, <1>7 DEF OpenStep

(* One that looks at the driver begins nothing.                            *)
LEMMA LooksBegins ==
    ASSUME TypeOK, Looks, Begins
    PROVE  opening' = opening
<1>1. NewOpening.at = "driver"
  BY NoOpening DEF TypeOK
<1> QED
  BY <1>1, Names DEF Looks, Begins

(* A write works on the computer that is open.                           *)
LEMMA AttachWrite ==
    ASSUME TypeOK, Attachments, NEW w \in Writers, WriteStep(w) \/ \E k \in Keys : Write(w, k)
    PROVE  Attachments'
<1> USE DEF kept, machines, noted, bounds
<1>w. /\ w \in Actors /\ w # "owner" /\ w # "sync" /\ "sync" \in Actors /\ "owner" \in Actors
      /\ Writers \subseteq Actors
  BY Names
<1>q. ASSUME Stay({w}), Looks, UNCHANGED <<handles, driver, straddled, active, request, sync>>,
             call'[w].handle \in {0, call[w].handle},
             call'[w].at \in {"opened", "written"} => call[w].at = "opened" /\ call'[w].handle = call[w].handle,
             call'[w].at = "opening" => ~IsDirect(driver)
      PROVE  Attachments'
  <2>1. Begins => opening'.at = opening.at /\ opening'.handle = opening.handle
    BY <1>q, LooksBegins
  <2>2. \A b \in Actors : b # w => call'[b] = call[b]
    BY <1>q DEF Stay
  <2> QED
    BY <1>w, <1>q, <2>1, <2>2, AttachCalm
<1>1. ASSUME NEW k \in Keys, Write(w, k) PROVE Attachments'
  <2>1. call'[w].at = "queued" /\ call'[w].handle = call[w].handle /\ Stay({w})
    <3> DEFINE c == [call[w] EXCEPT !.at = "queued", !.key = k]
    <3>1. call[w] \in CallState
      BY <1>w DEF TypeOK
    <3>2. c \in CallState /\ c.at = "queued" /\ c.handle = call[w].handle
      BY <3>1 DEF CallState, Places
    <3>3. call' = [call EXCEPT ![w] = c]
      BY <1>1 DEF Write
    <3> HIDE DEF c
    <3> QED
      BY <1>w, <3>2, <3>3, CallGoes DEF TypeOK
  <2>2. UNCHANGED <<handles, driver, straddled, active, request, sync, opening>>
    BY <1>1 DEF Write
  <2> QED
    BY <1>q, <2>1, <2>2 DEF Looks
<1>2. ASSUME WritePut(w) PROVE Attachments'
  <2>1. call'[w].at = "put" /\ call'[w].handle = call[w].handle /\ Stay({w})
    BY <1>2, <1>w, AtGoes DEF WritePut, TypeOK, Spots
  <2> QED
    BY <1>2, <1>q, <2>1 DEF WritePut, Looks
<1>3. ASSUME WriteAttach(w) PROVE Attachments'
  <2>1. CASE IsDirect(driver)
    <3>1. call'[w].at = "done" /\ call'[w].handle = 0 /\ Stay({w}) /\ Looks
      BY <1>3, <1>w, <2>1, EndsGoes, IdleState DEF WriteAttach, TypeOK, Looks
    <3> QED
      BY <1>3, <1>q, <3>1 DEF WriteAttach
  <2>2. CASE ~IsDirect(driver)
    <3>1. call'[w].at = "opening" /\ call'[w].handle = call[w].handle /\ Stay({w}) /\ Looks
      BY <1>3, <1>w, <2>2, ResolveGoes DEF WriteAttach, TypeOK
    <3> QED
      BY <1>3, <1>q, <2>2, <3>1 DEF WriteAttach
  <2> QED
    BY <2>1, <2>2
<1>4. ASSUME WriteFile(w) PROVE Attachments'
  <2>1. call'[w].at = "written" /\ call'[w].handle = call[w].handle /\ Stay({w}) /\ call[w].at = "opened"
    BY <1>4, <1>w, AtGoes DEF WriteFile, TypeOK, Spots
  <2> QED
    BY <1>4, <1>q, <2>1 DEF WriteFile, Looks
<1>5. ASSUME WriteMark(w) \/ WriteFails(w) PROVE Attachments'
  <2>1. Ends(w) /\ UNCHANGED <<handles, driver, straddled, active, request, sync, opening>>
    BY <1>5 DEF WriteMark, WriteFails
  <2>2. call'[w].at = "done" /\ call'[w].handle = 0 /\ Stay({w})
    BY <1>w, <2>1, EndsGoes, IdleState DEF TypeOK
  <2> QED
    BY <1>q, <2>1, <2>2 DEF Looks
<1> QED
  BY <1>1, <1>2, <1>3, <1>4, <1>5 DEF WriteStep

(* A turn that works on a computer changes no attachment.                *)
LEMMA AttachTurn ==
    ASSUME TypeOK, Attachments, NEW t \in Turns,
           TurnStart(t) \/ TurnEnds(t) \/ \E k \in Keys, c \in {t, Nothing} : TurnEdits(t, k, c)
    PROVE  Attachments'
<1> USE DEF kept, machines, noted, bounds
<1>t. /\ t \in Actors /\ t \notin Writers /\ t # "sync" /\ t # "owner" /\ "sync" \in Actors /\ "owner" \in Actors
      /\ Writers \subseteq Actors /\ "sync" \notin Writers /\ "owner" # "sync"
  BY Names, StorageAssumption
<1>q. ASSUME Stay({t, "sync"}), Looks, UNCHANGED <<handles, driver, straddled, active, request>>,
             \A a \in {t, "sync"} : call'[a].handle \in {0, call[a].handle},
             call'["sync"].at \in {"queued", "keys"} => call["sync"].at = call'["sync"].at /\ sync'.direct = sync.direct
      PROVE  Attachments'
  <2>1. Begins => opening'.at = opening.at /\ opening'.handle = opening.handle
    BY <1>q, LooksBegins
  <2>2. \A b \in Actors : b # t /\ b # "sync" => call'[b] = call[b]
    BY <1>q DEF Stay
  <2> QED
    BY <1>t, <1>q, <2>1, <2>2, AttachCalm
<1>1. ASSUME TurnStart(t) PROVE Attachments'
  <2>1. call'[t].handle = call[t].handle /\ Stay({t}) /\ Looks
    BY <1>1, <1>t, ResolveGoes DEF TurnStart, TypeOK
  <2>2. Stay({t, "sync"}) /\ call'["sync"] = call["sync"]
    BY <1>t, <2>1 DEF Stay
  <2> QED
    BY <1>1, <1>q, <2>1, <2>2 DEF TurnStart
<1>2. ASSUME NEW k \in Keys, NEW c \in {t, Nothing}, TurnEdits(t, k, c) PROVE Attachments'
  <2>1. UNCHANGED <<handles, driver, straddled, active, request, call, opening>>
    BY <1>2 DEF TurnEdits
  <2>2. sync'.direct = sync.direct
    BY <1>2 DEF TurnEdits, Changed, TypeOK, SyncState
  <2> QED
    BY <1>q, <2>1, <2>2 DEF Looks, Stay
<1>3. ASSUME TurnEnds(t) PROVE Attachments'
  <2>1. UNCHANGED <<handles, driver, straddled, active, request, sync>>
    BY <1>3 DEF TurnEnds
  <2>2. CASE call["sync"].at = "idle"
    <3>1. Looks
      BY <1>3, <2>2 DEF TurnEnds, Looks, NewOpening
    <3>2. call'["sync"].at = "opening" /\ call'["sync"].handle = call["sync"].handle /\ call'[t].handle = 0 /\ Stay({t, "sync"})
      BY <1>3, <1>t, <2>2 DEF TurnEnds, Stay, TypeOK, CallState, Idle
    <3> QED
      BY <1>q, <2>1, <3>1, <3>2
  <2>3. CASE call["sync"].at # "idle"
    <3>1. call'[t].handle = 0 /\ Stay({t}) /\ Looks
      BY <1>3, <1>t, <2>3, EndsGoes, IdleState DEF TurnEnds, TypeOK, Looks
    <3>2. Stay({t, "sync"}) /\ call'["sync"] = call["sync"]
      BY <1>t, <3>1 DEF Stay
    <3> QED
      BY <1>q, <2>1, <3>1, <3>2
  <2> QED
    BY <2>2, <2>3
<1> QED
  BY <1>1, <1>2, <1>3

(* A reconciliation keeps the attachment with which it began.            *)
LEMMA AttachSync ==
    ASSUME TypeOK, Attachments, SyncNow \/ SyncStep
    PROVE  Attachments'
<1> USE DEF kept, machines, noted, bounds
<1>s. /\ "sync" \in Actors /\ "owner" \in Actors /\ Writers \subseteq Actors
      /\ "sync" \notin Writers /\ "owner" \notin Writers /\ "owner" # "sync"
  BY Names
<1>q. ASSUME Stay({"sync", "owner"}), Looks, UNCHANGED <<handles, driver, straddled, active, request>>,
             call'["sync"].handle \in {0, call["sync"].handle},
             call'["owner"].handle = call["owner"].handle,
             call'["owner"].at = call["owner"].at \/ (call["owner"].at = "releasing" /\ call'["owner"].at = "refused"),
             call'["sync"].at \in {"queued", "keys"} =>
                \/ call["sync"].at \in {"queued", "keys"} /\ sync'.direct = sync.direct
                \/ sync'.direct = IsDirect(driver)
      PROVE  Attachments'
  <2>1. Begins => opening'.at = opening.at /\ opening'.handle = opening.handle
    BY <1>q, LooksBegins
  <2>2. \A b \in Actors : b # "owner" /\ b # "sync" => call'[b] = call[b]
    BY <1>q DEF Stay
  <2> QED
    BY <1>s, <1>q, <2>1, <2>2, AttachCalm
<1>y. Stay({"sync"}) => Stay({"sync", "owner"}) /\ call'["owner"] = call["owner"]
  BY <1>s DEF Stay
<1>1. ASSUME SyncNow PROVE Attachments'
  <2>1. call'["sync"].at = "opening" /\ call'["sync"].handle = call["sync"].handle /\ Stay({"sync"}) /\ Looks
    BY <1>1, <1>s, ResolveGoes DEF SyncNow, TypeOK
  <2> QED
    BY <1>1, <1>q, <1>y, <2>1 DEF SyncNow
<1>2. ASSUME SyncAttach PROVE Attachments'
  <2>1. call'["sync"].handle = call["sync"].handle /\ Stay({"sync"}) /\ Looks
    BY <1>2, <1>s, AtGoes DEF SyncAttach, TypeOK, Spots, Places, Looks
  <2>2. sync'.direct = IsDirect(driver)
    BY <1>2 DEF SyncAttach, NotSyncing
  <2> QED
    BY <1>2, <1>q, <1>y, <2>1, <2>2 DEF SyncAttach
<1>3. ASSUME SyncScan PROVE Attachments'
  <2>1. call'["sync"].handle = call["sync"].handle /\ Stay({"sync"}) /\ Looks /\ call["sync"].at = "queued"
    BY <1>3, <1>s, AtGoes DEF SyncScan, TypeOK, Spots, Looks
  <2>2. sync'.direct = sync.direct
    BY <1>3 DEF SyncScan, TypeOK, SyncState
  <2> QED
    BY <1>3, <1>q, <1>y, <2>1, <2>2 DEF SyncScan
<1>4. ASSUME SyncFails \/ SyncDelete PROVE Attachments'
  <2>1. UNCHANGED <<opening, handles, request, driver, straddled, active>> /\ \E ok \in BOOLEAN : EndSync(ok)
    BY <1>4 DEF SyncFails, SyncDelete
  <2>2. /\ call'["sync"].at = "idle" /\ call'["sync"].handle = 0 /\ Stay({"sync", "owner"})
        /\ call'["owner"].handle = call["owner"].handle
        /\ \/ call'["owner"].at = call["owner"].at
           \/ call["owner"].at = "releasing" /\ call'["owner"].at = "refused"
    BY <2>1, FlightEnds, IdleState DEF TypeOK
  <2> QED
    BY <1>q, <2>1, <2>2 DEF Looks
<1>5. ASSUME NEW k \in Keys, SyncKey(k) PROVE Attachments'
  <2>1. UNCHANGED <<opening, handles, request, call, driver, straddled, active>> /\ call["sync"].at = "keys"
    BY <1>5 DEF SyncKey
  <2>2. sync'.direct = sync.direct
    BY <1>5 DEF SyncKey, TypeOK, SyncState
  <2> QED
    BY <1>q, <2>1, <2>2 DEF Looks, Stay
<1> QED
  BY <1>1, <1>2, <1>3, <1>4, <1>5 DEF SyncStep

(* The owner changes the driver when nothing is open, or marks the       *)
(* switch as straddled.                                                  *)
LEMMA AttachOwner ==
    ASSUME TypeOK, Equipped, Attachments, OwnerStep \/ \E kind \in Requests, id \in Providers : Ask(kind, id)
    PROVE  Attachments'
<1> USE DEF kept, machines, noted, bounds
<1>o. /\ "sync" \in Actors /\ "owner" \in Actors /\ "sync" # "owner" /\ "owner" \notin Writers
      /\ Writers \subseteq Actors
  BY Names
<1>m. Stay({"owner"}) /\ Looks /\ UNCHANGED <<handles, sync>>
  BY OwnerMoves DEF OwnerStep, Ask, OwnerDestroys, OwnerReleases, OwnerCloses, OwnerClears, OwnerSwitches, OwnerDone
<1>b. \A b \in Actors : b # "owner" => call'[b] = call[b]
  BY <1>m DEF Stay
<1>q. ASSUME UNCHANGED <<driver, straddled>>, active' \in {0, active},
             call["owner"].at = "opening" /\ request.step = "initialize" => FALSE,
             call'["owner"].at = "update" => active' = 0,
             call'["owner"].handle \in {0, call["owner"].handle}
      PROVE  Attachments'
  <2>1. Begins => opening'.at = opening.at /\ opening'.handle = opening.handle
    BY <1>m, LooksBegins
  <2> QED
    BY <1>o, <1>m, <1>b, <1>q, <2>1, AttachCalm
<1>p. \A place \in Spots : At("owner", place) => call'["owner"].at = place /\ call'["owner"].handle = call["owner"].handle
  BY <1>o, AtGoes DEF TypeOK
<1>r. /\ Resolve("owner") => call'["owner"].at = "opening" /\ call'["owner"].handle = call["owner"].handle
      /\ OwnerRests => call'["owner"].at = "idle" /\ call'["owner"].handle = 0
  BY <1>o, ResolveGoes, OwnerGoes, IdleState DEF TypeOK
<1>1. ASSUME NEW kind \in Requests, NEW id \in Providers, Ask(kind, id) PROVE Attachments'
  <2>1. UNCHANGED <<driver, straddled, active>> /\ call["owner"].at = "idle"
    BY <1>1 DEF Ask
  <2>2. call'["owner"].at # "update" /\ call'["owner"].handle = call["owner"].handle
    <3>1. CASE kind = "destroy"
      BY <1>1, <1>r, <3>1 DEF Ask
    <3>2. CASE kind # "destroy"
      BY <1>1, <1>p, <3>2 DEF Ask, Spots, Places
    <3> QED
      BY <3>1, <3>2
  <2> QED
    BY <1>q, <2>1, <2>2
<1>2. ASSUME OwnerDestroys PROVE Attachments'
  <2>1. UNCHANGED <<driver, straddled, active>> /\ call["owner"].at = "opened" /\ AwaitOpening("release")
    BY <1>2 DEF OwnerDestroys
  <2>2. call'["owner"].at # "update" /\ call'["owner"].handle = call["owner"].handle
    BY <1>p, <2>1 DEF AwaitOpening, Spots, Places
  <2> QED
    BY <1>q, <2>1, <2>2
<1>3. ASSUME OwnerReleases \/ OwnerDone PROVE Attachments'
  <2>1. /\ UNCHANGED <<driver, straddled, active>>
        /\ ~(call["owner"].at = "opening" /\ request.step = "initialize")
        /\ OwnerRests \/ At("owner", "releasing")
    BY <1>3 DEF OwnerReleases, OwnerDone
  <2>2. call'["owner"].at # "update" /\ call'["owner"].handle \in {0, call["owner"].handle}
    BY <1>p, <1>r, <2>1 DEF Spots
  <2> QED
    BY <1>q, <2>1, <2>2
<1>4. ASSUME OwnerCloses PROVE Attachments'
  <2>1. UNCHANGED <<driver, straddled, active>> /\ call["owner"].at = "releasing" /\ At("owner", "closing")
    BY <1>4 DEF OwnerCloses
  <2>2. call'["owner"].at # "update" /\ call'["owner"].handle = call["owner"].handle
    BY <1>p, <2>1 DEF Spots
  <2> QED
    BY <1>q, <2>1, <2>2
<1>5. ASSUME OwnerClears PROVE Attachments'
  <2>1. /\ UNCHANGED <<driver, straddled>> /\ active' = 0 /\ call["owner"].at = "closing"
        /\ OwnerRests \/ At("owner", "update")
    BY <1>5 DEF OwnerClears
  <2>2. call'["owner"].handle \in {0, call["owner"].handle}
    BY <1>p, <1>r, <2>1 DEF Spots
  <2> QED
    BY <1>q, <2>1, <2>2
<1>6. ASSUME OwnerSwitches PROVE Attachments'
  <2>1. /\ call["owner"].at = "update" /\ UNCHANGED <<active, handles, sync>>
        /\ straddled' = (straddled \/ UnderWay) /\ Resolve("owner")
        /\ driver' = request.id
    BY <1>6 DEF OwnerSwitches
  <2>2. call'["owner"].at = "opening" /\ call'["owner"].handle = call["owner"].handle
    BY <1>r, <2>1
  <2>3. request'.step = "initialize"
    BY <1>6 DEF OwnerSwitches, TypeOK, RequestState
  <2>4. \A h : Provider(h)' = Provider(h)
    BY <2>1 DEF Provider
  <2>5. SameComputer' /\ Chosen' /\ AsChosen'
    BY <1>o, <1>b, <2>1, <2>2, <2>3 DEF Attachments, SameComputer, Chosen, AsChosen
  <2>6. active = 0 \/ Provider(active) = driver
    BY <2>1 DEF Attachments, AsChosen
  <2>7. Remote'
    BY <1>o, <1>b, <2>1, <2>4, <2>6 DEF Attachments, Remote
  <2>8. Together'
    <3> SUFFICES ASSUME ~straddled' PROVE Together'
      BY DEF Together
    <3>1. active = 0 /\ opening.at = "no" /\ \A a \in Actors : call[a].handle = 0
      BY <2>1 DEF UnderWay
    <3>2. \A a \in Actors : call'[a].handle = 0
      BY <1>o, <1>b, <2>2, <3>1
    <3>3. ~Begins
      <4>1. Begins => opening' = opening
        BY <1>m, LooksBegins
      <4> QED
        BY <3>1, <4>1, Names DEF Begins
    <3>4. call'["sync"].at \notin {"queued", "keys"}
      BY <1>o, <1>b, <3>1 DEF Equipped
    <3> QED
      BY <2>1, <3>1, <3>2, <3>3, <3>4 DEF Together, Begins
  <2> QED
    BY <2>5, <2>7, <2>8 DEF Attachments
<1> QED
  BY <1>1, <1>2, <1>3, <1>4, <1>5, <1>6 DEF OwnerStep

(* Every step keeps what is attached.                                    *)
LEMMA AttachNext ==
    ASSUME TypeOK, Queue, Equipped, Attachments, [Next]_vars
    PROVE  Attachments'
<1>1. CASE UNCHANGED vars
  BY <1>1 DEF vars, Attachments, SameComputer, Chosen, AsChosen, Remote, Together, Provider
<1>2. CASE OpenStep \/ Poll \/ SyncNow \/ SyncStep
  BY <1>2, AttachOpen, AttachSync
<1>3. ASSUME NEW w \in Writers, WriteStep(w) \/ \E k \in Keys : Write(w, k) PROVE Attachments'
  BY <1>3, AttachWrite
<1>4. ASSUME NEW t \in Turns, TurnStart(t) \/ TurnEnds(t) \/ \E k \in Keys, c \in {t, Nothing} : TurnEdits(t, k, c)
      PROVE Attachments'
  BY <1>4, AttachTurn
<1>5. CASE OwnerStep \/ \E kind \in Requests, id \in Providers : Ask(kind, id)
  BY <1>5, AttachOwner
<1> QED
  BY <1>1, <1>2, <1>3, <1>4, <1>5 DEF Next

(* Every step leaves those who go on with a computer.                    *)
LEMMA EquippedNext ==
    ASSUME TypeOK, Queue, Equipped, [Next]_vars
    PROVE  Equipped'
<1>1. CASE UNCHANGED vars
  BY <1>1 DEF vars, Equipped
<1>2. CASE OpenStep \/ Poll \/ SyncNow \/ SyncStep
  BY <1>2, EquippedOpen, EquippedSync
<1>3. ASSUME NEW w \in Writers, WriteStep(w) \/ \E k \in Keys : Write(w, k) PROVE Equipped'
  BY <1>3, EquippedWrite
<1>4. ASSUME NEW t \in Turns, TurnStart(t) \/ TurnEnds(t) \/ \E k \in Keys, c \in {t, Nothing} : TurnEdits(t, k, c)
      PROVE Equipped'
  BY <1>4, EquippedTurn
<1>5. CASE OwnerStep \/ \E kind \in Requests, id \in Providers : Ask(kind, id)
  BY <1>5, EquippedOwner
<1> QED
  BY <1>1, <1>2, <1>3, <1>4, <1>5 DEF Next

-----------------------------------------------------------------------------
(* Steps that touch no file: they move the callers and the opening only.   *)
Goes(w) ==
    \/ call'[w] = call[w]
    \/ call[w].at = "idle" /\ call'[w].at = "queued"
    \/ /\ call[w].at \in {"put", "opening"} /\ call'[w].key = call[w].key
       /\ \/ call'[w].at = "opening"
          \/ call[w].at = "opening" /\ call'[w].at = "opened" /\ call'[w].handle = active' /\ active' # 0
          \/ call'[w].at = "refused" /\ faults' # 0
    \/ /\ Holds(w) /\ call'[w].at = "done"
       /\ \/ call[w].at = "put" /\ IsDirect(driver) /\ driver' = driver
          \/ call[w].at = "refused"
          \/ call[w].at = "opened" /\ (faults' # 0 \/ call[w].handle \in dead)

Scans ==
    \/ call["sync"].at = "keys" /\ sync' = sync
    \/ /\ sync'.handle = sync.handle /\ sync.handle # 0 /\ sync.handle \notin dead
       /\ sync'.seen = FilesOf(Provider(sync.handle)) /\ sync'.lost = gone[Provider(sync.handle)]

Opens ==
    \/ active' \in {0, active} /\ (opening' = opening \/ opening'.at \in {"no", "driver"})
    \/ active' = active /\ opening'.at = driver /\ Attached # driver
    \/ /\ opening.at = "copy" /\ opening.todo = {} /\ Holds("open")
       /\ active' = opening.handle /\ opening' = NotOpening

Drives ==
    driver' # driver /\ ~straddled' =>
        active' = 0 /\ opening'.at = "driver" /\ call'["sync"].handle = 0 /\ \A w \in Writers : call'[w].handle = 0

Asks ==
    call'["owner"].at = "opened" /\ request'.step = "destroy" =>
        /\ driver' = driver
        /\ \/ /\ call["owner"].at = "opened" /\ call'["owner"].handle = call["owner"].handle /\ request' = request
              /\ active' = active \/ opening.at = "copy"
           \/ /\ call'["owner"].handle = active' /\ active' # 0 /\ Provider(active') = driver
              /\ opening' = NotOpening

Quiet ==
    /\ UNCHANGED <<store, index, files, handles, materialized, dead, gone>>
    /\ (faults' = 0 => faults = 0) /\ (straddled => straddled')
    /\ \A w \in Writers : Goes(w)
    /\ call'["sync"].at = "keys" => Scans
    /\ call'["sync"].handle \in {0, call["sync"].handle, active'}
    /\ Opens /\ Drives /\ Asks

(* When an opening ends.                                                   *)
LEMMA AnsweredQuiet ==
    ASSUME TypeOK, Attachments, NEW h \in Handles, Answered(h), opening' = NotOpening,
           UNCHANGED <<store, index, files, handles, materialized, dead, gone, driver, straddled, request, sync>>,
           faults' \in Nat,
           \/ h = 0 /\ active' = active /\ faults' # 0
           \/ h # 0 /\ h = active /\ active' = active /\ Provider(h) = driver /\ faults' = faults
           \/ /\ h # 0 /\ active' = h /\ opening.at = "copy" /\ h = opening.handle /\ opening.todo = {}
              /\ Holds("open") /\ faults' = faults
    PROVE  Quiet
<1>n. "sync" \in Actors /\ "owner" \in Actors /\ Writers \subseteq Actors
  BY Names
<1>1. \A w \in Writers : Goes(w)
  BY <1>n DEF Answered, Goes
<1>2. call'["sync"].at = "keys" => Scans
  BY <1>n DEF Answered, Scans
<1>3. call'["sync"].handle \in {0, call["sync"].handle, active'}
  BY <1>n DEF Answered
<1>4. Opens
  BY NoOpening DEF Opens, TypeOK
<1>5. Drives
  BY DEF Drives
<1>6. Asks
  <2>1. CASE call["owner"].at = "opening"
    BY <1>n, <2>1 DEF Answered, Asks, Attachments, Chosen
  <2>2. CASE call["owner"].at # "opening"
    BY <1>n, <2>2 DEF Answered, Asks
  <2> QED
    BY <2>1, <2>2
<1> QED
  BY <1>1, <1>2, <1>3, <1>4, <1>5, <1>6 DEF Quiet

(* A step of the opening that copies nothing.                            *)
LEMMA OpenQuiet ==
    ASSUME TypeOK, Equipped, Attachments, OpenDriver \/ OpenFails \/ CopyFails \/ OpenDone \/ Poll
    PROVE  Quiet
<1> USE DEF kept, machines, noted, bounds
<1>n. "sync" \in Actors /\ "owner" \in Actors /\ Writers \subseteq Actors /\ driver # Nothing /\ faults \in Nat
  BY Names, StorageAssumption DEF TypeOK
<1>1. ASSUME OpenDriver PROVE Quiet
  <2>1. CASE Attached = driver
    <3>1. Answered(active) /\ opening' = NotOpening /\ active \in Handles
      BY <1>1, <2>1, OpeningEnds DEF OpenDriver, TypeOK
    <3>2. active # 0 /\ Provider(active) = driver
      BY <1>n, <2>1 DEF Attached
    <3> QED
      BY <1>1, <1>n, <3>1, <3>2, AnsweredQuiet DEF OpenDriver
  <2>2. CASE Attached # driver
    <3>1. /\ opening'.at = driver /\ UNCHANGED <<call, driver, straddled, request, sync, active, faults>>
          /\ UNCHANGED <<store, index, files, handles, materialized, dead, gone>>
      BY <1>1, <2>2 DEF OpenDriver, TypeOK, OpeningState
    <3> QED
      BY <2>2, <3>1 DEF Quiet, Goes, Scans, Opens, Drives, Asks
  <2> QED
    BY <2>1, <2>2
<1>2. ASSUME OpenFails \/ CopyFails PROVE Quiet
  <2>1. 0 \in Handles /\ EndOpening(0) /\ UNCHANGED <<handles, driver, straddled, request, sync, active>>
    BY <1>2 DEF OpenFails, CopyFails, Handles, TypeOK
  <2>2. Answered(0) /\ opening' = NotOpening
    BY <2>1, OpeningEnds DEF TypeOK
  <2>3. faults' \in Nat /\ faults' # 0 /\ UNCHANGED <<store, index, files, materialized, dead, gone>>
    BY <1>2, <1>n DEF OpenFails, CopyFails, Fault
  <2> QED
    BY <2>1, <2>2, <2>3, AnsweredQuiet
<1>3. ASSUME OpenDone PROVE Quiet
  <2>1. /\ opening.handle \in Handles /\ EndOpening(opening.handle) /\ opening.at = "copy" /\ opening.todo = {}
        /\ Holds("open") /\ active' = opening.handle
        /\ UNCHANGED <<store, index, files, handles, materialized, dead, gone, driver, straddled, request, sync, faults>>
    BY <1>3, OpeningFields DEF OpenDone, TypeOK
  <2>2. Answered(opening.handle) /\ opening' = NotOpening /\ opening.handle # 0
    BY <2>1, OpeningEnds DEF TypeOK, Equipped
  <2> QED
    BY <1>n, <2>1, <2>2, AnsweredQuiet
<1>4. ASSUME Poll PROVE Quiet
  <2>1. /\ opening'.at = "driver" /\ UNCHANGED <<call, driver, straddled, request, sync, active, faults>>
        /\ UNCHANGED <<store, index, files, handles, materialized, dead, gone>>
    BY <1>4, NoOpening DEF Poll, NewOpening, TypeOK
  <2> QED
    BY <2>1 DEF Quiet, Goes, Scans, Opens, Drives, Asks
<1> QED
  BY <1>1, <1>2, <1>3, <1>4

(* A step of one actor, other than the owner.                              *)
LEMMA MoveQuiet ==
    ASSUME TypeOK, NEW a \in Actors \ {"owner"}, NEW b \in Actors \ Writers, Stay({a, b}), Looks,
           UNCHANGED <<store, index, files, handles, materialized, dead, gone, driver, straddled, request, active>>,
           faults' = 0 => faults = 0,
           call'["owner"].handle = call["owner"].handle, call'["owner"].at \in {call["owner"].at, "refused"},
           a \in Writers => Goes(a),
           call'["sync"].at = "keys" => Scans,
           call'["sync"].handle \in {0, call["sync"].handle}
    PROVE  Quiet
<1>1. \A w \in Writers : Goes(w)
  BY Names DEF Stay, Goes
<1>2. Opens
  <2>1. NewOpening.at = "driver"
    BY NoOpening DEF TypeOK
  <2> QED
    BY <2>1 DEF Opens, Looks
<1>3. Drives
  BY DEF Drives
<1>4. Asks
  BY DEF Asks
<1> QED
  BY <1>1, <1>2, <1>3, <1>4 DEF Quiet

(* A step of a write that touches no file.                               *)
LEMMA WriteQuiet ==
    ASSUME TypeOK, NEW w \in Writers, WriteAttach(w) \/ WriteFails(w) \/ \E k \in Keys : Write(w, k)
    PROVE  Quiet
<1> USE DEF kept, machines, noted, bounds
<1>w. /\ w \in Actors \ {"owner"} /\ w # "sync" /\ "sync" \in Actors \ Writers /\ "owner" \in Actors
      /\ "owner" # "sync" /\ faults \in Nat
  BY Names, StorageAssumption DEF TypeOK
<1>s. Stay({w}) => Stay({w, "sync"}) /\ call'["sync"] = call["sync"] /\ call'["owner"] = call["owner"]
  BY <1>w DEF Stay
<1>1. ASSUME NEW k \in Keys, Write(w, k) PROVE Quiet
  <2>1. call[w].at = "idle" /\ call'[w].at = "queued" /\ Stay({w})
    <3> DEFINE c == [call[w] EXCEPT !.at = "queued", !.key = k]
    <3>1. call[w] \in CallState
      BY <1>w DEF TypeOK
    <3>2. c \in CallState /\ c.at = "queued"
      BY <3>1 DEF CallState, Places
    <3>3. call' = [call EXCEPT ![w] = c] /\ call[w].at = "idle"
      BY <1>1 DEF Write
    <3> HIDE DEF c
    <3> QED
      BY <1>w, <3>2, <3>3, CallGoes DEF TypeOK
  <2>2. /\ UNCHANGED <<store, index, files, handles, materialized, dead, gone, driver, straddled, request, active>>
        /\ UNCHANGED <<sync, faults, opening>>
    BY <1>1 DEF Write
  <2>3. Goes(w) /\ Looks /\ (call'["sync"].at = "keys" => Scans)
    BY <1>s, <2>1, <2>2 DEF Goes, Looks, Scans
  <2> QED
    BY <1>w, <1>s, <2>1, <2>2, <2>3, MoveQuiet
<1>2. ASSUME WriteAttach(w) PROVE Quiet
  <2>1. /\ Holds(w) /\ call[w].at = "put"
        /\ UNCHANGED <<store, index, files, handles, materialized, dead, gone, driver, straddled, request, active>>
        /\ UNCHANGED <<sync, faults>>
    BY <1>2 DEF WriteAttach
  <2>2. Goes(w) /\ Looks /\ Stay({w})
    <3>1. CASE IsDirect(driver)
      <4>1. Ends(w) /\ Looks
        BY <1>2, <3>1 DEF WriteAttach, Looks
      <4>2. call'[w].at = "done" /\ Stay({w})
        BY <1>w, <4>1, EndsGoes, IdleState DEF TypeOK
      <4> QED
        BY <2>1, <3>1, <4>1, <4>2 DEF Goes
    <3>2. CASE ~IsDirect(driver)
      <4>1. Resolve(w)
        BY <1>2, <3>2 DEF WriteAttach
      <4>2. call'[w].at = "opening" /\ call'[w].key = call[w].key /\ Stay({w}) /\ Looks
        BY <1>w, <4>1, ResolveGoes DEF TypeOK
      <4> QED
        BY <2>1, <4>2 DEF Goes
    <3> QED
      BY <3>1, <3>2
  <2>3. call'["sync"].at = "keys" => Scans
    BY <1>s, <2>1, <2>2 DEF Scans
  <2> QED
    BY <1>w, <1>s, <2>1, <2>2, <2>3, MoveQuiet
<1>3. ASSUME WriteFails(w) PROVE Quiet
  <2>1. /\ Holds(w) /\ Ends(w)
        /\ UNCHANGED <<store, index, files, handles, materialized, dead, gone, driver, straddled, request, active>>
        /\ UNCHANGED <<sync, opening>>
    BY <1>3 DEF WriteFails
  <2>2. call'[w].at = "done" /\ Stay({w})
    BY <1>w, <2>1, EndsGoes, IdleState DEF TypeOK
  <2>3. \/ call[w].at = "refused" /\ faults' = faults
        \/ call[w].at = "opened" /\ call[w].handle \in dead /\ faults' = faults
        \/ call[w].at = "opened" /\ faults' = faults + 1
    BY <1>3 DEF WriteFails, Fault
  <2>4. Goes(w) /\ (faults' = 0 => faults = 0)
    BY <1>w, <2>1, <2>2, <2>3 DEF Goes
  <2>5. Looks /\ (call'["sync"].at = "keys" => Scans)
    BY <1>s, <2>1, <2>2 DEF Looks, Scans
  <2> QED
    BY <1>w, <1>s, <2>1, <2>2, <2>4, <2>5, MoveQuiet
<1> QED
  BY <1>1, <1>2, <1>3

(* A turn that starts or ends.                                           *)
LEMMA TurnQuiet ==
    ASSUME TypeOK, NEW t \in Turns, TurnStart(t) \/ TurnEnds(t)
    PROVE  Quiet
<1> USE DEF kept, machines, noted, bounds
<1>t. /\ t \in Actors \ {"owner"} /\ t \notin Writers /\ t # "sync" /\ "sync" \in Actors \ Writers
      /\ "owner" \in Actors /\ "owner" # "sync"
  BY Names, StorageAssumption
<1>s. Stay({t}) => Stay({t, "sync"}) /\ call'["sync"] = call["sync"]
  BY <1>t DEF Stay
<1>o. Stay({t, "sync"}) => call'["owner"] = call["owner"]
  BY <1>t DEF Stay
<1>u. /\ UNCHANGED <<store, index, files, handles, materialized, dead, gone, driver, straddled, request, active>>
      /\ UNCHANGED <<sync, faults>>
  BY DEF TurnStart, TurnEnds
<1>1. ASSUME TurnStart(t) PROVE Quiet
  <2>1. Resolve(t)
    BY <1>1 DEF TurnStart
  <2>2. Stay({t}) /\ Looks
    BY <1>t, <2>1, ResolveGoes DEF TypeOK
  <2>3. call'["sync"].at = "keys" => Scans
    BY <1>s, <1>u, <2>2 DEF Scans
  <2> QED
    BY <1>t, <1>s, <1>o, <1>u, <2>2, <2>3, MoveQuiet
<1>2. ASSUME TurnEnds(t) PROVE Quiet
  <2>1. CASE call["sync"].at = "idle"
    <3>1. Looks
      BY <1>2, <2>1 DEF TurnEnds, Looks, NewOpening
    <3>2. call'["sync"].at = "opening" /\ call'["sync"].handle = call["sync"].handle /\ Stay({t, "sync"})
      BY <1>2, <1>t, <2>1 DEF TurnEnds, Stay, TypeOK, CallState, Idle
    <3> QED
      BY <1>t, <1>o, <1>u, <3>1, <3>2, MoveQuiet
  <2>2. CASE call["sync"].at # "idle"
    <3>1. Ends(t) /\ Looks
      BY <1>2, <2>2 DEF TurnEnds, Looks
    <3>2. Stay({t})
      BY <1>t, <3>1, EndsGoes DEF TypeOK
    <3>3. call'["sync"].at = "keys" => Scans
      BY <1>s, <1>u, <3>2 DEF Scans
    <3> QED
      BY <1>t, <1>s, <1>o, <1>u, <3>1, <3>2, <3>3, MoveQuiet
  <2> QED
    BY <2>1, <2>2
<1> QED
  BY <1>1, <1>2

(* A reconciliation up to its inventory.                                 *)
LEMMA SyncQuiet ==
    ASSUME TypeOK, Equipped, SyncNow \/ SyncAttach \/ SyncScan \/ SyncFails
    PROVE  Quiet
<1> USE DEF kept, machines, noted, bounds
<1>s. /\ "sync" \in Actors \ {"owner"} /\ "owner" \in Actors \ Writers /\ "sync" \notin Writers /\ faults \in Nat
  BY Names, StorageAssumption DEF TypeOK
<1>y. Stay({"sync"}) => Stay({"sync", "owner"}) /\ call'["owner"] = call["owner"]
  BY <1>s DEF Stay
<1>u. /\ UNCHANGED <<store, index, files, handles, materialized, dead, gone, driver, straddled, request, active>>
      /\ (faults' = 0 => faults = 0)
  <2>1. UNCHANGED <<store, index, files, handles, materialized, dead, gone, driver, straddled, request, active>>
    BY DEF SyncNow, SyncAttach, SyncScan, SyncFails
  <2>2. faults' = faults \/ faults' = faults + 1
    BY DEF SyncNow, SyncAttach, SyncScan, SyncFails, Fault
  <2> QED
    BY <1>s, <2>1, <2>2
<1>1. ASSUME SyncNow PROVE Quiet
  <2>1. Resolve("sync")
    BY <1>1 DEF SyncNow
  <2>2. call'["sync"].at = "opening" /\ call'["sync"].handle = call["sync"].handle /\ Stay({"sync"}) /\ Looks
    BY <1>s, <2>1, ResolveGoes DEF TypeOK
  <2> QED
    BY <1>s, <1>y, <1>u, <2>2, MoveQuiet
<1>2. ASSUME SyncAttach PROVE Quiet
  <2>1. call'["sync"].at = "queued" /\ call'["sync"].handle = call["sync"].handle /\ Stay({"sync"}) /\ Looks
    BY <1>2, <1>s, AtGoes DEF SyncAttach, TypeOK, Spots, Places, Looks
  <2> QED
    BY <1>s, <1>y, <1>u, <2>1, MoveQuiet
<1>3. ASSUME SyncScan PROVE Quiet
  <2>1. call["sync"].at = "queued" /\ sync.handle \notin dead
    BY <1>3 DEF SyncScan
  <2>2. call'["sync"].handle = call["sync"].handle /\ Stay({"sync"}) /\ Looks
    BY <1>3, <1>s, AtGoes DEF SyncScan, TypeOK, Spots, Looks
  <2>3. /\ sync'.handle = sync.handle /\ sync'.seen = FilesOf(Provider(sync.handle))
        /\ sync'.lost = gone[Provider(sync.handle)]
    BY <1>3 DEF SyncScan, TypeOK, SyncState
  <2>4. Scans
    BY <2>1, <2>3 DEF Scans, Equipped
  <2> QED
    BY <1>s, <1>y, <1>u, <2>2, <2>4, MoveQuiet
<1>4. ASSUME SyncFails PROVE Quiet
  <2>1. EndSync(FALSE) /\ FALSE \in BOOLEAN /\ Looks
    BY <1>4 DEF SyncFails, Looks
  <2>2. /\ call'["sync"].at = "idle" /\ call'["sync"].handle = 0 /\ Stay({"sync", "owner"})
        /\ call'["owner"].handle = call["owner"].handle
        /\ call'["owner"].at \in {call["owner"].at, "refused"}
    BY <2>1, FlightEnds, IdleState DEF TypeOK
  <2> QED
    BY <1>s, <1>u, <2>1, <2>2, MoveQuiet
<1> QED
  BY <1>1, <1>2, <1>3, <1>4

(* The owner, but for destroying.                                        *)
LEMMA OwnerQuiet ==
    ASSUME TypeOK, Equipped, Attachments,
           \/ OwnerReleases \/ OwnerCloses \/ OwnerClears \/ OwnerSwitches \/ OwnerDone
           \/ \E kind \in Requests, id \in Providers : Ask(kind, id)
    PROVE  Quiet
<1> USE DEF kept, machines, noted, bounds
<1>o. /\ "sync" \in Actors /\ "owner" \in Actors /\ "sync" # "owner" /\ "owner" \notin Writers
      /\ Writers \subseteq Actors
  BY Names
<1>m. Stay({"owner"}) /\ Looks
  BY OwnerMoves DEF OwnerStep
<1>u. UNCHANGED <<store, index, files, handles, materialized, dead, gone, sync, faults>>
  BY DEF Ask, OwnerReleases, OwnerCloses, OwnerClears, OwnerSwitches, OwnerDone
<1>b. call'["sync"] = call["sync"] /\ \A w \in Writers : call'[w] = call[w]
  BY <1>o, <1>m DEF Stay
<1>k. NewOpening.at = "driver"
  BY NoOpening DEF TypeOK
<1>q. ASSUME straddled => straddled', active' \in {0, active}, Drives, Asks
      PROVE  Quiet
  <2>1. Opens
    BY <1>m, <1>k, <1>q DEF Opens, Looks
  <2>2. (\A w \in Writers : Goes(w)) /\ (call'["sync"].at = "keys" => Scans)
    BY <1>u, <1>b DEF Goes, Scans
  <2> QED
    BY <1>u, <1>b, <1>q, <2>1, <2>2 DEF Quiet
<1>p. \A place \in Spots : At("owner", place) => call'["owner"].at = place /\ call'["owner"].handle = call["owner"].handle
  BY <1>o, AtGoes DEF TypeOK
<1>r. /\ Resolve("owner") => call'["owner"].at = "opening" /\ call'["owner"].handle = call["owner"].handle
      /\ OwnerRests => call'["owner"].at = "idle"
  BY <1>o, ResolveGoes, OwnerGoes, IdleState DEF TypeOK
<1>1. ASSUME NEW kind \in Requests, NEW id \in Providers, Ask(kind, id) PROVE Quiet
  <2>1. UNCHANGED <<driver, straddled, active>>
    BY <1>1 DEF Ask
  <2>2. call'["owner"].at # "opened" \/ request'.step = "release"
    <3>1. CASE kind = "destroy"
      BY <1>1, <1>r, <3>1 DEF Ask
    <3>2. CASE kind # "destroy"
      BY <1>1, <3>2 DEF Ask
    <3> QED
      BY <3>1, <3>2
  <2> QED
    BY <1>q, <2>1, <2>2 DEF Drives, Asks
<1>2. ASSUME OwnerReleases \/ OwnerDone \/ OwnerCloses PROVE Quiet
  <2>1. UNCHANGED <<driver, straddled, active>> /\ (OwnerRests \/ At("owner", "releasing") \/ At("owner", "closing"))
    BY <1>2 DEF OwnerReleases, OwnerDone, OwnerCloses
  <2>2. call'["owner"].at # "opened"
    BY <1>p, <1>r, <2>1 DEF Spots
  <2> QED
    BY <1>q, <2>1, <2>2 DEF Drives, Asks
<1>3. ASSUME OwnerClears PROVE Quiet
  <2>1. UNCHANGED <<driver, straddled>> /\ active' = 0 /\ (OwnerRests \/ At("owner", "update"))
    BY <1>3 DEF OwnerClears
  <2>2. call'["owner"].at # "opened"
    BY <1>p, <1>r, <2>1 DEF Spots
  <2> QED
    BY <1>q, <2>1, <2>2 DEF Drives, Asks
<1>4. ASSUME OwnerSwitches PROVE Quiet
  <2>1. straddled' = (straddled \/ UnderWay) /\ UNCHANGED active /\ Resolve("owner")
    BY <1>4 DEF OwnerSwitches
  <2>2. call'["owner"].at = "opening"
    BY <1>r, <2>1
  <2>3. Drives
    <3> SUFFICES ASSUME ~straddled'
                 PROVE  /\ active' = 0 /\ opening'.at = "driver" /\ call'["sync"].handle = 0
                        /\ \A w \in Writers : call'[w].handle = 0
      BY DEF Drives
    <3>1. active = 0 /\ opening.at = "no" /\ \A a \in Actors : call[a].handle = 0
      BY <2>1 DEF UnderWay
    <3>2. opening'.at = "driver"
      BY <1>k, <2>1, <3>1 DEF Resolve, NewOpening
    <3> QED
      BY <1>o, <1>b, <2>1, <3>1, <3>2
  <2> QED
    BY <1>q, <2>1, <2>2, <2>3 DEF Asks
<1> QED
  BY <1>1, <1>2, <1>3, <1>4

(* Every step is such a step, or one of these.                             *)
Touching ==
    \/ OpenProvider \/ SyncDelete \/ OwnerDestroys
    \/ \E k \in Keys : Copy(k) \/ SyncKey(k)
    \/ \E w \in Writers : WritePut(w) \/ WriteFile(w) \/ WriteMark(w)
    \/ \E t \in Turns, k \in Keys : \E c \in {t, Nothing} : TurnEdits(t, k, c)

(* A step touches no file, or is one of those above.                     *)
LEMMA QuietOrTouching ==
    ASSUME TypeOK, Equipped, Attachments, [Next]_vars
    PROVE  Quiet \/ Touching
<1>1. CASE UNCHANGED vars
  <2>1. UNCHANGED <<store, index, files, handles, materialized, dead, gone, faults, straddled, driver, active>>
    BY <1>1 DEF vars
  <2>2. UNCHANGED <<call, sync, opening, request>>
    BY <1>1 DEF vars
  <2> QED
    BY <2>1, <2>2 DEF Quiet, Goes, Scans, Opens, Drives, Asks
<1>2. CASE OpenStep \/ Poll
  BY <1>2, OpenQuiet DEF OpenStep, Touching
<1>3. CASE SyncNow \/ SyncStep
  BY <1>3, SyncQuiet DEF SyncStep, Touching
<1>4. ASSUME NEW w \in Writers, WriteStep(w) \/ \E k \in Keys : Write(w, k) PROVE Quiet \/ Touching
  BY <1>4, WriteQuiet DEF WriteStep, Touching
<1>5. ASSUME NEW t \in Turns, TurnStart(t) \/ TurnEnds(t) \/ \E k \in Keys, c \in {t, Nothing} : TurnEdits(t, k, c)
      PROVE Quiet \/ Touching
  BY <1>5, TurnQuiet DEF Touching
<1>6. CASE OwnerStep \/ \E kind \in Requests, id \in Providers : Ask(kind, id)
  BY <1>6, OwnerQuiet DEF OwnerStep, Touching
<1> QED
  BY <1>1, <1>2, <1>3, <1>4, <1>5, <1>6 DEF Next

-----------------------------------------------------------------------------
(* What a step that touches files does with the callers.                   *)
LEMMA WriteTouch ==
    ASSUME TypeOK, NEW w \in Writers, WritePut(w) \/ WriteFile(w) \/ WriteMark(w)
    PROVE  /\ Stay({w}) /\ UNCHANGED <<handles, driver, active, dead, opening, sync, request, straddled, faults>>
           /\ Holds(w) /\ call[w].at \in {"queued"} \cup Working
           /\ call'[w].at = (IF call[w].at = "queued" THEN "put" ELSE IF call[w].at = "opened" THEN "written" ELSE "done")
           /\ call[w].at # "written" => call'[w].handle = call[w].handle /\ call'[w].key = call[w].key
           /\ call[w].at \in {"queued", "opened", "written"}
<1> USE DEF kept, machines, noted, bounds
<1>w. w \in Actors
  BY Names
<1>1. ASSUME WritePut(w) PROVE At(w, "put") /\ call[w].at = "queued" /\ Holds(w)
  BY <1>1 DEF WritePut
<1>2. ASSUME WriteFile(w) PROVE At(w, "written") /\ call[w].at = "opened" /\ Holds(w)
  BY <1>2 DEF WriteFile
<1>3. ASSUME WriteMark(w) PROVE Ends(w) /\ call[w].at = "written" /\ Holds(w)
  BY <1>3 DEF WriteMark
<1>4. UNCHANGED <<handles, driver, active, dead, opening, sync, request, straddled, faults>>
  BY DEF WritePut, WriteFile, WriteMark
<1>5. \A place \in Spots : At(w, place) =>
          Stay({w}) /\ call'[w].at = place /\ call'[w].handle = call[w].handle /\ call'[w].key = call[w].key
  BY <1>w, AtGoes DEF TypeOK
<1>6. Ends(w) => Stay({w}) /\ call'[w].at = "done"
  BY <1>w, EndsGoes, IdleState DEF TypeOK
<1>7. {"put", "written"} \subseteq Spots /\ {"opened", "written"} \subseteq Working
  BY DEF Spots, Working
<1> QED
  BY <1>1, <1>2, <1>3, <1>4, <1>5, <1>6, <1>7

(* A step of a reconciliation that touches the store.                    *)
LEMMA SyncTouch ==
    ASSUME TypeOK, SyncDelete \/ \E k \in Keys : SyncKey(k)
    PROVE  /\ UNCHANGED <<handles, files, gone, driver, active, dead, opening, request, straddled, faults>>
           /\ Stay({"sync", "owner"}) /\ Holds("sync") /\ call["sync"].at = "keys"
           /\ call'["owner"].handle = call["owner"].handle /\ call'["owner"].at \in {call["owner"].at, "refused"}
           /\ call'["sync"].handle \in {0, call["sync"].handle}
<1> USE DEF kept, machines, noted, bounds
<1>1. CASE SyncDelete
  <2>1. EndSync(TRUE) /\ TRUE \in BOOLEAN
    BY <1>1 DEF SyncDelete
  <2>2. /\ call'["sync"].handle = 0 /\ Stay({"sync", "owner"})
        /\ call'["owner"].handle = call["owner"].handle /\ call'["owner"].at \in {call["owner"].at, "refused"}
    BY <2>1, FlightEnds, IdleState DEF TypeOK
  <2>3. /\ UNCHANGED <<handles, files, gone, driver, active, dead, opening, request, straddled, faults>>
        /\ Holds("sync") /\ call["sync"].at = "keys"
    BY <1>1 DEF SyncDelete
  <2> QED
    BY <2>2, <2>3
<1>2. ASSUME NEW k \in Keys, SyncKey(k)
      PROVE  /\ UNCHANGED <<call, handles, files, gone, driver, active, dead, opening, request, straddled, faults>>
             /\ Holds("sync") /\ call["sync"].at = "keys"
  BY <1>2 DEF SyncKey
<1> QED
  BY <1>1, <1>2 DEF Stay

(* One key is copied by the opening.                                     *)
LEMMA CopyTouch ==
    ASSUME TypeOK, Equipped, NEW k \in Keys, Copy(k)
    PROVE  /\ UNCHANGED <<call, handles, store, driver, active, dead, sync, request, straddled, faults>>
           /\ Holds("open") /\ opening.at = "copy" /\ opening'.at = "copy" /\ opening'.handle = opening.handle
           /\ opening.handle \in 1..Len(handles) /\ Provider(opening.handle) \in Providers
           /\ opening'.todo = opening.todo \ {k} /\ k \in opening.todo
<1>1. opening.handle \in Handles /\ opening.handle # 0
  BY OpeningFields DEF Copy, TypeOK, Equipped
<1>2. opening.handle \in 1..Len(handles) /\ Provider(opening.handle) \in Providers
  BY <1>1, ContentTypes
<1>3. opening'.at = "copy" /\ opening'.handle = opening.handle /\ opening'.todo = opening.todo \ {k}
  BY DEF Copy, TypeOK, OpeningState
<1>4. /\ UNCHANGED <<call, handles, store, driver, active, dead, sync, request, straddled, faults>>
      /\ Holds("open") /\ opening.at = "copy" /\ k \in opening.todo
  BY DEF Copy, bounds
<1> QED
  BY <1>2, <1>3, <1>4

(* The provider opens a computer.                                        *)
LEMMA OpenTouch ==
    ASSUME TypeOK, OpenProvider
    PROVE  /\ UNCHANGED <<call, store, index, files, gone, driver, active, dead, sync, request, straddled, faults>>
           /\ Len(handles') = Len(handles) + 1 /\ Len(handles) \in Nat /\ opening.at \in Providers
           /\ \A h \in 1..Len(handles) : Provider(h)' = Provider(h) /\ materialized'[h] = materialized[h]
           /\ handles'[Len(handles) + 1] = opening.at /\ materialized'[Len(handles) + 1] = {}
           /\ opening'.at = "copy" /\ opening'.handle = Len(handles) + 1 /\ opening'.todo = Keys
<1> USE DEF kept, machines, noted, bounds
<1>1. /\ opening.at \in Providers /\ handles' = Append(handles, opening.at)
      /\ opening'.at = "copy" /\ opening'.handle = Len(handles) + 1 /\ opening'.todo = Keys
      /\ UNCHANGED <<call, store, index, files, gone, driver, active, dead, sync, request, straddled, faults>>
      /\ materialized' = Append(materialized, {})
  BY DEF OpenProvider
<1>2. /\ Len(handles') = Len(handles) + 1 /\ Len(handles) \in Nat
      /\ \A h \in 1..Len(handles) : Provider(h)' = Provider(h)
      /\ handles'[Len(handles) + 1] = opening.at
  BY <1>1, TypesGrow DEF TypeOK, Provider
<1>3. /\ \A h \in 1..Len(handles) : materialized'[h] = materialized[h]
      /\ materialized'[Len(handles) + 1] = {}
  BY <1>1 DEF TypeOK
<1> QED
  BY <1>1, <1>2, <1>3

(* A turn changes a file, in the store or on its computer.                 *)
LEMMA TurnTouch ==
    ASSUME TypeOK, Equipped, NEW t \in Turns, NEW k \in Keys, NEW c \in {t, Nothing}, TurnEdits(t, k, c)
    PROVE  /\ UNCHANGED <<call, index, handles, materialized, driver, active, dead, opening, request, straddled, faults>>
           /\ call[t].handle # 0 /\ Provider(call[t].handle) \in Providers /\ c \in Turns \cup {Nothing}
           /\ sync'.handle = sync.handle /\ sync'.seen = sync.seen /\ sync'.lost = sync.lost
<1> USE DEF kept, machines, noted, bounds
<1>t. t \in Actors /\ t # "owner"
  BY Names
<1>1. call[t].handle # 0 /\ Provider(call[t].handle) \in Providers /\ c \in Turns \cup {Nothing}
  BY <1>t, Computer DEF TurnEdits, Equipped
<1>2. sync'.handle = sync.handle /\ sync'.seen = sync.seen /\ sync'.lost = sync.lost
  BY DEF TurnEdits, Changed, TypeOK, SyncState
<1>3. UNCHANGED <<call, index, handles, materialized, driver, active, dead, opening, request, straddled, faults>>
  BY DEF TurnEdits
<1> QED
  BY <1>1, <1>2, <1>3

(* The files and the keys of a provider after that.                        *)
LEMMA TurnFiles ==
    ASSUME TypeOK, Equipped, NEW t \in Turns, NEW k \in Keys, NEW c \in {t, Nothing}, TurnEdits(t, k, c),
           NEW q \in Providers, NEW i \in Keys
    PROVE  /\ (files'[q][i] = files[q][i] /\ (i \in gone'[q] <=> i \in gone[q]))
              \/ (i = k /\ files'[q][i] = c /\ (c = Nothing => i \in gone'[q]))
           /\ store'[i] = store[i] \/ (i = k /\ IsDirect(Provider(call[t].handle)) /\ store'[i] = c /\ i \in inPlace')
<1> DEFINE p == Provider(call[t].handle)
<1>1. p \in Providers
  BY TurnTouch
<1>2. CASE IsDirect(p)
  <2>1. store' = [store EXCEPT ![k] = c] /\ inPlace' = inPlace \cup {k} /\ UNCHANGED <<files, gone>>
    BY <1>2 DEF TurnEdits
  <2> QED
    BY <1>2, <2>1 DEF TypeOK, Files
<1>3. CASE ~IsDirect(p)
  <2>1. /\ store' = store /\ files' = [files EXCEPT ![p][k] = c]
        /\ gone' = [gone EXCEPT ![p] = IF c = Nothing THEN gone[p] \cup {k} ELSE gone[p] \ {k}]
    BY <1>3 DEF TurnEdits
  <2>2. files \in [Providers -> Files] /\ gone \in [Providers -> SUBSET Keys] /\ files[p] \in Files
    BY <1>1 DEF TypeOK
  <2> HIDE DEF p
  <2>3. q # p => files'[q] = files[q] /\ gone'[q] = gone[q]
    BY <1>1, <2>1, <2>2
  <2>4. q = p => files'[q][i] = (IF i = k THEN c ELSE files[q][i])
    BY <1>1, <2>1, <2>2 DEF Files
  <2>5. q = p => gone'[q] = IF c = Nothing THEN gone[q] \cup {k} ELSE gone[q] \ {k}
    BY <1>1, <2>1, <2>2
  <2> QED
    BY <2>1, <2>3, <2>4, <2>5
<1> QED
  BY <1>2, <1>3

(* The owner destroys every computer of a provider.                        *)
LEMMA DestroyTouch ==
    ASSUME TypeOK, Equipped, OwnerDestroys
    PROVE  /\ UNCHANGED <<store, index, handles, materialized, driver, active, opening, sync, straddled, faults>>
           /\ Stay({"owner"}) /\ call["owner"].at = "opened" /\ request.step = "destroy" /\ request'.step = "release"
           /\ \E p \in Providers :
                /\ p = Provider(call["owner"].handle)
                /\ IsDirect(p) => UNCHANGED <<files, dead, gone>>
                /\ ~IsDirect(p) =>
                    /\ files' = [files EXCEPT ![p] = [k \in Keys |-> Nothing]] /\ gone' = [gone EXCEPT ![p] = {}]
                    /\ dead' = {i \in 1..Len(handles) : i \in dead \/ Provider(i) = p}
<1> USE DEF kept, machines, noted, bounds
<1>1. call["owner"].handle # 0 /\ "owner" \in Actors
  BY Names DEF OwnerDestroys, Equipped
<1>2. Provider(call["owner"].handle) \in Providers
  BY <1>1, Computer
<1>3. Stay({"owner"})
  BY OwnerMoves DEF OwnerStep
<1>4. /\ UNCHANGED <<store, index, handles, materialized, driver, active, sync, straddled, faults>>
      /\ AwaitOpening("release") /\ call["owner"].at = "opened" /\ request.step = "destroy"
  BY DEF OwnerDestroys
<1>5. opening' = opening /\ request'.step = "release"
  BY <1>4 DEF AwaitOpening, TypeOK, RequestState
<1>6. LET p == Provider(call["owner"].handle)
      IN  /\ IsDirect(p) => UNCHANGED <<files, dead, gone>>
          /\ ~IsDirect(p) =>
                /\ files' = [files EXCEPT ![p] = [k \in Keys |-> Nothing]] /\ gone' = [gone EXCEPT ![p] = {}]
                /\ dead' = {i \in 1..Len(handles) : i \in dead \/ Provider(i) = p}
  BY DEF OwnerDestroys
<1> QED
  BY <1>2, <1>3, <1>4, <1>5, <1>6

-----------------------------------------------------------------------------
(* Computers that are destroyed.                                           *)
LEMMA DestructionQuiet ==
    ASSUME TypeOK, Equipped, Destruction, Quiet
    PROVE  Destruction'
<1> USE DEF Destruction
<1>n. /\ NotOpening.at = "no" /\ Nothing \notin Providers /\ driver \in Providers
      /\ "no" \notin Providers /\ "driver" \notin Providers /\ "copy" \notin Providers
  BY NoOpening, Names DEF TypeOK
<1>p. \A h : Provider(h)' = Provider(h)
  BY DEF Quiet, Provider
<1>a. (active' = 0 => Attached' = Nothing) /\ (active' = active => Attached' = Attached)
      /\ (active' # 0 => Attached' = Provider(active'))
  BY <1>p DEF Attached
<1>k. opening.at = "copy" => Provider(opening.handle) \in Providers
  <2>1. opening.handle \in Handles
    BY OpeningFields DEF TypeOK
  <2> QED
    BY <2>1, ContentTypes DEF Equipped
<1>1. Settled'
  <2> SUFFICES ASSUME call'["owner"].at = "opened", request'.step = "destroy"
               PROVE  active' = call'["owner"].handle /\ Attached' = driver' /\ opening'.at \in {"no", "driver"}
    BY DEF Settled
  <2>1. CASE call["owner"].at = "opened" /\ request' = request /\ call'["owner"].handle = call["owner"].handle
             /\ (active' = active \/ opening.at = "copy") /\ driver' = driver
    <3>1. active = call["owner"].handle /\ Attached = driver /\ opening.at \in {"no", "driver"}
      BY <2>1 DEF Settled
    <3>2. active' = active
      BY <2>1, <3>1
    <3>3. opening' = opening \/ opening'.at \in {"no", "driver"}
      BY <1>n, <3>1 DEF Quiet, Opens
    <3> QED
      BY <1>a, <2>1, <3>1, <3>2, <3>3
  <2>2. CASE call'["owner"].handle = active' /\ active' # 0 /\ Provider(active') = driver /\ opening' = NotOpening /\ driver' = driver
    BY <1>a, <1>n, <1>p, <2>2
  <2> QED
    BY <2>1, <2>2 DEF Quiet, Asks
<1>2. Elsewhere'
  <2>1. CASE active' \in {0, active} /\ opening' = opening
    BY <1>a, <1>n, <1>p, <1>k, <2>1 DEF Elsewhere, Quiet
  <2>2. CASE opening'.at \in {"no", "driver"}
    BY <1>n, <2>2 DEF Elsewhere
  <2>3. CASE active' = active /\ opening'.at = driver /\ Attached # driver
    BY <1>a, <1>n, <2>3 DEF Elsewhere
  <2> QED
    BY <1>n, <2>1, <2>2, <2>3 DEF Quiet, Opens
<1>3. active' # 0 /\ active' \in dead' => Wiped(active')
  <2>1. active' \in {0, active} \/ (opening.at = "copy" /\ active' = opening.handle)
    BY DEF Quiet, Opens
  <2> QED
    BY <2>1 DEF Emptied, Elsewhere, Quiet
<1>4. \A w \in Writers : call'[w].at = "opened" /\ call'[w].handle \in dead' => Wiped(call'[w].handle)
  BY <1>3 DEF Emptied, Quiet, Goes
<1>5. Emptied'
  BY <1>p, <1>3, <1>4 DEF Emptied, Wiped, Quiet
<1> QED
  BY <1>1, <1>2, <1>5

(* A step that leaves the opening and the computers where they are.        *)
LEMMA DestructionCalm ==
    ASSUME TypeOK, Destruction, UNCHANGED <<handles, driver, active, dead, opening, request>>,
           call'["owner"].handle = call["owner"].handle, call'["owner"].at \in {call["owner"].at, "refused"},
           \A w \in Writers : call'[w].at = "opened" => call[w].at = "opened" /\ call'[w].handle = call[w].handle,
           \A h : Wiped(h) => Wiped(h)' \/ h \notin dead
    PROVE  Destruction'
<1>1. Attached' = Attached /\ \A h : Provider(h)' = Provider(h)
  BY DEF Attached, Provider
<1> QED
  BY <1>1 DEF Destruction, Settled, Elsewhere, Emptied

(* A computer that is destroyed stays empty but for what bots write      *)
(* there.                                                                *)
LEMMA DestructionTouching ==
    ASSUME TypeOK, Queue, Equipped, Attachments, Destruction, Touching
    PROVE  Destruction'
<1>n. /\ "sync" \in Actors /\ "owner" \in Actors /\ Writers \subseteq Actors /\ "open" \in Lockers
      /\ Writers \subseteq Lockers /\ "open" \notin Writers /\ "owner" \notin Writers /\ "sync" \notin Writers
      /\ driver # Nothing
      /\ "no" \notin Providers /\ "driver" \notin Providers /\ "copy" \notin Providers
  BY Names DEF TypeOK
<1>1. ASSUME OpenProvider PROVE Destruction'
  <2>1. /\ UNCHANGED <<call, files, driver, active, dead, request>>
        /\ Len(handles') = Len(handles) + 1 /\ Len(handles) \in Nat /\ opening.at \in Providers
        /\ \A h \in 1..Len(handles) : Provider(h)' = Provider(h)
        /\ handles'[Len(handles) + 1] = opening.at
        /\ opening'.at = "copy" /\ opening'.handle = Len(handles) + 1
    BY <1>1, OpenTouch
  <2>2. active # 0 => active \in 1..Len(handles)
    BY ContentTypes DEF TypeOK
  <2>3. Attached' = Attached
    BY <2>1, <2>2 DEF Attached
  <2>4. \A h \in 1..Len(handles) : Wiped(h) => Wiped(h)'
    BY <2>1 DEF Wiped
  <2>5. dead \subseteq 1..Len(handles)
    BY DEF TypeOK
  <2>6. Settled'
    BY <1>n, <2>1 DEF Destruction, Settled
  <2>7. Elsewhere'
    <3>1. opening'.handle \notin dead'
      BY <2>1, <2>5
    <3>2. handles'[opening'.handle] = opening.at
      BY <2>1
    <3> QED
      BY <1>n, <2>1, <2>3, <3>1, <3>2 DEF Destruction, Elsewhere, Provider
  <2>8. Emptied'
    BY <2>1, <2>4, <2>5 DEF Destruction, Emptied
  <2> QED
    BY <2>6, <2>7, <2>8 DEF Destruction
<1>2. ASSUME NEW k \in Keys, Copy(k) PROVE Destruction'
  <2>1. /\ UNCHANGED <<call, handles, store, driver, active, dead, request>>
        /\ Holds("open") /\ opening.at = "copy" /\ opening'.at = "copy" /\ opening'.handle = opening.handle
        /\ Provider(opening.handle) \in Providers
    BY <1>2, CopyTouch
  <2>2. Attached' = Attached /\ \A h : Provider(h)' = Provider(h)
    BY <2>1 DEF Attached, Provider
  <2>3. \A w \in Writers : call[w].at \notin Working
    BY <1>n, <2>1, OneInside, Askers
  <2>4. \A q \in Providers : q # Provider(opening.handle) => files'[q] = files[q]
    BY <1>2, <2>1 DEF Copy, TypeOK
  <2>5. active # 0 => Provider(active) \in Providers /\ Provider(active) = Attached
    BY ContentTypes DEF TypeOK, Attached
  <2>6. active # 0 /\ active \in dead => Wiped(active)'
    BY <2>1, <2>2, <2>4, <2>5 DEF Destruction, Elsewhere, Emptied, Wiped
  <2>7. "opened" \in Working
    BY DEF Working
  <2> QED
    BY <1>n, <2>1, <2>2, <2>3, <2>6, <2>7 DEF Destruction, Settled, Elsewhere, Emptied
<1>3. ASSUME NEW w \in Writers, WritePut(w) \/ WriteFile(w) \/ WriteMark(w) PROVE Destruction'
  <2>1. /\ Stay({w}) /\ UNCHANGED <<handles, driver, active, dead, opening, request>> /\ Holds(w)
        /\ call'[w].at # "opened"
    BY <1>3, WriteTouch
  <2>2. \A v \in Writers : call'[v].at = "opened" => v # w /\ call[v].at = "opened"
    BY <1>n, <2>1 DEF Stay
  <2>3. \A v \in Writers : call'[v].at # "opened"
    BY <1>n, <2>1, <2>2, OneInside, Askers DEF Working
  <2>4. call'["owner"] = call["owner"]
    BY <1>n, <2>1 DEF Stay
  <2>5. Attached' = Attached /\ \A h : Provider(h)' = Provider(h)
    BY <2>1 DEF Attached, Provider
  <2>6. Settled' /\ Elsewhere'
    BY <2>1, <2>4, <2>5 DEF Destruction, Settled, Elsewhere
  <2>7. active # 0 /\ active \in dead => files' = files
    <3>1. CASE WriteFile(w)
      <4>1. call[w].handle \notin dead /\ call[w].at = "opened"
        BY <3>1 DEF WriteFile
      <4> QED
        BY <4>1 DEF Attachments, SameComputer
    <3>2. CASE WritePut(w) \/ WriteMark(w)
      BY <3>2 DEF WritePut, WriteMark
    <3> QED
      BY <1>3, <3>1, <3>2
  <2> QED
    BY <2>1, <2>3, <2>5, <2>6, <2>7 DEF Destruction, Emptied, Wiped
<1>4. ASSUME NEW t \in Turns, NEW k \in Keys, NEW c \in {t, Nothing}, TurnEdits(t, k, c) PROVE Destruction'
  <2>1. /\ UNCHANGED <<call, handles, driver, active, dead, opening, request>> /\ c \in Turns \cup {Nothing}
        /\ Provider(call[t].handle) \in Providers
    BY <1>4, TurnTouch
  <2>2. \A h \in 1..Len(handles) : Wiped(h) => Wiped(h)'
    <3> SUFFICES ASSUME NEW h \in 1..Len(handles), Wiped(h), NEW i \in Keys
                 PROVE  files'[Provider(h)][i] \in Turns \cup {Nothing}
      BY <2>1 DEF Wiped, Provider
    <3>1. Provider(h) \in Providers
      BY DEF TypeOK, Provider
    <3>2. files'[Provider(h)][i] \in {c, files[Provider(h)][i]}
      BY <1>4, <3>1, TurnFiles
    <3> QED
      BY <2>1, <3>2 DEF Wiped
  <2>3. dead \subseteq 1..Len(handles)
    BY DEF TypeOK
  <2> QED
    BY <2>1, <2>2, <2>3, DestructionCalm
<1>5. ASSUME SyncDelete \/ \E k \in Keys : SyncKey(k) PROVE Destruction'
  <2>1. /\ UNCHANGED <<handles, files, driver, active, dead, opening, request>> /\ Stay({"sync", "owner"})
        /\ call'["owner"].handle = call["owner"].handle /\ call'["owner"].at \in {call["owner"].at, "refused"}
    BY <1>5, SyncTouch
  <2>2. \A h : Wiped(h) => Wiped(h)'
    BY <2>1 DEF Wiped, Provider
  <2>3. \A w \in Writers : call'[w] = call[w]
    BY <1>n, <2>1 DEF Stay
  <2> QED
    BY <2>1, <2>2, <2>3, DestructionCalm
<1>6. ASSUME OwnerDestroys PROVE Destruction'
  <2>1. /\ UNCHANGED <<handles, driver, active, opening>> /\ Stay({"owner"})
        /\ call["owner"].at = "opened" /\ request.step = "destroy" /\ request'.step = "release"
    BY <1>6, DestroyTouch
  <2>2. Settled'
    BY <2>1 DEF Settled
  <2>3. Elsewhere'
    BY <1>n, <2>1 DEF Destruction, Settled, Elsewhere
  <2>4. PICK p \in Providers :
          /\ IsDirect(p) => UNCHANGED <<files, dead>>
          /\ ~IsDirect(p) =>
              /\ files' = [files EXCEPT ![p] = [k \in Keys |-> Nothing]]
              /\ dead' = {i \in 1..Len(handles) : i \in dead \/ Provider(i) = p}
    BY <1>6, DestroyTouch
  <2>5. \A h \in 1..Len(handles) : Provider(h) \in Providers /\ Provider(h)' = Provider(h)
    BY <2>1 DEF TypeOK, Provider
  <2>6. dead \subseteq 1..Len(handles)
    BY DEF TypeOK
  <2>7. \A h \in dead' : h \in 1..Len(handles) /\ (h \in dead /\ Wiped(h) => Wiped(h)') /\ (h \in dead \/ Wiped(h)')
    <3>1. CASE IsDirect(p)
      BY <2>4, <2>5, <2>6, <3>1 DEF Wiped
    <3>2. CASE ~IsDirect(p)
      <4>1. files'[p] = [k \in Keys |-> Nothing] /\ \A q \in Providers : q # p => files'[q] = files[q]
        BY <2>4, <3>2 DEF TypeOK
      <4>2. dead' = {i \in 1..Len(handles) : i \in dead \/ Provider(i) = p}
        BY <2>4, <3>2
      <4> QED
        BY <2>5, <4>1, <4>2 DEF Wiped
    <3> QED
      BY <3>1, <3>2
  <2>8. \A w \in Writers : call'[w] = call[w]
    BY <1>n, <2>1 DEF Stay
  <2>9. Emptied'
    BY <2>1, <2>7, <2>8 DEF Destruction, Emptied
  <2> QED
    BY <2>2, <2>3, <2>9 DEF Destruction
<1> QED
  BY <1>1, <1>2, <1>3, <1>4, <1>5, <1>6 DEF Touching

-----------------------------------------------------------------------------
(* What a computer was given is there.                                     *)
LEMMA MarksTyped ==
    ASSUME TypeOK, NEW h \in 1..Len(handles)
    PROVE  materialized[h] \subseteq Keys /\ Provider(h) \in Providers
BY DEF TypeOK, Provider

(* A step that touches no file keeps the marks; an inventory shows what  *)
(* was given.                                                            *)
LEMMA MarksQuiet ==
    ASSUME TypeOK, Equipped, Marks, Quiet
    PROVE  Marks'
<1>1. /\ UNCHANGED <<files, handles, materialized, dead, gone>> /\ \A w \in Writers : Goes(w)
      /\ call'["sync"].at = "keys" => Scans
  BY DEF Quiet
<1>2. \A h : Provider(h)' = Provider(h)
  BY <1>1 DEF Provider
<1>3. Kept'
  BY <1>1, <1>2 DEF Marks, Kept, There
<1>4. Marked'
  BY <1>1, <1>2 DEF Marks, Marked, There, Goes
<1>5. Scanned'
  <2> SUFFICES ASSUME call'["sync"].at = "keys", NEW k \in materialized[sync'.handle]
               PROVE  sync'.seen[k] # Nothing \/ k \in sync'.lost
    BY <1>1 DEF Scanned
  <2>1. CASE call["sync"].at = "keys" /\ sync' = sync
    BY <2>1 DEF Marks, Scanned
  <2>2. CASE /\ sync'.handle = sync.handle /\ sync.handle # 0 /\ sync.handle \notin dead
             /\ sync'.seen = FilesOf(Provider(sync.handle)) /\ sync'.lost = gone[Provider(sync.handle)]
    <3>1. sync.handle \in 1..Len(handles)
      BY <2>2, SyncFields, ContentTypes DEF TypeOK
    <3>2. ~IsDirect(Provider(sync.handle)) /\ There(Provider(sync.handle), k)
      BY <2>2, <3>1 DEF Marks, Kept
    <3> QED
      BY <2>2, <3>2 DEF FilesOf, There
  <2> QED
    BY <1>1, <2>1, <2>2 DEF Scans
<1> QED
  BY <1>3, <1>4, <1>5 DEF Marks

(* A step that gives no computer anything.                                 *)
LEMMA MarksStay ==
    ASSUME TypeOK, Equipped, Marks, UNCHANGED <<handles, materialized>>, dead \subseteq dead',
           \A h \in 1..Len(handles), k \in Keys : There(Provider(h), k) => h \in dead' \/ There(Provider(h), k)',
           \A w \in Writers : call'[w].at = "written" =>
               /\ call'[w].handle = call[w].handle /\ call'[w].key = call[w].key
               /\ call[w].at = "written" \/ There(Provider(call[w].handle), call[w].key)',
           call'["sync"].at = "keys" =>
               /\ call["sync"].at = "keys" /\ sync'.handle = sync.handle
               /\ sync'.seen = sync.seen /\ sync'.lost = sync.lost
    PROVE  Marks'
<1>1. \A h : Provider(h)' = Provider(h)
  BY DEF Provider
<1>2. Kept'
  BY <1>1, MarksTyped DEF Marks, Kept
<1>3. Marked'
  <2> SUFFICES ASSUME NEW w \in Writers, call'[w].at = "written"
               PROVE  call[w].handle \in dead' \/ There(Provider(call[w].handle), call[w].key)'
    BY <1>1 DEF Marked
  <2>1. CASE There(Provider(call[w].handle), call[w].key)'
    BY <2>1
  <2>2. CASE call[w].at = "written"
    <3>1. call[w].handle # 0 /\ w \in Actors /\ call[w].key \in Keys
      BY <2>2, Names DEF Equipped, Working
    <3>2. call[w].handle \in 1..Len(handles)
      BY <3>1, Computer
    <3>3. call[w].handle \in dead \/ There(Provider(call[w].handle), call[w].key)
      BY <2>2 DEF Marks, Marked
    <3>4. CASE call[w].handle \in dead
      BY <3>4
    <3>5. CASE There(Provider(call[w].handle), call[w].key)
      <4>1. \/ call[w].handle \in dead' \/ files'[Provider(call[w].handle)][call[w].key] # Nothing
            \/ call[w].key \in gone'[Provider(call[w].handle)]
        BY <1>1, <3>1, <3>2, <3>5 DEF There
      <4> QED
        BY <1>1, <4>1 DEF There
    <3> QED
      BY <3>3, <3>4, <3>5
  <2> QED
    BY <2>1, <2>2
<1>4. Scanned'
  BY DEF Marks, Scanned
<1> QED
  BY <1>2, <1>3, <1>4 DEF Marks

(* A step that touches files keeps them too.                             *)
LEMMA MarksTouching ==
    ASSUME TypeOK, Queue, Equipped, Attachments, Marks, Touching
    PROVE  Marks'
<1>n. /\ "sync" \in Actors /\ "owner" \in Actors /\ Writers \subseteq Actors /\ "open" \in Lockers
      /\ "sync" \in Lockers
      /\ Writers \subseteq Lockers /\ "open" \notin Writers /\ "owner" \notin Writers /\ "sync" \notin Writers
  BY Names
<1>1. ASSUME OpenProvider PROVE Marks'
  <2>1. /\ UNCHANGED <<call, files, gone, dead, sync>>
        /\ Len(handles') = Len(handles) + 1 /\ Len(handles) \in Nat
        /\ \A h \in 1..Len(handles) : Provider(h)' = Provider(h) /\ materialized'[h] = materialized[h]
        /\ materialized'[Len(handles) + 1] = {}
    BY <1>1, OpenTouch
  <2>2. Kept'
    BY <2>1 DEF Marks, Kept, There
  <2>3. \A w \in Writers : call[w].at = "written" => call[w].handle \in 1..Len(handles)
    BY <1>n, Computer DEF Equipped
  <2>4. Marked'
    BY <2>1, <2>3 DEF Marks, Marked, There
  <2>5. call["sync"].at = "keys" => sync.handle \in 1..Len(handles)
    BY <1>n, Computer DEF Equipped
  <2>6. Scanned'
    BY <2>1, <2>5 DEF Marks, Scanned
  <2> QED
    BY <2>2, <2>4, <2>6 DEF Marks
<1>2. ASSUME NEW k \in Keys, Copy(k) PROVE Marks'
  <2>h. PICK h \in 1..Len(handles) : h = opening.handle
    BY <1>2, CopyTouch
  <2>p. PICK p \in Providers : p = Provider(opening.handle)
    BY <1>2, CopyTouch
  <2>1. /\ UNCHANGED <<call, handles, store, driver, active, dead, sync, request>>
        /\ Holds("open")
    BY <1>2, CopyTouch
  <2>2. (\A w \in Writers : call'[w].at # "written") /\ call'["sync"].at # "keys"
    <3>1. "written" \in Working
      BY DEF Working
    <3> QED
      BY <1>n, <2>1, <3>1, OneInside, Askers
  <2>3. Marked' /\ Scanned'
    BY <2>2 DEF Marked, Scanned
  <2>4. \A i : Provider(i)' = Provider(i)
    BY <2>1 DEF Provider
  <2>5. CASE IsDirect(p) \/ store[k] = Nothing
    <3>1. UNCHANGED <<files, materialized, gone>>
      BY <1>2, <2>p, <2>5 DEF Copy
    <3>2. Kept'
      BY <2>1, <2>4, <3>1 DEF Marks, Kept, There
    <3> QED
      BY <2>3, <3>2 DEF Marks
  <2>6. CASE ~IsDirect(p) /\ store[k] # Nothing
    <3>1. /\ files' = [files EXCEPT ![p][k] = store[k]] /\ gone' = [gone EXCEPT ![p] = gone[p] \ {k}]
          /\ materialized' = [materialized EXCEPT ![h] = materialized[h] \cup {k}]
      BY <1>2, <2>h, <2>p, <2>6 DEF Copy
    <3>2. files \in [Providers -> Files] /\ gone \in [Providers -> SUBSET Keys] /\ files[p] \in Files
      BY <2>1 DEF TypeOK
    <3>3. h \in 1..Len(materialized) /\ materialized \in Seq(SUBSET Keys)
      BY <2>1 DEF TypeOK
    <3>4. materialized[h] \cup {k} \in SUBSET Keys
      BY <3>3
    <3>m. \A i \in 1..Len(handles) : materialized'[i] = IF i = h THEN materialized[h] \cup {k} ELSE materialized[i]
      <4> DEFINE K == materialized[h] \cup {k}
      <4>1. materialized' = [materialized EXCEPT ![h] = K] /\ K \in SUBSET Keys /\ Len(materialized) = Len(handles)
        BY <3>1, <3>4 DEF TypeOK
      <4> HIDE DEF K
      <4>2. \A i \in 1..Len(materialized) : materialized'[i] = IF i = h THEN K ELSE materialized[i]
        BY <3>3, <4>1, MarkPut
      <4>3. \A i \in 1..Len(handles) : materialized'[i] = IF i = h THEN K ELSE materialized[i]
        BY <4>1, <4>2
      <4> QED
        BY <4>3 DEF K
    <3>5. \A q \in Providers : q # p => files'[q] = files[q] /\ gone'[q] = gone[q]
      BY <2>1, <3>1, <3>2
    <3>6. \A i \in Keys : files'[p][i] = (IF i = k THEN store[k] ELSE files[p][i])
      BY <2>1, <3>1, <3>2 DEF Files
    <3>7. gone'[p] = gone[p] \ {k}
      BY <2>1, <3>1, <3>2
    <3>8. \A q \in Providers, i \in Keys : There(q, i) => There(q, i)'
      BY <2>6, <3>5, <3>6, <3>7 DEF There
    <3>9. There(p, k)'
      BY <2>6, <3>6 DEF There
    <3>10. Kept'
      <4> SUFFICES ASSUME NEW i \in 1..Len(handles)
                   PROVE  /\ IsDirect(Provider(i)) => materialized'[i] = {}
                          /\ i \in dead \/ \A j \in materialized'[i] : There(Provider(i), j)'
        BY <2>1, <2>4 DEF Kept
      <4>1. CASE i = h
        <5>1. Provider(i) = p /\ materialized'[i] = materialized[i] \cup {k} /\ materialized[i] \subseteq Keys
          BY <2>h, <2>p, <3>m, <4>1, MarksTyped
        <5>2. \A j \in Keys : There(p, j) => There(p, j)'
          BY <2>1, <3>8
        <5>3. i \in dead \/ \A j \in materialized[i] : There(p, j)
          BY <5>1 DEF Marks, Kept
        <5>4. ASSUME NEW j, There(p, j)' PROVE There(Provider(i), j)'
          BY <2>4, <5>1, <5>4 DEF There
        <5> QED
          BY <2>6, <3>9, <5>1, <5>2, <5>3, <5>4
      <4>2. CASE i # h
        <5>1. materialized'[i] = materialized[i] /\ materialized[i] \subseteq Keys /\ Provider(i) \in Providers
          BY <3>m, <4>2, MarksTyped
        <5>2. \A j \in Keys : There(Provider(i), j) => There(Provider(i), j)'
          BY <2>4, <3>8, <5>1 DEF There
        <5> QED
          BY <5>1, <5>2 DEF Marks, Kept
      <4> QED
        BY <4>1, <4>2
    <3> QED
      BY <2>3, <3>10 DEF Marks
  <2> QED
    BY <2>5, <2>6
<1>3. ASSUME NEW w \in Writers, WritePut(w) \/ WriteFile(w) PROVE Marks'
  <2>1. /\ Stay({w}) /\ UNCHANGED <<handles, dead, sync>> /\ Holds(w) /\ call[w].at \in {"queued"} \cup Working
        /\ call'[w].at = "written" => call[w].at \in {"opened", "written"}
    BY <1>3, WriteTouch
  <2>k. UNCHANGED materialized
    BY <1>3 DEF WritePut, WriteFile, machines
  <2>2. call'["sync"].at # "keys"
    BY <1>n, <2>1, OneInside, Askers DEF Stay
  <2>3. \A v \in Writers : v # w => call'[v] = call[v]
    BY <1>n, <2>1 DEF Stay
  <2>4. CASE WritePut(w)
    <3>1. call'[w].at = "put" /\ UNCHANGED <<files, gone>>
      BY <1>n, <2>4, AtGoes DEF WritePut, TypeOK, Spots
    <3> QED
      BY <2>1, <2>k, <2>2, <2>3, <3>1, MarksStay DEF There, Provider
  <2>5. CASE WriteFile(w)
    <3>1. call[w].at = "opened" /\ call'[w].handle = call[w].handle /\ call'[w].key = call[w].key
      BY <1>n, <2>5, AtGoes DEF WriteFile, TypeOK, Spots
    <3>2. ~IsDirect(Provider(call[w].handle)) /\ call[w].handle # 0 /\ call[w].key \in Keys
      BY <1>n, <3>1, Names DEF Attachments, Remote, Equipped, Working
    <3>3. Provider(call[w].handle) \in Providers
      BY <1>n, <3>2, Computer
    <3>4. PICK p \in Providers, k \in Keys : p = Provider(call[w].handle) /\ k = call[w].key
      BY <3>2, <3>3
    <3>5. files' = [files EXCEPT ![p][k] = w] /\ gone' = [gone EXCEPT ![p] = gone[p] \ {k}]
      BY <2>5, <3>2, <3>4 DEF WriteFile
    <3>6. files \in [Providers -> Files] /\ gone \in [Providers -> SUBSET Keys] /\ files[p] \in Files /\ w # Nothing
      BY Names DEF TypeOK
    <3>7. \A q \in Providers : q # p => files'[q] = files[q] /\ gone'[q] = gone[q]
      BY <3>5, <3>6
    <3>8. \A i \in Keys : files'[p][i] = (IF i = k THEN w ELSE files[p][i])
      BY <3>5, <3>6 DEF Files
    <3>9. gone'[p] = gone[p] \ {k}
      BY <3>5, <3>6
    <3>10. There(p, k)' /\ \A q \in Providers, i \in Keys : There(q, i) => There(q, i)'
      BY <3>6, <3>7, <3>8, <3>9 DEF There
    <3>11. \A i \in 1..Len(handles), j \in Keys : There(Provider(i), j) => There(Provider(i), j)'
      BY <2>1, <3>10, MarksTyped DEF There, Provider
    <3>12. There(Provider(call[w].handle), call[w].key)'
      BY <2>1, <3>1, <3>4, <3>10 DEF There, Provider
    <3> QED
      BY <2>1, <2>k, <2>2, <2>3, <3>1, <3>11, <3>12, MarksStay
  <2> QED
    BY <1>3, <2>4, <2>5
<1>4. ASSUME NEW w \in Writers, WriteMark(w) PROVE Marks'
  <2>1. /\ Stay({w}) /\ UNCHANGED <<handles, dead, sync, active, files, gone>> /\ Holds(w) /\ call[w].at = "written"
        /\ call'[w].at = "done" /\ call[w].at \in Working
    BY <1>4, WriteTouch DEF WriteMark, Working, machines, noted
  <2>2. call'["sync"].at # "keys"
    BY <1>n, <2>1, OneInside, Askers DEF Stay
  <2>3. \A v \in Writers : v # w => call'[v] = call[v]
    BY <1>n, <2>1 DEF Stay
  <2>4. Scanned' /\ Marked'
    BY <2>1, <2>2, <2>3 DEF Marks, Marked, Scanned, There, Provider
  <2>5. /\ call[w].key \in Keys /\ active \in {0, call[w].handle} /\ ~IsDirect(Provider(call[w].handle))
        /\ call[w].handle \in dead \/ There(Provider(call[w].handle), call[w].key)
    BY <1>n, <2>1 DEF Attachments, Remote, SameComputer, Equipped, Marks, Marked
  <2>6. CASE active = 0
    <3>1. materialized' = materialized
      BY <1>4, <2>6 DEF WriteMark
    <3> QED
      BY <2>1, <2>4, <3>1 DEF Marks, Kept, There, Provider
  <2>7. CASE active # 0
    <3> DEFINE K == materialized[active] \cup {call[w].key}
    <3>1. active \in 1..Len(handles) /\ active = call[w].handle
      BY <2>5, <2>7, ContentTypes DEF TypeOK
    <3>2. materialized' = [materialized EXCEPT ![active] = K] /\ K \in SUBSET Keys
          /\ Len(materialized) = Len(handles) /\ materialized \in Seq(SUBSET Keys)
      BY <1>4, <2>5, <2>7, <3>1, MarksTyped DEF WriteMark, TypeOK
    <3> HIDE DEF K
    <3>3. \A i \in 1..Len(handles) : materialized'[i] = IF i = active THEN K ELSE materialized[i]
      BY <3>1, <3>2
    <3>4. Kept'
      BY <2>1, <2>5, <3>1, <3>3 DEF Marks, Kept, There, Provider, K
    <3> QED
      BY <2>4, <3>4 DEF Marks
  <2> QED
    BY <2>6, <2>7
<1>5. ASSUME NEW t \in Turns, NEW k \in Keys, NEW c \in {t, Nothing}, TurnEdits(t, k, c) PROVE Marks'
  <2>1. /\ UNCHANGED <<call, handles, materialized, dead>> /\ sync'.handle = sync.handle /\ sync'.seen = sync.seen
        /\ sync'.lost = sync.lost
    BY <1>5, TurnTouch
  <2>2. \A q \in Providers, i \in Keys : There(q, i) => There(q, i)'
    BY <1>5, TurnFiles DEF There
  <2>3. \A i \in 1..Len(handles), j \in Keys : There(Provider(i), j) => There(Provider(i), j)'
    BY <2>1, <2>2, MarksTyped DEF There, Provider
  <2> QED
    BY <2>1, <2>3, MarksStay
<1>6. ASSUME NEW k \in Keys, SyncKey(k) PROVE Marks'
  <2>1. UNCHANGED <<call, handles, materialized, dead, files, gone>>
    BY <1>6 DEF SyncKey, machines
  <2>2. sync'.handle = sync.handle /\ sync'.seen = sync.seen /\ sync'.lost = sync.lost
    BY <1>6 DEF SyncKey, TypeOK, SyncState
  <2>3. \A i \in 1..Len(handles), j \in Keys : There(Provider(i), j) => There(Provider(i), j)'
    BY <2>1 DEF There, Provider
  <2> QED
    BY <2>1, <2>2, <2>3, MarksStay
<1>7. ASSUME SyncDelete PROVE Marks'
  <2>1. /\ UNCHANGED <<handles, dead, files, gone>> /\ Stay({"sync", "owner"})
        /\ EndSync(TRUE) /\ TRUE \in BOOLEAN /\ call["sync"].at = "keys"
    BY <1>7, SyncTouch DEF SyncDelete
  <2>2. call'["sync"].at # "keys" /\ \A w \in Writers : call'[w] = call[w]
    BY <1>n, <2>1, FlightEnds, IdleState DEF TypeOK, Stay
  <2>3. Marked' /\ Scanned'
    BY <2>1, <2>2 DEF Marks, Marked, Scanned, There, Provider
  <2>4. sync.handle \in 1..Len(handles)
    BY <1>n, <2>1, Computer DEF Equipped
  <2>5. PICK M : materialized' = [materialized EXCEPT ![sync.handle] = materialized[sync.handle] \ M]
    BY <1>7 DEF SyncDelete
  <2>6. \A i \in 1..Len(handles) : materialized'[i] \subseteq materialized[i]
    <3> DEFINE K == materialized[sync.handle] \ M
    <3>1. materialized' = [materialized EXCEPT ![sync.handle] = K] /\ K \subseteq materialized[sync.handle]
          /\ Len(materialized) = Len(handles) /\ materialized \in Seq(SUBSET Keys)
      BY <2>5 DEF TypeOK
    <3> HIDE DEF K
    <3> QED
      BY <2>4, <3>1
  <2>7. Kept'
    BY <2>1, <2>6 DEF Marks, Kept, There, Provider
  <2> QED
    BY <2>3, <2>7 DEF Marks
<1>8. ASSUME OwnerDestroys PROVE Marks'
  <2>1. UNCHANGED <<handles, materialized, sync>> /\ Stay({"owner"})
    BY <1>8, DestroyTouch
  <2>2. call'["sync"] = call["sync"] /\ \A w \in Writers : call'[w] = call[w]
    BY <1>n, <2>1, Names DEF Stay
  <2>3. PICK p \in Providers :
          /\ IsDirect(p) => UNCHANGED <<files, dead, gone>>
          /\ ~IsDirect(p) =>
              /\ files' = [files EXCEPT ![p] = [k \in Keys |-> Nothing]] /\ gone' = [gone EXCEPT ![p] = {}]
              /\ dead' = {i \in 1..Len(handles) : i \in dead \/ Provider(i) = p}
    BY <1>8, DestroyTouch
  <2>4. /\ dead \subseteq dead'
        /\ \A i \in 1..Len(handles), j \in Keys : There(Provider(i), j) => i \in dead' \/ There(Provider(i), j)'
    <3>1. CASE IsDirect(p)
      BY <2>1, <2>3, <3>1 DEF There, Provider
    <3>2. CASE ~IsDirect(p)
      <4>1. \A q \in Providers : q # p => files'[q] = files[q] /\ gone'[q] = gone[q]
        BY <2>3, <3>2 DEF TypeOK
      <4>2. dead' = {i \in 1..Len(handles) : i \in dead \/ Provider(i) = p} /\ dead \subseteq 1..Len(handles)
        BY <2>3, <3>2 DEF TypeOK
      <4> QED
        BY <2>1, <4>1, <4>2, MarksTyped DEF There, Provider
    <3> QED
      BY <3>1, <3>2
  <2> QED
    BY <2>1, <2>2, <2>4, MarksStay
<1> QED
  BY <1>1, <1>2, <1>3, <1>4, <1>5, <1>6, <1>7, <1>8 DEF Touching

-----------------------------------------------------------------------------
(* An object leaves the store only when a bot removed the file.            *)
LEMMA NoLoss ==
    ASSUME TypeOK, Queue, Equipped, Attachments, Marks, [Next]_vars,
           NEW k \in Keys, store[k] # Nothing, store'[k] = Nothing
    PROVE  k \in sync.lost \/ k \in inPlace'
<1>0. Touching
  BY QuietOrTouching DEF Quiet
<1>n. "sync" \in Actors /\ store \in Files /\ \A w \in Writers : w # Nothing
  BY Names DEF TypeOK
<1>1. CASE OpenProvider \/ OwnerDestroys \/ (\E i \in Keys : Copy(i)) \/ \E w \in Writers : WriteMark(w)
  BY <1>1 DEF OpenProvider, OwnerDestroys, Copy, WriteMark, kept
<1>2. ASSUME NEW w \in Writers, WritePut(w) \/ WriteFile(w) PROVE FALSE
  <2>1. store' = store \/ store' = [store EXCEPT ![call[w].key] = w]
    BY <1>2 DEF WritePut, WriteFile
  <2> QED
    BY <1>n, <2>1 DEF Files
<1>3. ASSUME NEW t \in Turns, NEW i \in Keys, NEW c \in {t, Nothing}, TurnEdits(t, i, c) PROVE k \in inPlace'
  <2>1. driver \in Providers
    BY DEF TypeOK
  <2>2. store'[k] = store[k] \/ k \in inPlace'
    BY <1>3, <2>1, TurnFiles
  <2> QED
    BY <2>2
<1>4. ASSUME NEW i \in Keys, SyncKey(i) PROVE FALSE
  <2>1. (store' = store \/ store' = [store EXCEPT ![i] = sync.seen[i]]) /\ i \in sync.todo
    BY <1>4 DEF SyncKey
  <2>2. sync.seen[i] # Nothing
    BY <2>1 DEF Equipped
  <2> QED
    BY <1>n, <2>1, <2>2 DEF Files
<1>5. CASE SyncDelete
  <2>1. /\ call["sync"].at = "keys" /\ ~sync.direct
        /\ k \in materialized[sync.handle] /\ sync.seen[k] = Nothing
    BY <1>5 DEF SyncDelete
  <2> QED
    BY <2>1 DEF Marks, Scanned
<1> QED
  BY <1>0, <1>1, <1>2, <1>3, <1>4, <1>5 DEF Touching

-----------------------------------------------------------------------------
(* What arrives.                                                           *)
Safe(k) == store[k] = Nothing \/ There(driver, k) \/ Owed(k)
Calls == {"put", "opening", "opened"}

(* A write is owed until it has reached its computer, failed, or found   *)
(* it destroyed.                                                         *)
LEMMA QuietOwed ==
    ASSUME Quiet, NEW k, Owed(k), faults' = 0, ~(IsDirect(driver) /\ driver' = driver)
    PROVE  \/ Owed(k)'
           \/ \E w \in Writers : Holds(w) /\ call[w].at = "opened" /\ call[w].key = k /\ call[w].handle \in dead
<1>1. PICK w \in Writers : call[w].at \in {"put", "opening", "opened"} /\ call[w].key = k
  BY DEF Owed
<1>2. Goes(w)
  BY DEF Quiet
<1>3. CASE call'[w] = call[w]
  BY <1>1, <1>3 DEF Owed
<1>4. CASE call'[w].key = call[w].key /\ call'[w].at \in {"opening", "opened"}
  BY <1>1, <1>4 DEF Owed
<1> QED
  BY <1>1, <1>2, <1>3, <1>4 DEF Goes

(* A step that touches no file keeps what has arrived.                   *)
LEMMA FreshQuiet ==
    ASSUME TypeOK, Queue, Equipped, Attachments, Destruction, Fresh, Quiet
    PROVE  Fresh'
<1>n. /\ Writers \subseteq Actors /\ Writers \subseteq Lockers /\ "open" \in Lockers /\ "open" \notin Writers
      /\ "owner" \notin Writers /\ NotOpening.at = "no" /\ driver # "copy"
  BY Names, NoOpening DEF TypeOK
<1>u. /\ UNCHANGED <<store, index, files, handles, dead, gone>> /\ \A w \in Writers : Goes(w)
      /\ (faults' = 0 => faults = 0) /\ (straddled => straddled')
  BY DEF Quiet
<1>p. \A h : Provider(h)' = Provider(h)
  BY <1>u DEF Provider
<1>1. Refused'
  BY <1>u DEF Fresh, Refused, Goes
<1>2. Noted'
  BY <1>u DEF Fresh, Noted, Goes
<1>c. opening'.at = "copy" => opening' = opening
  BY <1>n DEF Quiet, Opens
<1>3. Arriving'
  <2> SUFFICES ASSUME faults' = 0, ~straddled', ~IsDirect(driver'), NEW k \in Keys
               PROVE  /\ active' # 0 => Given(active, k)'
                      /\ opening'.at = "copy" /\ k \notin opening'.todo => Given(opening.handle, k)'
    BY DEF Arriving, Given, There
  <2>1. CASE driver' # driver
    BY <2>1 DEF Quiet, Drives
  <2>2. CASE driver' = driver
    <3>1. /\ active # 0 => Given(active, k)
          /\ opening.at = "copy" /\ k \notin opening.todo => Given(opening.handle, k)
      BY <1>u, <2>2 DEF Fresh, Arriving
    <3> DEFINE Still(h) == h \in dead \/ store[k] = Nothing \/ There(Provider(h), k) \/ Owed(k)'
    <3>2. (active' # 0 => Still(active')) /\ (opening.at = "copy" /\ k \notin opening.todo => Still(opening.handle))
      <4>1. CASE Owed(k) => Owed(k)'
        <5>1. active' \in {0, active} \/ (opening.at = "copy" /\ opening.todo = {} /\ active' = opening.handle)
          BY DEF Quiet, Opens
        <5> QED
          BY <3>1, <4>1, <5>1 DEF Given
      <4>2. CASE Owed(k) /\ ~Owed(k)'
        <5>1. PICK w \in Writers : Holds(w) /\ call[w].at = "opened" /\ call[w].handle \in dead
          BY <2>2, <4>2, QuietOwed
        <5>2. active \in {0, call[w].handle}
          BY <5>1 DEF Attachments, SameComputer
        <5>3. ~(opening.at = "copy" /\ opening.todo # Keys) /\ ~Holds("open")
          BY <1>n, <5>1, OneInside, Askers, HolderFirst DEF TypeOK
        <5>4. active' \in {0, active}
          BY <5>3 DEF Quiet, Opens
        <5> QED
          BY <5>1, <5>2, <5>3, <5>4
      <4> QED
        BY <4>1, <4>2
    <3> QED
      BY <1>u, <1>p, <1>c, <3>2 DEF Given, There
  <2> QED
    BY <2>1, <2>2
<1>4. UpToDate'
  <2> SUFFICES ASSUME faults' = 0, ~straddled', ~IsDirect(driver'), NEW k \in Keys, Reached(k)'
               PROVE  Current(k)'
    BY DEF UpToDate
  <2>1. driver' = driver
    <3>1. opening'.at = "driver" => opening'.at # "copy"
      OBVIOUS
    <3> QED
      BY <3>1 DEF Quiet, Drives, Reached
  <2>2. Reached(k)
    BY <1>c DEF Quiet, Opens, Reached
  <2>3. Current(k)
    BY <1>u, <2>1, <2>2 DEF Fresh, UpToDate
  <2>4. CASE Owed(k) => Owed(k)'
    BY <1>u, <2>1, <2>3, <2>4 DEF Current
  <2>5. CASE Owed(k) /\ ~Owed(k)'
    <3>1. PICK w \in Writers : Holds(w) /\ call[w].at = "opened" /\ call[w].handle \in dead
      BY <2>1, <2>5, QuietOwed
    <3>2. Wiped(call[w].handle) /\ call[w].handle # 0
      BY <1>n, <3>1 DEF Destruction, Emptied, Equipped
    <3>3. Provider(call[w].handle) = driver
      BY <1>n, <1>u, <3>2 DEF Attachments, Together
    <3> QED
      BY <1>u, <2>1, <3>2, <3>3 DEF Current, Wiped
  <2> QED
    BY <2>4, <2>5
<1> QED
  BY <1>1, <1>2, <1>3, <1>4 DEF Fresh

(* A step that leaves the computers where they are keeps what has arrived, *)
(* if it keeps it on the computer of the driver.                           *)
LEMMA FreshStay ==
    ASSUME TypeOK, Equipped, Attachments, Fresh,
           UNCHANGED <<handles, driver, active, straddled, faults>>, dead \subseteq dead',
           opening'.at = "copy" => opening.at = "copy" /\ opening'.handle = opening.handle,
           call'["sync"].handle \in {0, call["sync"].handle},
           \A w \in Writers : call'[w].at = "refused" => call[w].at = "refused",
           \A w \in Writers : call'[w].at \in Calls => index'[call'[w].key] = w,
           faults = 0 /\ ~straddled /\ ~IsDirect(driver) => \A k \in Keys :
               /\ Safe(k) => Safe(k)' \/ \A h \in 1..Len(handles) : Provider(h) = driver => h \in dead'
               /\ Current(k) => Current(k)'
               /\ opening'.at = "copy" /\ k \notin opening'.todo => k \notin opening.todo \/ (Safe(k)' /\ Current(k)')
    PROVE  Fresh'
<1>1. Refused'
  BY DEF Fresh, Refused
<1>2. Noted'
  BY DEF Noted, Calls
<1>3. Arriving'
  <2> SUFFICES ASSUME faults = 0, ~straddled, ~IsDirect(driver), NEW k \in Keys
               PROVE  /\ active # 0 => Given(active, k)'
                      /\ opening'.at = "copy" /\ k \notin opening'.todo => Given(opening.handle, k)'
    BY DEF Arriving, Given, There
  <2>1. \A h : Provider(h)' = Provider(h)
    BY DEF Provider
  <2>2. active # 0 => active \in 1..Len(handles) /\ Provider(active) = driver
    BY ContentTypes DEF TypeOK, Attachments, Together
  <2>3. opening.at = "copy" => opening.handle \in 1..Len(handles) /\ Provider(opening.handle) = driver
    BY OpeningFields, ContentTypes DEF TypeOK, Equipped, Attachments, Together
  <2>4. /\ active # 0 => active \in dead \/ Safe(k)
        /\ opening.at = "copy" /\ k \notin opening.todo => opening.handle \in dead \/ Safe(k)
    BY <2>2, <2>3 DEF Fresh, Arriving, Given, Safe
  <2>5. /\ active # 0 => active \in dead' \/ Safe(k)'
        /\ opening'.at = "copy" /\ k \notin opening'.todo => opening.handle \in dead' \/ Safe(k)'
    BY <2>2, <2>3, <2>4
  <2>6. /\ active # 0 => Given(active, k)'
    BY <2>1, <2>2, <2>5 DEF Given, Safe, There
  <2>7. opening'.at = "copy" /\ k \notin opening'.todo => Given(opening.handle, k)'
    BY <2>1, <2>3, <2>5 DEF Given, Safe, There
  <2> QED
    BY <2>6, <2>7
<1>4. UpToDate'
  <2> SUFFICES ASSUME faults = 0, ~straddled, ~IsDirect(driver), NEW k \in Keys, Reached(k)'
               PROVE  Current(k)'
    BY DEF UpToDate
  <2>1. Reached(k) \/ Current(k)'
    BY DEF Reached
  <2> QED
    BY <2>1 DEF Fresh, UpToDate
<1> QED
  BY <1>1, <1>2, <1>3, <1>4 DEF Fresh

(* An opening brings every object to its computer, one after the other.  *)
LEMMA FreshOpening ==
    ASSUME TypeOK, Queue, Equipped, Attachments, Fresh, OpenProvider \/ \E k \in Keys : Copy(k)
    PROVE  Fresh'
<1>n. /\ Writers \subseteq Lockers /\ "open" \in Lockers /\ "open" \notin Writers /\ "copy" \notin Providers
      /\ "sync" \in Actors
  BY Names
<1>1. ASSUME OpenProvider PROVE Fresh'
  <2>1. /\ UNCHANGED <<call, store, index, files, gone, driver, active, dead, straddled, faults>>
        /\ opening.at \in Providers
        /\ \A h \in 1..Len(handles) : Provider(h)' = Provider(h)
        /\ opening'.at = "copy" /\ opening'.todo = Keys
    BY <1>1, OpenTouch
  <2>2. active # 0 => active \in 1..Len(handles)
    BY ContentTypes DEF TypeOK
  <2>3. Refused' /\ Noted'
    BY <2>1 DEF Fresh, Refused, Noted
  <2>4. Arriving'
    BY <2>1, <2>2 DEF Fresh, Arriving, Given, There, Owed
  <2>5. UpToDate'
    BY <2>1 DEF Fresh, UpToDate, Reached, Current, Owed
  <2> QED
    BY <2>3, <2>4, <2>5 DEF Fresh
<1>2. ASSUME NEW k \in Keys, Copy(k) PROVE Fresh'
  <2>1. /\ UNCHANGED <<call, handles, store, driver, active, dead, straddled, faults>>
        /\ Holds("open") /\ opening.at = "copy" /\ opening'.at = "copy" /\ opening'.handle = opening.handle
        /\ opening'.todo = opening.todo \ {k}
    BY <1>2, CopyTouch
  <2>2. \A w \in Writers : call[w].at \notin Working
    BY <1>n, <2>1, OneInside, Askers
  <2>3. \A w \in Writers : call'[w].at \notin Calls /\ call'[w].at # "refused"
    BY <2>1, <2>2 DEF Working, Calls
  <2>4. ASSUME ~straddled, ~IsDirect(driver), NEW i \in Keys
        PROVE  /\ (i # k \/ store[k] = Nothing) => (Safe(i) => Safe(i)') /\ (Current(i) => Current(i)')
               /\ i = k => Safe(i)' /\ Current(i)'
    <3>1. Provider(opening.handle) = driver /\ driver \in Providers
      BY <2>1, <2>4 DEF TypeOK, Attachments, Together
    <3>2. CASE store[k] = Nothing
      <4>1. UNCHANGED <<index, files, gone>>
        BY <1>2, <2>4, <3>1, <3>2 DEF Copy
      <4> QED
        BY <2>1, <3>2, <4>1 DEF Safe, Current, There, Owed
    <3>3. CASE store[k] # Nothing
      <4>1. /\ files' = [files EXCEPT ![driver][k] = store[k]] /\ gone' = [gone EXCEPT ![driver] = gone[driver] \ {k}]
            /\ index' = [index EXCEPT ![k] = store[k]]
        BY <1>2, <2>4, <3>1, <3>3 DEF Copy
      <4>2. files \in [Providers -> Files] /\ gone \in [Providers -> SUBSET Keys] /\ files[driver] \in Files /\ index \in Files
        BY <3>1 DEF TypeOK
      <4>3. files'[driver][i] = (IF i = k THEN store[k] ELSE files[driver][i]) /\ index'[i] = (IF i = k THEN store[k] ELSE index[i])
        BY <3>1, <4>1, <4>2 DEF Files
      <4>4. i # k => (i \in gone'[driver] <=> i \in gone[driver])
        BY <3>1, <4>1, <4>2
      <4> QED
        BY <2>1, <3>3, <4>3, <4>4 DEF Safe, Current, There, Owed
    <3> QED
      BY <3>2, <3>3
  <2> QED
    BY <1>n, <2>1, <2>3, <2>4, FreshStay
<1> QED
  BY <1>1, <1>2

(* A write brings its content to the computer it has opened.             *)
LEMMA FreshWrite ==
    ASSUME TypeOK, Queue, Equipped, Attachments, Fresh, NEW w \in Writers, WritePut(w) \/ WriteFile(w) \/ WriteMark(w)
    PROVE  Fresh'
<1> USE DEF kept, machines, noted, bounds
<1>n. /\ Writers \subseteq Lockers /\ w \in Actors /\ "sync" \in Actors /\ "sync" # w /\ Writers \subseteq Actors
      /\ w # Nothing /\ Calls \subseteq Working /\ "refused" \in Working
  BY Names DEF Calls, Working
<1>1. /\ Stay({w}) /\ UNCHANGED <<handles, driver, active, dead, opening, sync, request, straddled, faults>>
      /\ Holds(w) /\ call[w].at \in {"queued", "opened", "written"} /\ call[w].at \in {"queued"} \cup Working
      /\ call'[w].at = (IF call[w].at = "queued" THEN "put" ELSE IF call[w].at = "opened" THEN "written" ELSE "done")
      /\ call[w].at # "written" => call'[w].handle = call[w].handle /\ call'[w].key = call[w].key
  BY WriteTouch
<1>k. call[w].key \in Keys
  BY <1>1 DEF Equipped
<1>2. \A v \in Writers : v # w => call'[v] = call[v] /\ call[v].at \notin Working
  BY <1>n, <1>1, OneInside, Askers DEF Stay
<1>3. call'["sync"] = call["sync"]
  BY <1>n, <1>1 DEF Stay
<1>4. \A v \in Writers : call'[v].at # "refused"
  BY <1>n, <1>1, <1>2
<1>5. CASE WritePut(w)
  <2>1. /\ call[w].at = "queued" /\ UNCHANGED <<files, gone>>
        /\ store' = [store EXCEPT ![call[w].key] = w] /\ index' = [index EXCEPT ![call[w].key] = w]
    BY <1>5 DEF WritePut
  <2>2. \A i \in Keys : i # call[w].key => store'[i] = store[i] /\ index'[i] = index[i]
    BY <1>k, <2>1 DEF TypeOK, Files
  <2>3. index'[call[w].key] = w
    BY <1>k, <2>1 DEF TypeOK, Files
  <2>4. \A v \in Writers : call'[v].at \in Calls => index'[call'[v].key] = v
    BY <1>n, <1>1, <1>2, <2>1, <2>3
  <2>5. ASSUME NEW i \in Keys PROVE (Safe(i) => Safe(i)') /\ (Current(i) => Current(i)')
    <3>1. CASE i = call[w].key
      <4>1. Owed(i)'
        BY <1>1, <2>1, <3>1 DEF Owed
      <4> QED
        BY <4>1 DEF Safe, Current
    <3>2. CASE i # call[w].key
      <4>1. ~Owed(i)
        BY <1>2, <1>n, <2>1 DEF Owed, Calls
      <4> QED
        BY <1>1, <2>1, <2>2, <3>2, <4>1 DEF Safe, Current, There
    <3> QED
      BY <3>1, <3>2
  <2> QED
    BY <1>1, <1>3, <1>4, <2>4, <2>5, FreshStay
<1>6. CASE WriteMark(w)
  <2>1. UNCHANGED <<files, gone, store, index>> /\ call[w].at = "written"
    BY <1>6 DEF WriteMark
  <2>2. \A v \in Writers : call'[v].at \notin Calls
    BY <1>n, <1>1, <1>2, <2>1 DEF Calls
  <2>3. \A i : ~Owed(i)
    BY <1>2, <1>n, <2>1 DEF Owed, Calls
  <2>4. \A i \in Keys : (Safe(i) => Safe(i)') /\ (Current(i) => Current(i)')
    BY <1>1, <2>1, <2>3 DEF Safe, Current, There
  <2> QED
    BY <1>1, <1>3, <1>4, <2>2, <2>4, FreshStay
<1>7. CASE WriteFile(w)
  <2>1. call[w].at = "opened" /\ UNCHANGED index
    BY <1>7 DEF WriteFile
  <2>2. call[w].handle # 0 /\ index[call[w].key] = w /\ ~IsDirect(Provider(call[w].handle))
    BY <1>n, <2>1, Names DEF Equipped, Fresh, Noted, Attachments, Remote
  <2>3. \A v \in Writers : call'[v].at \notin Calls
    BY <1>n, <1>1, <1>2, <2>1 DEF Calls
  <2>4. \A i : Owed(i) => i = call[w].key
    BY <1>2, <1>n DEF Owed, Calls
  <2>5. ASSUME ~straddled, NEW i \in Keys PROVE (Safe(i) => Safe(i)') /\ (Current(i) => Current(i)')
    <3>1. Provider(call[w].handle) = driver /\ driver \in Providers
      BY <1>n, <2>2, <2>5 DEF TypeOK, Attachments, Together
    <3>2. /\ files' = [files EXCEPT ![driver][call[w].key] = w] /\ store' = store
          /\ gone' = [gone EXCEPT ![driver] = gone[driver] \ {call[w].key}]
      BY <1>7, <2>2, <3>1 DEF WriteFile
    <3>3. files \in [Providers -> Files] /\ gone \in [Providers -> SUBSET Keys] /\ files[driver] \in Files
      BY <3>1 DEF TypeOK
    <3>4. files'[driver][i] = IF i = call[w].key THEN w ELSE files[driver][i]
      BY <1>k, <3>1, <3>2, <3>3 DEF Files
    <3>5. i # call[w].key => (i \in gone'[driver] <=> i \in gone[driver])
      BY <3>1, <3>2, <3>3
    <3> QED
      BY <1>n, <1>1, <2>1, <2>2, <2>4, <3>2, <3>4, <3>5 DEF Safe, Current, There
  <2> QED
    BY <1>1, <1>3, <1>4, <2>3, <2>5, FreshStay
<1> QED
  BY <1>5, <1>6, <1>7

(* A turn changes its own files only, and what it removes is known to be gone. *)
LEMMA FreshTurn ==
    ASSUME TypeOK, Equipped, Attachments, Fresh,
           NEW t \in Turns, NEW k \in Keys, NEW c \in {t, Nothing}, TurnEdits(t, k, c)
    PROVE  Fresh'
<1>n. t \in Actors /\ \A w \in Turns : w # Nothing
  BY Names
<1>1. /\ UNCHANGED <<call, index, handles, driver, active, dead, opening, straddled, faults>>
      /\ call[t].handle # 0 /\ c \in Turns \cup {Nothing}
  BY TurnTouch
<1>2. ASSUME ~straddled, ~IsDirect(driver), NEW i \in Keys PROVE (Safe(i) => Safe(i)') /\ (Current(i) => Current(i)')
  <2>1. Provider(call[t].handle) = driver /\ driver \in Providers
    BY <1>n, <1>1, <1>2 DEF TypeOK, Attachments, Together
  <2>2. /\ (files'[driver][i] = files[driver][i] /\ (i \in gone'[driver] <=> i \in gone[driver]))
           \/ (i = k /\ files'[driver][i] = c /\ (c = Nothing => i \in gone'[driver]))
        /\ store'[i] = store[i] \/ (i = k /\ IsDirect(Provider(call[t].handle)) /\ store'[i] = c /\ i \in inPlace')
    BY <2>1, TurnFiles
  <2>3. store'[i] = store[i]
    BY <1>2, <2>1, <2>2
  <2>4. Owed(i)' <=> Owed(i)
    BY <1>1 DEF Owed
  <2> QED
    BY <1>n, <1>1, <2>2, <2>3, <2>4 DEF Safe, Current, There
<1>3. \A w \in Writers : call'[w].at \in Calls => index'[call'[w].key] = w
  BY <1>1 DEF Fresh, Noted, Calls
<1> QED
  BY <1>1, <1>2, <1>3, FreshStay

(* A reconciliation takes what it finds on the computer, and deletes what  *)
(* is not there: no write is under way.                                    *)
LEMMA FreshSync ==
    ASSUME TypeOK, Queue, Equipped, Attachments, Fresh, SyncDelete \/ \E k \in Keys : SyncKey(k)
    PROVE  Fresh'
<1>n. /\ Writers \subseteq Lockers /\ Writers \subseteq Actors /\ "sync" \in Lockers /\ "sync" \notin Writers
      /\ "owner" \notin Writers /\ "sync" \in Actors
  BY Names
<1>1. /\ UNCHANGED <<handles, files, gone, driver, active, dead, opening, request, straddled, faults>>
      /\ Stay({"sync", "owner"}) /\ Holds("sync") /\ call["sync"].at = "keys"
      /\ call'["sync"].handle \in {0, call["sync"].handle}
  BY SyncTouch
<1>2. \A w \in Writers : call[w].at \notin Working /\ call'[w] = call[w]
  BY <1>n, <1>1, OneInside, Askers DEF Stay
<1>3. /\ \A w \in Writers : call'[w].at \notin Calls /\ call'[w].at # "refused"
      /\ \A k : ~Owed(k)
  BY <1>2 DEF Calls, Working, Owed
<1>4. ASSUME ~straddled, ~IsDirect(driver), NEW i \in Keys PROVE (Safe(i) => Safe(i)') /\ (Current(i) => Current(i)')
  <2>1. store \in Files /\ index \in Files
    BY DEF TypeOK
  <2>2. CASE SyncDelete
    <3>1. ~sync.direct
      BY <1>1, <1>4 DEF Attachments, Together, TypeOK
    <3>2. \/ store'[i] = Nothing
          \/ store'[i] = store[i] /\ index'[i] = index[i]
      BY <2>1, <2>2, <3>1 DEF SyncDelete, Files
    <3> QED
      BY <1>1, <1>3, <3>2 DEF Safe, Current, There
  <2>3. ASSUME NEW k \in Keys, SyncKey(k) PROVE (Safe(i) => Safe(i)') /\ (Current(i) => Current(i)')
    <3>1. Provider(sync.handle) = driver
      BY <1>n, <1>1, <1>4 DEF Equipped, Attachments, Together
    <3>2. \/ store' = store /\ index' = index
          \/ /\ files[driver][k] = sync.seen[k] /\ sync.seen[k] # Nothing
             /\ index' = [index EXCEPT ![k] = sync.seen[k]]
             /\ store' = store \/ store' = [store EXCEPT ![k] = sync.seen[k]]
      BY <1>4, <2>3, <3>1 DEF SyncKey, FilesOf, Equipped
    <3>3. \/ store'[i] = store[i] /\ index'[i] = index[i]
          \/ files[driver][i] # Nothing /\ index'[i] = files[driver][i]
      BY <2>1, <3>2 DEF Files
    <3> QED
      BY <1>1, <1>3, <3>3 DEF Safe, Current, There
  <2> QED
    BY <2>2, <2>3
<1> QED
  BY <1>1, <1>3, <1>4, FreshStay

(* A destroyed computer has nothing, and nothing is expected of it.        *)
LEMMA FreshDestroy ==
    ASSUME TypeOK, Equipped, Attachments, Fresh, OwnerDestroys
    PROVE  Fresh'
<1>n. Writers \subseteq Actors /\ "sync" \in Actors /\ "owner" \notin Writers /\ "sync" # "owner"
  BY Names
<1>1. /\ UNCHANGED <<store, index, handles, driver, active, opening, straddled, faults>> /\ Stay({"owner"})
  BY DestroyTouch
<1>2. PICK p \in Providers :
        /\ IsDirect(p) => UNCHANGED <<files, dead, gone>>
        /\ ~IsDirect(p) =>
            /\ files' = [files EXCEPT ![p] = [k \in Keys |-> Nothing]] /\ gone' = [gone EXCEPT ![p] = {}]
            /\ dead' = {i \in 1..Len(handles) : i \in dead \/ Provider(i) = p}
  BY DestroyTouch
<1>3. call'["sync"] = call["sync"] /\ \A w \in Writers : call'[w] = call[w]
  BY <1>n, <1>1 DEF Stay
<1>4. dead \subseteq dead' /\ dead \subseteq 1..Len(handles) /\ files \in [Providers -> Files]
      /\ gone \in [Providers -> SUBSET Keys] /\ driver \in Providers
  BY <1>2 DEF TypeOK
<1>5. ASSUME ~IsDirect(driver), NEW i \in Keys
      PROVE  /\ Safe(i) => Safe(i)' \/ \A h \in 1..Len(handles) : Provider(h) = driver => h \in dead'
             /\ Current(i) => Current(i)'
  <2>1. Owed(i)' <=> Owed(i)
    BY <1>3 DEF Owed
  <2>2. CASE p = driver
    <3>1. files'[driver][i] = Nothing /\ \A h \in 1..Len(handles) : Provider(h) = driver => h \in dead'
      BY <1>2, <1>4, <1>5, <2>2
    <3> QED
      BY <1>1, <3>1 DEF Current
  <2>3. CASE p # driver
    <3>1. files'[driver] = files[driver] /\ gone'[driver] = gone[driver]
      BY <1>2, <1>4, <2>3
    <3> QED
      BY <1>1, <2>1, <3>1 DEF Safe, Current, There
  <2> QED
    BY <2>2, <2>3
<1>6. \A w \in Writers : call'[w].at \in Calls => index'[call'[w].key] = w
  BY <1>1, <1>3 DEF Fresh, Noted, Calls
<1> QED
  BY <1>1, <1>3, <1>4, <1>5, <1>6, FreshStay

(* Every step that touches files keeps what has arrived.                 *)
LEMMA FreshTouching ==
    ASSUME TypeOK, Queue, Equipped, Attachments, Fresh, Touching
    PROVE  Fresh'
BY FreshOpening, FreshWrite, FreshTurn, FreshSync, FreshDestroy DEF Touching

-----------------------------------------------------------------------------
(* No write is taken back: what replaces an object is a bot's, or the      *)
(* write of the one that holds the lock.                                   *)
LEMMA NoOldCopy ==
    ASSUME TypeOK, Queue, Equipped, Attachments, Fresh, [Next]_vars, NEW k \in Keys,
           store'[k] \notin {store[k], Nothing}, store[k] # Nothing, faults = 0, ~straddled
    PROVE  store'[k] \in Turns \/ Holds(store'[k])
<1>0. Touching
  BY QuietOrTouching DEF Quiet
<1>n. /\ "sync" \in Actors /\ "sync" \in Lockers /\ Writers \subseteq Lockers /\ "sync" \notin Writers
      /\ store \in Files /\ driver \in Providers
  BY Names DEF TypeOK
<1>1. CASE OpenProvider \/ OwnerDestroys \/ (\E i \in Keys : Copy(i)) \/ \E w \in Writers : WriteMark(w)
  BY <1>1 DEF OpenProvider, OwnerDestroys, Copy, WriteMark, kept
<1>2. ASSUME NEW w \in Writers, WritePut(w) \/ WriteFile(w) PROVE Holds(store'[k])
  <2>1. (store' = store \/ store' = [store EXCEPT ![call[w].key] = w]) /\ Holds(w)
    BY <1>2 DEF WritePut, WriteFile
  <2> QED
    BY <1>n, <2>1 DEF Files
<1>3. ASSUME NEW t \in Turns, NEW i \in Keys, NEW c \in {t, Nothing}, TurnEdits(t, i, c) PROVE store'[k] \in Turns
  <2>1. store'[k] = store[k] \/ store'[k] = c
    BY <1>n, <1>3, TurnFiles
  <2> QED
    BY <2>1
<1>4. CASE SyncDelete
  <2>1. store' = store \/ \A i \in Keys : store'[i] \in {store[i], Nothing}
    BY <1>4 DEF SyncDelete
  <2> QED
    BY <2>1
<1>5. ASSUME NEW i \in Keys, SyncKey(i) PROVE store'[k] \in Turns
  <2>1. /\ Holds("sync") /\ call["sync"].at = "keys" /\ i \in sync.todo
        /\ store' = [store EXCEPT ![i] = sync.seen[i]] /\ ~sync.direct
        /\ index[i] # sync.seen[i] /\ FilesOf(Provider(sync.handle))[i] = sync.seen[i]
    BY <1>5 DEF SyncKey
  <2>2. k = i /\ store'[k] = sync.seen[i] /\ sync.seen[i] # Nothing
    BY <1>n, <2>1 DEF Files, Equipped
  <2>3. sync.handle = call["sync"].handle /\ sync.handle # 0
    BY <2>1 DEF Equipped
  <2>4. Provider(sync.handle) = driver /\ ~IsDirect(driver)
    BY <1>n, <2>1, <2>3 DEF Attachments, Together
  <2>5. ~Owed(k)
    <3>1. \A w \in Writers : call[w].at \notin Working
      BY <1>n, <2>1, OneInside, Askers
    <3> QED
      BY <3>1 DEF Owed, Working
  <2>6. Current(k)
    BY <2>3, <2>4 DEF Fresh, UpToDate, Reached
  <2> QED
    BY <2>1, <2>2, <2>4, <2>5, <2>6 DEF Current, FilesOf
<1> QED
  BY <1>0, <1>1, <1>2, <1>3, <1>4, <1>5 DEF Touching

(* With the lock free, no write is owed to the open computer.              *)
LEMMA AllArrived ==
    ASSUME StorageInv
    PROVE  CopiesArrive
<1> SUFFICES ASSUME lock = <<>>, Attached = driver, active \notin dead, ~IsDirect(Attached),
                    faults = 0, ~straddled, NEW k \in Keys
             PROVE  store[k] = Nothing \/ files[Attached][k] # Nothing \/ k \in gone[Attached]
  BY DEF CopiesArrive
<1>1. active # 0 /\ Provider(active) = driver
  BY Names DEF StorageInv, TypeOK, Attached
<1>2. ~Owed(k)
  <2>1. \A w \in Writers : call[w].at \notin Working
    BY Names, Askers DEF StorageInv, Queue, Holds
  <2> QED
    BY <2>1 DEF Owed, Working
<1>3. Given(active, k)
  BY <1>1 DEF StorageInv, Fresh, Arriving
<1> QED
  BY <1>1, <1>2, <1>3 DEF Given, There

-----------------------------------------------------------------------------
(* Nothing is open or under way in the beginning.                          *)
LEMMA InitInv ==
    ASSUME Init
    PROVE  StorageInv
<1>n. /\ "sync" \in Actors /\ "owner" \in Actors /\ Writers \subseteq Actors /\ \A x \in Lockers : x \in {"open", "sync"} \/ x \in Writers
      /\ "no" \notin Providers /\ driver \in Providers
  BY Names DEF Init
<1>1. /\ call = [a \in Actors |-> Idle] /\ lock = <<>> /\ opening = NotOpening /\ sync = NotSyncing
      /\ handles = <<>> /\ active = 0 /\ materialized = <<>> /\ dead = {} /\ request = NoRequest
      /\ faults = 0 /\ straddled = FALSE
  BY DEF Init
<1>2. handles \in Seq(Providers) /\ Len(handles) = 0 /\ Handles = {0}
  BY <1>1 DEF Handles
<1>3. /\ Idle \in CallState /\ Idle.at = "idle" /\ Idle.handle = 0
      /\ NotOpening \in OpeningState /\ NotOpening.at = "no"
  BY <1>2, IdleState, NoOpening
<1>4. TypeOK
  <2>1. store \in Files /\ index \in Files
    BY DEF Init, Files, Contents
  <2>2. /\ mtime \in [Keys -> Providers \cup {Nothing}] /\ files \in [Providers -> Files]
        /\ gone \in [Providers -> SUBSET Keys] /\ inPlace \subseteq Keys /\ straddled \in BOOLEAN
    BY DEF Init, Files
  <2>3. sync \in SyncState
    BY <1>1, <1>2 DEF NotSyncing, SyncState, Files
  <2>4. request \in RequestState
    BY <1>1 DEF NoRequest, RequestState
  <2>5. active \in Handles /\ dead \subseteq 1..Len(handles) /\ materialized \in Seq(SUBSET Keys) /\ Len(materialized) = Len(handles)
        /\ lock \in Seq(Lockers)
    BY <1>1, <1>2
  <2>6. requests \in 0..MaxRequests /\ faults \in 0..MaxFaults
    BY StorageAssumption DEF Init
  <2>7. call \in [Actors -> CallState] /\ opening \in OpeningState
    BY <1>1, <1>3
  <2> QED
    BY <1>n, <1>2, <2>1, <2>2, <2>3, <2>4, <2>5, <2>6, <2>7 DEF TypeOK
<1>5. \A a \in Actors : call[a].at = "idle" /\ call[a].handle = 0
  BY <1>1, <1>3
<1>6. Queue
  <2>1. ~InLock("open") /\ Once /\ \A x : ~InLock(x)
    BY <1>1 DEF InLock, Once
  <2>2. \A x \in Lockers : ~Wanted(x) /\ ~Inside(x)
    <3>1. opening.at # "copy"
      BY <1>1, <1>3
    <3> QED
      BY <1>n, <1>5, <3>1, Askers DEF Working
  <2> QED
    BY <2>1, <2>2 DEF Queue
<1>7. Equipped
  <2>1. sync.todo = {} /\ request.kind = "none"
    BY <1>1 DEF NotSyncing, NoRequest
  <2> QED
    BY <1>n, <1>1, <1>3, <1>5, <2>1 DEF Equipped, Working
<1>8. Attachments /\ Destruction
  BY <1>n, <1>1, <1>3, <1>5 DEF Attachments, SameComputer, Chosen, AsChosen, Remote, Together, Destruction, Settled, Elsewhere, Emptied
<1>9. Marks
  BY <1>n, <1>2, <1>5 DEF Marks, Kept, Marked, Scanned
<1>10. Fresh
  BY <1>n, <1>1, <1>3, <1>5 DEF Fresh, Refused, Arriving, Noted, UpToDate, Reached
<1> QED
  BY <1>4, <1>6, <1>7, <1>8, <1>9, <1>10 DEF StorageInv

(* Every step keeps the invariant.                                       *)
LEMMA NextInv ==
    ASSUME StorageInv, [Next]_vars
    PROVE  StorageInv'
<1> USE DEF StorageInv
<1>1. TypeOK' /\ Queue' /\ Equipped' /\ Attachments'
  BY TypeNext, QueueNext, EquippedNext, AttachNext
<1>2. Quiet \/ Touching
  BY QuietOrTouching
<1>3. CASE Quiet
  BY <1>1, <1>3, DestructionQuiet, MarksQuiet, FreshQuiet
<1>4. CASE Touching
  BY <1>1, <1>4, DestructionTouching, MarksTouching, FreshTouching
<1> QED
  BY <1>2, <1>3, <1>4

(* Everything above holds in every state.                                  *)
THEOREM StorageInvariant == Spec => []StorageInv
BY InitInv, NextInv, PTL DEF Spec

(* Every variable of the durable files keeps its type: computers, rows,    *)
(* the lock's queue and what each caller was given (durable.ts:44-58,      *)
(* manager.ts:76-105).                                                     *)
THEOREM StorageTypes == Spec => []TypeOK
<1>1. StorageInv => TypeOK
  BY DEF StorageInv
<1> QED
  BY <1>1, StorageInvariant, PTL

(* The lock's queue holds those who ask for it, each once, and whoever     *)
(* copies, reconciles or writes through is the first of it                 *)
(* (durable.ts:52-58).                                                     *)
THEOREM OneAtATime == Spec => []Queue
<1>1. StorageInv => Queue
  BY DEF StorageInv
<1> QED
  BY <1>1, StorageInvariant, PTL

(* A computer that was given an object has it, unless a bot removed it     *)
(* or the computer was destroyed; an inventory shows it too                *)
(* (durable.ts:196-208, manager.ts:217).                                   *)
THEOREM GivenIsThere == Spec => []Marks
<1>1. StorageInv => Marks
  BY DEF StorageInv
<1> QED
  BY <1>1, StorageInvariant, PTL

(* Every object of the store arrives on the open computer                  *)
(* (manager.ts:98, durable.ts:91).                                         *)
THEOREM CopiesAlwaysArrive == Spec => []CopiesArrive
BY StorageInvariant, AllArrived, PTL

(* A reconciliation deletes only what a bot removed (durable.ts:198-205).  *)
THEOREM DeletesAlwaysReal == Spec => DeletesAreReal
<1>1. StorageInv /\ [Next]_vars => [\A k \in Keys : store[k] # Nothing /\ store'[k] = Nothing
            => k \in sync.lost \/ k \in inPlace']_vars
  BY NoLoss DEF StorageInv
<1> QED
  BY <1>1, StorageInvariant, PTL DEF Spec, DeletesAreReal

(* A reconciliation never brings back an older copy of what the server     *)
(* wrote (durable.ts:193).                                                 *)
THEOREM WritesNeverReverted == Spec => NoWriteReverted
<1>1. StorageInv /\ [Next]_vars => [\A k \in Keys :
        /\ store'[k] \notin {store[k], Nothing} /\ store[k] # Nothing
        /\ sync.handle # 0 /\ faults = 0 /\ ~straddled
        => store'[k] \in Turns \/ Holds(store'[k])]_vars
  BY NoOldCopy DEF StorageInv
<1> QED
  BY <1>1, StorageInvariant, PTL DEF Spec, NoWriteReverted

-----------------------------------------------------------------------------
(* Nobody waits for an opening that is not under way.                      *)
Joined(a) == call[a].at = "opening" => opening.at # "no"
Awaited == \A a \in Actors : Joined(a)

(* When an opening ends, nobody waits any more.                            *)
LEMMA AnsweredJoins ==
    ASSUME NEW h, Answered(h)
    PROVE  Awaited'
BY DEF Answered, Awaited, Joined

(* Those who stay where they are wait for the opening there is, unless it  *)
(* ends.                                                                   *)
LEMMA StayJoins ==
    ASSUME Awaited, NEW S, Stay(S), opening.at # "no" => opening'.at # "no", \A a \in S : Joined(a)'
    PROVE  Awaited'
BY DEF Stay, Awaited, Joined

(* Whoever asks for the computer joins the opening or begins one.          *)
LEMMA ResolveJoins ==
    ASSUME TypeOK, Awaited, NEW a \in Actors, Resolve(a)
    PROVE  Awaited'
<1>1. Stay({a}) /\ opening' = (IF opening.at = "no" THEN NewOpening ELSE opening)
  BY ResolveGoes DEF Resolve, NewOpening, TypeOK
<1>2. opening'.at # "no"
  BY <1>1, NoOpening DEF TypeOK
<1> QED
  BY <1>1, <1>2, StayJoins DEF Joined

(* A caller that moves on, without asking for the computer.                *)
LEMMA AtJoins ==
    ASSUME TypeOK, Awaited, NEW a \in Actors, NEW place \in Spots, At(a, place), opening' = opening,
           place = "opening" => opening.at # "no"
    PROVE  Awaited'
<1>1. Stay({a}) /\ call'[a].at = place
  BY AtGoes DEF TypeOK
<1> QED
  BY <1>1, StayJoins DEF Joined

(* A caller that ends.                                                     *)
LEMMA EndsJoins ==
    ASSUME TypeOK, Awaited, NEW a \in Actors, Ends(a), opening' = opening
    PROVE  Awaited'
<1>1. Stay({a}) /\ call'[a].at = "done"
  BY EndsGoes, IdleState DEF TypeOK
<1> QED
  BY <1>1, StayJoins DEF Joined

(* An opening answers all who wait for it when it ends, and only then.     *)
LEMMA AwaitedOpen ==
    ASSUME TypeOK, Awaited, OpenStep \/ Poll
    PROVE  Awaited'
<1> USE DEF kept, machines, noted, bounds
<1>1. ASSUME NEW h \in Handles, EndOpening(h) PROVE Awaited'
  BY <1>1, OpeningEnds, AnsweredJoins DEF TypeOK
<1>2. ASSUME call' = call, opening'.at # "no" PROVE Awaited'
  BY <1>2 DEF Awaited, Joined
<1>3. 0 \in Handles /\ active \in Handles /\ opening.handle \in Handles
  BY OpeningFields DEF TypeOK, Handles
<1>4. CASE OpenDriver
  <2>1. CASE Attached = driver
    BY <1>1, <1>3, <1>4, <2>1 DEF OpenDriver
  <2>2. CASE Attached # driver
    <3>1. call' = call /\ opening'.at \in Providers
      BY <1>4, <2>2 DEF OpenDriver, TypeOK, OpeningState
    <3> QED
      BY <1>2, <3>1, Names
  <2> QED
    BY <2>1, <2>2
<1>5. CASE OpenFails \/ CopyFails \/ OpenDone
  BY <1>1, <1>3, <1>5 DEF OpenFails, CopyFails, OpenDone
<1>6. CASE OpenProvider
  <2>1. call' = call /\ opening'.at = "copy"
    BY <1>6 DEF OpenProvider
  <2> QED
    BY <1>2, <2>1
<1>7. ASSUME NEW k \in Keys, Copy(k) PROVE Awaited'
  <2>1. call' = call /\ opening'.at = "copy"
    BY <1>7 DEF Copy, TypeOK, OpeningState
  <2> QED
    BY <1>2, <2>1
<1>8. CASE Poll
  <2>1. call' = call /\ opening'.at = "driver"
    BY <1>8, NoOpening DEF Poll, NewOpening, TypeOK
  <2> QED
    BY <1>2, <2>1
<1> QED
  BY <1>4, <1>5, <1>6, <1>7, <1>8 DEF OpenStep

(* A write opens the computer under the lock.                              *)
LEMMA AwaitedWrite ==
    ASSUME TypeOK, Awaited, NEW w \in Writers, WriteStep(w) \/ \E k \in Keys : Write(w, k)
    PROVE  Awaited'
<1> USE DEF kept, machines, noted, bounds
<1>w. w \in Actors
  BY Names
<1>1. ASSUME NEW k \in Keys, Write(w, k) PROVE Awaited'
  <2>1. opening' = opening /\ call'[w].at = "queued" /\ Stay({w})
    BY <1>1, <1>w DEF Write, Stay, TypeOK, CallState
  <2> QED
    BY <2>1, StayJoins DEF Joined
<1>2. CASE WritePut(w)
  BY <1>2, <1>w, AtJoins DEF WritePut, Spots
<1>3. CASE WriteAttach(w)
  <2>1. CASE IsDirect(driver)
    BY <1>3, <1>w, <2>1, EndsJoins DEF WriteAttach
  <2>2. CASE ~IsDirect(driver)
    BY <1>3, <1>w, <2>2, ResolveJoins DEF WriteAttach
  <2> QED
    BY <2>1, <2>2
<1>4. CASE WriteFile(w)
  BY <1>4, <1>w, AtJoins DEF WriteFile, Spots
<1>5. CASE WriteMark(w) \/ WriteFails(w)
  BY <1>5, <1>w, EndsJoins DEF WriteMark, WriteFails
<1> QED
  BY <1>1, <1>2, <1>3, <1>4, <1>5 DEF WriteStep

(* So does a turn, and the reconciliation that follows it.                 *)
LEMMA AwaitedTurn ==
    ASSUME TypeOK, Awaited, NEW t \in Turns,
           TurnStart(t) \/ TurnEnds(t) \/ \E k \in Keys, c \in {t, Nothing} : TurnEdits(t, k, c)
    PROVE  Awaited'
<1> USE DEF kept, machines, noted, bounds
<1>t. t \in Actors
  BY Names
<1>1. CASE TurnStart(t)
  BY <1>1, <1>t, ResolveJoins DEF TurnStart
<1>2. ASSUME NEW k \in Keys, NEW c \in {t, Nothing}, TurnEdits(t, k, c) PROVE Awaited'
  <2>1. opening' = opening /\ call' = call
    BY <1>2 DEF TurnEdits
  <2> QED
    BY <2>1 DEF Awaited, Joined
<1>3. CASE TurnEnds(t)
  <2>1. CASE call["sync"].at = "idle"
    <3>1. opening' = (IF opening.at = "no" THEN NewOpening ELSE opening)
      BY <1>3, <2>1 DEF TurnEnds, NewOpening
    <3>2. opening'.at # "no"
      BY <3>1, NoOpening DEF TypeOK
    <3> QED
      BY <3>2 DEF Awaited, Joined
  <2>2. CASE call["sync"].at # "idle"
    BY <1>3, <1>t, <2>2, EndsJoins DEF TurnEnds
  <2> QED
    BY <2>1, <2>2
<1> QED
  BY <1>1, <1>2, <1>3

(* A flight opens the computer before it asks for the lock.                *)
LEMMA AwaitedSync ==
    ASSUME TypeOK, Awaited, SyncNow \/ SyncStep
    PROVE  Awaited'
<1> USE DEF kept, machines, noted, bounds
<1>s. "sync" \in Actors
  BY Names
<1>1. CASE SyncNow
  BY <1>1, <1>s, ResolveJoins DEF SyncNow
<1>2. CASE SyncAttach
  BY <1>2, <1>s, AtJoins DEF SyncAttach, Spots, Places
<1>3. CASE SyncScan
  BY <1>3, <1>s, AtJoins DEF SyncScan, Spots
<1>4. CASE SyncFails \/ SyncDelete
  <2>1. opening' = opening /\ \E ok \in BOOLEAN : EndSync(ok)
    BY <1>4 DEF SyncFails, SyncDelete
  <2>2. /\ call'["sync"].at = "idle" /\ Stay({"sync", "owner"})
        /\ call'["owner"].at \in {call["owner"].at, "refused"}
    BY <2>1, FlightEnds, IdleState DEF TypeOK
  <2>3. Joined("owner")
    BY Names DEF Awaited
  <2>4. Joined("sync")' /\ Joined("owner")'
    BY <2>1, <2>2, <2>3 DEF Joined
  <2> QED
    BY <2>1, <2>2, <2>4, StayJoins
<1>5. ASSUME NEW k \in Keys, SyncKey(k) PROVE Awaited'
  <2>1. opening' = opening /\ call' = call
    BY <1>5 DEF SyncKey
  <2> QED
    BY <2>1 DEF Awaited, Joined
<1> QED
  BY <1>1, <1>2, <1>3, <1>4, <1>5 DEF SyncStep

(* The owner waits for an opening only while there is one.                 *)
LEMMA AwaitedOwner ==
    ASSUME TypeOK, Awaited, OwnerStep \/ \E kind \in Requests, id \in Providers : Ask(kind, id)
    PROVE  Awaited'
<1> USE DEF kept, machines, noted, bounds
<1>o. "owner" \in Actors
  BY Names
<1>1. ASSUME At("owner", IF opening.at = "no" THEN "opened" ELSE "opening"), opening' = opening PROVE Awaited'
  <2>1. CASE opening.at = "no"
    BY <1>1, <1>o, <2>1, AtJoins DEF Spots, Places
  <2>2. CASE opening.at # "no"
    BY <1>1, <1>o, <2>2, AtJoins DEF Spots, Places
  <2> QED
    BY <2>1, <2>2
<1>2. ASSUME OwnerRests, opening' = opening PROVE Awaited'
  <2>1. Stay({"owner"}) /\ call'["owner"].at = "idle"
    BY <1>2, OwnerGoes, IdleState DEF TypeOK
  <2> QED
    BY <1>2, <2>1, StayJoins DEF Joined
<1>3. ASSUME NEW kind \in Requests, NEW id \in Providers, Ask(kind, id) PROVE Awaited'
  <2>1. CASE kind = "destroy"
    BY <1>3, <1>o, <2>1, ResolveJoins DEF Ask
  <2>2. CASE kind # "destroy"
    BY <1>3, <1>1, <2>2 DEF Ask
  <2> QED
    BY <2>1, <2>2
<1>4. CASE OwnerDestroys
  BY <1>1, <1>4 DEF OwnerDestroys, AwaitOpening
<1>5. CASE OwnerReleases
  <2>1. opening' = opening /\ (OwnerRests \/ At("owner", "releasing"))
    BY <1>5 DEF OwnerReleases
  <2> QED
    BY <1>2, <1>o, <2>1, AtJoins DEF Spots
<1>6. CASE OwnerCloses
  BY <1>6, <1>o, AtJoins DEF OwnerCloses, Spots
<1>7. CASE OwnerClears
  <2>1. opening' = opening /\ (OwnerRests \/ At("owner", "update"))
    BY <1>7 DEF OwnerClears
  <2> QED
    BY <1>2, <1>o, <2>1, AtJoins DEF Spots
<1>8. CASE OwnerSwitches
  BY <1>8, <1>o, ResolveJoins DEF OwnerSwitches
<1>9. CASE OwnerDone
  BY <1>2, <1>9 DEF OwnerDone
<1> QED
  BY <1>3, <1>4, <1>5, <1>6, <1>7, <1>8, <1>9 DEF OwnerStep

(* Every step keeps it.                                                    *)
LEMMA AwaitedNext ==
    ASSUME TypeOK, Awaited, [Next]_vars
    PROVE  Awaited'
<1>1. CASE UNCHANGED vars
  BY <1>1 DEF vars, Awaited, Joined, kept, machines, noted, bounds
<1>2. CASE OpenStep \/ Poll \/ SyncNow \/ SyncStep
  BY <1>2, AwaitedOpen, AwaitedSync
<1>3. ASSUME NEW w \in Writers, WriteStep(w) \/ \E k \in Keys : Write(w, k) PROVE Awaited'
  BY <1>3, AwaitedWrite
<1>4. ASSUME NEW t \in Turns, TurnStart(t) \/ TurnEnds(t) \/ \E k \in Keys, c \in {t, Nothing} : TurnEdits(t, k, c)
      PROVE Awaited'
  BY <1>4, AwaitedTurn
<1>5. CASE OwnerStep \/ \E kind \in Requests, id \in Providers : Ask(kind, id)
  BY <1>5, AwaitedOwner
<1> QED
  BY <1>1, <1>2, <1>3, <1>4, <1>5 DEF Next

(* Where the holder of the lock, or the opening it awaits, has a step: the *)
(* guards of OpenStep, SyncStep and WriteStep.                             *)
HolderMoves ==
    \/ Holds("open") /\ opening.at = "copy"
    \/ Holds("sync") /\ call["sync"].at \in {"queued", "keys"}
    \/ \E w \in Writers :
        /\ Holds(w)
        /\ \/ call[w].at \in {"queued", "put", "opened", "refused", "written"}
           \/ call[w].at = "opening" /\ opening.at \in {"driver"} \cup Providers
OneCycle == lock # <<>> => (Stuck <=> ~HolderMoves)

(* Whoever is in the lock's queue is somewhere in the middle of its work.  *)
LEMMA HolderWorks ==
    ASSUME TypeOK, Queue, Awaited
    PROVE  OneCycle
<1> SUFFICES ASSUME lock # <<>> PROVE Stuck <=> ~HolderMoves
  BY DEF OneCycle
<1> DEFINE x == Head(lock)
<1>1. Holds(x) /\ \A y : Holds(y) => y = x
  BY DEF Holds
<1>2. x \in Lockers /\ Wanted(x)
  <2>1. InLock(x) /\ x \in Lockers
    BY <1>1, HolderFirst DEF TypeOK
  <2> QED
    BY <2>1 DEF Queue
<1> HIDE DEF x
<1>3. CASE x = "open"
  <2>1. HolderMoves
    BY <1>1, <1>2, <1>3, Askers DEF HolderMoves
  <2>2. ~Stuck
    BY <1>1, <1>3, Names DEF Stuck
  <2> QED
    BY <2>1, <2>2
<1>4. CASE x = "sync"
  <2>1. HolderMoves
    BY <1>1, <1>2, <1>4, Askers DEF HolderMoves
  <2>2. ~Stuck
    BY <1>1, <1>4, Names DEF Stuck
  <2> QED
    BY <2>1, <2>2
<1>5. CASE x \in Writers
  <2>1. /\ x # "open" /\ x # "sync" /\ x \in Actors
        /\ call[x].at \in {"queued", "put", "opening", "opened", "refused", "written"}
    BY <1>2, <1>5, Names, Askers DEF Working
  <2>2. Stuck <=> call[x].at = "opening" /\ opening.at = "copy"
    BY <1>1, <1>5 DEF Stuck
  <2>3. HolderMoves <=> \/ call[x].at \in {"queued", "put", "opened", "refused", "written"}
                        \/ call[x].at = "opening" /\ opening.at \in {"driver"} \cup Providers
    BY <1>1, <1>5, <2>1 DEF HolderMoves
  <2>4. call[x].at = "opening" => opening.at \in {"driver", "copy"} \cup Providers
    BY <2>1 DEF TypeOK, OpeningState, Awaited, Joined
  <2>5. "copy" \notin {"driver"} \cup Providers
    BY Names
  <2> QED
    BY <2>1, <2>2, <2>3, <2>4, <2>5
<1> QED
  BY <1>2, <1>3, <1>4, <1>5, Names

(* Whoever holds the lock can go on, or the opening it awaits can, but for *)
(* a write whose opening needs the lock, and that write cannot             *)
(* (durable.ts:52-58, :87-94, manager.ts:98).                              *)
THEOREM OnlyOneCycle == Spec => []OneCycle
<1>1. Init => Awaited
  <2>1. Init => \A a \in Actors : call[a].at = "idle"
    BY DEF Init, Idle
  <2> QED
    BY <2>1 DEF Awaited, Joined
<1>2. StorageInv /\ Awaited /\ [Next]_vars => Awaited'
  BY AwaitedNext DEF StorageInv
<1>3. StorageInv /\ Awaited => OneCycle
  BY HolderWorks DEF StorageInv
<1> QED
  BY <1>1, <1>2, <1>3, StorageInvariant, PTL DEF Spec

=============================================================================
