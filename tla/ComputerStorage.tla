--------------------------- MODULE ComputerStorage ---------------------------
(* Durable files on their way between the store, its index and the computers  *)
(* on which bots work (storage/durable.ts, storage/scan.ts,                   *)
(* computer/manager.ts).  One computer is open at a time.  Opening one copies *)
(* the store to it; a server write goes to the store and to the computer; a   *)
(* reconciliation brings home what bots did.  All three hold one lock.        *)
EXTENDS Naturals, Sequences, FiniteSets

CONSTANTS
    Providers,      \* kinds of computer
    Direct,         \* those whose /workspace is the directory of the store
    Keys,           \* durable files
    Writers,        \* calls of writeThrough(); each writes a content of its own
    Turns,          \* turns of bots; each writes a content of its own
    Old,            \* the content of files that were there before
    Nothing,
    Requests,       \* what the owner may ask for: "switch", "credentials", "destroy"
    Faults,         \* which calls of a computer may fail: "open", "write", "scan"
    MaxRequests,
    MaxFaults

ASSUME StorageAssumption ==
    /\ Direct \subseteq Providers /\ Providers \cap {Nothing, "no", "driver", "copy"} = {}
    /\ IsFiniteSet(Keys)
    /\ Writers \cap Turns = {}
    /\ Old \notin Writers \cup Turns
    /\ Nothing \notin Writers \cup Turns \cup {Old}
    /\ {"open", "sync", "owner"} \cap (Writers \cup Turns) = {}
    /\ MaxRequests \in Nat /\ MaxFaults \in Nat

Contents == Writers \cup Turns \cup {Old}
Actors == Writers \cup Turns \cup {"sync", "owner"}
Lockers == Writers \cup {"open", "sync"}

VARIABLES
    store,          \* objects of the store
    index,          \* rows of durable_files: the checksum
    mtime,          \* the computer whose file still has the row's mtime
    files,          \* what the computers that hold copies hold
    driver,         \* workspace.computer_driver
    handles,        \* the provider of each computer opened so far
    active,         \* the open computer, 0 if none
    materialized,   \* per computer: keys it was given
    dead,           \* computers that were destroyed
    lock,           \* who holds the storage lock and who waits for it
    opening,        \* the promise `opening`: where open() awaits
    sync,           \* the promise `syncFlight`: locals of reconcileOnce()
    call,           \* where each caller awaits, and the computer it was given
    request,        \* what the owner asked for
    gone,           \* keys missing on a computer because a bot removed them
    inPlace,        \* keys a bot changed in the store itself, not indexed since
    straddled,      \* something was under way while the provider changed
    requests, faults

kept == <<store, index, mtime>>
machines == <<handles, active, materialized, dead>>
noted == <<gone, inPlace, straddled>>
bounds == <<requests, faults>>
vars == <<store, index, mtime, files, driver, handles, active, materialized,
          dead, lock, opening, sync, call, request, gone, inPlace, straddled, requests, faults>>

(***************************************************************************)
(* Helpers                                                                 *)
(***************************************************************************)
IsDirect(p) == p \in Direct

Provider(h) == handles[h]

Attached == IF active = 0 THEN Nothing ELSE Provider(active)

FilesOf(p) == IF IsDirect(p) THEN store ELSE files[p]

Holds(who) == lock # <<>> /\ Head(lock) = who

Idle == [at |-> "idle", handle |-> 0, key |-> Nothing]
NotOpening == [at |-> "no", handle |-> 0, todo |-> {}]
NotSyncing == [handle |-> 0, direct |-> FALSE, seen |-> [k \in Keys |-> Nothing],
               same |-> {}, lost |-> {}, todo |-> {}]

NoRequest == [kind |-> "none", id |-> Nothing, step |-> "none"]

At(a, place) == call' = [call EXCEPT ![a].at = place]

Ends(a) == call' = [call EXCEPT ![a] = [Idle EXCEPT !.at = "done"]]

Fault(kind) == kind \in Faults /\ faults < MaxFaults /\ faults' = faults + 1

(* Those who wait for the opening go on with the computer, or without one. *)
Opened(h) == [a \in Actors |->
    IF call[a].at # "opening" THEN call[a]
    ELSE [call[a] EXCEPT !.at = IF h = 0 THEN "refused" ELSE "opened", !.handle = h]]

(* Rows that agree with the store again are no longer in question. *)
Indexed == inPlace' = {k \in inPlace : index'[k] # store'[k]}

(* A caller joins the opening, which begins unless it is under way. *)
Resolve(a) ==
    /\ At(a, "opening")
    /\ opening' = IF opening.at = "no" THEN [NotOpening EXCEPT !.at = "driver"] ELSE opening

Init ==
    /\ \E there \in SUBSET Keys :
        /\ store = [k \in Keys |-> IF k \in there THEN Old ELSE Nothing]
        /\ index = store
    /\ mtime = [k \in Keys |-> Nothing]
    /\ files = [p \in Providers |-> [k \in Keys |-> Nothing]]
    /\ driver \in Providers
    /\ handles = <<>> /\ active = 0 /\ materialized = <<>> /\ dead = {}
    /\ lock = <<>>
    /\ opening = NotOpening
    /\ sync = NotSyncing
    /\ call = [a \in Actors |-> Idle]
    /\ request = NoRequest
    /\ gone = [p \in Providers |-> {}] /\ inPlace = {} /\ straddled = FALSE
    /\ requests = 0 /\ faults = 0

(***************************************************************************)
(* open(): under the promise `opening`                                     *)
(***************************************************************************)
EndOpening(h) ==
    /\ opening' = NotOpening
    /\ call' = Opened(h)

(* status() and desktop() resolve the computer too, whenever somebody looks; *)
(* that matters when it is not open.                                         *)
Poll ==
    /\ opening.at = "no"
    /\ Attached # driver
    /\ opening' = [NotOpening EXCEPT !.at = "driver"]
    /\ UNCHANGED <<kept, files, driver, machines, lock, sync, call, request, noted, bounds>>

OpenDriver ==
    /\ opening.at = "driver"
    /\ IF Attached = driver
       THEN EndOpening(active)
       ELSE /\ opening' = [opening EXCEPT !.at = driver]
            /\ UNCHANGED call
    /\ UNCHANGED <<kept, files, driver, machines, lock, sync, request, noted, bounds>>

OpenFails ==
    /\ opening.at \in Providers
    /\ Fault("open")
    /\ EndOpening(0)
    /\ UNCHANGED <<kept, files, driver, machines, lock, sync, request, noted, requests>>

(* The provider's open(), then materialize() asks for the lock. *)
OpenProvider ==
    /\ opening.at \in Providers
    /\ handles' = Append(handles, opening.at)
    /\ materialized' = Append(materialized, {})
    /\ lock' = Append(lock, "open")
    /\ opening' = [at |-> "copy", handle |-> Len(handles) + 1, todo |-> Keys]
    /\ UNCHANGED <<kept, files, driver, active, dead, sync, call, request, noted, bounds>>

(* A slip in Copy: what the index knows already is taken to be there. *)
CopyUnknown(k) ==
    LET p == Provider(opening.handle)
    IN  /\ opening.at = "copy" /\ Holds("open") /\ k \in opening.todo
        /\ opening' = [opening EXCEPT !.todo = @ \ {k}]
        /\ files' = IF index[k] = store[k] THEN files ELSE [files EXCEPT ![p][k] = store[k]]
        /\ UNCHANGED <<kept, driver, machines, lock, sync, call, request, noted, bounds>>

(* One key.  On a host directory only the index is brought up to date. *)
Copy(k) ==
    LET h == opening.handle
        p == Provider(h)
    IN  /\ opening.at = "copy" /\ Holds("open") /\ k \in opening.todo
        /\ opening' = [opening EXCEPT !.todo = @ \ {k}]
        /\ IF IsDirect(p)
           THEN /\ index' = [index EXCEPT ![k] = store[k]]
                /\ mtime' = [mtime EXCEPT ![k] = IF store[k] = Nothing THEN Nothing ELSE p]
                /\ UNCHANGED <<files, materialized, gone>>
           ELSE IF store[k] = Nothing
           THEN UNCHANGED <<index, mtime, files, materialized, gone>>
           ELSE /\ files' = [files EXCEPT ![p][k] = store[k]]
                /\ index' = [index EXCEPT ![k] = store[k]]
                /\ mtime' = [mtime EXCEPT ![k] = Nothing]
                /\ materialized' = [materialized EXCEPT ![h] = @ \cup {k}]
                /\ gone' = [gone EXCEPT ![p] = @ \ {k}]
        /\ UNCHANGED <<store, driver, handles, active, dead, lock, sync, call, request, straddled, bounds>>
        /\ Indexed

CopyFails ==
    /\ opening.at = "copy" /\ Holds("open") /\ opening.todo # {}
    /\ Fault("write")
    /\ lock' = Tail(lock)
    /\ EndOpening(0)
    /\ UNCHANGED <<kept, files, driver, machines, sync, request, noted, requests>>

OpenDone ==
    /\ opening.at = "copy" /\ Holds("open") /\ opening.todo = {}
    /\ lock' = Tail(lock)
    /\ active' = opening.handle
    /\ EndOpening(opening.handle)
    /\ UNCHANGED <<kept, files, driver, handles, materialized, dead, sync, request, noted, bounds>>

(***************************************************************************)
(* writeThrough(): the lock is held from the store to the computer         *)
(***************************************************************************)
Write(w, k) ==
    /\ w \in Writers /\ call[w].at = "idle"
    /\ call' = [call EXCEPT ![w].at = "queued", ![w].key = k]
    /\ lock' = Append(lock, w)
    /\ UNCHANGED <<kept, files, driver, machines, opening, sync, request, noted, bounds>>

(* A slip in WritePut: the store and its index are written without the lock. *)
WritePutUnlocked(w) ==
    /\ call[w].at = "queued"
    /\ store' = [store EXCEPT ![call[w].key] = w]
    /\ index' = [index EXCEPT ![call[w].key] = w]
    /\ At(w, "put")
    /\ UNCHANGED <<mtime, files, driver, machines, lock, opening, sync, request, noted, bounds>>

WritePut(w) ==
    /\ Holds(w) /\ call[w].at = "queued"
    /\ store' = [store EXCEPT ![call[w].key] = w]
    /\ index' = [index EXCEPT ![call[w].key] = w]
    /\ mtime' = [mtime EXCEPT ![call[w].key] = Nothing]
    /\ Indexed
    /\ At(w, "put")
    /\ UNCHANGED <<files, driver, machines, lock, opening, sync, request, gone, straddled, bounds>>

(* storageAttachment() reads the driver; the computer is opened under the lock. *)
WriteAttach(w) ==
    /\ Holds(w) /\ call[w].at = "put"
    /\ IF IsDirect(driver)
       THEN /\ Ends(w)
            /\ lock' = Tail(lock)
            /\ UNCHANGED opening
       ELSE /\ Resolve(w)
            /\ UNCHANGED lock
    /\ UNCHANGED <<kept, files, driver, machines, sync, request, noted, bounds>>

WriteFile(w) ==
    LET h == call[w].handle
        k == call[w].key
        p == Provider(h)
    IN  /\ Holds(w) /\ call[w].at = "opened" /\ h \notin dead
        /\ IF IsDirect(p)
           THEN /\ store' = [store EXCEPT ![k] = w]
                /\ UNCHANGED <<files, gone>>
           ELSE /\ files' = [files EXCEPT ![p][k] = w]
                /\ gone' = [gone EXCEPT ![p] = @ \ {k}]
                /\ UNCHANGED store
        /\ At(w, "written")
        /\ UNCHANGED <<inPlace, index, mtime, driver, machines, lock, opening, sync, request, straddled, bounds>>

(* The key is marked at whichever computer is open by now. *)
WriteMark(w) ==
    /\ Holds(w) /\ call[w].at = "written"
    /\ materialized' = IF active = 0 THEN materialized
                       ELSE [materialized EXCEPT ![active] = @ \cup {call[w].key}]
    /\ Ends(w)
    /\ lock' = Tail(lock)
    /\ UNCHANGED <<kept, files, driver, handles, active, dead, opening, sync, request, noted, bounds>>

(* A slip in WriteFails: the lock is released after a success only. *)
WriteFailsHolding(w) ==
    /\ Holds(w) /\ call[w].at = "refused"
    /\ Ends(w)
    /\ UNCHANGED <<kept, files, driver, machines, lock, opening, sync, request, noted, bounds>>

WriteFails(w) ==
    /\ Holds(w)
    /\ \/ call[w].at = "refused" /\ UNCHANGED faults
       \/ call[w].at = "opened" /\ call[w].handle \in dead /\ UNCHANGED faults
       \/ call[w].at = "opened" /\ Fault("write")
    /\ Ends(w)
    /\ lock' = Tail(lock)
    /\ UNCHANGED <<kept, files, driver, machines, opening, sync, request, noted, requests>>

(***************************************************************************)
(* Turns work on the computer without the lock                             *)
(***************************************************************************)
TurnStart(t) ==
    /\ t \in Turns /\ call[t].at = "idle"
    /\ Resolve(t)
    /\ UNCHANGED <<kept, files, driver, machines, lock, sync, request, noted, bounds>>

(* A file that changes has another mtime than any row or scan says. *)
Changed(p, k) ==
    /\ mtime' = IF mtime[k] = p THEN [mtime EXCEPT ![k] = Nothing] ELSE mtime
    /\ sync' = IF sync.handle # 0 /\ Provider(sync.handle) = p
               THEN [sync EXCEPT !.same = @ \ {k}] ELSE sync

TurnEdits(t, k, content) ==
    LET h == call[t].handle
        p == Provider(h)
    IN  /\ t \in Turns /\ call[t].at = "opened" /\ h \notin dead
        /\ content \in {t, Nothing} /\ FilesOf(p)[k] # content
        /\ IF IsDirect(p)
           THEN /\ store' = [store EXCEPT ![k] = content]
                /\ inPlace' = inPlace \cup {k}
                /\ UNCHANGED <<files, gone>>
           ELSE /\ files' = [files EXCEPT ![p][k] = content]
                /\ gone' = [gone EXCEPT ![p] = IF content = Nothing THEN @ \cup {k} ELSE @ \ {k}]
                /\ UNCHANGED <<store, inPlace>>
        /\ Changed(p, k)
        /\ UNCHANGED <<index, driver, machines, lock, opening, call, request, straddled, bounds>>

(* turnFinished() starts a reconciliation, or joins the one under way. *)
TurnEnds(t) ==
    /\ t \in Turns /\ call[t].at \in {"opened", "refused"}
    /\ IF call["sync"].at = "idle"
       THEN /\ call' = [call EXCEPT ![t] = [Idle EXCEPT !.at = "done"], !["sync"].at = "opening"]
            /\ opening' = IF opening.at = "no" THEN [NotOpening EXCEPT !.at = "driver"] ELSE opening
       ELSE /\ Ends(t)
            /\ UNCHANGED opening
    /\ UNCHANGED <<kept, files, driver, machines, lock, sync, request, noted, bounds>>

(***************************************************************************)
(* syncStorage() and reconcileOnce()                                       *)
(***************************************************************************)
(* The end of a flight; a release that awaits it fails with it. *)
EndSync(ok) ==
    /\ sync' = NotSyncing
    /\ call' = [call EXCEPT !["sync"] = Idle,
                            !["owner"].at = IF ~ok /\ @ = "releasing" THEN "refused" ELSE @]

SyncNow ==
    /\ call["sync"].at = "idle"
    /\ Resolve("sync")
    /\ UNCHANGED <<kept, files, driver, machines, lock, sync, request, noted, bounds>>

(* The attachment is that of the driver of this moment. *)
SyncAttach ==
    /\ call["sync"].at = "opened"
    /\ sync' = [NotSyncing EXCEPT !.handle = call["sync"].handle, !.direct = IsDirect(driver)]
    /\ lock' = Append(lock, "sync")
    /\ At("sync", "queued")
    /\ UNCHANGED <<kept, files, driver, machines, opening, request, noted, bounds>>

SyncScan ==
    LET p == Provider(sync.handle)
        seen == FilesOf(p)
    IN  /\ Holds("sync") /\ call["sync"].at = "queued" /\ sync.handle \notin dead
        /\ sync' = [sync EXCEPT
                !.seen = seen,
                !.same = Keys,
                !.lost = gone[p],
                !.todo = {k \in Keys : seen[k] # Nothing /\ mtime[k] # p}]
        /\ At("sync", "keys")
        /\ UNCHANGED <<kept, files, driver, machines, lock, opening, request, noted, bounds>>

(* A computer that was destroyed, or does not answer; or a file that is no   *)
(* longer there to be read: the rest of the flight is given up.              *)
SyncFails ==
    /\ \/ call["sync"].at = "refused" /\ UNCHANGED <<lock, faults>>
       \/ /\ Holds("sync")
          /\ \/ call["sync"].at \in {"queued", "keys"} /\ sync.handle \in dead /\ UNCHANGED faults
             \/ call["sync"].at = "queued" /\ Fault("scan")
             \/ /\ call["sync"].at = "keys" /\ UNCHANGED faults
                /\ \E k \in sync.todo : /\ index[k] # sync.seen[k]
                                        /\ FilesOf(Provider(sync.handle))[k] = Nothing
          /\ lock' = Tail(lock)
    /\ EndSync(FALSE)
    /\ UNCHANGED <<kept, files, driver, machines, opening, request, noted, requests>>

(* A file of the inventory that is new or has another mtime than its row. *)
SyncKey(k) ==
    LET p == Provider(sync.handle)
        found == sync.seen[k]
        unchanged == index[k] # found /\ FilesOf(p)[k] = found
    IN  /\ Holds("sync") /\ call["sync"].at = "keys" /\ k \in sync.todo
        /\ index[k] # found => sync.handle \notin dead /\ FilesOf(p)[k] # Nothing
        /\ sync' = [sync EXCEPT !.todo = @ \ {k}]
        /\ store' = IF unchanged /\ ~sync.direct THEN [store EXCEPT ![k] = found] ELSE store
        /\ index' = IF unchanged THEN [index EXCEPT ![k] = found] ELSE index
        /\ mtime' = IF unchanged \/ index[k] = found
                    THEN [mtime EXCEPT ![k] = IF k \in sync.same THEN p ELSE Nothing]
                    ELSE mtime
        /\ Indexed
        /\ UNCHANGED <<files, driver, machines, lock, opening, call, request, gone, straddled, bounds>>

(* A slip in SyncDelete: whatever the index knows is deleted. *)
SyncDeleteIndexed ==
    LET missing == {k \in Keys : index[k] # Nothing /\ sync.seen[k] = Nothing}
        Without(rows) == [k \in Keys |-> IF k \in missing THEN Nothing ELSE rows[k]]
    IN  /\ Holds("sync") /\ call["sync"].at = "keys" /\ sync.todo = {}
        /\ store' = IF sync.direct THEN store ELSE Without(store)
        /\ index' = Without(index)
        /\ lock' = Tail(lock)
        /\ EndSync(TRUE)
        /\ UNCHANGED <<mtime, files, driver, machines, opening, request, noted, bounds>>

(* What was given to the computer and is not in the inventory is deleted. *)
SyncDelete ==
    LET h == sync.handle
        known == IF sync.direct THEN {k \in Keys : index[k] # Nothing} ELSE materialized[h]
        missing == {k \in known : sync.seen[k] = Nothing}
        Without(rows) == [k \in Keys |-> IF k \in missing THEN Nothing ELSE rows[k]]
    IN  /\ Holds("sync") /\ call["sync"].at = "keys" /\ sync.todo = {}
        /\ store' = IF sync.direct THEN store ELSE Without(store)
        /\ index' = Without(index)
        /\ mtime' = Without(mtime)
        /\ materialized' = [materialized EXCEPT ![h] = @ \ missing]
        /\ lock' = Tail(lock)
        /\ EndSync(TRUE)
        /\ Indexed
        /\ UNCHANGED <<files, driver, handles, active, dead, opening, request, gone, straddled, bounds>>

(***************************************************************************)
(* setProvider(), setCredentials(), clearCredentials(), destroy()          *)
(***************************************************************************)
Busy == \E t \in Turns : call[t].at \in {"opening", "opened", "refused"}

OwnerRests == call' = [call EXCEPT !["owner"] = Idle] /\ request' = NoRequest

AwaitOpening(step) ==
    /\ request' = [request EXCEPT !.step = step]
    /\ At("owner", IF opening.at = "no" THEN "opened" ELSE "opening")
    /\ UNCHANGED opening

Ask(kind, id) ==
    /\ kind \in Requests /\ call["owner"].at = "idle" /\ requests < MaxRequests
    /\ requests' = requests + 1
    /\ kind = "switch" => ~Busy
    /\ IF kind = "destroy"
       THEN /\ request' = [kind |-> kind, id |-> Nothing, step |-> "destroy"]
            /\ Resolve("owner")
       ELSE /\ request' = [kind |-> kind, id |-> id, step |-> "release"]
            /\ At("owner", IF opening.at = "no" THEN "opened" ELSE "opening")
            /\ UNCHANGED opening
    /\ UNCHANGED <<kept, files, driver, machines, lock, sync, noted, faults>>

OwnerDestroys ==
    LET h == call["owner"].handle
        p == Provider(h)
    IN  /\ call["owner"].at = "opened" /\ request.step = "destroy"
        /\ IF IsDirect(p)
           THEN UNCHANGED <<files, dead, gone>>
           ELSE /\ files' = [files EXCEPT ![p] = [k \in Keys |-> Nothing]]
                /\ dead' = {i \in 1..Len(handles) : i \in dead \/ Provider(i) = p}
                /\ gone' = [gone EXCEPT ![p] = {}]
        /\ AwaitOpening("release")
        /\ UNCHANGED <<kept, driver, handles, active, materialized, lock, sync, inPlace, straddled, bounds>>

(* release() awaits the opening, then the reconciliation, then closes. *)
OwnerReleases ==
    /\ call["owner"].at = "opened" /\ request.step = "release"
    /\ IF request.kind = "credentials" /\ Attached # request.id
       THEN OwnerRests
       ELSE At("owner", "releasing") /\ UNCHANGED request
    /\ UNCHANGED <<kept, files, driver, machines, lock, opening, sync, noted, bounds>>

OwnerCloses ==
    /\ call["owner"].at = "releasing" /\ call["sync"].at = "idle"
    /\ At("owner", "closing")
    /\ UNCHANGED <<kept, files, driver, machines, lock, opening, sync, request, noted, bounds>>

(* A slip in OwnerClears: the provider asked for is forgotten with the computer. *)
OwnerClearsAll ==
    /\ call["owner"].at = "closing"
    /\ active' = 0
    /\ IF request.kind = "switch" THEN At("owner", "update") /\ request' = NoRequest ELSE OwnerRests
    /\ UNCHANGED <<kept, files, driver, handles, materialized, dead, lock, opening, sync,
                   noted, bounds>>

OwnerClears ==
    /\ call["owner"].at = "closing"
    /\ active' = 0
    /\ IF request.kind = "switch" THEN At("owner", "update") /\ UNCHANGED request ELSE OwnerRests
    /\ UNCHANGED <<kept, files, driver, handles, materialized, dead, lock, opening, sync,
                   noted, bounds>>

UnderWay ==
    \/ active # 0 \/ opening.at # "no"
    \/ \E a \in Actors : call[a].at = "opening" \/ call[a].handle # 0

OwnerSwitches ==
    /\ call["owner"].at = "update"
    /\ driver' = request.id
    /\ request' = [request EXCEPT !.step = "initialize"]
    /\ straddled' = (straddled \/ UnderWay)
    /\ Resolve("owner")
    /\ UNCHANGED <<kept, files, machines, lock, sync, gone, inPlace, bounds>>

OwnerDone ==
    /\ \/ call["owner"].at = "refused"
       \/ call["owner"].at = "opened" /\ request.step = "initialize"
    /\ OwnerRests
    /\ UNCHANGED <<kept, files, driver, machines, lock, opening, sync, noted, bounds>>

OpenStep ==
    \/ OpenDriver \/ OpenFails \/ OpenProvider \/ CopyFails \/ OpenDone
    \/ \E k \in Keys : Copy(k)

WriteStep(w) ==
    \/ WritePut(w) \/ WriteAttach(w) \/ WriteFile(w) \/ WriteMark(w) \/ WriteFails(w)

SyncStep ==
    \/ SyncAttach \/ SyncScan \/ SyncFails \/ SyncDelete
    \/ \E k \in Keys : SyncKey(k)

OwnerStep ==
    \/ OwnerDestroys \/ OwnerReleases \/ OwnerCloses \/ OwnerClears \/ OwnerSwitches \/ OwnerDone

Next ==
    \/ Poll \/ SyncNow
    \/ OpenStep
    \/ SyncStep
    \/ \E w \in Writers : WriteStep(w) \/ \E k \in Keys : Write(w, k)
    \/ \E t \in Turns :
        \/ TurnStart(t) \/ TurnEnds(t)
        \/ \E k \in Keys, c \in {t, Nothing} : TurnEdits(t, k, c)
    \/ \E kind \in Requests, id \in Providers : Ask(kind, id)
    \/ OwnerStep

Spec == Init /\ [][Next]_vars

(***************************************************************************)
(* Properties                                                              *)
(***************************************************************************)
Places == {"idle", "queued", "opening", "opened", "refused", "done"}

Files == [Keys -> Contents \cup {Nothing}]
Handles == 0..Len(handles)
OpeningState == [at : {"no", "driver", "copy"} \cup Providers, handle : Handles, todo : SUBSET Keys]
SyncState == [handle : Handles, direct : BOOLEAN, seen : Files,
              same : SUBSET Keys, lost : SUBSET Keys, todo : SUBSET Keys]
CallState == [at : Places \cup {"put", "written", "keys", "releasing", "closing", "update"},
              handle : Handles, key : Keys \cup {Nothing}]
RequestState == [kind : Requests \cup {"none"}, id : Providers \cup {Nothing},
                 step : {"none", "release", "destroy", "initialize"}]

(* Every variable keeps its type, and nobody is in the lock's queue who is   *)
(* not known.                                                               *)
TypeOK ==
    /\ store \in Files /\ index \in Files
    /\ mtime \in [Keys -> Providers \cup {Nothing}]
    /\ files \in [Providers -> Files]
    /\ driver \in Providers
    /\ handles \in Seq(Providers)
    /\ active \in Handles
    /\ materialized \in Seq(SUBSET Keys) /\ Len(materialized) = Len(handles)
    /\ dead \subseteq 1..Len(handles)
    /\ lock \in Seq(Lockers)
    /\ opening \in OpeningState /\ sync \in SyncState
    /\ call \in [Actors -> CallState] /\ request \in RequestState
    /\ gone \in [Providers -> SUBSET Keys]
    /\ inPlace \subseteq Keys
    /\ straddled \in BOOLEAN
    /\ requests \in 0..MaxRequests /\ faults \in 0..MaxFaults

(* When nobody holds the lock, every object of the store is on the open      *)
(* computer, however writes, openings, reconciliations and releases          *)
(* interleaved; or a bot has removed it there (manager.ts:98, durable.ts:91).*)
CopiesArrive ==
    LET p == Attached
    IN  lock = <<>> /\ p = driver /\ active \notin dead /\ ~IsDirect(p)
        /\ faults = 0 /\ ~straddled
        => \A k \in Keys : store[k] = Nothing \/ files[p][k] # Nothing \/ k \in gone[p]

(* A reconciliation deletes an object only when, at the time of its          *)
(* inventory, a bot had removed the file from that computer: never because   *)
(* the computer is another one, was destroyed, or was not given the file     *)
(* (durable.ts:198-205).                                                     *)
DeletesAreReal ==
    [][\A k \in Keys : store[k] # Nothing /\ store'[k] = Nothing
            => k \in sync.lost \/ k \in inPlace']_vars

(* A reconciliation replaces an object only by what a bot wrote, never by an *)
(* older copy of what the server wrote meanwhile (durable.ts:193), as long   *)
(* as no call of a computer failed and nothing straddled a switch.           *)
NoWriteReverted ==
    [][\A k \in Keys :
        /\ store'[k] \notin {store[k], Nothing} /\ store[k] # Nothing
        /\ sync.handle # 0 /\ faults = 0 /\ ~straddled
        => store'[k] \in Turns \/ Holds(store'[k])]_vars

(* A write that opens the computer while it holds the lock which the opening *)
(* needs (durable.ts:87-94, manager.ts:98).                                  *)
Stuck == \E w \in Writers : Holds(w) /\ call[w].at = "opening" /\ opening.at = "copy"

(* Whoever holds the lock can go on, or the opening it awaits can: the lock  *)
(* is released after every failure too (durable.ts:57), and that one cycle   *)
(* is the only one.                                                          *)
LockMoves ==
    lock # <<>> /\ ~Stuck =>
        CASE Head(lock) = "open" -> ENABLED OpenStep
          [] Head(lock) = "sync" -> ENABLED SyncStep
          [] OTHER -> ENABLED (OpenStep \/ WriteStep(Head(lock)))
==============================================================================
