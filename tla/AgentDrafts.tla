----------------------------- MODULE AgentDrafts -----------------------------
(* The page that edits an agent (web: AgentDocumentBuilder.tsx with            *)
(* lib/agent-document.ts), open in the tabs of one browser that share one      *)
(* draft in localStorage, while others edit the same agent: the loader that    *)
(* shows what it has kept and asks again, the autosave and the flushes, PATCH  *)
(* with lost and late answers, pages that are left and tabs that die.  Of the  *)
(* fields there are the name, for all that are compared with the agent's, and  *)
(* the instructions, which the editor imports and exports.                     *)
EXTENDS Integers

CONSTANTS
    Tabs,
    Nobody,     \* no tab
    MaxTexts,   \* texts: the agent's, and those typed here or by others
    MaxVisits   \* visits to the page, in all tabs

ASSUME DraftsAssumption == Nobody \notin Tabs /\ MaxTexts \in Nat \ {0} /\ MaxVisits \in Nat

VARIABLES
    bot,        \* the row of the agent: its name and its instructions
    storage,     \* localStorage: the draft of this user and agent
    page,       \* the edit page of each tab
    save,       \* its PATCH; left: the page was left before the answer
    last,       \* the text typed last
    visits,     \* visits so far
    typed,      \* the texts typed in this browser
    writer      \* noted: the tab that wrote or removed the draft last

draftVars == <<bot, storage, page, save, last, visits, typed, writer>>

(* Texts are numbered, -v is v as the editor exports it when it has imported  *)
(* it and nobody has edited it.                                                *)
Imported(v) == IF v > 0 THEN -v ELSE v

NoBot == [name |-> 0, instr |-> 0]
NoDraft == [base |-> NoBot, orig |-> 0, dirty |-> FALSE, bereft |-> FALSE,
            name |-> 0, blocks |-> 0]
NoSave == [at |-> "no", patch |-> NoBot, left |-> FALSE]

(* bot, name, blocks, md, orig, dirty: editingBot, the draft, what the editor  *)
(* holds, initialMarkdown (0: undefined), originalInstructions,                *)
(* instructionsDirty.  editor: editorReady.  timer: the autosave is pending.   *)
(* bot outlives the page where the router keeps the data of its loader.        *)
(* bereft, noted: it was dirty when its draft was found removed.               *)
Away == [at |-> "away", bot |-> NoBot, ask |-> "no", got |-> NoBot, editor |-> FALSE,
         name |-> 0, blocks |-> 0, md |-> 0, orig |-> 0, dirty |-> FALSE, blocked |-> FALSE, timer |-> FALSE,
         bereft |-> FALSE]

DraftsInit ==
    /\ bot = [name |-> 1, instr |-> 1] /\ last = 1 /\ typed = {} /\ visits = 0
    /\ storage = NoDraft /\ writer = Nobody
    /\ page = [i \in Tabs |-> Away]
    /\ save = [i \in Tabs |-> NoSave]

Types(here) ==
    /\ last < MaxTexts
    /\ last' = last + 1
    /\ typed' = IF here THEN typed \cup {last + 1} ELSE typed

(* Another browser, or a call of the API. *)
OthersEdit ==
    /\ Types(FALSE)
    /\ \E f \in {"name", "instr"} : bot' = [bot EXCEPT ![f] = last + 1]
    /\ UNCHANGED <<storage, page, save, visits, writer>>

(***************************************************************************)
(* The draft in localStorage                                               *)
(***************************************************************************)
Draft(p) == [base |-> p.bot, orig |-> p.orig, dirty |-> p.dirty, bereft |-> p.bereft,
             name |-> p.name, blocks |-> p.blocks]

(* The page waits for the answer, or has it and is about to be left. *)
Pending(i) == save[i].at # "no" /\ ~save[i].left

(* The effects that save are in place. *)
Live(p) == p.at = "open" /\ p.editor /\ ~p.blocked

Stores(i, draft) == storage' = draft /\ writer' = i
StoresNothing == UNCHANGED <<storage, writer>>

(* A slip in Flushes: submissionSucceeded is not looked at. *)
FlushesAlways(i) == Live(page[i])

Flushes(i) == Live(page[i]) /\ ~(Pending(i) /\ save[i].at = "saved")
Flush(i) == IF Flushes(i) THEN Stores(i, Draft(page[i])) ELSE StoresNothing

(* A slip in Parsed: the baseline is not compared. *)
ParsedAnyway(draft, b) ==
    IF draft = NoDraft THEN "none" ELSE IF draft.orig # b.instr THEN "invalid" ELSE "restored"

(* parseAgentEditDocumentDraft() *)
Parsed(draft, b) ==
    CASE draft = NoDraft -> "none"
      [] draft # NoDraft /\ draft.base # b -> "stale"
      [] draft # NoDraft /\ draft.base = b /\ draft.orig # b.instr -> "invalid"
      [] OTHER -> "restored"

(* The agent as it is; an editor imports the instructions if they have changed. *)
FromServer(p, b) ==
    [p EXCEPT !.bot = b, !.name = b.name, !.md = b.instr,
              !.blocks = IF p.md = b.instr THEN @ ELSE Imported(b.instr), !.bereft = @ \/ p.dirty]

(* An editor that is there already goes on with what it holds. *)
Restored(p, b, draft) ==
    [p EXCEPT !.bot = b, !.name = draft.name, !.md = 0, !.orig = draft.orig, !.dirty = draft.dirty,
              !.bereft = draft.bereft, !.blocks = IF p.editor THEN @ ELSE draft.blocks]

(* The effect of a new editingBot, of a mount or of the loader's answer. *)
Loaded(p, b, draft) ==
    CASE Parsed(draft, b) = "none" -> FromServer(p, b)
      [] Parsed(draft, b) = "restored" -> Restored(p, b, draft)
      [] OTHER -> [FromServer(p, b) EXCEPT !.blocked = TRUE]

(***************************************************************************)
(* Opening and leaving the page                                            *)
(***************************************************************************)
Opened(b, ask) == Loaded([Away EXCEPT !.at = "open", !.ask = ask, !.orig = b.instr], b, storage)

(* The loader asks for the agent; what the router has kept is shown meanwhile. *)
Visits(i) ==
    /\ page[i].at = "away"
    /\ visits < MaxVisits /\ visits' = visits + 1
    /\ page' = [page EXCEPT ![i] = IF @.bot = NoBot THEN [Away EXCEPT !.at = "loading", !.ask = "asked"]
                                   ELSE Opened(@.bot, "asked")]
    /\ UNCHANGED <<bot, storage, save, last, typed, writer>>

LoaderReads(i) ==
    /\ page[i].ask = "asked"
    /\ page' = [page EXCEPT ![i].ask = "read", ![i].got = bot]
    /\ UNCHANGED <<bot, storage, save, last, visits, typed, writer>>

(* On an open page the old effect flushes, the new one reads the draft, and   *)
(* where that blocks the page, the next clean-up flushes once more, with the  *)
(* new agent and before the editor has imported anything.                     *)
LoaderAnswers(i) ==
    LET p == [page[i] EXCEPT !.ask = "no", !.got = NoBot]
        b == page[i].got
        q == Loaded(p, b, IF Flushes(i) THEN Draft(p) ELSE storage)
    IN  /\ page[i].ask = "read"
        /\ IF p.at = "loading"
           THEN page' = [page EXCEPT ![i] = Opened(b, "no")] /\ StoresNothing
           ELSE /\ page' = [page EXCEPT ![i] = [q EXCEPT !.timer = Live(q)]]
                /\ IF Flushes(i) /\ q.blocked THEN Stores(i, Draft([q EXCEPT !.blocks = p.blocks])) ELSE Flush(i)
        /\ UNCHANGED <<bot, save, last, visits, typed>>

(* The editor is loaded on demand: handleEditorReady(). *)
EditorReady(i) ==
    /\ page[i].at = "open" /\ ~page[i].editor
    /\ page' = [page EXCEPT ![i].editor = TRUE, ![i].timer = ~page[i].blocked]
    /\ UNCHANGED <<bot, storage, save, last, visits, typed, writer>>

(* A slip in Leaves: the page that is left still waits for the answer. *)
LeavesWaiting(i) ==
    /\ page[i].at # "away" /\ Flush(i)
    /\ page' = [page EXCEPT ![i] = [Away EXCEPT !.bot = page[i].bot]]
    /\ UNCHANGED <<bot, save, last, visits, typed>>

(* Within the application, where the request goes on, or out of it. *)
Leaves(i) ==
    /\ page[i].at # "away" /\ Flush(i)
    /\ \/ /\ page' = [page EXCEPT ![i] = [Away EXCEPT !.bot = page[i].bot]]
          /\ save' = [save EXCEPT ![i] = IF @.at \in {"no", "saved"} THEN NoSave ELSE [@ EXCEPT !.left = TRUE]]
       \/ page' = [page EXCEPT ![i] = Away] /\ save' = [save EXCEPT ![i] = NoSave]
    /\ UNCHANGED <<bot, last, visits, typed>>

Dies(i) ==
    /\ page[i].at # "away"
    /\ page' = [page EXCEPT ![i] = Away] /\ save' = [save EXCEPT ![i] = NoSave]
    /\ UNCHANGED <<bot, storage, last, visits, typed, writer>>

(***************************************************************************)
(* Editing                                                                 *)
(***************************************************************************)
(* The fields can be edited before the editor is there and on a blocked page. *)
EditsName(i) ==
    /\ page[i].at = "open" /\ ~Pending(i)
    /\ Types(TRUE)
    /\ page' = [page EXCEPT ![i].name = last + 1, ![i].timer = Live(page[i])]
    /\ UNCHANGED <<bot, storage, save, visits, writer>>

EditsInstructions(i) ==
    /\ Live(page[i]) /\ ~Pending(i)
    /\ Types(TRUE)
    /\ page' = [page EXCEPT ![i].blocks = last + 1, ![i].dirty = TRUE, ![i].timer = TRUE]
    /\ UNCHANGED <<bot, storage, save, visits, writer>>

Autosaves(i) ==
    /\ page[i].timer
    /\ Flush(i)
    /\ page' = [page EXCEPT ![i].timer = FALSE]
    /\ UNCHANGED <<bot, save, last, visits, typed>>

(* A slip in Fresh: instructionsDirty stays. *)
FreshButDirty(p) ==
    [p EXCEPT !.name = p.bot.name, !.md = p.bot.instr, !.blocks = Imported(p.bot.instr), !.orig = p.bot.instr,
              !.blocked = FALSE, !.editor = FALSE]

Fresh(p) ==
    [p EXCEPT !.name = p.bot.name, !.md = p.bot.instr, !.blocks = Imported(p.bot.instr), !.orig = p.bot.instr,
              !.dirty = FALSE, !.bereft = FALSE, !.blocked = FALSE, !.editor = FALSE]

(* "Load current agent" *)
StartsFresh(i) ==
    /\ page[i].blocked /\ ~Pending(i)
    /\ Stores(i, NoDraft)
    /\ page' = [page EXCEPT ![i] = Fresh(page[i])]
    /\ UNCHANGED <<bot, save, last, visits, typed>>

(***************************************************************************)
(* Saving                                                                  *)
(***************************************************************************)
(* buildAgentDocumentBotPatch() *)
Patch(p) == [name |-> IF p.name # p.bot.name THEN p.name ELSE 0,
             instr |-> IF p.dirty THEN p.blocks ELSE 0]

(* The draft is flushed first; nothing to change is a success at once.  Bound: *)
(* no second save of a tab while the one of a page it left is under way.       *)
Submits(i) ==
    /\ Live(page[i]) /\ save[i].at = "no"
    /\ IF Patch(page[i]) = NoBot
       THEN /\ Stores(i, NoDraft)
            /\ save' = [save EXCEPT ![i].at = "saved"]
       ELSE /\ Stores(i, Draft(page[i]))
            /\ save' = [save EXCEPT ![i].at = "sent", ![i].patch = Patch(page[i])]
    /\ page' = [page EXCEPT ![i].timer = TRUE]
    /\ UNCHANGED <<bot, last, visits, typed>>

(* PATCH /api/bots/:id sets the fields it is given. *)
PatchArrives(i) ==
    LET new(f) == IF save[i].patch[f] # 0 THEN save[i].patch[f] ELSE bot[f]
    IN  /\ save[i].at = "sent"
        /\ bot' = [name |-> new("name"), instr |-> new("instr")]
        /\ save' = [save EXCEPT ![i].at = "applied"]
        /\ UNCHANGED <<storage, page, last, visits, typed, writer>>

(* The draft goes; the page will be left.  One that was left already can no  *)
(* longer tell whose draft it removes.                                       *)
Succeeds(i) ==
    /\ save[i].at = "applied"
    /\ storage' = NoDraft
    /\ IF save[i].left THEN writer' = Nobody /\ save' = [save EXCEPT ![i] = NoSave]
       ELSE writer' = i /\ save' = [save EXCEPT ![i].at = "saved", ![i].patch = NoBot]
    /\ UNCHANGED <<bot, page, last, visits, typed>>

(* The request or its answer is lost. *)
Fails(i) ==
    /\ save[i].at \in {"sent", "applied"}
    /\ save' = [save EXCEPT ![i] = NoSave]
    /\ UNCHANGED <<bot, storage, page, last, visits, typed, writer>>

DraftsNext ==
    \/ OthersEdit
    \/ \E i \in Tabs :
        \/ Visits(i) \/ LoaderReads(i) \/ LoaderAnswers(i) \/ EditorReady(i) \/ Leaves(i) \/ Dies(i)
        \/ EditsName(i) \/ EditsInstructions(i) \/ Autosaves(i) \/ StartsFresh(i)
        \/ Submits(i) \/ PatchArrives(i) \/ Succeeds(i) \/ Fails(i)

DraftsSpec == DraftsInit /\ [][DraftsNext]_draftVars

(***************************************************************************)
(* Properties                                                              *)
(***************************************************************************)
Bots == [name : 0..last, instr : -last..last]

Drafts == [base : Bots, orig : -last..last, dirty : BOOLEAN, bereft : BOOLEAN, name : 0..last, blocks : -last..last]

Pages == [at : {"away", "loading", "open"}, bot : Bots, ask : {"no", "asked", "read"}, got : Bots, editor : BOOLEAN,
          name : 0..last, blocks : -last..last, md : -last..last, orig : -last..last, dirty : BOOLEAN,
          blocked : BOOLEAN, timer : BOOLEAN, bereft : BOOLEAN]

Saves == [at : {"no", "sent", "applied", "saved"}, patch : Bots, left : BOOLEAN]

(* The values of every variable; only an open page has an editor, a draft or  *)
(* a save that it waits for.                                                  *)
DraftsTypeOK ==
    /\ last \in 1..MaxTexts /\ typed \subseteq 2..last /\ visits \in 0..MaxVisits
    /\ bot \in Bots /\ storage \in Drafts /\ writer \in Tabs \cup {Nobody}
    /\ page \in [Tabs -> Pages] /\ save \in [Tabs -> Saves]
    /\ \A i \in Tabs : page[i].at # "open" =>
          ~page[i].editor /\ ~page[i].blocked /\ ~page[i].timer /\ ~Pending(i)

(* A save changes nothing that nobody typed here: no field goes back to what  *)
(* an old draft holds, and instructions are never exported again because of   *)
(* another field, over drafts of former visits and of other tabs, agents that *)
(* change under the page, and lost answers; but for a page that finds the     *)
(* draft removed that made it dirty (agent-document.ts:334-351, :436).        *)
SavesOnlyTyped ==
    \A i \in Tabs, f \in {"name", "instr"} : ~page[i].bereft /\ ~save[i].left => save[i].patch[f] \in typed \cup {0}

(* Once the autosave has run, what an open page shows is what is stored, and  *)
(* nothing is after its save succeeded, as long as no other page wrote the    *)
(* draft after it or removed it (AgentDocumentBuilder.tsx:201-230, :410-411). *)
StorageFollows ==
    \A i \in Tabs : writer = i =>
        /\ Pending(i) /\ save[i].at = "saved" => storage = NoDraft
        /\ Flushes(i) /\ ~page[i].timer => storage = Draft(page[i])
=============================================================================
