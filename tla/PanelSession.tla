----------------------------- MODULE PanelSession -----------------------------
(***************************************************************************)
(* One editor of the staff console or of the customer portal, in one       *)
(* browser tab: the query that shows a row of the server, the draft a      *)
(* person makes of it, the save and the other commands on the wire, and    *)
(* somebody else who changes the same row.  What one editor does           *)
(* differently from the next is its profile (AdminPanels):                 *)
(*                                                                         *)
(*   kind     form    values always on the page, filled from the query     *)
(*                    only while they are clean (useSettingsForm.hydrate)  *)
(*            overlay null, or a whole copy of the row with the edits      *)
(*            fields  the edited fields only; the rest comes from the      *)
(*                    query's data when the save is sent                   *)
(*            dialog  a copy of the row made when the dialog opens         *)
(*            patch   a dialog that reads the row again when it saves and  *)
(*                    sends it with the edited fields only                 *)
(*            create  an empty dialog whose save adds to the list          *)
(*            keyed   an overlay bound to the saved text it was made from  *)
(*            none    no draft: the panel only has commands                *)
(*   frozen   its inputs take no edit while a save or a command is out     *)
(*   held     its dialog cannot be closed while the save is out            *)
(*   cas      the save carries the revision, the server refuses another    *)
(*   gate     it is not sent when the revision on the page has moved       *)
(*   cancel   reads on the wire are cancelled around the save              *)
(*   refresh  what success does to the query: "set", "invalidate", "both"  *)
(*   settle   what success does to the draft: "clean" (what is in the form *)
(*            now is the baseline), "rebase" (what was sent is), "drop",   *)
(*            "await" (drop, once the refetch has landed), "unless" (drop, *)
(*            unless it was edited since)                                  *)
(*   reload   after a conflict: "none" (only a message), "stop" (no further *)
(*            save), "replace" or "rebase" the draft on the current row    *)
(*   once     "stop": no second save after one that got no answer; "key":  *)
(*            the save has a key by which the server knows a second one    *)
(*   polls    reads start by "interval", by "focus" of the window only, or  *)
(*            "never" by themselves                                        *)
(*   commands the other writes: what each refreshes, and whether it edits  *)
(*   gaps     orders of events the source leaves open, see Gap             *)
(***************************************************************************)
EXTENDS Integers, FiniteSets

CONSTANTS
  PanelProfiles,  \* the profiles of the editors
  MaxEdits,       \* edits the person makes, 1..MaxEdits
  MaxForeign,     \* changes somebody else makes, -1..-MaxForeign
  MaxFaults,      \* requests that fail, or whose answer is lost
  MaxReads,       \* reads started by the interval or by focus
  MaxCommands     \* commands beside the save

ASSUME PanelBounds == {MaxEdits, MaxForeign, MaxFaults, MaxReads, MaxCommands} \subseteq Nat

IsDialog(p) == p.kind \in {"dialog", "patch", "create"}

\* The draft stands still while its save is out: no edit, no way to leave it.
Holds(p) == p.frozen /\ (IsDialog(p) => p.held) /\ "sweep" \notin p.commands

\* The page never shows less than its own saves when it makes a draft.
Follows(p) ==
  /\ Holds(p) /\ p.kind \in {"form", "overlay", "dialog"} /\ p.once = "no"
  /\ IsDialog(p) => p.commands = {}
  /\ p.cancel \/ p.refresh \in {"invalidate", "both"}
  /\ p.kind # "form" /\ p.settle # "await" => p.refresh \in {"set", "both"}
  /\ p.settle = "await" => p.kind = "overlay"

\* How the editors are built: which draft goes with which save, and where a
\* panel that breaks a rule has to own up to the gap it leaves.
ASSUME PanelRules ==
  \A p \in PanelProfiles :
    /\ p.kind \in {"form", "overlay", "fields", "dialog", "patch", "create", "keyed", "none"}
    /\ {p.frozen, p.held, p.cas, p.gate, p.cancel} \subseteq BOOLEAN
    /\ p.refresh \in {"set", "invalidate", "both"}
    /\ p.settle \in {"clean", "rebase", "drop", "await", "unless"}
    /\ p.commands \subseteq {"none", "set", "both", "invalidate", "edit", "sweep"}
    /\ p.kind \in {"form", "keyed"} => p.frozen
    /\ p.kind = "patch" => Holds(p)
    /\ p.kind = "keyed" => "moved" \in p.gaps /\ p.settle = "rebase" /\ p.refresh = "both" /\ p.commands = {}
    /\ p.settle = "clean" => p.kind \in {"form", "none"}
    /\ p.cas => p.kind \in {"form", "overlay", "dialog", "create"} /\ p.settle # "clean"
    /\ p.settle = "await" => p.refresh = "invalidate"
    /\ "edit" \in p.commands => p.frozen /\ p.kind \in {"form", "overlay", "fields"}
    /\ "sweep" \in p.commands => IsDialog(p) /\ "swept" \in p.gaps
    /\ ~p.frozen => p.settle \in {"rebase", "unless"} \/ "typed" \in p.gaps
    /\ IsDialog(p) /\ ~p.held => "other" \in p.gaps
    /\ p.refresh = "set" /\ ~p.cancel => "late" \in p.gaps \/ (p.polls = "never" /\ p.commands = {})
    /\ \/ "stale" \in p.gaps \/ p.kind \in {"create", "patch", "none"}
       \/ (p.cas /\ p.reload # "rebase") \/ Follows(p)
    /\ p.once = "key" => p.kind = "create"
    /\ p.kind = "create" =>
         /\ p.settle = "drop"
         /\ \/ "twice" \in p.gaps
            \/ Holds(p) /\ p.reload # "replace" /\ (p.once = "key" \/ (p.once = "stop" /\ p.reload # "rebase"))

VARIABLES
  panel,     \* the profile of the editor on the page
  row,       \* the row on the server: its revision and the changes in it
  shown,     \* the data of the query
  read,      \* the read on the wire
  draft,     \* the draft: open, its content, its baseline, base revision
  save,      \* the save on the wire
  command,   \* the other command on the wire
  conflict,  \* the page shows a conflict
  person,    \* edits made (with the dialog they were made in), given up, and
             \* dialogs opened
  receipts,  \* the keys the server has taken a save for, with its content
  kept,      \* edits some save has put on the server
  handled,   \* the highest revision whose success the page has handled
  budget     \* faults, reads, commands and foreign changes left

panelVars == <<panel, row, shown, read, draft, save, command, conflict,
               person, receipts, kept, handled, budget>>

NoRow == [rev |-> -1, has |-> {}]
Quiet == [at |-> "no", row |-> NoRow]
NoDraft == [open |-> FALSE, has |-> {}, clean |-> {}, rev |-> -1, dialog |-> 0]
NoSave == [at |-> "no", has |-> {}, seen |-> {}, rev |-> -1, dialog |-> 0,
           result |-> NoRow]
NoCommand == [at |-> "no", does |-> "none", result |-> NoRow]

-----------------------------------------------------------------------------
Loaded == shown # NoRow
Dirty == draft.open /\ draft.has # draft.clean
Busy == save.at # "no" \/ command.at # "no"
HasDialog == IsDialog(panel)
\* The fieldset of SettingsDraftBoundary is inert while any mutation is out; a
\* dialog is drawn outside of it and disables its own inputs for its own save.
Inert == panel.frozen /\ IF HasDialog THEN save.at # "no" ELSE Busy

\* The draft a fresh copy of the row makes.
DraftOf(r, n) ==
  [open |-> TRUE, has |-> r.has, clean |-> r.has, rev |-> r.rev, dialog |-> n]

\* Mutant: every answer fills the form again.
HydratesAlways(d) == TRUE

\* useSettingsForm.hydrate: the first data, or data that finds the form clean.
\* An editor with a revision waits for its conflict and its save as well.
Hydrates(d) == ~d.open \/ d.has = d.clean

\* Mutant: a list is not drawn again below an open dialog.
LandBelowDialog(r) ==
  /\ shown' = IF HasDialog /\ draft.open THEN shown ELSE r
  /\ draft' = IF panel.kind = "form" /\ Hydrates(draft) THEN DraftOf(r, 0) ELSE draft

\* The draft once new data is in the query: the effect of a form hydrates it,
\* a keyed draft is hidden when its saved text is no longer the one shown.
Hydrated(r) ==
  CASE panel.kind = "form" /\ Hydrates(draft) /\ ~(panel.gate /\ (conflict \/ save.at # "no"))
         -> DraftOf(r, 0)
    [] panel.kind = "keyed" /\ r.has # draft.clean -> NoDraft
    [] OTHER -> draft

\* What landing an answer does to the page.
Land(r) == shown' = r /\ draft' = Hydrated(r)

-----------------------------------------------------------------------------
(* The query: a first read, a read by interval or focus, its answer.        *)
StartRead ==
  /\ read.at = "no"
  /\ \/ ~Loaded
     \/ panel.polls # "never" /\ budget.reads > 0
     \/ panel.polls = "interval" /\ shown.rev < handled
  /\ read' = [Quiet EXCEPT !.at = "asked"]
  /\ budget' = [budget EXCEPT !.reads = IF Loaded /\ @ > 0 THEN @ - 1 ELSE @]
  /\ UNCHANGED <<panel, row, shown, draft, save, command, conflict, person, receipts, kept, handled>>

\* refetchInterval keeps asking.
IntervalRead == panel.polls = "interval" /\ shown.rev < handled /\ StartRead

ServeRead ==
  /\ read.at = "asked"
  /\ read' = [at |-> "served", row |-> row]
  /\ UNCHANGED <<panel, row, shown, draft, save, command, conflict, person, receipts, kept, handled, budget>>

FinishRead ==
  /\ read.at = "served"
  /\ read' = Quiet
  /\ Land(read.row)
  /\ UNCHANGED <<panel, row, save, command, conflict, person, receipts, kept, handled, budget>>

\* A failed read leaves the data that was there; react-query asks again.
FailRead ==
  /\ read.at = "asked" /\ Loaded
  /\ budget.faults > 0
  /\ budget' = [budget EXCEPT !.faults = @ - 1]
  /\ UNCHANGED <<panel, row, shown, read, draft, save, command, conflict, person, receipts, kept, handled>>

\* Somebody else saves the row.
ForeignChange ==
  /\ budget.foreign > 0
  /\ row' = [rev |-> row.rev + 1, has |-> row.has \union {-budget.foreign}]
  /\ budget' = [budget EXCEPT !.foreign = @ - 1]
  /\ UNCHANGED <<panel, shown, read, draft, save, command, conflict, person, receipts, kept, handled>>

-----------------------------------------------------------------------------
(* The person: opens and closes the dialog, edits, saves, reloads.          *)
OpenDialog ==
  /\ HasDialog /\ Loaded /\ ~draft.open
  /\ person.dialogs < MaxEdits
  /\ draft' = DraftOf(IF panel.kind = "create" THEN [shown EXCEPT !.has = {}] ELSE shown,
                      person.dialogs + 1)
  /\ person' = [person EXCEPT !.dialogs = @ + 1]
  /\ conflict' = FALSE
  /\ UNCHANGED <<panel, row, shown, read, save, command, receipts, kept, handled, budget>>

CloseDialog ==
  /\ HasDialog /\ draft.open
  /\ panel.held => save.at = "no"
  /\ draft' = NoDraft
  /\ person' = [person EXCEPT !.gaveUp = @ \union (draft.has \ draft.clean)]
  /\ conflict' = FALSE
  /\ UNCHANGED <<panel, row, shown, read, save, command, receipts, kept, handled, budget>>

\* An edit of the values on the page: a form and a dialog have them, the first
\* edit of an overlay copies the loaded row, the fields keep the edit alone.
EditedDraft(e) ==
  IF draft.open THEN [draft EXCEPT !.has = @ \union {e}]
  ELSE IF panel.kind = "fields" THEN [NoDraft EXCEPT !.open = TRUE, !.has = {e}, !.rev = shown.rev]
  ELSE [DraftOf(shown, 0) EXCEPT !.has = @ \union {e}]

CanEdit ==
  /\ panel.kind # "none"
  /\ Loaded
  /\ draft.open \/ panel.kind \in {"overlay", "fields", "keyed"}
  /\ ~Inert

Edit ==
  /\ CanEdit
  /\ Cardinality(person.made) < MaxEdits
  /\ LET e == Cardinality(person.made) + 1 IN
       /\ draft' = EditedDraft(e)
       /\ person' = [person EXCEPT !.made = @ \union {e}, !.late = @ \union
            IF save.at # "no" THEN {[edit |-> e, same |-> save.dialog = draft.dialog]} ELSE {}]
  /\ UNCHANGED <<panel, row, shown, read, save, command, conflict, receipts, kept, handled, budget>>

\* The content a save sends.
Payload == IF panel.kind = "fields" THEN shown.has \union draft.has ELSE draft.has

Submit ==
  /\ draft.open /\ Dirty
  /\ save.at = "no" /\ ~Inert
  /\ ~conflict
  /\ panel.gate => shown.rev = draft.rev
  /\ save' = [NoSave EXCEPT !.at = IF panel.kind = "patch" THEN "reading" ELSE "sent",
                            !.has = Payload, !.seen = draft.clean \union Payload,
                            !.rev = draft.rev, !.dialog = draft.dialog]
  /\ read' = IF panel.cancel THEN Quiet ELSE read
  /\ UNCHANGED <<panel, row, shown, draft, command, conflict, person, receipts, kept, handled, budget>>

\* nodeEditPayload: the latest row with the fields this editor changed.
MergeLatest ==
  /\ save.at = "reading"
  /\ save' = [save EXCEPT !.at = "sent", !.has = row.has \union (draft.has \ draft.clean),
                          !.seen = @ \union row.has]
  /\ UNCHANGED <<panel, row, shown, read, draft, command, conflict, person, receipts, kept, handled, budget>>

-----------------------------------------------------------------------------
(* The server takes the save, refuses it, or the request fails before or     *)
(* after it was applied.                                                     *)
Accepted ==
  [rev |-> row.rev + 1, has |-> save.has \union IF panel.kind = "create" THEN row.has ELSE {}]

Receipt == [dialog |-> save.dialog, has |-> save.has, rev |-> save.rev]

Known == \E r \in receipts : r.dialog = save.dialog

\* A key that was taken is answered as before, or refused when the content
\* differs; without one the revision decides.
Refuses == IF Known THEN Receipt \notin receipts ELSE panel.cas /\ save.rev # row.rev

ServeSave ==
  /\ save.at = "sent"
  /\ CASE Refuses -> save' = [save EXCEPT !.at = "refused"] /\ UNCHANGED <<row, kept, receipts>>
       [] Known /\ ~Refuses ->
            save' = [save EXCEPT !.at = "done", !.result = row] /\ UNCHANGED <<row, kept, receipts>>
       [] OTHER -> /\ row' = Accepted
                   /\ kept' = kept \union {e \in save.has : e > 0}
                   /\ receipts' = receipts \union IF panel.once = "key" THEN {Receipt} ELSE {}
                   /\ save' = [save EXCEPT !.at = "done", !.result = Accepted]
  /\ UNCHANGED <<panel, shown, read, draft, command, conflict, person, handled, budget>>

FailSave ==
  /\ save.at \in {"reading", "sent", "done"}
  /\ budget.faults > 0
  /\ save' = [save EXCEPT !.at = "failed"]
  /\ budget' = [budget EXCEPT !.faults = @ - 1]
  /\ UNCHANGED <<panel, row, shown, read, draft, command, conflict, person, receipts, kept, handled>>

\* The draft after the success of the save.
Settled ==
  IF (panel.kind = "keyed" /\ draft.rev # save.rev) \/ (panel.settle = "unless" /\ draft.has # save.has)
  THEN draft
  ELSE CASE panel.settle \in {"drop", "await", "unless"} ->
              IF panel.kind = "form" THEN DraftOf(save.result, 0) ELSE NoDraft
         [] panel.settle = "clean" -> [draft EXCEPT !.clean = draft.has]
         [] panel.settle = "rebase" -> [draft EXCEPT !.clean = save.result.has, !.rev = save.result.rev,
                                         !.has = save.result.has \union (@ \ save.has)]

\* Mutant: a read that is already out is joined instead of cancelled.
RefreshJoins(what, result, cancels) ==
  /\ shown' = IF what \in {"set", "both"} THEN result ELSE shown
  /\ read' = IF what \in {"invalidate", "both"} /\ read.at = "no" THEN [Quiet EXCEPT !.at = "asked"] ELSE read

\* invalidateQueries cancels the read on the wire and asks again; setQueryData
\* leaves it there, unless the handler cancels it first.
Refresh(what, result, cancels) ==
  /\ shown' = IF what \in {"set", "both"} THEN result ELSE shown
  /\ read' = IF what \in {"invalidate", "both"} THEN [Quiet EXCEPT !.at = "asked"]
             ELSE IF cancels THEN Quiet ELSE read

SaveSucceeds ==
  /\ save.at = "done" /\ panel.settle # "await"
  /\ draft' = IF draft.open THEN Settled ELSE draft
  /\ Refresh(panel.refresh, save.result, panel.cancel)
  /\ conflict' = FALSE
  /\ handled' = IF panel.refresh = "none" THEN handled ELSE save.result.rev
  /\ save' = NoSave
  /\ UNCHANGED <<panel, row, command, person, receipts, kept, budget>>

\* onSuccess awaits the refetch, and only then drops the draft.
AwaitRefetch ==
  /\ save.at = "done" /\ panel.settle = "await"
  /\ Refresh("invalidate", save.result, panel.cancel)
  /\ handled' = save.result.rev
  /\ save' = [save EXCEPT !.at = "settling"]
  /\ UNCHANGED <<panel, row, draft, command, conflict, person, receipts, kept, budget>>

Settle ==
  /\ save.at = "settling" /\ read.at = "no"
  /\ draft' = IF draft.open THEN Settled ELSE draft
  /\ save' = NoSave
  /\ UNCHANGED <<panel, row, shown, read, command, conflict, person, receipts, kept, handled, budget>>

\* An error answer keeps the draft; a conflict is shown where it is known.
SaveFails ==
  /\ save.at \in {"refused", "failed"}
  /\ save' = NoSave
  /\ conflict' = (draft.open /\ IF save.at = "refused" THEN panel.reload # "none" ELSE panel.once = "stop")
  /\ UNCHANGED <<panel, row, shown, read, draft, command, person, receipts, kept, handled, budget>>

\* After a conflict, or when the revision moved, the person loads the row
\* again: "replace" gives the edits up, "rebase" keeps them over the new base.
Reload ==
  /\ panel.reload \in {"replace", "rebase"} /\ draft.open /\ ~Busy
  /\ conflict \/ (panel.gate /\ shown.rev # draft.rev)
  /\ shown' = row
  /\ read' = Quiet
  /\ conflict' = FALSE
  /\ draft' = IF panel.reload = "replace" THEN DraftOf(row, draft.dialog)
              ELSE [draft EXCEPT !.clean = row.has, !.rev = row.rev]
  /\ person' = [person EXCEPT !.gaveUp = @ \union
                  IF panel.reload = "replace" THEN draft.has \ draft.clean ELSE {}]
  /\ UNCHANGED <<panel, row, save, command, receipts, kept, handled, budget>>

-----------------------------------------------------------------------------
(* The other writes of the panel: a test, a switch, a deletion, a lookup     *)
(* that adds to the draft.                                                   *)
RunCommand ==
  \E does \in panel.commands :
    /\ Loaded /\ command.at = "no" /\ budget.commands > 0
    /\ ~Inert
    /\ HasDialog /\ draft.open => does = "sweep"
    /\ command' = [NoCommand EXCEPT !.at = "sent", !.does = does]
    /\ budget' = [budget EXCEPT !.commands = @ - 1]
    /\ UNCHANGED <<panel, row, shown, read, draft, save, conflict, person, receipts, kept, handled>>

ServeCommand ==
  /\ command.at = "sent"
  /\ row' = IF command.does \in {"edit", "none"} THEN row ELSE [row EXCEPT !.rev = @ + 1]
  /\ command' = [command EXCEPT !.at = "done", !.result = row']
  /\ UNCHANGED <<panel, shown, read, draft, save, conflict, person, receipts, kept, handled, budget>>

FinishCommand ==
  /\ command.at = "done"
  /\ command' = NoCommand
  /\ Refresh(IF command.does = "sweep" THEN "invalidate" ELSE command.does, command.result, FALSE)
  /\ handled' = IF command.does \in {"invalidate", "sweep"} THEN command.result.rev ELSE handled
  /\ LET e == Cardinality(person.made) + 1
         adds == command.does = "edit" /\ Cardinality(person.made) < MaxEdits IN
       /\ draft' = CASE adds -> EditedDraft(e)
                      [] command.does = "sweep" -> NoDraft
                      [] command.does \in {"set", "both"} -> Hydrated(command.result)
                      [] OTHER -> draft
       /\ person' = IF adds THEN [person EXCEPT !.made = @ \union {e}] ELSE person
  /\ UNCHANGED <<panel, row, save, conflict, receipts, kept, budget>>

-----------------------------------------------------------------------------
PanelInit ==
  /\ panel \in PanelProfiles
  /\ row = [rev |-> 0, has |-> {}]
  /\ shown = NoRow
  /\ read = Quiet
  /\ draft = NoDraft
  /\ save = NoSave
  /\ command = NoCommand
  /\ conflict = FALSE
  /\ person = [made |-> {}, late |-> {}, gaveUp |-> {}, dialogs |-> 0]
  /\ receipts = {}
  /\ kept = {}
  /\ handled = -1
  /\ budget = [faults |-> MaxFaults, reads |-> MaxReads, foreign |-> MaxForeign,
               commands |-> MaxCommands]

PanelNext ==
  \/ StartRead \/ ServeRead \/ FinishRead \/ FailRead \/ ForeignChange
  \/ OpenDialog \/ CloseDialog \/ Edit \/ Submit \/ MergeLatest
  \/ ServeSave \/ FailSave \/ SaveSucceeds \/ AwaitRefetch \/ Settle \/ SaveFails \/ Reload
  \/ RunCommand \/ ServeCommand \/ FinishCommand

PanelSpec == PanelInit /\ [][PanelNext]_panelVars

\* The browser and the server finish what is on the wire and intervals go on;
\* nobody has to edit.
PanelFairness ==
  /\ WF_panelVars(IntervalRead)
  /\ WF_panelVars(ServeRead) /\ WF_panelVars(FinishRead)
  /\ WF_panelVars(ServeSave) /\ WF_panelVars(SaveSucceeds) /\ WF_panelVars(SaveFails)
  /\ WF_panelVars(AwaitRefetch) /\ WF_panelVars(Settle)
-----------------------------------------------------------------------------
(* The orders of events the source leaves open in some panels (gaps):        *)
(*   typed  an edit made while the save is out goes with the draft           *)
(*   other  a late success closes the dialog that was opened since           *)
(*   late   a read that left before the save lands after it                  *)
(*   stale  an edit made before the refresh has landed starts from the data  *)
(*          before the save                                                  *)
(*   moved  a save of somebody else, or one whose answer was lost, hides a   *)
(*          draft bound to the text before it                                *)
(*   swept  the success of an automatic command closes the open dialog       *)
(*   twice  a second try of a creation whose answer was lost creates again   *)
Gap(g) == g \in panel.gaps

\* Every state is well formed: the draft of a panel without one stays closed,
\* the wire holds one save at most and the query never runs ahead of the row.
PanelTypeOK ==
  /\ row.rev \in Nat /\ row.has \subseteq (-MaxForeign..MaxEdits)
  /\ shown.rev <= row.rev /\ draft.rev <= row.rev /\ handled <= row.rev
  /\ panel.kind = "none" => ~draft.open

\* An edit is never lost in silence.  Until the person gives it up it is in a
\* draft that counts as dirty (useSettingsDirty, so that leaving asks), in a
\* save on the wire, or some save has put it on the server - whatever reads,
\* failures, conflicts and late answers came in between.
EditsAreKept ==
  \A e \in person.made :
    \/ e \in person.gaveUp \union kept
    \/ save.at # "no" /\ e \in save.has
    \/ draft.open /\ e \in draft.has \ draft.clean
    \/ \E l \in person.late : l.edit = e /\ Gap(IF l.same THEN "typed" ELSE "other")
    \/ Gap("moved") /\ (budget.foreign < MaxForeign \/ budget.faults < MaxFaults)
    \/ Gap("swept") /\ budget.commands < MaxCommands

\* An editor that sends its revision never overwrites a change of somebody else
\* that was not in the row its draft was made from or reloaded over.
NoBlindOverwrite ==
  [][(ServeSave /\ panel.cas) => (row.has \ row'.has) \subseteq save.seen]_panelVars

\* Once the page has handled a success, no read may put data from before that
\* write back on it: cancelQueries, or the cancelling refetch of
\* invalidateQueries, has to catch every read that left too early.
LateReadsAreDropped ==
  [][FinishRead => (read.row.rev >= handled \/ Gap("late"))]_panelVars

\* A person's saved edit is not undone by that person's next save from the same
\* panel, although the query may still show the row from before the first one.
OwnSavesStand ==
  [][\A e \in row.has \ person.gaveUp : e > 0 /\ e \notin row'.has => Gap("stale")]_panelVars

\* A creation whose answer was lost is not made a second time by trying again:
\* the creator of inbounds refuses the second try until the page is reloaded,
\* and a payment keeps its request key when the bill is loaded again.
CreatedOnce ==
  [][(ServeSave /\ panel.kind = "create" /\ row' # row)
       => (save.has \cap kept = {} \/ Gap("twice"))]_panelVars

\* What was saved is shown in the end, without anybody pressing refresh.
SavesAreShown ==
  []<>(shown.rev >= handled \/ Gap("late"))
=============================================================================
