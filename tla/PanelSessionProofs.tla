------------------------ MODULE PanelSessionProofs ------------------------
(***************************************************************************)
(* For every editor of the consoles that keeps the rules of PanelRules,    *)
(* and any number of reads, edits, foreign changes, conflicts, failures    *)
(* and late answers: no edit is lost in silence, a save overwrites nothing *)
(* the person did not see and undoes none of the person's own saves, an    *)
(* older read is not shown after a newer answer, and nothing is created    *)
(* twice.                                                                  *)
(*                                                                         *)
(* Every action is reduced once to what it does to the draft, the save and *)
(* the row (the effect lemmas); the parts of the invariant are then proved *)
(* one after another from the effects, each from the parts before it.      *)
(*                                                                         *)
(* After them, the two editors with a draft of their own: the design of a  *)
(* subscription and the draft of a topology change.                        *)
(***************************************************************************)
EXTENDS PanelSession, SubDesign, ChangesetDraft, ProofFacts

-----------------------------------------------------------------------------
(* Shapes.                                                                  *)
Rows == [rev : Int, has : SUBSET Int]
Reads == [at : {"no", "asked", "served"}, row : Rows]
Drafts == [open : BOOLEAN, has : SUBSET Int, clean : SUBSET Int, rev : Int, dialog : Int]
Saves ==
  [at : {"no", "reading", "sent", "refused", "failed", "done", "settling"}, has : SUBSET Int, seen : SUBSET Int,
   rev : Int, dialog : Int, result : Rows]
Deeds == {"none", "set", "both", "invalidate", "edit", "sweep"}
Commands == [at : {"no", "sent", "done"}, does : Deeds, result : Rows]
Persons == [made : SUBSET Int, late : SUBSET [edit : Int, same : BOOLEAN], gaveUp : SUBSET Int, dialogs : Int]

PanelTyped ==
  /\ panel \in PanelProfiles
  /\ row \in Rows /\ shown \in Rows /\ read \in Reads
  /\ draft \in Drafts /\ save \in Saves /\ command \in Commands
  /\ conflict \in BOOLEAN /\ handled \in Int /\ kept \subseteq Int
  /\ person \in Persons
  /\ receipts \subseteq [dialog : Int, has : SUBSET Int, rev : Int]
  /\ budget \in [faults : Int, reads : Int, foreign : Int, commands : Int]

\* The edits are numbered as they are made.
Numbered == \E n \in Nat : person.made = 1..n

\* What is open, out or in conflict was read before, and what a command or a
\* dialog needs is in the profile.
Whole ==
  /\ ~HasDialog => draft.dialog = 0 /\ save.dialog = 0
  /\ panel.kind = "none" => ~draft.open
  /\ panel.kind = "form" /\ Loaded => draft.open
  /\ draft.open \/ save.at # "no" \/ command.at # "no" \/ conflict => Loaded
  /\ row.rev >= 0 /\ (read.at = "served" => read.row.rev >= 0)
  /\ save.at \in {"done", "settling"} => save.result.rev >= 0
  /\ command.at = "done" => command.result.rev >= 0
  /\ budget.commands <= MaxCommands /\ budget.foreign <= MaxForeign /\ budget.faults <= MaxFaults
  /\ save.at = "settling" => panel.settle = "await"
  /\ save.at = "reading" => panel.kind = "patch"
  /\ command.at # "no" => command.does \in panel.commands /\ budget.commands < MaxCommands

PanelShaped == Numbered /\ Whole

\* The numbers of a person's edits.
LEMMA NextEdit ==
  ASSUME NEW n \in Nat, NEW made, made = 1..n
  PROVE  Cardinality(made) + 1 = n + 1 /\ made \cup {Cardinality(made) + 1} = 1..(n + 1) /\ (n + 1) \notin made
  <1>1. Cardinality(made) = n
    <2>1. Cardinality(1..n) = IF 1 > n THEN 0 ELSE n - 1 + 1
      BY FS_Interval
    <2> QED BY <2>1
  <1> QED BY <1>1

\* The rules of PanelRules, for the panel that is on the page.
LEMMA CommandRules ==
  ASSUME panel \in PanelProfiles
  PROVE  /\ panel.commands \subseteq Deeds
         /\ "edit" \in panel.commands => panel.frozen /\ panel.kind \in {"form", "overlay", "fields"}
         /\ "sweep" \in panel.commands => HasDialog /\ Gap("swept")
  BY PanelRules DEF Deeds, HasDialog, Gap

LEMMA DraftRules ==
  ASSUME panel \in PanelProfiles
  PROVE  /\ panel.settle \in {"clean", "rebase", "drop", "await", "unless"}
         /\ panel.refresh \in {"set", "invalidate", "both"}
         /\ panel.frozen \in BOOLEAN /\ panel.held \in BOOLEAN /\ panel.cas \in BOOLEAN /\ panel.cancel \in BOOLEAN
         /\ panel.kind \in {"form", "keyed"} => panel.frozen
         /\ panel.kind = "patch" => Holds(panel) /\ HasDialog
         /\ panel.settle = "clean" => panel.kind \in {"form", "none"}
         /\ panel.once = "key" => panel.kind = "create"
         /\ panel.kind = "create" => panel.settle = "drop"
  BY PanelRules DEF HasDialog, IsDialog

LEMMA GapRules ==
  ASSUME panel \in PanelProfiles
  PROVE  /\ ~panel.frozen => panel.settle \in {"rebase", "unless"} \/ Gap("typed")
         /\ HasDialog /\ ~panel.held => Gap("other")
         /\ panel.kind = "keyed" =>
              Gap("moved") /\ panel.settle = "rebase" /\ panel.refresh = "both" /\ panel.commands = {} /\ panel.once # "key"
         /\ panel.refresh = "set" /\ ~panel.cancel => Gap("late") \/ (panel.polls = "never" /\ panel.commands = {})
         /\ panel.cas => panel.kind \in {"form", "overlay", "dialog", "create"} /\ panel.settle # "clean"
         /\ panel.settle = "await" => panel.refresh = "invalidate"
  BY PanelRules DEF HasDialog, IsDialog, Gap

LEMMA OwnRules ==
  ASSUME panel \in PanelProfiles
  PROVE  /\ \/ Gap("stale") \/ panel.kind \in {"create", "patch", "none"}
            \/ (panel.cas /\ panel.reload # "rebase" /\ panel.kind # "create") \/ Follows(panel)
         /\ panel.kind = "create" /\ ~Gap("twice") =>
              /\ Holds(panel) /\ panel.settle = "drop" /\ panel.reload # "replace"
              /\ panel.once = "key" \/ (panel.once = "stop" /\ panel.reload # "rebase")
  BY PanelRules DEF Gap

\* What the empty values, and a draft of a row, are made of.
LEMMA NothingTyped ==
  NoRow \in Rows /\ Quiet \in Reads /\ NoDraft \in Drafts /\ NoSave \in Saves /\ NoCommand \in Commands
  <1>1. NoRow \in Rows
    BY DEF NoRow, Rows
  <1>2. Quiet \in Reads
    BY <1>1 DEF Quiet, Reads
  <1>3. NoDraft \in Drafts
    BY DEF NoDraft, Drafts
  <1>4. NoSave \in Saves
    BY <1>1 DEF NoSave, Saves
  <1>5. NoCommand \in Commands
    BY <1>1 DEF NoCommand, Commands, Deeds
  <1> QED BY <1>1, <1>2, <1>3, <1>4, <1>5

LEMMA DraftOfTyped ==
  ASSUME NEW r \in Rows, NEW n \in Int
  PROVE  DraftOf(r, n) \in Drafts
  BY DEF DraftOf, Rows, Drafts

\* What an edit, a success and a refresh leave is well formed.
LEMMA EditedTyped ==
  ASSUME PanelTyped, NEW e \in Int
  PROVE  EditedDraft(e) \in Drafts
  <1>1. [draft EXCEPT !.has = @ \union {e}] \in Drafts
    BY DEF PanelTyped, Drafts
  <1>2. [DraftOf(shown, 0) EXCEPT !.has = @ \union {e}] \in Drafts
    <2>1. DraftOf(shown, 0) \in Drafts
      BY DraftOfTyped DEF PanelTyped
    <2> QED BY <2>1 DEF Drafts
  <1>3. [NoDraft EXCEPT !.open = TRUE, !.has = {e}, !.rev = shown.rev] \in Drafts
    BY NothingTyped DEF PanelTyped, Drafts, Rows
  <1> QED BY <1>1, <1>2, <1>3 DEF EditedDraft

LEMMA SettledTyped ==
  ASSUME PanelTyped
  PROVE  Settled \in Drafts
  <1>1. DraftOf(save.result, 0) \in Drafts
    BY DraftOfTyped DEF PanelTyped, Saves
  <1>2. panel.settle \in {"clean", "rebase", "drop", "await", "unless"}
    BY PanelRules DEF PanelTyped
  <1>3. [draft EXCEPT !.clean = draft.has] \in Drafts
    BY DEF PanelTyped, Drafts
  <1>4. [draft EXCEPT !.clean = save.result.has, !.rev = save.result.rev,
                      !.has = save.result.has \union (@ \ save.has)] \in Drafts
    BY DEF PanelTyped, Drafts, Saves, Rows
  <1> QED BY <1>1, <1>2, <1>3, <1>4, NothingTyped DEF PanelTyped, Settled

LEMMA RefreshTyped ==
  ASSUME PanelTyped, NEW what, NEW result \in Rows, NEW cancels, Refresh(what, result, cancels)
  PROVE  shown' \in Rows /\ read' \in Reads
  <1>1. [Quiet EXCEPT !.at = "asked"] \in Reads
    BY NothingTyped DEF Reads
  <1> QED BY <1>1, NothingTyped DEF PanelTyped, Refresh

LEMMA PanelStartsTyped == PanelInit => PanelTyped
  <1> SUFFICES ASSUME PanelInit PROVE PanelTyped
    OBVIOUS
  <1>1. row \in Rows
    BY DEF PanelInit, Rows
  <1>2. budget \in [faults : Int, reads : Int, foreign : Int, commands : Int]
    BY PanelBounds DEF PanelInit
  <1>3. person \in Persons
    BY DEF PanelInit, Persons
  <1>4. shown \in Rows /\ read \in Reads /\ draft \in Drafts /\ save \in Saves /\ command \in Commands
    BY NothingTyped DEF PanelInit
  <1>5. panel \in PanelProfiles /\ conflict \in BOOLEAN /\ kept = {} /\ receipts = {}
    BY Zenon DEF PanelInit
  <1>6. handled \in Int
    BY DEF PanelInit
  <1> QED BY <1>1, <1>2, <1>3, <1>4, <1>5, <1>6 DEF PanelTyped

\* Every step keeps the types.
LEMMA PanelStepTyped == PanelTyped /\ PanelShaped /\ [PanelNext]_panelVars => PanelTyped'
  <1> SUFFICES ASSUME PanelTyped, PanelShaped, [PanelNext]_panelVars PROVE PanelTyped'
    OBVIOUS
  <1> USE NothingTyped DEF PanelTyped
  <1>1. CASE StartRead
    BY <1>1 DEF StartRead, Reads, Quiet, Rows
  <1>2. CASE ServeRead
    BY <1>2 DEF ServeRead, Reads
  <1>3. CASE FinishRead
    <2>1. shown' \in Rows
      BY <1>3 DEF FinishRead, Reads, Land
    <2>2. draft' \in Drafts
      <3>1. DraftOf(read.row, 0) \in Drafts
        BY DraftOfTyped DEF Reads
      <3> QED BY <1>3, <3>1 DEF FinishRead, Land, Hydrated
    <2> QED BY <1>3, <2>1, <2>2 DEF FinishRead
  <1>4. CASE FailRead
    BY <1>4 DEF FailRead
  <1>5. CASE ForeignChange
    BY <1>5 DEF ForeignChange, Rows
  <1>6. CASE OpenDialog
    <2>1. DraftOf(IF panel.kind = "create" THEN [shown EXCEPT !.has = {}] ELSE shown, person.dialogs + 1) \in Drafts
      <3>1. [shown EXCEPT !.has = {}] \in Rows
        BY DEF Rows
      <3>2. person.dialogs + 1 \in Int
        BY DEF Persons
      <3> QED BY <3>1, <3>2, DraftOfTyped
    <2>2. person' \in Persons
      BY <1>6 DEF OpenDialog, Persons
    <2> QED BY <1>6, <2>1, <2>2 DEF OpenDialog
  <1>7. CASE CloseDialog
    BY <1>7 DEF CloseDialog, Drafts, Persons
  <1>8. CASE Edit
    <2> DEFINE e == Cardinality(person.made) + 1
    <2>1. PICK n \in Nat : person.made = 1..n
      BY DEF PanelShaped, Numbered
    <2>2. e \in Int
      BY <2>1, NextEdit
    <2>3. draft' \in Drafts
      BY <1>8, <2>2, EditedTyped DEF Edit, CanEdit
    <2>4. person' = [person EXCEPT !.made = @ \union {e}, !.late = @ \union
            IF save.at # "no" THEN {[edit |-> e, same |-> save.dialog = draft.dialog]} ELSE {}]
      BY <1>8 DEF Edit
    <2> HIDE DEF e
    <2>5. person' \in Persons
      <3>1. [edit |-> e, same |-> save.dialog = draft.dialog] \in [edit : Int, same : BOOLEAN]
        BY <2>2
      <3> DEFINE late == IF save.at # "no" THEN {[edit |-> e, same |-> save.dialog = draft.dialog]} ELSE {}
      <3>2. late \subseteq [edit : Int, same : BOOLEAN]
        BY <3>1
      <3>3. person' = [person EXCEPT !.made = @ \union {e}, !.late = @ \union late]
        BY <2>4
      <3> HIDE DEF late
      <3> QED BY <2>2, <3>2, <3>3 DEF Persons
    <2> QED BY <1>8, <2>3, <2>5 DEF Edit
  <1>9. CASE Submit
    <2>1. Payload \subseteq Int /\ draft.clean \subseteq Int /\ draft.rev \in Int /\ draft.dialog \in Int
      BY DEF Payload, Drafts, Rows
    <2>2. save' \in Saves
      BY <1>9, <2>1 DEF Submit, Saves
    <2> QED BY <1>9, <2>2 DEF Submit
  <1>10. CASE MergeLatest
    BY <1>10 DEF MergeLatest, Saves, Drafts, Rows
  <1>11. CASE ServeSave
    <2>1. Accepted \in Rows
      BY DEF Accepted, Rows, Saves
    <2>2. save' \in Saves
      BY <1>11, <2>1 DEF ServeSave, Saves
    <2>3. row' \in Rows /\ kept' \subseteq Int /\ receipts' \subseteq [dialog : Int, has : SUBSET Int, rev : Int]
      BY <1>11, <2>1 DEF ServeSave, Saves, Receipt
    <2> QED BY <1>11, <2>2, <2>3 DEF ServeSave
  <1>12. CASE FailSave
    BY <1>12 DEF FailSave, Saves
  <1>13. CASE SaveSucceeds
    <2>1. shown' \in Rows /\ read' \in Reads
      BY <1>13, RefreshTyped DEF SaveSucceeds, Saves
    <2>2. draft' \in Drafts
      BY <1>13, SettledTyped DEF SaveSucceeds
    <2>3. handled' \in Int
      BY <1>13 DEF SaveSucceeds, Saves, Rows
    <2> QED BY <1>13, <2>1, <2>2, <2>3 DEF SaveSucceeds
  <1>14. CASE AwaitRefetch
    BY <1>14 DEF AwaitRefetch, Refresh, Saves, Reads, Quiet, Rows
  <1>15. CASE Settle
    BY <1>15, SettledTyped DEF Settle
  <1>16. CASE SaveFails
    BY <1>16 DEF SaveFails
  <1>17. CASE Reload
    <2>1. DraftOf(row, draft.dialog) \in Drafts
      BY DraftOfTyped DEF Drafts
    <2>2. [draft EXCEPT !.clean = row.has, !.rev = row.rev] \in Drafts
      BY DEF Drafts, Rows
    <2>3. draft' \in Drafts
      BY <1>17, <2>1, <2>2 DEF Reload
    <2>4. person' \in Persons
      BY <1>17 DEF Reload, Drafts, Persons
    <2> QED BY <1>17, <2>3, <2>4 DEF Reload
  <1>18. CASE RunCommand
    <2>1. command' \in Commands
      BY <1>18, CommandRules DEF RunCommand, Commands
    <2>2. budget' \in [faults : Int, reads : Int, foreign : Int, commands : Int]
      BY <1>18 DEF RunCommand
    <2> QED BY <1>18, <2>1, <2>2 DEF RunCommand
  <1>19. CASE ServeCommand
    <2>1. row' \in Rows
      BY <1>19 DEF ServeCommand, Rows
    <2>2. command' \in Commands
      BY <1>19, <2>1 DEF ServeCommand, Commands
    <2> QED BY <1>19, <2>1, <2>2 DEF ServeCommand
  <1>20. CASE FinishCommand
    <2> DEFINE e == Cardinality(person.made) + 1
               adds == command.does = "edit" /\ Cardinality(person.made) < MaxEdits
    <2>1. PICK n \in Nat : person.made = 1..n
      BY DEF PanelShaped, Numbered
    <2>2. e \in Int
      BY <2>1, NextEdit
    <2>3. shown' \in Rows /\ read' \in Reads
      BY <1>20, RefreshTyped DEF FinishCommand, Commands
    <2>4. handled' \in Int
      BY <1>20 DEF FinishCommand, Commands, Rows
    <2>5. /\ draft' = IF adds THEN EditedDraft(e) ELSE IF command.does = "sweep" THEN NoDraft
                     ELSE IF command.does \in {"set", "both"} THEN Hydrated(command.result) ELSE draft
          /\ person' = IF adds THEN [person EXCEPT !.made = @ \union {e}] ELSE person
      BY <1>20 DEF FinishCommand
    <2> HIDE DEF e, adds
    <2>6. draft' \in Drafts
      <3>1. DraftOf(command.result, 0) \in Drafts
        BY DraftOfTyped DEF Commands
      <3>2. Hydrated(command.result) \in Drafts
        BY <3>1 DEF Hydrated
      <3> QED BY <2>2, <2>5, <3>2, EditedTyped
    <2>7. person' \in Persons
      BY <2>2, <2>5 DEF Persons
    <2> QED BY <1>20, <2>3, <2>4, <2>6, <2>7 DEF FinishCommand
  <1>21. CASE UNCHANGED panelVars
    BY <1>21 DEF panelVars
  <1> QED BY <1>1, <1>2, <1>3, <1>4, <1>5, <1>6, <1>7, <1>8, <1>9, <1>10, <1>11, <1>12, <1>13, <1>14, <1>15, <1>16,
             <1>17, <1>18, <1>19, <1>20, <1>21 DEF PanelNext

-----------------------------------------------------------------------------
(* What the steps do, field by field.                                       *)
Adds(e) ==
  /\ draft'.open
  /\ IF draft.open
     THEN /\ draft'.has = draft.has \union {e}
          /\ draft'.clean = draft.clean /\ draft'.rev = draft.rev /\ draft'.dialog = draft.dialog
     ELSE /\ draft'.clean = IF panel.kind = "fields" THEN {} ELSE shown.has
          /\ draft'.has = draft'.clean \union {e} /\ draft'.rev = shown.rev /\ draft'.dialog = 0

\* An edit adds one change that was not made before.
LEMMA EditedAdds ==
  ASSUME PanelTyped, NEW e \in Int, draft' = EditedDraft(e)
  PROVE  Adds(e)
  <1>1. CASE draft.open
    BY <1>1 DEF EditedDraft, PanelTyped, Drafts, Adds
  <1>2. CASE ~draft.open
    BY <1>2 DEF EditedDraft, PanelTyped, Rows, DraftOf, NoDraft, Adds
  <1> QED BY <1>1, <1>2

LEMMA EditEffect ==
  ASSUME PanelTyped, Numbered, Edit
  PROVE  \E e \in Int :
           /\ e > 0 /\ e \notin person.made /\ Adds(e)
           /\ person'.made = person.made \union {e} /\ person'.gaveUp = person.gaveUp
           /\ person.late \subseteq person'.late
           /\ save.at # "no" => [edit |-> e, same |-> save.dialog = draft.dialog] \in person'.late
           /\ CanEdit /\ UNCHANGED <<panel, row, shown, read, save, command, conflict, receipts, kept, handled, budget>>
  <1> DEFINE e == Cardinality(person.made) + 1
  <1>1. PICK n \in Nat : person.made = 1..n
    BY DEF Numbered
  <1>2. e \in Int /\ e > 0 /\ e \notin person.made
    <2>1. e = n + 1 /\ (n + 1) \notin person.made
      BY <1>1, NextEdit
    <2> QED BY <2>1
  <1>3. draft' = EditedDraft(e)
    BY DEF Edit
  <1>4. person' = [person EXCEPT !.made = @ \union {e}, !.late = @ \union
            IF save.at # "no" THEN {[edit |-> e, same |-> save.dialog = draft.dialog]} ELSE {}]
    BY DEF Edit
  <1>5. CanEdit /\ UNCHANGED <<panel, row, shown, read, save, command, conflict, receipts, kept, handled, budget>>
    BY DEF Edit
  <1> HIDE DEF e
  <1>6. Adds(e)
    BY <1>2, <1>3, EditedAdds
  <1>7. /\ person'.made = person.made \union {e} /\ person'.gaveUp = person.gaveUp
        /\ person.late \subseteq person'.late
        /\ save.at # "no" => [edit |-> e, same |-> save.dialog = draft.dialog] \in person'.late
    BY <1>4 DEF PanelTyped, Persons
  <1> QED BY <1>2, <1>5, <1>6, <1>7

\* The draft after a success.
Settles ==
  \/ draft' = draft /\ (~draft.open \/ (panel.kind = "keyed" /\ draft.rev # save.rev)
                                    \/ (panel.settle = "unless" /\ draft.has # save.has))
  \/ /\ draft.open /\ panel.settle \in {"drop", "await", "unless"} /\ (panel.settle = "unless" => draft.has = save.has)
     /\ draft' = IF panel.kind = "form" THEN DraftOf(save.result, 0) ELSE NoDraft
  \/ /\ draft.open /\ panel.settle = "clean"
     /\ draft'.open /\ draft'.has = draft.has /\ draft'.clean = draft.has
     /\ draft'.rev = draft.rev /\ draft'.dialog = draft.dialog
  \/ /\ draft.open /\ panel.settle = "rebase"
     /\ draft'.open /\ draft'.has = save.result.has \union (draft.has \ save.has) /\ draft'.clean = save.result.has
     /\ draft'.rev = save.result.rev /\ draft'.dialog = draft.dialog

\* EditedDraft and Settled are what Adds and Settles say.
LEMMA SettledSettles ==
  ASSUME PanelTyped, draft' = IF draft.open THEN Settled ELSE draft
  PROVE  Settles
  <1>0. panel.settle \in {"clean", "rebase", "drop", "await", "unless"}
    BY PanelRules DEF PanelTyped
  <1>1. CASE draft.open
    <2>1. CASE panel.settle = "rebase"
      BY <1>1, <2>1 DEF Settled, Settles, PanelTyped, Drafts
    <2>2. CASE panel.settle # "rebase"
      BY <1>0, <1>1, <2>2 DEF Settled, Settles, PanelTyped, Drafts
    <2> QED BY <2>1, <2>2
  <1>2. CASE ~draft.open
    BY <1>2 DEF Settles
  <1> QED BY <1>1, <1>2

\* What a refresh leaves of the read on the wire.
LEMMA RefreshEffect ==
  ASSUME NEW what, NEW result, NEW cancels, Refresh(what, result, cancels)
  PROVE  /\ shown' = IF what \in {"set", "both"} THEN result ELSE shown
         /\ \/ read'.at \in {"no", "asked"} /\ (what \in {"invalidate", "both"} \/ cancels)
            \/ read' = read /\ what \notin {"invalidate", "both"} /\ ~cancels
         /\ what \in {"invalidate", "both"} => read'.at = "asked"
  BY DEF Refresh, Quiet

\* A save the server takes.
Takes ==
  /\ ~Refuses /\ ~Known
  /\ row'.rev = row.rev + 1
  /\ row'.has = save.has \union IF panel.kind = "create" THEN row.has ELSE {}
  /\ kept' = kept \union {e \in save.has : e > 0}
  /\ receipts' = receipts \union IF panel.once = "key" THEN {Receipt} ELSE {}
  /\ save'.at = "done" /\ save'.result = row'

\* A save is refused, known by its receipt, or taken.
LEMMA ServeEffect ==
  ASSUME PanelTyped, ServeSave
  PROVE  /\ save.at = "sent"
         /\ save'.has = save.has /\ save'.seen = save.seen /\ save'.rev = save.rev /\ save'.dialog = save.dialog
         /\ \/ Refuses /\ save'.at = "refused" /\ UNCHANGED <<row, kept, receipts>>
            \/ Known /\ ~Refuses /\ save'.at = "done" /\ save'.result = row /\ UNCHANGED <<row, kept, receipts>>
            \/ Takes
         /\ UNCHANGED <<panel, shown, read, draft, command, conflict, person, handled, budget>>
  <1>1. CASE Refuses
    BY <1>1 DEF ServeSave, PanelTyped, Saves
  <1>2. CASE Known /\ ~Refuses
    BY <1>2 DEF ServeSave, PanelTyped, Saves
  <1>3. CASE ~Known /\ ~Refuses
    <2>1. /\ row' = Accepted /\ kept' = kept \union {e \in save.has : e > 0}
          /\ receipts' = receipts \union IF panel.once = "key" THEN {Receipt} ELSE {}
          /\ save' = [save EXCEPT !.at = "done", !.result = Accepted]
      BY <1>3 DEF ServeSave
    <2> QED BY <1>3, <2>1 DEF ServeSave, PanelTyped, Saves, Takes, Accepted
  <1> QED BY <1>1, <1>2, <1>3

\* A save is sent by a draft that is dirty, and never over a conflict.
LEMMA SubmitEffect ==
  ASSUME Submit
  PROVE  /\ draft.open /\ draft.has # draft.clean /\ save.at = "no" /\ ~Inert /\ ~conflict
         /\ save'.at = IF panel.kind = "patch" THEN "reading" ELSE "sent"
         /\ save'.has = Payload /\ save'.seen = draft.clean \union Payload
         /\ save'.rev = draft.rev /\ save'.dialog = draft.dialog /\ save'.result = NoRow
         /\ read' = read \/ read'.at = "no"
         /\ UNCHANGED <<panel, row, shown, draft, command, conflict, person, receipts, kept, handled, budget>>
  <1>1. save' = [NoSave EXCEPT !.at = IF panel.kind = "patch" THEN "reading" ELSE "sent",
                            !.has = Payload, !.seen = draft.clean \union Payload,
                            !.rev = draft.rev, !.dialog = draft.dialog]
    BY DEF Submit
  <1>2. /\ save'.at = IF panel.kind = "patch" THEN "reading" ELSE "sent"
        /\ save'.has = Payload /\ save'.seen = draft.clean \union Payload
        /\ save'.rev = draft.rev /\ save'.dialog = draft.dialog /\ save'.result = NoRow
    BY <1>1 DEF NoSave
  <1> QED BY <1>2 DEF Submit, Dirty, Quiet

\* A read that lands: a clean form takes the row, a draft bound to another text goes.
LEMMA LandEffect ==
  ASSUME FinishRead
  PROVE  /\ read.at = "served" /\ read'.at = "no" /\ shown' = read.row
         /\ \/ /\ panel.kind = "form" /\ (~draft.open \/ draft.has = draft.clean)
               /\ draft' = DraftOf(read.row, 0)
            \/ panel.kind = "keyed" /\ read.row.has # draft.clean /\ draft' = NoDraft
            \/ /\ draft' = draft
               /\ panel.kind = "form" /\ ~draft.open => conflict \/ save.at # "no"
               /\ panel.kind = "keyed" => read.row.has = draft.clean
         /\ UNCHANGED <<panel, row, save, command, conflict, person, receipts, kept, handled, budget>>
  BY DEF FinishRead, Land, Hydrated, Hydrates, Quiet

\* What the person reloads over is given up, unless the draft is rebased.
LEMMA ReloadEffect ==
  ASSUME PanelTyped, Reload
  PROVE  /\ draft.open /\ save.at = "no" /\ command.at = "no" /\ panel.reload \in {"replace", "rebase"}
         /\ shown' = row /\ read'.at = "no" /\ ~conflict'
         /\ draft'.open /\ draft'.clean = row.has /\ draft'.rev = row.rev /\ draft'.dialog = draft.dialog
         /\ draft'.has = IF panel.reload = "replace" THEN row.has ELSE draft.has
         /\ person'.made = person.made /\ person'.late = person.late
         /\ person'.gaveUp = person.gaveUp \union IF panel.reload = "replace" THEN draft.has \ draft.clean ELSE {}
         /\ UNCHANGED <<panel, row, save, command, receipts, kept, handled, budget>>
  <1>1. /\ draft'.open /\ draft'.clean = row.has /\ draft'.rev = row.rev /\ draft'.dialog = draft.dialog
        /\ draft'.has = IF panel.reload = "replace" THEN row.has ELSE draft.has
    BY DEF Reload, DraftOf, PanelTyped, Drafts
  <1>2. /\ person'.made = person.made /\ person'.late = person.late
        /\ person'.gaveUp = person.gaveUp \union IF panel.reload = "replace" THEN draft.has \ draft.clean ELSE {}
    BY DEF Reload, PanelTyped, Persons
  <1> QED BY <1>1, <1>2 DEF Reload, Busy, Quiet

LEMMA MergeEffect ==
  ASSUME PanelTyped, MergeLatest
  PROVE  /\ save.at = "reading" /\ save'.at = "sent"
         /\ save'.has = row.has \union (draft.has \ draft.clean) /\ save'.seen = save.seen \union row.has
         /\ save'.rev = save.rev /\ save'.dialog = save.dialog
         /\ UNCHANGED <<panel, row, shown, read, draft, command, conflict, person, receipts, kept, handled, budget>>
  BY DEF MergeLatest, PanelTyped, Saves

LEMMA FailEffect ==
  ASSUME PanelTyped, FailSave
  PROVE  /\ save.at \in {"reading", "sent", "done"} /\ save'.at = "failed" /\ budget.faults > 0
         /\ save'.has = save.has /\ save'.seen = save.seen /\ save'.rev = save.rev /\ save'.dialog = save.dialog
         /\ budget'.faults = budget.faults - 1 /\ budget'.foreign = budget.foreign /\ budget'.commands = budget.commands
         /\ UNCHANGED <<panel, row, shown, read, draft, command, conflict, person, receipts, kept, handled>>
  BY DEF FailSave, PanelTyped, Saves

LEMMA RunEffect ==
  ASSUME PanelTyped, RunCommand
  PROVE  /\ Loaded /\ command.at = "no" /\ command'.at = "sent" /\ ~Inert
         /\ budget.commands > 0 /\ budget'.commands = budget.commands - 1
         /\ budget'.foreign = budget.foreign /\ budget'.faults = budget.faults
         /\ UNCHANGED <<panel, row, shown, read, draft, save, conflict, person, receipts, kept, handled>>
  BY DEF RunCommand, PanelTyped, NoCommand

\* A success settles the draft, shows the answer and cancels the reads.
LEMMA SuccessEffect ==
  ASSUME PanelTyped, SaveSucceeds
  PROVE  /\ save.at = "done" /\ save'.at = "no" /\ Settles /\ ~conflict'
         /\ Refresh(panel.refresh, save.result, panel.cancel) /\ panel.settle # "await"
         /\ handled' = IF panel.refresh = "none" THEN handled ELSE save.result.rev
         /\ UNCHANGED <<panel, row, command, person, receipts, kept, budget>>
  BY SettledSettles DEF SaveSucceeds, NoSave

LEMMA AwaitEffect ==
  ASSUME PanelTyped, AwaitRefetch
  PROVE  /\ save.at = "done" /\ panel.settle = "await" /\ save'.at = "settling" /\ read'.at = "asked"
         /\ save'.has = save.has /\ save'.seen = save.seen /\ save'.rev = save.rev /\ save'.dialog = save.dialog
         /\ save'.result = save.result /\ handled' = save.result.rev
         /\ UNCHANGED <<panel, row, shown, draft, command, conflict, person, receipts, kept, budget>>
  <1>1. read'.at = "asked" /\ shown' = shown
    BY RefreshEffect DEF AwaitRefetch
  <1> QED BY <1>1 DEF AwaitRefetch, PanelTyped, Saves

LEMMA SettleEffect ==
  ASSUME PanelTyped, Settle
  PROVE  /\ save.at = "settling" /\ read.at = "no" /\ save'.at = "no" /\ Settles
         /\ UNCHANGED <<panel, row, shown, read, command, conflict, person, receipts, kept, handled, budget>>
  BY SettledSettles DEF Settle, NoSave

\* A dialog takes its row from what is shown; closing one gives its edits up.
LEMMA OpenEffect ==
  ASSUME PanelTyped, OpenDialog
  PROVE  /\ HasDialog /\ Loaded /\ ~draft.open /\ draft'.open /\ ~conflict'
         /\ draft'.clean = IF panel.kind = "create" THEN {} ELSE shown.has
         /\ draft'.has = draft'.clean /\ draft'.rev = shown.rev /\ draft'.dialog = person.dialogs + 1
         /\ person'.dialogs = person.dialogs + 1
         /\ person'.made = person.made /\ person'.late = person.late /\ person'.gaveUp = person.gaveUp
         /\ UNCHANGED <<panel, row, shown, read, save, command, receipts, kept, handled, budget>>
  BY DEF OpenDialog, DraftOf, PanelTyped, Rows, Persons

LEMMA CloseEffect ==
  ASSUME PanelTyped, CloseDialog
  PROVE  /\ HasDialog /\ draft.open /\ (panel.held => save.at = "no") /\ ~draft'.open /\ ~conflict'
         /\ person'.made = person.made /\ person'.late = person.late
         /\ person'.gaveUp = person.gaveUp \union (draft.has \ draft.clean)
         /\ UNCHANGED <<panel, row, shown, read, save, command, receipts, kept, handled, budget>>
  BY DEF CloseDialog, NoDraft, PanelTyped, Persons

LEMMA ServeCommandEffect ==
  ASSUME PanelTyped, ServeCommand
  PROVE  /\ command.at = "sent" /\ command'.at = "done" /\ command'.does = command.does /\ command'.result = row'
         /\ row'.has = row.has /\ row'.rev \in {row.rev, row.rev + 1}
         /\ UNCHANGED <<panel, shown, read, draft, save, conflict, person, receipts, kept, handled, budget>>
  BY DEF ServeCommand, PanelTyped, Rows, Commands

LEMMA ForeignEffect ==
  ASSUME PanelTyped, ForeignChange
  PROVE  /\ budget.foreign > 0 /\ row'.rev = row.rev + 1 /\ row'.has = row.has \union {-budget.foreign}
         /\ budget'.foreign = budget.foreign - 1
         /\ budget'.faults = budget.faults /\ budget'.commands = budget.commands
         /\ UNCHANGED <<panel, shown, read, draft, save, command, conflict, person, receipts, kept, handled>>
  BY DEF ForeignChange, PanelTyped

\* Reads that start, are served or fail touch nothing but the wire.
LEMMA ReadEffect ==
  ASSUME PanelTyped, StartRead \/ ServeRead \/ FailRead
  PROVE  /\ read'.at \in {"asked", "served"} /\ (read'.at = "served" => read'.row = row /\ read.at = "asked")
         /\ budget'.foreign = budget.foreign /\ budget'.commands = budget.commands
         /\ budget'.faults = budget.faults \/ (budget.faults > 0 /\ budget'.faults = budget.faults - 1)
         /\ UNCHANGED <<panel, row, shown, draft, save, command, conflict, person, receipts, kept, handled>>
  BY DEF StartRead, ServeRead, FailRead, PanelTyped, Quiet

\* A clean form takes the row a command answered with.
Refills ==
  /\ command.does \in {"set", "both"} /\ panel.kind = "form" /\ draft.open /\ draft.has = draft.clean
  /\ draft'.open /\ draft'.has = command.result.has /\ draft'.clean = command.result.has
  /\ draft'.rev = command.result.rev /\ draft'.dialog = 0

\* A command answers with a row, asks for one, or sweeps the dialog away.
LEMMA CommandEffect ==
  ASSUME PanelTyped, Numbered, Whole, FinishCommand
  PROVE  /\ command.at = "done" /\ command'.at = "no"
         /\ Refresh(IF command.does = "sweep" THEN "invalidate" ELSE command.does, command.result, FALSE)
         /\ handled' = IF command.does \in {"invalidate", "sweep"} THEN command.result.rev ELSE handled
         /\ person'.gaveUp = person.gaveUp /\ person'.late = person.late
         /\ \/ /\ command.does = "edit"
               /\ \E e \in Int : e > 0 /\ e \notin person.made /\ Adds(e) /\ person'.made = person.made \union {e}
            \/ command.does = "sweep" /\ draft' = NoDraft /\ person'.made = person.made
            \/ command.does # "sweep" /\ draft' = draft /\ person'.made = person.made
            \/ Refills /\ person'.made = person.made
         /\ UNCHANGED <<panel, row, save, conflict, receipts, kept, budget>>
  <1> DEFINE e == Cardinality(person.made) + 1
             adds == command.does = "edit" /\ Cardinality(person.made) < MaxEdits
  <1>1. PICK n \in Nat : person.made = 1..n
    BY DEF Numbered
  <1>2. e \in Int /\ e > 0 /\ e \notin person.made
    <2>1. e = n + 1 /\ (n + 1) \notin person.made
      BY <1>1, NextEdit
    <2> QED BY <2>1
  <1>3. /\ draft' = IF adds THEN EditedDraft(e) ELSE IF command.does = "sweep" THEN NoDraft
                   ELSE IF command.does \in {"set", "both"} THEN Hydrated(command.result) ELSE draft
        /\ person' = IF adds THEN [person EXCEPT !.made = @ \union {e}] ELSE person
    BY DEF FinishCommand
  <1>4. /\ command.at = "done" /\ command'.at = "no"
        /\ Refresh(IF command.does = "sweep" THEN "invalidate" ELSE command.does, command.result, FALSE)
        /\ handled' = IF command.does \in {"invalidate", "sweep"} THEN command.result.rev ELSE handled
        /\ UNCHANGED <<panel, row, save, conflict, receipts, kept, budget>>
    BY DEF FinishCommand, NoCommand
  <1>5. CASE adds
    <2>1. command.does = "edit" /\ draft' = EditedDraft(e) /\ person' = [person EXCEPT !.made = @ \union {e}]
      BY <1>3, <1>5
    <2> HIDE DEF e, adds
    <2>2. Adds(e)
      BY <1>2, <2>1, EditedAdds
    <2>3. person'.made = person.made \union {e} /\ person'.gaveUp = person.gaveUp /\ person'.late = person.late
      BY <2>1 DEF PanelTyped, Persons
    <2> QED BY <1>2, <1>4, <2>1, <2>2, <2>3
  <1>6. CASE ~adds
    <2>1. command.does \in panel.commands /\ panel.kind # "keyed" /\ (panel.kind = "form" => draft.open)
      BY <1>4, GapRules DEF Whole, PanelTyped
    <2>2. Hydrated(command.result) = draft \/ (panel.kind = "form" /\ draft.has = draft.clean
                                               /\ Hydrated(command.result) = DraftOf(command.result, 0))
      BY <2>1 DEF Hydrated, Hydrates
    <2> HIDE DEF e, adds
    <2>3. person' = person
      BY <1>3, <1>6
    <2>4. draft' = IF command.does = "sweep" THEN NoDraft
                   ELSE IF command.does \in {"set", "both"} THEN Hydrated(command.result) ELSE draft
      BY <1>3, <1>6
    <2>5. CASE command.does = "sweep"
      BY <1>4, <2>3, <2>4, <2>5
    <2>6. CASE command.does # "sweep" /\ draft' = draft
      BY <1>4, <2>3, <2>6
    <2>7. CASE command.does # "sweep" /\ draft' # draft
      <3>1. command.does \in {"set", "both"} /\ draft' = DraftOf(command.result, 0) /\ panel.kind = "form" /\ draft.has = draft.clean
        BY <2>2, <2>4, <2>7
      <3>2. Refills
        BY <2>1, <3>1 DEF Refills, DraftOf
      <3> QED BY <1>4, <2>3, <3>2
    <2> QED BY <2>5, <2>6, <2>7
  <1> QED BY <1>5, <1>6

-----------------------------------------------------------------------------
LEMMA PanelStartsShaped == PanelInit => PanelShaped
  <1> SUFFICES ASSUME PanelInit PROVE PanelShaped
    OBVIOUS
  <1>1. person.made = 1..0
    BY DEF PanelInit
  <1> QED BY <1>1, PanelBounds DEF PanelInit, PanelShaped, Numbered, Whole, NoDraft, NoSave, NoCommand, Quiet, Loaded

\* The steps of the editor, for the lemmas about one of them each.
LEMMA PanelSteps ==
  [PanelNext]_panelVars =>
    \/ StartRead \/ ServeRead \/ FinishRead \/ FailRead \/ ForeignChange
    \/ OpenDialog \/ CloseDialog \/ Edit \/ Submit \/ MergeLatest
    \/ ServeSave \/ FailSave \/ SaveSucceeds \/ AwaitRefetch \/ Settle \/ SaveFails \/ Reload
    \/ RunCommand \/ ServeCommand \/ FinishCommand \/ UNCHANGED panelVars
  BY DEF PanelNext

\* Edits are numbered in the order they are made.
LEMMA MadeStep ==
  ASSUME PanelTyped, PanelShaped, [PanelNext]_panelVars
  PROVE  Numbered' /\ person.made \subseteq person'.made
  <1>1. PICK n \in Nat : person.made = 1..n
    BY DEF PanelShaped, Numbered
  <1> DEFINE e == Cardinality(person.made) + 1
  <1>2. e = n + 1 /\ person.made \cup {e} = 1..(n + 1)
    BY <1>1, NextEdit
  <1>3. person'.made = person.made \/ person'.made = person.made \cup {e}
    <2>1. CASE Edit
      BY <2>1 DEF Edit, PanelTyped, Persons
    <2>2. CASE FinishCommand
      BY <2>2 DEF FinishCommand, PanelTyped, Persons
    <2>3. CASE OpenDialog \/ CloseDialog \/ Reload
      BY <2>3 DEF OpenDialog, CloseDialog, Reload, PanelTyped, Persons
    <2>4. CASE person' = person
      BY <2>4
    <2> QED BY <2>1, <2>2, <2>3, <2>4, PanelSteps DEF StartRead, ServeRead, FinishRead, FailRead, ForeignChange, Submit,
          MergeLatest, ServeSave, FailSave, SaveSucceeds, AwaitRefetch, Settle, SaveFails, RunCommand, ServeCommand, panelVars
  <1>4. person'.made = 1..n \/ person'.made = 1..(n + 1)
    BY <1>1, <1>2, <1>3
  <1>5. n + 1 \in Nat
    OBVIOUS
  <1>6. Numbered'
    BY <1>4, <1>5 DEF Numbered
  <1> QED BY <1>3, <1>6

\* Every step keeps the shapes.
LEMMA PanelStepShaped ==
  ASSUME PanelTyped, PanelShaped, PanelTyped', [PanelNext]_panelVars
  PROVE  PanelShaped'
  <1> SUFFICES Whole'
    BY MadeStep DEF PanelShaped
  <1>0. ASSUME FinishCommand
        PROVE  /\ command.at = "done" /\ command'.at = "no"
               /\ shown' = shown \/ shown' = command.result
               /\ read' = read \/ read'.at \in {"no", "asked"}
               /\ \/ command.does = "edit" /\ \E e \in Int : Adds(e)
                  \/ command.does = "sweep" /\ draft' = NoDraft
                  \/ draft' = draft
                  \/ Refills
               /\ UNCHANGED <<panel, row, save, conflict, budget>>
    <2>1. Numbered /\ Whole
      BY DEF PanelShaped
    <2> QED BY <1>0, <2>1, CommandEffect, RefreshEffect
  <1> USE PanelBounds DEF PanelShaped, Whole, PanelTyped, Drafts, Saves, Commands, Reads, Rows, NoRow, HasDialog, Loaded
  <1>1. CASE StartRead
    BY <1>1 DEF StartRead
  <1>2. CASE ServeRead
    BY <1>2 DEF ServeRead
  <1>3. CASE FinishRead
    BY <1>3, LandEffect DEF DraftOf, NoDraft
  <1>4. CASE FailRead
    BY <1>4 DEF FailRead
  <1>5. CASE ForeignChange
    BY <1>5 DEF ForeignChange
  <1>6. CASE OpenDialog
    BY <1>6 DEF OpenDialog, DraftOf, IsDialog
  <1>7. CASE CloseDialog
    BY <1>7 DEF CloseDialog, NoDraft, IsDialog
  <1>8. CASE Edit
    <2>1. PICK e \in Int : Adds(e) /\ CanEdit /\ UNCHANGED <<panel, row, shown, read, save, command, conflict, budget>>
      BY <1>8, EditEffect
    <2> QED BY <2>1 DEF CanEdit, Adds
  <1>9. CASE Submit
    BY <1>9, SubmitEffect
  <1>10. CASE MergeLatest
    BY <1>10 DEF MergeLatest
  <1>11. CASE ServeSave
    BY <1>11, ServeEffect DEF Takes
  <1>12. CASE FailSave
    BY <1>12 DEF FailSave
  <1>13. CASE SaveSucceeds
    BY <1>13, SettledSettles, RefreshEffect DEF SaveSucceeds, Settles, DraftOf, NoDraft, NoSave
  <1>14. CASE AwaitRefetch
    BY <1>14 DEF AwaitRefetch, Refresh
  <1>15. CASE Settle
    BY <1>15, SettledSettles DEF Settle, Settles, DraftOf, NoDraft, NoSave
  <1>16. CASE SaveFails
    BY <1>16 DEF SaveFails, NoSave
  <1>17. CASE Reload
    BY <1>17, ReloadEffect
  <1>18. CASE RunCommand
    BY <1>18 DEF RunCommand, NoCommand
  <1>19. CASE ServeCommand
    BY <1>19 DEF ServeCommand
  <1>20. CASE FinishCommand
    <2>1. command.does \in panel.commands /\ Loaded /\ command.result # NoRow
      BY <1>0, <1>20
    <2>2. shown' # NoRow
      BY <1>0, <1>20, <2>1
    <2>3. CASE command.does = "edit" /\ \E e \in Int : Adds(e)
      <3>1. panel.kind \in {"form", "overlay", "fields"}
        BY <2>1, <2>3, CommandRules
      <3> QED BY <1>0, <1>20, <2>2, <2>3, <3>1 DEF Adds, IsDialog
    <2>4. CASE command.does = "sweep" /\ draft' = NoDraft
      <3>1. HasDialog
        BY <2>1, <2>4, CommandRules
      <3> QED BY <1>0, <1>20, <2>2, <2>4, <3>1 DEF NoDraft, IsDialog
    <2>5. CASE draft' = draft
      BY <1>0, <1>20, <2>2, <2>5
    <2>6. CASE Refills
      BY <1>0, <1>20, <2>2, <2>6 DEF Refills, IsDialog
    <2> QED BY <1>0, <1>20, <2>3, <2>4, <2>5, <2>6
  <1>21. CASE UNCHANGED panelVars
    BY <1>21 DEF panelVars
  <1> QED
    BY <1>1, <1>2, <1>3, <1>4, <1>5, <1>6, <1>7, <1>8, <1>9, <1>10, <1>11, <1>12, <1>13, <1>14, <1>15, <1>16,
       <1>17, <1>18, <1>19, <1>20, <1>21, PanelSteps

-----------------------------------------------------------------------------
(* While a save is out, a panel that holds still holds its draft.           *)
Swept == Gap("swept") /\ budget.commands < MaxCommands
Moved == Gap("moved") /\ (budget.foreign < MaxForeign \/ budget.faults < MaxFaults)

\* A frozen editor has no command out with its save and keeps the draft it sent;
\* a dialog that is held stays open until its own answer.
StillInv ==
  /\ panel.frozen /\ ~HasDialog => save.at = "no" \/ command.at = "no"
  /\ panel.frozen /\ ~HasDialog /\ save.at # "no" =>
       /\ draft.open \/ panel.kind = "keyed"
       /\ draft.open => /\ draft.rev = save.rev /\ draft.has # draft.clean
                        /\ panel.kind # "fields" => draft.has = save.has
  /\ Holds(panel) /\ HasDialog /\ save.at # "no" =>
       /\ draft.open /\ draft.dialog = save.dialog
       /\ save.at = "reading" \/ panel.kind # "patch" => draft.has = save.has
  /\ panel.held /\ HasDialog /\ save.at # "no" => (draft.open /\ draft.dialog = save.dialog) \/ Swept

LEMMA KindsOfDialogs ==
  HasDialog => panel.kind \notin {"form", "overlay", "fields", "keyed", "none"}
  BY DEF HasDialog, IsDialog

\* A form that takes the answer of a command has no save out.
LEMMA RefillsAlone ==
  ASSUME PanelTyped, StillInv, command.at # "no", Refills
  PROVE  save.at = "no" /\ ~HasDialog /\ panel.kind = "form"
  BY DraftRules, KindsOfDialogs DEF StillInv, Refills, PanelTyped

LEMMA StillStep ==
  ASSUME PanelTyped, Numbered, Whole, StillInv, PanelTyped', [PanelNext]_panelVars
  PROVE  StillInv'
  <1> USE DEF Swept, Gap, HasDialog
  <1>1. CASE StartRead \/ ServeRead \/ FailRead \/ ForeignChange \/ UNCHANGED panelVars
    BY <1>1, PanelBounds DEF StartRead, ServeRead, FailRead, ForeignChange, panelVars, StillInv, PanelTyped
  <1>2. CASE FinishRead
    BY <1>2, LandEffect, KindsOfDialogs DEF StillInv, NoDraft
  <1>3. CASE OpenDialog
    BY <1>3, KindsOfDialogs DEF OpenDialog, StillInv
  <1>4. CASE CloseDialog
    BY <1>4 DEF CloseDialog, StillInv, Holds
  <1>5. CASE Edit
    <2>1. PICK e \in Int : Adds(e) /\ CanEdit /\ UNCHANGED <<panel, row, shown, read, save, command, conflict, budget>>
      BY <1>5, EditEffect
    <2> QED BY <2>1, KindsOfDialogs DEF CanEdit, Adds, StillInv, Inert, Busy, Holds
  <1>6. CASE Submit
    BY <1>6, SubmitEffect, KindsOfDialogs DEF StillInv, Inert, Busy, Payload
  <1>7. CASE MergeLatest
    BY <1>7, MergeEffect DEF StillInv, Whole, IsDialog
  <1>8. CASE ServeSave
    <2>1. /\ save.at = "sent" /\ save'.at \in {"refused", "done"}
          /\ save'.has = save.has /\ save'.rev = save.rev /\ save'.dialog = save.dialog
          /\ UNCHANGED <<panel, draft, command, budget>>
      BY <1>8, ServeEffect DEF Takes
    <2> QED BY <2>1 DEF StillInv
  <1>9. CASE FailSave
    BY <1>9, FailEffect, KindsOfDialogs DEF StillInv, Whole
  <1>10. CASE SaveSucceeds \/ Settle \/ SaveFails
    BY <1>10 DEF SaveSucceeds, Settle, SaveFails, NoSave, StillInv
  <1>11. CASE AwaitRefetch
    BY <1>11 DEF AwaitRefetch, StillInv, PanelTyped, Saves
  <1>12. CASE Reload
    BY <1>12, ReloadEffect DEF StillInv
  <1>13. CASE RunCommand
    BY <1>13, RunEffect, PanelBounds DEF StillInv, Inert, Busy, PanelTyped, Whole
  <1>14. CASE ServeCommand
    BY <1>14 DEF ServeCommand, StillInv, PanelTyped, Commands
  <1>15. CASE FinishCommand
    <2>1. command.does \in panel.commands /\ budget.commands < MaxCommands
      BY <1>15, CommandEffect DEF Whole
    <2>2. HasDialog => command.does # "edit"
      BY <2>1, CommandRules, KindsOfDialogs DEF PanelTyped
    <2>3. command.does = "sweep" => Swept /\ ~Holds(panel)
      BY <2>1, CommandRules DEF PanelTyped, Holds
    <2>4. Refills => panel.frozen /\ ~HasDialog
      BY DraftRules, KindsOfDialogs DEF Refills, PanelTyped
    <2> QED BY <1>15, <2>1, <2>2, <2>3, <2>4, CommandEffect, KindsOfDialogs DEF StillInv, Refills
  <1> QED BY <1>1, <1>2, <1>3, <1>4, <1>5, <1>6, <1>7, <1>8, <1>9, <1>10, <1>11, <1>12, <1>13, <1>14, <1>15, PanelSteps

-----------------------------------------------------------------------------
(* The edits on the server and in every copy of its row were put there by   *)
(* saves of this person.                                                    *)
Own(s) == {e \in s : e > 0}

\* Nothing counts as saved that no save of this person put on the server.
KeptInv ==
  /\ kept \subseteq person.made
  /\ Own(row.has) \subseteq kept /\ Own(shown.has) \subseteq kept
  /\ read.at = "served" => Own(read.row.has) \subseteq kept
  /\ draft.open => Own(draft.clean) \subseteq kept /\ Own(draft.has) \subseteq person.made
  /\ save.at # "no" => Own(save.has) \subseteq person.made
  /\ save.at \in {"done", "settling"} =>
       /\ Own(save.has) \subseteq kept /\ Own(save.result.has) \subseteq kept
       /\ panel.kind # "create" => save.result.has = save.has
  /\ command.at = "done" => Own(command.result.has) \subseteq kept
  /\ \A r \in receipts : panel.kind = "create" /\ Own(r.has) \subseteq kept

\* A settled draft is clean by what the server has.
LEMMA SettledKept ==
  ASSUME PanelTyped, StillInv, Whole, KeptInv, Settles, save.at \in {"done", "settling"}
  PROVE  draft'.open => Own(draft'.clean) \subseteq kept /\ Own(draft'.has) \subseteq person.made
  <1> USE DEF Own
  <1>1. CASE panel.settle = "clean"
    <2>1. draft.open => draft.has = save.has
      BY <1>1, DraftRules, KindsOfDialogs DEF StillInv, Whole, PanelTyped
    <2> QED BY <1>1, <2>1 DEF KeptInv, Settles
  <1>2. CASE panel.settle # "clean"
    BY <1>2 DEF KeptInv, Settles, DraftOf, NoDraft
  <1> QED BY <1>1, <1>2

LEMMA KeptStep ==
  ASSUME PanelTyped, Numbered, Whole, StillInv, KeptInv, PanelTyped', [PanelNext]_panelVars
  PROVE  KeptInv'
  <1> USE DEF Own
  <1>1. CASE StartRead \/ ServeRead \/ FailRead
    BY <1>1, ReadEffect DEF KeptInv
  <1>2. CASE FinishRead
    BY <1>2, LandEffect DEF KeptInv, NoDraft, DraftOf
  <1>3. CASE OpenDialog
    BY <1>3, OpenEffect DEF KeptInv
  <1>4. CASE CloseDialog
    BY <1>4, CloseEffect DEF KeptInv
  <1>5. CASE Edit
    BY <1>5, EditEffect DEF KeptInv, Adds
  <1>6. CASE Submit
    BY <1>6, SubmitEffect DEF KeptInv, Payload
  <1>7. CASE MergeLatest
    <2>1. draft.open
      BY <1>7, MergeEffect, DraftRules DEF StillInv, Whole, PanelTyped
    <2> QED BY <1>7, <2>1, MergeEffect DEF KeptInv
  <1>8. CASE ServeSave
    <2>1. /\ save.at = "sent" /\ save'.has = save.has
          /\ UNCHANGED <<panel, shown, read, draft, command, conflict, person, handled, budget>>
      BY <1>8, ServeEffect
    <2>2. CASE Refuses /\ save'.at = "refused" /\ UNCHANGED <<row, kept, receipts>>
      BY <2>1, <2>2 DEF KeptInv
    <2>3. CASE Known /\ ~Refuses /\ save'.at = "done" /\ save'.result = row /\ UNCHANGED <<row, kept, receipts>>
      <3>1. Receipt \in receipts
        BY <2>3 DEF Refuses
      <3>2. panel.kind = "create" /\ Own(save.has) \subseteq kept
        BY <3>1 DEF KeptInv, Receipt
      <3> QED BY <2>1, <2>3, <3>2 DEF KeptInv
    <2>4. CASE Takes
      <3>1. \A r \in receipts' : panel.kind = "create" /\ Own(r.has) \subseteq kept'
        BY <2>4, DraftRules DEF Takes, Receipt, KeptInv, PanelTyped
      <3>2. Own(save.has) \subseteq kept' /\ Own(row'.has) \subseteq kept' /\ kept \subseteq kept' /\ kept' \subseteq person.made
        BY <2>1, <2>4 DEF Takes, KeptInv
      <3>3. panel.kind # "create" => row'.has = save.has
        BY <2>4 DEF Takes
      <3>4. save'.at = "done" /\ save'.result = row'
        BY <2>4 DEF Takes
      <3> QED BY <2>1, <3>1, <3>2, <3>3, <3>4 DEF KeptInv
    <2> QED BY <1>8, <2>2, <2>3, <2>4, ServeEffect
  <1>9. CASE FailSave
    BY <1>9, FailEffect DEF KeptInv
  <1>10. CASE SaveSucceeds
    <2>1. draft'.open => Own(draft'.clean) \subseteq kept /\ Own(draft'.has) \subseteq person.made
      BY <1>10, SuccessEffect, SettledKept
    <2> QED BY <1>10, <2>1, SuccessEffect, RefreshEffect DEF KeptInv
  <1>11. CASE AwaitRefetch
    BY <1>11, AwaitEffect DEF KeptInv
  <1>12. CASE Settle
    <2>1. draft'.open => Own(draft'.clean) \subseteq kept /\ Own(draft'.has) \subseteq person.made
      BY <1>12, SettleEffect, SettledKept
    <2> QED BY <1>12, <2>1, SettleEffect DEF KeptInv
  <1>13. CASE SaveFails
    BY <1>13 DEF KeptInv, SaveFails, NoSave
  <1>14. CASE Reload
    BY <1>14, ReloadEffect DEF KeptInv
  <1>15. CASE RunCommand
    BY <1>15, RunEffect DEF KeptInv
  <1>16. CASE ServeCommand
    BY <1>16, ServeCommandEffect DEF KeptInv
  <1>17. CASE FinishCommand
    <2>1. command.at = "done" /\ (shown' = shown \/ shown' = command.result) /\ (read' = read \/ read'.at \in {"no", "asked"})
      BY <1>17, CommandEffect, RefreshEffect
    <2>2. CASE Refills
      BY <1>17, <2>1, <2>2, CommandEffect DEF KeptInv, Refills
    <2>3. CASE ~Refills
      BY <1>17, <2>1, <2>3, CommandEffect DEF KeptInv, Adds, NoDraft
    <2> QED BY <2>2, <2>3
  <1>18. CASE ForeignChange
    BY <1>18, ForeignEffect DEF KeptInv, PanelTyped
  <1>19. CASE UNCHANGED panelVars
    BY <1>19 DEF panelVars, KeptInv
  <1> QED BY <1>1, <1>2, <1>3, <1>4, <1>5, <1>6, <1>7, <1>8, <1>9, <1>10, <1>11, <1>12, <1>13, <1>14, <1>15, <1>16, <1>17,
             <1>18, <1>19, PanelSteps

-----------------------------------------------------------------------------
(* EditsAreKept.                                                            *)
Excused(e) ==
  \/ \E l \in person.late : l.edit = e /\ Gap(IF l.same THEN "typed" ELSE "other")
  \/ Moved \/ Swept

\* What was let through once stays so.
LEMMA Persists ==
  ASSUME PanelTyped, Numbered, [PanelNext]_panelVars
  PROVE  /\ panel' = panel /\ person.late \subseteq person'.late
         /\ budget'.foreign <= budget.foreign /\ budget'.faults <= budget.faults /\ budget'.commands <= budget.commands
  <1> USE DEF PanelTyped
  <1>1. CASE StartRead \/ ServeRead \/ FailRead
    BY <1>1, ReadEffect
  <1>2. CASE Edit
    <2>1. panel' = panel /\ budget' = budget /\ person.late \subseteq person'.late
      BY <1>2, EditEffect
    <2> QED BY <2>1
  <1>3. CASE FailSave \/ RunCommand \/ ForeignChange
    BY <1>3, FailEffect, RunEffect, ForeignEffect
  <1>6. CASE FinishCommand
    <2>1. panel' = panel /\ budget' = budget
          /\ \E made : person' = [person EXCEPT !.made = made] \/ person' = person
      BY <1>6 DEF FinishCommand
    <2> QED BY <2>1 DEF Persons
  <1>4. CASE OpenDialog \/ CloseDialog \/ Reload
    BY <1>4, OpenEffect, CloseEffect, ReloadEffect
  <1>5. CASE UNCHANGED <<panel, person, budget>>
    BY <1>5
  <1> QED BY <1>1, <1>2, <1>3, <1>4, <1>5, <1>6, PanelSteps DEF FinishRead, Submit, MergeLatest, ServeSave, SaveSucceeds,
        AwaitRefetch, Settle, SaveFails, ServeCommand, panelVars

LEMMA ExcusedStays ==
  ASSUME PanelTyped, Numbered, [PanelNext]_panelVars, PanelTyped'
  PROVE  (Moved => Moved') /\ (Swept => Swept') /\ \A e : Excused(e) => Excused(e)'
  <1>1. (Moved => Moved') /\ (Swept => Swept')
    BY Persists, PanelBounds DEF Moved, Swept, Gap, PanelTyped
  <1>2. \A g : Gap(g)' = Gap(g)
    BY Persists DEF Gap
  <1> QED BY <1>1, <1>2, Persists DEF Excused

\* An editor that drops its draft with the success drops no edit it did not send,
\* unless it was made after the save was out and the profile has that gap.
LateInv ==
  save.at # "no" /\ draft.open /\ panel.settle \notin {"rebase", "unless"} =>
    \A e \in Own(draft.has) : e \in kept \/ e \in save.has \/ Excused(e)

LEMMA LateStep ==
  ASSUME PanelTyped, Numbered, Whole, StillInv, KeptInv, LateInv, PanelTyped', [PanelNext]_panelVars
  PROVE  LateInv'
  <1>0. \A e : Excused(e) => Excused(e)'
    BY ExcusedStays
  <1> USE DEF Own
  <1>1. CASE UNCHANGED <<panel, draft, save, kept>>
    BY <1>0, <1>1 DEF LateInv
  <1>2. CASE FinishRead
    BY <1>0, <1>2, LandEffect DEF LateInv, KeptInv, NoDraft, DraftOf
  <1>3. CASE OpenDialog
    BY <1>0, <1>3, OpenEffect DEF LateInv, KeptInv
  <1>4. CASE CloseDialog
    BY <1>4, CloseEffect DEF LateInv
  <1>5. CASE Edit
    <2>1. PICK e \in Int :
            /\ Adds(e) /\ CanEdit /\ UNCHANGED <<panel, row, shown, read, save, command, conflict, kept, budget>>
            /\ save.at # "no" => [edit |-> e, same |-> save.dialog = draft.dialog] \in person'.late
      BY <1>5, EditEffect
    <2> SUFFICES ASSUME save.at # "no", panel.settle \notin {"rebase", "unless"} PROVE LateInv'
      BY <2>1 DEF LateInv
    <2>2. ~panel.frozen /\ Gap("typed")
      BY <2>1, GapRules DEF CanEdit, Inert, Busy, PanelTyped
    <2>3. save.dialog = draft.dialog \/ Gap("other") \/ Swept
      BY <2>1, GapRules DEF PanelTyped, Whole, StillInv, CanEdit
    <2>4. Excused(e)'
      <3>1. CASE Swept
        BY <3>1, <1>0 DEF Excused
      <3>2. CASE ~Swept
        <4>1. PICK l \in person'.late : l.edit = e /\ l.same = (save.dialog = draft.dialog)
          BY <2>1
        <4>2. (IF l.same THEN "typed" ELSE "other") \in panel'.gaps
          BY <2>1, <2>2, <2>3, <3>2, <4>1 DEF Gap
        <4> QED BY <4>1, <4>2 DEF Excused, Gap
      <3> QED BY <3>1, <3>2
    <2> QED BY <1>0, <2>1, <2>4 DEF LateInv, Adds, KeptInv
  <1>6. CASE Submit
    BY <1>6, SubmitEffect DEF LateInv, Payload
  <1>7. CASE MergeLatest
    BY <1>0, <1>7, MergeEffect DEF LateInv, KeptInv
  <1>8. CASE ServeSave
    BY <1>0, <1>8, ServeEffect DEF LateInv, Takes
  <1>9. CASE FailSave
    BY <1>0, <1>9, FailEffect DEF LateInv
  <1>10. CASE SaveSucceeds \/ Settle \/ SaveFails
    BY <1>10 DEF SaveSucceeds, Settle, SaveFails, NoSave, LateInv
  <1>11. CASE AwaitRefetch
    BY <1>0, <1>11, AwaitEffect DEF LateInv
  <1>12. CASE Reload
    BY <1>12, ReloadEffect DEF LateInv
  <1>13. CASE FinishCommand
    <2>1. CASE command.does = "edit"
      <3>1. save.at = "no"
        BY <1>13, <2>1, CommandEffect, CommandRules, KindsOfDialogs DEF StillInv, Whole, PanelTyped
      <3> QED BY <1>13, <3>1, CommandEffect DEF LateInv
    <2>2. CASE command.does # "edit"
      BY <1>0, <1>13, <2>2, CommandEffect, RefillsAlone DEF LateInv, NoDraft
    <2> QED BY <2>1, <2>2
  <1> QED BY <1>1, <1>2, <1>3, <1>4, <1>5, <1>6, <1>7, <1>8, <1>9, <1>10, <1>11, <1>12, <1>13, PanelSteps
        DEF StartRead, ServeRead, FailRead, ForeignChange, RunCommand, ServeCommand, panelVars

\* A bound draft goes only when the text below it was changed by others, or by a
\* save whose answer was lost.
KeyInv ==
  panel.kind = "keyed" /\ ~Moved =>
    IF save.at = "done" THEN save.result.has = row.has
    ELSE /\ draft.open => draft.clean = row.has
         /\ read.at = "served" => read.row.has = row.has
         /\ Loaded => shown.has = row.has

LEMMA KeyStep ==
  ASSUME PanelTyped, Numbered, Whole, StillInv, KeptInv, KeyInv, PanelTyped', Whole', [PanelNext]_panelVars
  PROVE  KeyInv'
  <1>0. panel' = panel /\ (Moved => Moved')
    BY Persists, ExcusedStays
  <1> SUFFICES ASSUME panel.kind = "keyed", ~Moved' PROVE KeyInv'
    BY <1>0 DEF KeyInv
  <1>1. /\ ~HasDialog /\ panel.frozen /\ panel.settle = "rebase" /\ panel.refresh = "both" /\ panel.commands = {}
        /\ Gap("moved") /\ command.at = "no" /\ receipts = {}
    BY GapRules, DraftRules, KindsOfDialogs DEF PanelTyped, Whole, KeptInv
  <1>2. IF save.at = "done" THEN save.result.has = row.has
        ELSE /\ draft.open => draft.clean = row.has
             /\ read.at = "served" => read.row.has = row.has
             /\ Loaded => shown.has = row.has
    BY <1>0 DEF KeyInv
  <1> USE <1>0, <1>1, <1>2 DEF KeyInv
  <1>3. CASE StartRead \/ ServeRead \/ FailRead
    BY <1>3, ReadEffect DEF Loaded
  <1>4. CASE FinishRead
    BY <1>4, LandEffect DEF Loaded, NoDraft
  <1>5. CASE OpenDialog \/ CloseDialog \/ RunCommand \/ ServeCommand \/ FinishCommand
    BY <1>5, OpenEffect, CloseEffect, RunEffect, ServeCommandEffect, CommandEffect DEF Whole
  <1>6. CASE ForeignChange
    BY <1>6, ForeignEffect, PanelBounds DEF Moved, Gap, PanelTyped, Whole
  <1>7. CASE Edit
    BY <1>7, EditEffect DEF Adds, CanEdit, Inert, Busy, Loaded
  <1>8. CASE Submit
    BY <1>8, SubmitEffect DEF Loaded
  <1>9. CASE MergeLatest
    BY <1>9, MergeEffect DEF Whole
  <1>10. CASE ServeSave
    BY <1>10, ServeEffect DEF Takes, Loaded, Known
  <1>11. CASE FailSave
    BY <1>11, FailEffect, PanelBounds DEF Moved, Gap, PanelTyped, Whole
  <1>12. CASE SaveSucceeds
    BY <1>12, SuccessEffect, RefreshEffect DEF Settles, StillInv, Loaded
  <1>13. CASE AwaitRefetch \/ Settle
    BY <1>13, AwaitEffect, SettleEffect DEF Whole
  <1>14. CASE SaveFails
    BY <1>14 DEF SaveFails, NoSave, Loaded
  <1>15. CASE Reload
    BY <1>15, ReloadEffect DEF Loaded
  <1>16. CASE UNCHANGED panelVars
    BY <1>16 DEF panelVars, Loaded
  <1> QED BY <1>3, <1>4, <1>5, <1>6, <1>7, <1>8, <1>9, <1>10, <1>11, <1>12, <1>13, <1>14, <1>15, <1>16, PanelSteps

\* A save that is not taken leaves its edits where they were made.
BackInv ==
  save.at # "no" =>
    \A e \in Own(save.has) :
      \/ e \in person.gaveUp \union kept
      \/ draft.open /\ e \in draft.has \ draft.clean
      \/ Excused(e)

LEMMA BackStep ==
  ASSUME PanelTyped, PanelShaped, StillInv, KeptInv, KeyInv, BackInv, PanelTyped', [PanelNext]_panelVars
  PROVE  BackInv'
  <1>0. /\ \A e : Excused(e) => Excused(e)'
        /\ (Moved => Moved') /\ (Swept => Swept')
        /\ Numbered /\ Whole
    BY ExcusedStays DEF PanelShaped
  <1> USE <1>0 DEF Own
  <1>1. CASE UNCHANGED <<person, kept, save, draft>>
    BY <1>1 DEF BackInv
  <1>2. CASE FinishRead
    <2>1. /\ UNCHANGED <<panel, person, kept, save>> /\ read.at = "served"
          /\ draft' = draft \/ ~draft.open \/ draft.has = draft.clean \/ (panel.kind = "keyed" /\ read.row.has # draft.clean)
      BY <1>2, LandEffect
    <2>2. CASE panel.kind = "keyed" /\ draft.open /\ read.row.has # draft.clean
      <3>1. Moved \/ save.at = "done"
        BY <2>1, <2>2 DEF KeyInv
      <3> QED BY <2>1, <2>2, <3>1 DEF BackInv, Excused, KeptInv
    <2> QED BY <2>1, <2>2 DEF BackInv
  <1>3. CASE OpenDialog
    BY <1>3, OpenEffect DEF BackInv
  <1>4. CASE CloseDialog
    BY <1>4, CloseEffect DEF BackInv
  <1>5. CASE Edit
    <2>1. PICK d \in Int :
            /\ d > 0 /\ d \notin person.made /\ Adds(d) /\ person'.made = person.made \union {d}
            /\ person'.gaveUp = person.gaveUp /\ UNCHANGED <<panel, save, kept>>
      BY <1>5, EditEffect
    <2> QED BY <2>1 DEF BackInv, Adds
  <1>6. CASE Submit
    BY <1>6, SubmitEffect DEF BackInv, KeptInv, Payload
  <1>7. CASE MergeLatest
    BY <1>7, MergeEffect, DraftRules DEF BackInv, KeptInv, StillInv, Whole, PanelTyped
  <1>8. CASE ServeSave
    BY <1>8, ServeEffect DEF BackInv, Takes
  <1>9. CASE FailSave
    BY <1>9, FailEffect DEF BackInv
  <1>10. CASE SaveSucceeds \/ Settle \/ SaveFails
    BY <1>10 DEF SaveSucceeds, Settle, SaveFails, NoSave, BackInv
  <1>11. CASE AwaitRefetch
    BY <1>11, AwaitEffect DEF BackInv
  <1>12. CASE Reload
    BY <1>12, ReloadEffect DEF BackInv
  <1>13. CASE FinishCommand
    <2>1. command.does \in panel.commands /\ budget.commands < MaxCommands
      BY <1>13, CommandEffect DEF Whole
    <2>2. CASE command.does = "sweep"
      <3>1. Swept
        BY <2>1, <2>2, CommandRules DEF PanelTyped, Swept
      <3> QED BY <3>1 DEF Excused, BackInv
    <2>3. CASE command.does # "sweep"
      BY <1>13, <2>3, CommandEffect, RefillsAlone DEF BackInv, Adds
    <2> QED BY <2>2, <2>3
  <1> QED BY <1>1, <1>2, <1>3, <1>4, <1>5, <1>6, <1>7, <1>8, <1>9, <1>10, <1>11, <1>12, <1>13, PanelSteps
        DEF StartRead, ServeRead, FailRead, ForeignChange, RunCommand, ServeCommand, panelVars

\* An edit is safe, or one of the excuses of its panel holds.
Safe(e) ==
  \/ e \in person.gaveUp \union kept
  \/ save.at # "no" /\ e \in save.has
  \/ draft.open /\ e \in draft.has \ draft.clean

LEMMA KeptMeansSafe == EditsAreKept <=> \A e \in person.made : Safe(e) \/ Excused(e)
  BY DEF EditsAreKept, Safe, Excused, Moved, Swept

\* The draft is settled: what goes with it was saved, or was made too late.
LEMMA SettledSafe ==
  ASSUME PanelTyped, PanelShaped, StillInv, KeptInv, LateInv, Settles, save.at \in {"done", "settling"},
         panel' = panel, kept' = kept, person' = person, NEW e \in person.made, Safe(e)
  PROVE  Safe(e)' \/ Excused(e)
  <1> USE DEF Own
  <1>1. e > 0
    BY DEF PanelShaped, Numbered
  <1>2. CASE e \in person.gaveUp \union kept
    BY <1>2 DEF Safe
  <1>3. CASE e \in save.has
    BY <1>1, <1>3 DEF Safe, KeptInv
  <1>4. CASE draft.open /\ e \in draft.has \ draft.clean /\ e \notin save.has /\ e \notin kept
    <2>1. CASE panel.settle = "clean"
      BY <1>4, <2>1, DraftRules, KindsOfDialogs DEF StillInv, Whole, PanelShaped, PanelTyped
    <2>2. CASE panel.settle \in {"drop", "await"}
      BY <1>1, <1>4, <2>2 DEF LateInv
    <2>3. CASE panel.settle = "unless"
      BY <1>4, <2>3 DEF Settles, Safe
    <2>4. CASE panel.settle = "rebase"
      BY <1>1, <1>4, <2>4 DEF Settles, Safe, KeptInv
    <2> QED BY <2>1, <2>2, <2>3, <2>4, DraftRules DEF PanelTyped
  <1> QED BY <1>2, <1>3, <1>4 DEF Safe

LEMMA EditsStep ==
  ASSUME PanelTyped, PanelShaped, StillInv, KeptInv, LateInv, KeyInv, BackInv, EditsAreKept, PanelTyped', [PanelNext]_panelVars
  PROVE  EditsAreKept'
  <1>0. /\ \A e : Excused(e) => Excused(e)'
        /\ (Moved => Moved') /\ (Swept => Swept')
    BY ExcusedStays DEF PanelShaped
  <1>1. \A e \in person.made : Safe(e) \/ Excused(e)
    BY KeptMeansSafe
  <1>2. Numbered /\ Whole /\ \A e \in person.made : e > 0
    BY DEF PanelShaped, Numbered
  <1> SUFFICES ASSUME NEW e \in person'.made PROVE Safe(e)' \/ Excused(e)'
    BY DEF EditsAreKept, Safe, Excused, Moved, Swept
  <1> USE <1>0, <1>1, <1>2
  <1>3. CASE UNCHANGED <<person, kept, save, draft>>
    BY <1>3 DEF Safe
  <1>4. CASE FinishRead
    <2>1. /\ UNCHANGED <<panel, person, kept, save>>
          /\ draft' = draft \/ ~draft.open \/ draft.has = draft.clean \/ (panel.kind = "keyed" /\ read.row.has # draft.clean)
      BY <1>4, LandEffect
    <2>2. CASE panel.kind = "keyed" /\ draft.open /\ read.row.has # draft.clean
      <3>1. Moved \/ (draft.has = save.has /\ save.at = "done")
        BY <1>4, <2>2, LandEffect, DraftRules, KindsOfDialogs DEF KeyInv, StillInv, PanelTyped
      <3> QED BY <2>1, <2>2, <3>1 DEF Safe, Excused
    <2> QED BY <2>1, <2>2 DEF Safe
  <1>5. CASE OpenDialog
    BY <1>5, OpenEffect DEF Safe
  <1>6. CASE CloseDialog
    BY <1>6, CloseEffect DEF Safe
  <1>7. CASE Edit
    <2>1. PICK d \in Int :
            /\ d > 0 /\ d \notin person.made /\ Adds(d) /\ person'.made = person.made \union {d}
            /\ person'.gaveUp = person.gaveUp /\ UNCHANGED <<panel, save, kept>>
      BY <1>7, EditEffect
    <2>2. CASE e = d
      BY <2>1, <2>2 DEF Adds, Safe, KeptInv, Own
    <2>3. CASE e \in person.made
      BY <2>1, <2>3 DEF Adds, Safe
    <2> QED BY <2>1, <2>2, <2>3
  <1>8. CASE Submit
    BY <1>8, SubmitEffect DEF Safe
  <1>9. CASE MergeLatest
    <2>1. draft.open /\ draft.has = save.has
      BY <1>9, MergeEffect, DraftRules DEF StillInv, Whole, PanelTyped
    <2> QED BY <1>9, <2>1, MergeEffect DEF Safe, KeptInv, Own
  <1>10. CASE ServeSave
    BY <1>10, ServeEffect DEF Safe, Takes
  <1>11. CASE FailSave
    BY <1>11, FailEffect DEF Safe
  <1>12. CASE SaveSucceeds \/ Settle
    BY <1>12, SuccessEffect, SettleEffect, SettledSafe
  <1>13. CASE AwaitRefetch
    BY <1>13, AwaitEffect DEF Safe
  <1>14. CASE SaveFails
    BY <1>14 DEF SaveFails, Safe, BackInv, Own
  <1>15. CASE Reload
    BY <1>15, ReloadEffect DEF Safe, KeptInv, Own
  <1>16. CASE FinishCommand
    <2>1. command.does \in panel.commands /\ budget.commands < MaxCommands
      BY <1>16, CommandEffect DEF Whole
    <2>2. CASE \E d \in Int : d > 0 /\ d \notin person.made /\ Adds(d) /\ person'.made = person.made \union {d}
      <3>1. PICK d \in Int : d > 0 /\ d \notin person.made /\ Adds(d) /\ person'.made = person.made \union {d}
        BY <2>2
      <3>2. person'.gaveUp = person.gaveUp /\ UNCHANGED <<save, kept>>
        BY <1>16, CommandEffect
      <3>3. CASE e = d
        BY <3>1, <3>2, <3>3 DEF Adds, Safe, KeptInv, Own
      <3>4. CASE e \in person.made
        BY <3>1, <3>2, <3>4 DEF Adds, Safe
      <3> QED BY <3>1, <3>3, <3>4
    <2>3. CASE command.does = "sweep"
      <3>1. Swept
        BY <2>1, <2>3, CommandRules DEF PanelTyped, Swept
      <3> QED BY <3>1 DEF Excused
    <2>4. CASE draft' = draft /\ person'.made = person.made
      BY <1>16, <2>4, CommandEffect DEF Safe
    <2>5. CASE Refills /\ person'.made = person.made
      BY <1>16, <2>5, CommandEffect DEF Safe, Refills
    <2> QED BY <1>16, <2>2, <2>3, <2>4, <2>5, CommandEffect
  <1> QED BY <1>3, <1>4, <1>5, <1>6, <1>7, <1>8, <1>9, <1>10, <1>11, <1>12, <1>13, <1>14, <1>15, <1>16, PanelSteps
        DEF StartRead, ServeRead, FailRead, ForeignChange, RunCommand, ServeCommand, panelVars

-----------------------------------------------------------------------------
(* A revision names one content of the row.                                 *)
SameRow(rev, has) == rev <= row.rev /\ (rev = row.rev => has = row.has)
\* The editors whose revision the server compares with that of the row.
Versioned == panel.cas /\ panel.kind # "create"

\* Every copy of the row with the revision of the row has its content, so that a
\* save that is not refused has seen what it overwrites.
RevInv ==
  /\ SameRow(shown.rev, shown.has)
  /\ read.at = "served" => SameRow(read.row.rev, read.row.has)
  /\ save.at \in {"done", "settling"} => SameRow(save.result.rev, save.result.has)
  /\ command.at = "done" => SameRow(command.result.rev, command.result.has)
  /\ Versioned /\ draft.open =>
       SameRow(draft.rev, draft.clean) /\ (panel.reload # "rebase" => draft.clean \subseteq draft.has)
  /\ Versioned /\ save.at = "sent" =>
       /\ save.rev <= row.rev
       /\ save.rev = row.rev =>
            row.has \subseteq save.seen /\ (panel.reload # "rebase" => row.has \subseteq save.has)

LEMMA RevStarts == PanelInit => RevInv
  BY DEF PanelInit, RevInv, SameRow, NoRow, Quiet, NoSave, NoCommand, NoDraft

\* The content of the row changes with its revision only.
LEMMA RowStep ==
  ASSUME PanelTyped, Numbered, [PanelNext]_panelVars
  PROVE  row' = row \/ (row'.rev = row.rev + 1)
  <1>1. CASE ServeSave
    BY <1>1, ServeEffect DEF Takes
  <1>2. CASE ForeignChange
    BY <1>2, ForeignEffect
  <1>3. CASE ServeCommand
    BY <1>3 DEF ServeCommand, PanelTyped, Rows
  <1>4. CASE row' = row
    BY <1>4
  <1> QED BY <1>1, <1>2, <1>3, <1>4, PanelSteps DEF StartRead, ServeRead, FinishRead, FailRead, OpenDialog, CloseDialog, Edit,
        Submit, MergeLatest, FailSave, SaveSucceeds, AwaitRefetch, Settle, SaveFails, Reload, RunCommand, FinishCommand, panelVars

LEMMA RevStep ==
  ASSUME PanelTyped, Numbered, Whole, StillInv, KeptInv, RevInv, PanelTyped', [PanelNext]_panelVars
  PROVE  RevInv'
  <1>1. /\ row.rev \in Int /\ row'.rev \in Int /\ shown.rev \in Int /\ read.row.rev \in Int /\ save.result.rev \in Int /\ save.rev \in Int
        /\ command.result.rev \in Int /\ draft.rev \in Int
    BY DEF PanelTyped, Rows, Reads, Saves, Commands, Drafts
  <1>0. /\ panel' = panel
        /\ \A rev \in Int : \A has : SameRow(rev, has) => SameRow(rev, has)'
        /\ SameRow(row.rev, row.has) /\ SameRow(row.rev, row.has)'
        /\ row' = row \/ row'.rev = row.rev + 1
    BY <1>1, RowStep, Persists DEF SameRow
  <1> USE <1>0, <1>1 DEF Versioned
  <1>2. CASE StartRead \/ ServeRead \/ FailRead
    BY <1>2, ReadEffect DEF RevInv
  <1>3. CASE FinishRead
    BY <1>3, LandEffect DEF RevInv, DraftOf, NoDraft
  <1>4. CASE OpenDialog
    BY <1>4, OpenEffect DEF RevInv
  <1>5. CASE CloseDialog
    BY <1>5, CloseEffect DEF RevInv
  <1>6. CASE Edit
    BY <1>6, EditEffect, GapRules DEF RevInv, Adds, PanelTyped
  <1>7. CASE Submit
    BY <1>7, SubmitEffect, GapRules DEF RevInv, Payload, PanelTyped, SameRow
  <1>8. CASE MergeLatest
    BY <1>8, MergeEffect, GapRules DEF RevInv, Whole, PanelTyped
  <1>9. CASE ServeSave
    BY <1>9, ServeEffect DEF RevInv, Takes, SameRow
  <1>10. CASE FailSave
    BY <1>10, FailEffect DEF RevInv
  <1>11. CASE SaveSucceeds
    BY <1>11, SuccessEffect, RefreshEffect, GapRules DEF RevInv, Settles, DraftOf, NoDraft, PanelTyped
  <1>12. CASE AwaitRefetch
    BY <1>12, AwaitEffect DEF RevInv
  <1>13. CASE Settle
    BY <1>13, SettleEffect, GapRules DEF RevInv, Settles, DraftOf, NoDraft, PanelTyped
  <1>14. CASE SaveFails
    BY <1>14 DEF RevInv, SaveFails, NoSave
  <1>15. CASE Reload
    BY <1>15, ReloadEffect DEF RevInv
  <1>16. CASE RunCommand
    BY <1>16, RunEffect DEF RevInv
  <1>17. CASE ServeCommand
    BY <1>17, ServeCommandEffect DEF RevInv, SameRow
  <1>18. CASE FinishCommand
    <2>1. command.at = "done" /\ (shown' = shown \/ shown' = command.result) /\ (read' = read \/ read'.at \in {"no", "asked"})
      BY <1>18, CommandEffect, RefreshEffect
    <2>2. CASE Refills
      BY <1>18, <2>1, <2>2, CommandEffect DEF RevInv, Refills
    <2>3. CASE ~Refills
      <3>1. UNCHANGED <<panel, row, save>> /\ command'.at = "no"
            /\ (\/ \E e \in Int : Adds(e)
                \/ draft' = NoDraft \/ draft' = draft)
        BY <1>18, <2>3, CommandEffect
      <3>2. panel.cas => panel.kind # "fields"
        BY GapRules DEF PanelTyped
      <3> QED BY <2>1, <3>1, <3>2 DEF RevInv, Adds, NoDraft
    <2> QED BY <2>2, <2>3
  <1>19. CASE ForeignChange
    BY <1>19, ForeignEffect DEF RevInv
  <1>20. CASE UNCHANGED panelVars
    BY <1>20 DEF panelVars, RevInv, SameRow
  <1> QED BY <1>2, <1>3, <1>4, <1>5, <1>6, <1>7, <1>8, <1>9, <1>10, <1>11, <1>12, <1>13, <1>14, <1>15, <1>16, <1>17,
             <1>18, <1>19, <1>20, PanelSteps

-----------------------------------------------------------------------------
(* A read that would put older data back is cancelled by what made it old.  *)
ReadInv ==
  /\ handled <= row.rev
  /\ read.at = "served" => read.row.rev >= handled \/ Gap("late")
  /\ panel.polls = "never" /\ panel.commands = {} /\ panel.refresh = "set" /\ Loaded => read.at = "no"

LEMMA ReadStarts == PanelInit => ReadInv
  BY DEF PanelInit, ReadInv, Quiet, Loaded, NoRow

LEMMA ReadStep ==
  ASSUME PanelTyped, Numbered, Whole, RevInv, ReadInv, PanelTyped', Whole', [PanelNext]_panelVars
  PROVE  ReadInv'
  <1>0. /\ panel' = panel /\ (Gap("late")' = Gap("late")) /\ row.rev <= row'.rev
        /\ row.rev \in Int /\ row'.rev \in Int /\ read.row.rev \in Int /\ handled \in Int
        /\ save.result.rev \in Int /\ command.result.rev \in Int
    BY RowStep, Persists DEF Gap, PanelTyped, Rows, Reads, Saves, Commands
  <1> USE <1>0
  <1>1. CASE StartRead
    BY <1>1 DEF StartRead, Quiet, ReadInv, Loaded
  <1>2. CASE ServeRead
    BY <1>2 DEF ServeRead, ReadInv, Loaded
  <1>3. CASE FailRead
    BY <1>3 DEF FailRead, ReadInv, Loaded
  <1>4. CASE FinishRead
    BY <1>4, LandEffect DEF ReadInv
  <1>5. CASE Submit
    BY <1>5, SubmitEffect DEF ReadInv, Loaded
  <1>6. CASE SaveSucceeds
    <2>1. handled' = save.result.rev /\ save.result.rev <= row.rev /\ UNCHANGED row
      BY <1>6, SuccessEffect, DraftRules DEF PanelTyped, RevInv, SameRow
    <2>2. Loaded /\ save.at = "done"
      BY <1>6, SuccessEffect DEF Whole
    <2>3. CASE read' = read /\ panel.refresh = "set" /\ ~panel.cancel
      BY <2>1, <2>2, <2>3, GapRules DEF PanelTyped, ReadInv
    <2>4. CASE read'.at \in {"no", "asked"}
      <3>1. panel.refresh = "set" /\ panel.polls = "never" /\ panel.commands = {} => read'.at = "no"
        BY <1>6, <2>2, <2>4, SuccessEffect DEF Refresh, Quiet, ReadInv
      <3> QED BY <2>1, <2>4, <3>1 DEF ReadInv
    <2> QED BY <1>6, <2>3, <2>4, SuccessEffect, RefreshEffect, DraftRules DEF PanelTyped
  <1>7. CASE AwaitRefetch
    <2>1. handled' = save.result.rev /\ save.result.rev <= row.rev /\ read'.at = "asked" /\ UNCHANGED row
      BY <1>7, AwaitEffect DEF RevInv, SameRow
    <2>2. panel.refresh = "invalidate"
      BY <1>7, AwaitEffect, GapRules DEF PanelTyped
    <2> QED BY <2>1, <2>2 DEF ReadInv
  <1>8. CASE Reload
    BY <1>8, ReloadEffect DEF ReadInv
  <1>9. CASE FinishCommand
    <2>1. UNCHANGED row /\ command.result.rev <= row.rev /\ command.does \in panel.commands
      BY <1>9, CommandEffect DEF RevInv, SameRow, Whole
    <2>2. handled' = handled \/ (handled' = command.result.rev /\ read'.at = "asked")
      BY <1>9, CommandEffect, RefreshEffect
    <2>3. read' = read \/ read'.at \in {"no", "asked"}
      BY <1>9, CommandEffect, RefreshEffect
    <2> QED BY <2>1, <2>2, <2>3 DEF ReadInv
  <1>10. CASE UNCHANGED <<handled, read, shown>>
    BY <1>10 DEF ReadInv, Loaded
  <1> QED BY <1>1, <1>2, <1>3, <1>4, <1>5, <1>6, <1>7, <1>8, <1>9, <1>10, PanelSteps
        DEF OpenDialog, CloseDialog, Edit, MergeLatest, ServeSave, FailSave, Settle, SaveFails, RunCommand, ServeCommand,
            ForeignChange, panelVars

-----------------------------------------------------------------------------
(* A person's own saves are in the row, and in what the next draft starts   *)
(* from.                                                                    *)
Mine == kept \ person.gaveUp
Base == IF draft.open THEN Mine \cap draft.clean ELSE Mine

\* No save of this person is undone by the next one: it is in the row, and every
\* draft, read and answer the next save may be made from has it.
OwnInRow == ~Gap("stale") => Mine \subseteq row.has
NoneSaves == panel.kind = "none" => save.at = "no"
PatchHas == panel.kind = "patch" /\ save.at = "sent" /\ ~Gap("stale") => Mine \subseteq save.has
OwnFollows ==
  Follows(panel) /\ ~Gap("stale") =>
    /\ draft.open => Mine \subseteq draft.has
    /\ read.at = "served" => Base \subseteq read.row.has
    /\ panel.kind # "form" /\ Loaded => Base \subseteq shown.has
    /\ command.at = "done" => Mine \subseteq command.result.has
    /\ save.at = "settling" =>
         (read.at = "no" => Mine \subseteq shown.has) /\ (read.at = "served" => Mine \subseteq read.row.has)

OwnInv == OwnInRow /\ NoneSaves /\ PatchHas /\ OwnFollows

LEMMA OwnStarts == PanelInit => OwnInv
  BY DEF PanelInit, OwnInv, OwnInRow, NoneSaves, PatchHas, OwnFollows, Mine, Base, NoSave, NoDraft, Quiet, NoCommand, Loaded

\* A panel that holds still sends what its draft has.
LEMMA FollowsSends ==
  ASSUME PanelTyped, StillInv, Whole, Follows(panel), save.at # "no"
  PROVE  draft.open /\ draft.has = save.has /\ (~HasDialog => command.at = "no")
  BY KindsOfDialogs DEF Follows, Holds, StillInv, HasDialog, IsDialog, Whole

\* The server takes a save only with everything of this person's in it.
LEMMA TakenHasOwn ==
  ASSUME PanelTyped, Whole, StillInv, KeptInv, RevInv, OwnInv, save.at = "sent", Takes, ~Gap("stale")
  PROVE  Mine \subseteq row'.has
  <1>1. CASE panel.kind = "create"
    BY <1>1 DEF Takes, OwnInv, OwnInRow
  <1>2. CASE panel.kind = "patch"
    BY <1>2 DEF Takes, OwnInv, PatchHas
  <1>3. CASE panel.kind = "none"
    BY <1>3 DEF OwnInv, NoneSaves
  <1>4. CASE panel.cas /\ panel.reload # "rebase" /\ panel.kind # "create"
    <2>1. save.rev = row.rev
      BY <1>4 DEF Takes, Refuses
    <2>2. row.has \subseteq save.has
      BY <1>4, <2>1 DEF RevInv, Versioned
    <2> QED BY <2>2 DEF Takes, OwnInv, OwnInRow
  <1>5. CASE Follows(panel)
    BY <1>5, FollowsSends DEF Takes, OwnInv, OwnFollows
  <1> QED BY <1>1, <1>2, <1>3, <1>4, <1>5, OwnRules DEF PanelTyped

LEMMA OwnInRowStep ==
  ASSUME PanelTyped, Numbered, Whole, StillInv, KeptInv, RevInv, OwnInv, PanelTyped', [PanelNext]_panelVars
  PROVE  OwnInRow'
  <1>0. panel' = panel /\ Gap("stale")' = Gap("stale")
    BY Persists DEF Gap
  <1> SUFFICES ASSUME ~Gap("stale") PROVE Mine' \subseteq row'.has
    BY <1>0 DEF OwnInRow
  <1>1. Mine \subseteq row.has
    BY DEF OwnInv, OwnInRow
  <1> USE <1>1 DEF Mine
  <1>2. CASE ServeSave
    <2>1. CASE Takes
      <3>1. Mine \subseteq row'.has
        BY <1>2, <2>1, ServeEffect, TakenHasOwn
      <3>2. Own(save.has) \subseteq row'.has /\ kept' = kept \union Own(save.has) /\ person' = person
        BY <1>2, <2>1, ServeEffect DEF Takes, Own
      <3> QED BY <3>1, <3>2
    <2>2. CASE UNCHANGED <<row, kept>>
      BY <1>2, <2>2, ServeEffect
    <2> QED BY <1>2, <2>1, <2>2, ServeEffect
  <1>3. CASE ForeignChange \/ ServeCommand
    BY <1>3, ForeignEffect, ServeCommandEffect
  <1>4. CASE Reload \/ CloseDialog \/ OpenDialog \/ FinishCommand
    BY <1>4, ReloadEffect, CloseEffect, OpenEffect, CommandEffect
  <1>5. CASE Edit
    BY <1>5, EditEffect
  <1>6. CASE UNCHANGED <<row, kept, person>>
    BY <1>6
  <1> QED BY <1>2, <1>3, <1>4, <1>5, <1>6, PanelSteps DEF StartRead, ServeRead, FailRead, FinishRead, Submit, MergeLatest,
        FailSave, SaveSucceeds, AwaitRefetch, Settle, SaveFails, RunCommand, panelVars

LEMMA NoneAndPatchStep ==
  ASSUME PanelTyped, Numbered, Whole, StillInv, KeptInv, OwnInv, PanelTyped', [PanelNext]_panelVars
  PROVE  NoneSaves' /\ PatchHas'
  <1>0. panel' = panel /\ Gap("stale")' = Gap("stale")
    BY Persists DEF Gap
  <1> USE <1>0 DEF OwnInv, NoneSaves, PatchHas, Mine
  <1>1. CASE ServeSave
    BY <1>1, ServeEffect DEF Takes
  <1>2. CASE MergeLatest
    BY <1>2, MergeEffect DEF OwnInRow, Whole
  <1>3. CASE Submit
    BY <1>3, SubmitEffect DEF Whole
  <1>4. CASE FailSave \/ AwaitRefetch
    BY <1>4, FailEffect, AwaitEffect
  <1>5. CASE SaveSucceeds \/ Settle \/ SaveFails
    BY <1>5 DEF SaveSucceeds, Settle, SaveFails, NoSave
  <1>6. CASE Reload \/ CloseDialog \/ OpenDialog \/ FinishCommand
    BY <1>6, ReloadEffect, CloseEffect, OpenEffect, CommandEffect
  <1>7. CASE Edit
    BY <1>7, EditEffect
  <1>8. CASE UNCHANGED <<save, kept, person>>
    BY <1>8
  <1> QED BY <1>1, <1>2, <1>3, <1>4, <1>5, <1>6, <1>7, <1>8, PanelSteps DEF StartRead, ServeRead, FailRead, FinishRead,
        ForeignChange, RunCommand, ServeCommand, panelVars

LEMMA OwnFollowsStep ==
  ASSUME PanelTyped, Numbered, Whole, StillInv, KeptInv, OwnInv, PanelTyped', Whole', [PanelNext]_panelVars
  PROVE  OwnFollows'
  <1>0. panel' = panel /\ Gap("stale")' = Gap("stale") /\ Follows(panel)' = Follows(panel)
    BY Persists DEF Gap, Follows, Holds, IsDialog
  <1> SUFFICES ASSUME ~Gap("stale"), Follows(panel) PROVE OwnFollows'
    BY <1>0 DEF OwnFollows
  <1>1. /\ panel.frozen /\ panel.kind \in {"form", "overlay", "dialog"} /\ (HasDialog <=> panel.kind = "dialog")
        /\ HasDialog => panel.held /\ panel.commands = {}
        /\ panel.cancel \/ panel.refresh \in {"invalidate", "both"}
        /\ panel.kind # "form" /\ panel.settle # "await" => panel.refresh \in {"set", "both"}
        /\ panel.settle = "await" => panel.kind = "overlay"
        /\ receipts = {} /\ "sweep" \notin panel.commands
    BY DEF Follows, Holds, HasDialog, IsDialog, KeptInv
  <1>2. Mine \subseteq row.has
    BY DEF OwnInv, OwnInRow
  <1>3. /\ draft.open => Mine \subseteq draft.has
        /\ read.at = "served" => Base \subseteq read.row.has
        /\ panel.kind # "form" /\ Loaded => Base \subseteq shown.has
        /\ command.at = "done" => Mine \subseteq command.result.has
        /\ save.at = "settling" =>
             (read.at = "no" => Mine \subseteq shown.has) /\ (read.at = "served" => Mine \subseteq read.row.has)
    BY DEF OwnInv, OwnFollows
  <1>4. save.at # "no" => draft.open /\ draft.has = save.has /\ (~HasDialog => command.at = "no")
    BY FollowsSends
  <1> USE <1>0, <1>1, <1>2, <1>3, <1>4 DEF OwnFollows, Mine, Base
  <1>6. CASE StartRead \/ ServeRead \/ FailRead
    BY <1>6, ReadEffect DEF Loaded
  <1>7. CASE FinishRead
    BY <1>7, LandEffect DEF DraftOf, NoDraft
  <1>8. CASE OpenDialog
    BY <1>8, OpenEffect
  <1>9. CASE CloseDialog
    BY <1>9, CloseEffect DEF Loaded
  <1>10. CASE Edit
    BY <1>10, EditEffect DEF Adds, CanEdit, Inert, Busy, Loaded
  <1>11. CASE Submit
    BY <1>11, SubmitEffect DEF Loaded
  <1>12. CASE MergeLatest
    BY <1>12, MergeEffect DEF Whole
  <1>13. CASE ServeSave
    <2>1. /\ save.at = "sent" /\ save'.at \in {"refused", "done"}
          /\ UNCHANGED <<panel, shown, read, draft, command, person>>
      BY <1>13, ServeEffect DEF Takes
    <2>2. kept' = kept \/ kept' = kept \union Own(save.has)
      BY <1>13, ServeEffect DEF Takes, Own
    <2>3. Mine' \subseteq draft.has /\ Base' \subseteq Base /\ (~HasDialog => command.at = "no") /\ draft.open
      BY <2>1, <2>2 DEF KeptInv, Own
    <2>4. command.at = "no"
      BY <2>1, <2>3, CommandRules DEF Whole
    <2> HIDE DEF Base, Mine
    <2> QED BY <2>1, <2>3, <2>4 DEF Loaded
  <1>14. CASE FailSave
    BY <1>14, FailEffect DEF Loaded
  <1>15. CASE SaveSucceeds
    <2>1. /\ save.at = "done" /\ save'.at = "no" /\ Settles /\ panel.settle # "await"
          /\ UNCHANGED <<panel, row, command, person, kept>>
      BY <1>15, SuccessEffect
    <2>2. save.result.has = save.has /\ Mine' = Mine /\ Mine \subseteq save.has /\ Loaded
      BY <2>1 DEF KeptInv, Whole
    <2>3. read'.at \in {"no", "asked"} /\ (panel.kind # "form" => shown' = save.result)
      BY <1>15, <2>1, SuccessEffect, RefreshEffect
    <2>4. draft'.open => Mine \subseteq draft'.has
      BY <2>1, <2>2 DEF Settles, DraftOf, NoDraft
    <2>5. Base' \subseteq Mine
      BY <2>2
    <2> QED BY <2>1, <2>2, <2>3, <2>4, <2>5
  <1>16. CASE AwaitRefetch
    BY <1>16, AwaitEffect DEF Loaded
  <1>17. CASE Settle
    BY <1>17, SettleEffect DEF Settles, NoDraft, Loaded, Whole
  <1>18. CASE SaveFails
    BY <1>18 DEF SaveFails, NoSave, Loaded
  <1>19. CASE Reload
    BY <1>19, ReloadEffect
  <1>20. CASE RunCommand
    BY <1>20, RunEffect DEF Loaded
  <1>21. CASE ServeCommand
    BY <1>21, ServeCommandEffect DEF Loaded
  <1>22. CASE FinishCommand
    <2>1. command.at = "done" /\ (shown' = shown \/ shown' = command.result) /\ (read' = read \/ read'.at \in {"no", "asked"})
      BY <1>22, CommandEffect, RefreshEffect
    <2>2. CASE Refills
      BY <1>22, <2>1, <2>2, CommandEffect DEF Refills, Loaded, Whole
    <2>3. CASE ~Refills
      BY <1>22, <2>1, <2>3, CommandEffect DEF Adds, Loaded, Whole
    <2> QED BY <2>2, <2>3
  <1>23. CASE ForeignChange
    BY <1>23, ForeignEffect DEF Loaded
  <1>24. CASE UNCHANGED panelVars
    BY <1>24 DEF panelVars, Loaded
  <1> QED BY <1>6, <1>7, <1>8, <1>9, <1>10, <1>11, <1>12, <1>13, <1>14, <1>15, <1>16, <1>17, <1>18, <1>19, <1>20, <1>21,
             <1>22, <1>23, <1>24, PanelSteps

-----------------------------------------------------------------------------
(* What was created is not in a draft that may be sent again, unless the    *)
(* server knows the draft by its key.                                       *)
OnceInv ==
  panel.kind = "create" /\ ~Gap("twice") =>
    IF panel.once = "key"
    THEN draft.open /\ draft.has \cap kept # {} => \E r \in receipts : r.dialog = draft.dialog
    ELSE /\ save.at = "no" /\ draft.open /\ ~conflict => draft.has \cap kept = {}
         /\ save.at \in {"sent", "refused"} => save.has \cap kept = {}

LEMMA OnceStep ==
  ASSUME PanelTyped, Numbered, Whole, StillInv, KeptInv, OnceInv, PanelTyped', [PanelNext]_panelVars
  PROVE  OnceInv'
  <1>0. panel' = panel /\ Gap("twice")' = Gap("twice")
    BY Persists DEF Gap
  <1> SUFFICES ASSUME panel.kind = "create", ~Gap("twice") PROVE OnceInv'
    BY <1>0 DEF OnceInv
  <1>1. /\ HasDialog /\ panel.frozen /\ panel.held /\ "sweep" \notin panel.commands /\ "edit" \notin panel.commands
        /\ panel.settle = "drop" /\ panel.reload # "replace"
        /\ panel.once = "key" \/ (panel.once = "stop" /\ panel.reload # "rebase")
    BY OwnRules, CommandRules DEF PanelTyped, Holds, HasDialog, IsDialog
  <1>2. save.at # "no" => draft.open /\ draft.dialog = save.dialog /\ draft.has = save.has
    BY <1>1 DEF StillInv, Holds
  <1>3. kept \subseteq person.made
    BY DEF KeptInv
  <1>4. IF panel.once = "key"
        THEN draft.open /\ draft.has \cap kept # {} => \E r \in receipts : r.dialog = draft.dialog
        ELSE /\ save.at = "no" /\ draft.open /\ ~conflict => draft.has \cap kept = {}
             /\ save.at \in {"sent", "refused"} => save.has \cap kept = {}
    BY DEF OnceInv
  <1> USE <1>0, <1>1, <1>2, <1>3, <1>4 DEF OnceInv
  <1>5. CASE UNCHANGED <<draft, save, kept, receipts, conflict>>
    BY <1>5
  <1>6. CASE FinishRead
    BY <1>6, LandEffect
  <1>7. CASE OpenDialog
    BY <1>7, OpenEffect
  <1>8. CASE CloseDialog
    BY <1>8, CloseEffect
  <1>9. CASE Edit
    <2>1. PICK d \in Int :
            /\ d \notin person.made /\ Adds(d) /\ CanEdit /\ UNCHANGED <<panel, save, conflict, receipts, kept>>
      BY <1>9, EditEffect
    <2>2. draft.open /\ save.at = "no" /\ draft'.has = draft.has \union {d} /\ draft'.dialog = draft.dialog
      BY <2>1 DEF CanEdit, Adds, Inert
    <2> QED BY <2>1, <2>2
  <1>10. CASE Submit
    BY <1>10, SubmitEffect DEF Payload
  <1>11. CASE MergeLatest
    BY <1>11, MergeEffect DEF Whole
  <1>12. CASE ServeSave
    <2>1. CASE Takes
      <3>1. save.at = "sent" /\ save'.at = "done" /\ draft' = draft /\ draft.dialog = save.dialog
        BY <1>12, <2>1, ServeEffect DEF Takes
      <3>2. CASE panel.once = "key"
        <4>1. Receipt \in receipts' /\ Receipt.dialog = draft'.dialog
          BY <2>1, <3>1, <3>2 DEF Takes, Receipt
        <4> QED BY <3>2, <4>1
      <3>3. CASE panel.once # "key"
        BY <3>1, <3>3
      <3> QED BY <3>2, <3>3
    <2>2. CASE UNCHANGED <<row, kept, receipts>>
      BY <1>12, <2>2, ServeEffect
    <2> QED BY <1>12, <2>1, <2>2, ServeEffect
  <1>13. CASE FailSave
    BY <1>13, FailEffect
  <1>14. CASE SaveSucceeds
    BY <1>14, SuccessEffect DEF Settles, NoDraft
  <1>15. CASE AwaitRefetch \/ Settle
    BY <1>15, AwaitEffect, SettleEffect DEF Whole
  <1>16. CASE SaveFails
    BY <1>16 DEF SaveFails, NoSave
  <1>17. CASE Reload
    BY <1>17, ReloadEffect
  <1>18. CASE FinishCommand
    <2>1. command.at = "done" /\ command.does \in panel.commands
      BY <1>18, CommandEffect DEF Whole
    <2>2. UNCHANGED <<panel, save, conflict, kept, receipts>> /\ draft' = draft
      BY <1>1, <1>18, <2>1, CommandEffect DEF Refills
    <2> QED BY <2>2
  <1> QED BY <1>5, <1>6, <1>7, <1>8, <1>9, <1>10, <1>11, <1>12, <1>13, <1>14, <1>15, <1>16, <1>17, <1>18, PanelSteps
        DEF StartRead, ServeRead, FailRead, ForeignChange, RunCommand, ServeCommand, panelVars

-----------------------------------------------------------------------------
(* The invariant of an editor, and what follows from it.                    *)
PanelInv ==
  /\ PanelTyped /\ PanelShaped /\ StillInv /\ KeptInv
  /\ LateInv /\ KeyInv /\ BackInv /\ EditsAreKept
  /\ RevInv /\ ReadInv /\ OwnInv /\ OnceInv

LEMMA PanelStarts == PanelInit => PanelInv
  <1> SUFFICES ASSUME PanelInit PROVE PanelInv
    OBVIOUS
  <1>1. StillInv /\ LateInv /\ BackInv /\ OnceInv /\ KeyInv
    BY DEF PanelInit, StillInv, LateInv, BackInv, OnceInv, KeyInv, NoSave, NoDraft, NoCommand, Quiet, Loaded
  <1>2. KeptInv
    BY DEF PanelInit, KeptInv, Own, NoSave, NoDraft, NoCommand, NoRow, Quiet
  <1>3. EditsAreKept
    BY DEF PanelInit, EditsAreKept
  <1> QED BY <1>1, <1>2, <1>3, PanelStartsTyped, PanelStartsShaped, RevStarts, ReadStarts, OwnStarts DEF PanelInv

LEMMA PanelStep == PanelInv /\ [PanelNext]_panelVars => PanelInv'
  <1> SUFFICES ASSUME PanelInv, [PanelNext]_panelVars PROVE PanelInv'
    OBVIOUS
  <1>1. /\ PanelTyped /\ PanelShaped /\ Numbered /\ Whole /\ StillInv /\ KeptInv /\ LateInv /\ KeyInv /\ BackInv
        /\ EditsAreKept /\ RevInv /\ ReadInv /\ OwnInv /\ OnceInv
    BY DEF PanelInv, PanelShaped
  <1>2. PanelTyped'
    BY <1>1, PanelStepTyped
  <1>3. PanelShaped' /\ Whole'
    BY <1>1, <1>2, PanelStepShaped DEF PanelShaped
  <1>4. StillInv' /\ KeptInv' /\ LateInv' /\ KeyInv' /\ BackInv' /\ EditsAreKept'
    BY <1>1, <1>2, <1>3, StillStep, KeptStep, LateStep, KeyStep, BackStep, EditsStep
  <1>5. RevInv' /\ ReadInv' /\ OnceInv'
    BY <1>1, <1>2, <1>3, RevStep, ReadStep, OnceStep
  <1>6. OwnInv'
    BY <1>1, <1>2, <1>3, OwnInRowStep, NoneAndPatchStep, OwnFollowsStep DEF OwnInv
  <1> QED BY <1>2, <1>3, <1>4, <1>5, <1>6 DEF PanelInv

\* Every reachable state of an editor satisfies the whole invariant: its draft, its
\* save, its reads and the row on the server fit together (SettingsForm.tsx and the
\* panels of the consoles).
THEOREM PanelInvariant == PanelSpec => []PanelInv
  BY PanelStarts, PanelStep, PTL DEF PanelSpec

\* No edit is lost in silence: until the person gives it up it is in a dirty draft,
\* in a save on the wire or on the server (useSettingsDirty, hydrate, onSuccess).
THEOREM EditsStayKept == PanelSpec => []EditsAreKept
  <1>1. PanelInv => EditsAreKept
    BY DEF PanelInv
  <1> QED BY <1>1, PanelInvariant, PTL

\* An editor that sends its revision overwrites nothing of somebody else's that was
\* not in the row its draft was made from or reloaded over (the conflict answers).
THEOREM NothingOverwrittenUnseen == PanelSpec => NoBlindOverwrite
  <1>1. PanelInv /\ [PanelNext]_panelVars => [(ServeSave /\ panel.cas) => (row.has \ row'.has) \subseteq save.seen]_panelVars
    <2> SUFFICES ASSUME PanelInv, ServeSave, panel.cas PROVE (row.has \ row'.has) \subseteq save.seen
      OBVIOUS
    <2>1. PanelTyped /\ RevInv
      BY DEF PanelInv
    <2>2. CASE Takes
      <3>1. CASE panel.kind = "create"
        BY <2>2, <3>1 DEF Takes
      <3>2. CASE panel.kind # "create"
        <4>1. save.rev = row.rev
          BY <2>2 DEF Takes, Refuses
        <4> QED BY <2>1, <3>2, <4>1, ServeEffect DEF RevInv, Versioned
      <3> QED BY <3>1, <3>2
    <2>3. CASE row' = row
      BY <2>3
    <2> QED BY <2>1, <2>2, <2>3, ServeEffect
  <1> QED BY <1>1, PanelInvariant, PTL DEF PanelSpec, NoBlindOverwrite

\* A read that left before a success does not put the row from before it back on
\* the page (cancelQueries and the cancelling refetch of invalidateQueries).
THEOREM OldReadsAreDropped == PanelSpec => LateReadsAreDropped
  <1>1. PanelInv /\ [PanelNext]_panelVars => [FinishRead => (read.row.rev >= handled \/ Gap("late"))]_panelVars
    BY DEF PanelInv, ReadInv, FinishRead
  <1> QED BY <1>1, PanelInvariant, PTL DEF PanelSpec, LateReadsAreDropped

\* The next save from the same panel undoes no edit the person saved before it,
\* although the query may still show the row from before that save.
THEOREM SavedStays == PanelSpec => OwnSavesStand
  <1>1. PanelInv /\ PanelInv' /\ [PanelNext]_panelVars =>
          [\A e \in row.has \ person.gaveUp : e > 0 /\ e \notin row'.has => Gap("stale")]_panelVars
    <2> SUFFICES ASSUME PanelInv, PanelInv', [PanelNext]_panelVars, ~Gap("stale"),
                        NEW e \in row.has \ person.gaveUp, e > 0
                 PROVE  e \in row'.has
      OBVIOUS
    <2>1. PanelTyped /\ Numbered /\ Whole /\ StillInv /\ KeptInv /\ RevInv /\ OwnInv
      BY DEF PanelInv, PanelShaped
    <2>2. e \in Mine
      BY <2>1 DEF KeptInv, Own, Mine
    <2>3. CASE ServeSave
      BY <2>1, <2>2, <2>3, ServeEffect, TakenHasOwn
    <2>4. CASE ForeignChange \/ ServeCommand
      BY <2>1, <2>4, ForeignEffect, ServeCommandEffect
    <2>5. CASE row' = row
      BY <2>5
    <2> QED BY <2>3, <2>4, <2>5, PanelSteps DEF StartRead, ServeRead, FinishRead, FailRead, OpenDialog, CloseDialog, Edit,
          Submit, MergeLatest, FailSave, SaveSucceeds, AwaitRefetch, Settle, SaveFails, Reload, RunCommand, FinishCommand,
          panelVars
  <1> QED BY <1>1, PanelInvariant, PTL DEF PanelSpec, OwnSavesStand

\* Trying a creation again whose answer was lost creates nothing a second time (the
\* request key of a payment, the lock of the inbound creator).
THEOREM NothingCreatedTwice == PanelSpec => CreatedOnce
  <1>1. PanelInv /\ [PanelNext]_panelVars =>
          [(ServeSave /\ panel.kind = "create" /\ row' # row) => (save.has \cap kept = {} \/ Gap("twice"))]_panelVars
    <2> SUFFICES ASSUME PanelInv, ServeSave, panel.kind = "create", row' # row, ~Gap("twice") PROVE save.has \cap kept = {}
      OBVIOUS
    <2>1. PanelTyped /\ StillInv /\ OnceInv /\ Holds(panel) /\ HasDialog
      BY OwnRules DEF PanelInv, PanelTyped, HasDialog, IsDialog
    <2>2. save.at = "sent" /\ ~Known
      BY <2>1, ServeEffect DEF Takes
    <2>3. draft.open /\ draft.dialog = save.dialog /\ draft.has = save.has
      BY <2>1, <2>2 DEF StillInv
    <2> QED BY <2>1, <2>2, <2>3 DEF OnceInv, Known
  <1> QED BY <1>1, PanelInvariant, PTL DEF PanelSpec, CreatedOnce

-----------------------------------------------------------------------------
(* SubDesign.  The walk over the members of groups, and chains of groups.   *)
LEMMA DesignFacts ==
  ASSUME NEW d \in Designs
  PROVE  /\ Len(d.groups) \in Nat /\ DOMAIN d.groups = 1..Len(d.groups)
         /\ \A i \in DOMAIN d.groups : /\ d.groups[i] \in DesignGroup
                                       /\ d.groups[i].name \in PolicyNames /\ d.groups[i].members \subseteq PolicyNames
         /\ Len(d.rules) \in Nat /\ DOMAIN d.rules = 1..Len(d.rules)
         /\ \A i \in DOMAIN d.rules : d.rules[i] \in PolicyNames
  <1>1. d.groups \in Seq(DesignGroup) /\ d.rules \in Seq(PolicyNames)
    BY DEF Designs
  <1>2. Len(d.groups) \in Nat /\ DOMAIN d.groups = 1..Len(d.groups) /\ \A i \in DOMAIN d.groups : d.groups[i] \in DesignGroup
    BY <1>1
  <1>3. Len(d.rules) \in Nat /\ DOMAIN d.rules = 1..Len(d.rules) /\ \A i \in DOMAIN d.rules : d.rules[i] \in PolicyNames
    BY <1>1
  <1>4. \A g \in DesignGroup : g.name \in PolicyNames /\ g.members \subseteq PolicyNames
    BY DEF DesignGroup
  <1> QED BY <1>2, <1>3, <1>4

\* The group a name stands for is the first that has it.
LEMMA NamedFacts ==
  ASSUME NEW d \in Designs, NEW p
  PROVE  /\ GroupNamed(d, p) = 0 <=> \A i \in DOMAIN d.groups : d.groups[i].name # p
         /\ GroupNamed(d, p) # 0 => /\ GroupNamed(d, p) \in DOMAIN d.groups
                                    /\ d.groups[GroupNamed(d, p)].name = p
  <1> DEFINE same == {i \in DOMAIN d.groups : d.groups[i].name = p}
  <1>1. DOMAIN d.groups = 1..Len(d.groups) /\ Len(d.groups) \in Nat
    BY DesignFacts
  <1>2. same \in SUBSET Nat /\ 0 \notin same
    BY <1>1
  <1>3. same # {} => Min(same) \in same
    BY <1>2, MinInSet
  <1>4. GroupNamed(d, p) = IF same = {} THEN 0 ELSE Min(same)
    BY DEF GroupNamed
  <1> QED BY <1>2, <1>3, <1>4

WalkStep(d, S) == S \cup UNION {Members(d, p) : p \in S}

IsWalk(d, p, n, f) ==
  f = [k \in 0..n |-> IF k = 0 THEN {p} ELSE WalkStep(d, f[k - 1])]

\* There is a walk of every length: the shortest that is not there follows one that is.
LEMMA WalkExists ==
  ASSUME NEW d \in Designs, NEW p, NEW n \in Nat
  PROVE  \E f : IsWalk(d, p, n, f)
  <1> DEFINE missing == {m \in Nat : ~\E f : IsWalk(d, p, m, f)}
  <1> SUFFICES ASSUME missing # {} PROVE FALSE
    OBVIOUS
  <1>1. missing \in SUBSET Nat
    OBVIOUS
  <1>2. PICK m \in missing : \A k \in missing : m <= k
    BY <1>1, LeastMember
  <1>3. m # 0
    <2>1. IsWalk(d, p, 0, [k \in 0..0 |-> {p}])
      BY DEF IsWalk
    <2> QED BY <1>2, <2>1
  <1>4. m \in Nat /\ m - 1 \in Nat /\ m - 1 \notin missing
    BY <1>2, <1>3
  <1>5. PICK g : IsWalk(d, p, m - 1, g)
    BY <1>4
  <1> DEFINE f == [k \in 0..m |-> IF k = m THEN WalkStep(d, g[m - 1]) ELSE g[k]]
  <1>6. \A k \in 0..(m - 1) : g[k] = IF k = 0 THEN {p} ELSE WalkStep(d, g[k - 1])
    BY <1>5 DEF IsWalk
  <1>7. f = [k \in 0..m |-> IF k = 0 THEN {p} ELSE WalkStep(d, f[k - 1])]
    <2>1. ASSUME NEW k \in 0..m PROVE f[k] = IF k = 0 THEN {p} ELSE WalkStep(d, f[k - 1])
      <3>1. CASE k = 0
        BY <1>3, <1>4, <1>6, <3>1
      <3>2. CASE k # 0 /\ k # m
        <4>1. k \in 0..(m - 1) /\ k - 1 \in 0..m /\ k - 1 # m
          BY <1>4, <3>2
        <4> QED BY <1>6, <3>2, <4>1
      <3>3. CASE k # 0 /\ k = m
        <4>1. m - 1 \in 0..m /\ m - 1 # m
          BY <1>4
        <4> QED BY <3>3, <4>1
      <3> QED BY <3>1, <3>2, <3>3
    <2> QED BY <2>1
  <1>8. IsWalk(d, p, m, f)
    BY <1>7 DEF IsWalk
  <1> QED BY <1>2, <1>8

LEMMA WalkFacts ==
  ASSUME NEW d \in Designs, NEW p
  PROVE  LET w == Walked(d, p) IN
         /\ w[0] = {p}
         /\ \A n \in 1..Len(d.groups) : w[n] = WalkStep(d, w[n - 1])
  <1>0. Len(d.groups) \in Nat
    BY DesignFacts
  <1>1. PICK f : IsWalk(d, p, Len(d.groups), f)
    BY <1>0, WalkExists
  <1>2. IsWalk(d, p, Len(d.groups), Walked(d, p))
    BY <1>1 DEF IsWalk, Walked, WalkStep
  <1>3. \A k \in 0..Len(d.groups) : Walked(d, p)[k] = IF k = 0 THEN {p} ELSE WalkStep(d, Walked(d, p)[k - 1])
    BY <1>2 DEF IsWalk
  <1> HIDE DEF Walked
  <1> QED BY <1>0, <1>3

\* A walk never loses what it found.
LEMMA WalkGrows ==
  ASSUME NEW d \in Designs, NEW p, NEW n \in 0..Len(d.groups)
  PROVE  Walked(d, p)[n] \subseteq Walked(d, p)[Len(d.groups)]
  <1> DEFINE N == Len(d.groups)
             w == Walked(d, p)
             less == {m \in Nat : m <= N /\ n <= m /\ ~(w[n] \subseteq w[m])}
  <1>0. N \in Nat /\ n \in Nat /\ n <= N
    BY DesignFacts
  <1> SUFFICES ASSUME less # {} PROVE FALSE
    BY <1>0
  <1>1. less \in SUBSET Nat
    OBVIOUS
  <1>2. PICK m \in less : \A k \in less : m <= k
    BY <1>1, LeastMember
  <1>3. m \in Nat /\ m # n /\ m <= N /\ n <= m /\ ~(w[n] \subseteq w[m])
    BY <1>2
  <1>4. m - 1 \in Nat /\ m - 1 <= N /\ n <= m - 1 /\ m \in 1..N
    BY <1>0, <1>3
  <1>5. m - 1 \notin less
    BY <1>2, <1>4
  <1>6. w[n] \subseteq w[m - 1]
    BY <1>4, <1>5
  <1>7. w[m - 1] \subseteq w[m]
    BY <1>4, WalkFacts DEF WalkStep
  <1> QED BY <1>3, <1>6, <1>7

LeadsTo(d, i, j) == \E m \in d.groups[i].members : GroupNamed(d, m) = j

\* A chain of n groups from group i.
IsChain(d, i, n, s) ==
  /\ s \in [1..n -> DOMAIN d.groups] /\ s[1] = i
  /\ \A k \in 1..(n - 1) : LeadsTo(d, s[k], s[k + 1])

\* What the last group of a chain contains is found by a walk as long as the chain.
LEMMA ChainIsWalked ==
  ASSUME NEW d \in Designs, NEW p, NEW n \in 1..Len(d.groups), NEW s, IsChain(d, GroupNamed(d, p), n, s)
  PROVE  d.groups[s[n]].members \subseteq Walked(d, p)[n]
  <1> DEFINE N == Len(d.groups)
             w == Walked(d, p)
             missed == {k \in Nat : k \in 1..n /\ ~(d.groups[s[k]].members \subseteq w[k])}
  <1>0. N \in Nat /\ n \in Nat /\ 1 <= n /\ n <= N /\ DOMAIN d.groups = 1..N
    BY DesignFacts
  <1> SUFFICES ASSUME missed # {} PROVE FALSE
    BY <1>0
  <1>1. missed \in SUBSET Nat
    OBVIOUS
  <1>2. PICK k \in missed : \A j \in missed : k <= j
    BY <1>1, LeastMember
  <1>3. k \in Nat /\ k \in 1..n /\ k \in 1..N /\ ~(d.groups[s[k]].members \subseteq w[k])
    BY <1>0, <1>2
  <1>4. w[k] = WalkStep(d, w[k - 1])
    BY <1>3, WalkFacts
  <1>5. s[k] \in 1..N /\ s[k] # 0
    BY <1>0, <1>3 DEF IsChain
  <1>6. \E q \in w[k - 1] : GroupNamed(d, q) = s[k]
    <2>1. CASE k = 1
      <3>1. w[0] = {p} /\ k - 1 = 0
        BY <2>1, WalkFacts
      <3> QED BY <2>1, <3>1 DEF IsChain
    <2>2. CASE k # 1
      <3>1. k - 1 \in 1..(n - 1) /\ k - 1 \in 1..n /\ k - 1 \in Nat /\ (k - 1) + 1 = k
        BY <1>0, <1>3, <2>2
      <3>2. k - 1 \notin missed
        BY <1>2, <1>3, <3>1
      <3>3. d.groups[s[k - 1]].members \subseteq w[k - 1]
        BY <3>1, <3>2
      <3>4. LeadsTo(d, s[k - 1], s[k])
        BY <3>1 DEF IsChain
      <3> QED BY <3>3, <3>4 DEF LeadsTo
    <2> QED BY <2>1, <2>2
  <1>7. PICK q \in w[k - 1] : GroupNamed(d, q) = s[k]
    BY <1>6
  <1>8. Members(d, q) = d.groups[s[k]].members
    BY <1>5, <1>7 DEF Members
  <1> QED BY <1>3, <1>4, <1>7, <1>8 DEF WalkStep

\* What a walk finds is where it began, or in the last group of a chain.
LEMMA WalkIsChained ==
  ASSUME NEW d \in Designs, NEW p, NEW n \in 0..Len(d.groups), NEW x \in Walked(d, p)[n]
  PROVE  \/ x = p
         \/ \E l \in 1..n : \E s : IsChain(d, GroupNamed(d, p), l, s) /\ x \in d.groups[s[l]].members
  <1> DEFINE N == Len(d.groups)
             w == Walked(d, p)
             At(y, k) == \E l \in 1..k : \E s : IsChain(d, GroupNamed(d, p), l, s) /\ y \in d.groups[s[l]].members
             odd == {k \in Nat : k <= N /\ \E y \in w[k] : y # p /\ ~At(y, k)}
  <1>0. N \in Nat /\ n \in Nat /\ n <= N /\ DOMAIN d.groups = 1..N
    BY DesignFacts
  <1> SUFFICES ASSUME odd # {} PROVE FALSE
    BY <1>0
  <1>1. odd \in SUBSET Nat
    OBVIOUS
  <1>2. PICK k \in odd : \A j \in odd : k <= j
    BY <1>1, LeastMember
  <1>3. k \in Nat /\ k <= N
    BY <1>2
  <1>4. PICK y \in w[k] : y # p /\ ~At(y, k)
    BY <1>2
  <1>5. k # 0
    BY <1>4, WalkFacts
  <1>6. k - 1 \in Nat /\ k - 1 <= N /\ k \in 1..N /\ k - 1 \notin odd
    BY <1>0, <1>2, <1>3, <1>5
  <1>7. \A z \in w[k - 1] : z = p \/ At(z, k - 1)
    BY <1>6
  <1>8. w[k] = WalkStep(d, w[k - 1])
    BY <1>6, WalkFacts
  <1>9. ASSUME NEW z, At(z, k - 1) PROVE At(z, k)
    BY <1>3, <1>6, <1>9
  <1>10. y \notin w[k - 1]
    BY <1>4, <1>7, <1>9
  <1>11. PICK q \in w[k - 1] : y \in Members(d, q)
    BY <1>4, <1>8, <1>10 DEF WalkStep
  <1> DEFINE j == GroupNamed(d, q)
  <1>12. j # 0 /\ y \in d.groups[j].members
    BY <1>11 DEF Members
  <1>13. j \in 1..N
    BY <1>0, <1>12, NamedFacts
  <1>14. CASE q = p
    <2> DEFINE s == [i \in 1..1 |-> j]
    <2>1. IsChain(d, j, 1, s) /\ s[1] = j /\ 1 \in 1..k
      BY <1>0, <1>3, <1>6, <1>13 DEF IsChain
    <2> HIDE DEF s
    <2> QED BY <1>4, <1>12, <1>14, <2>1
  <1>15. CASE q # p
    <2>1. PICK l, s : l \in 1..(k - 1) /\ IsChain(d, GroupNamed(d, p), l, s) /\ q \in d.groups[s[l]].members
      BY <1>7, <1>11, <1>15
    <2>2. l \in Nat /\ l >= 1 /\ l + 1 \in 1..k
      BY <1>3, <1>6, <2>1
    <2> DEFINE t == [i \in 1..(l + 1) |-> IF i = l + 1 THEN j ELSE s[i]]
    <2>3. s \in [1..l -> 1..N] /\ s[1] = GroupNamed(d, p) /\ \A i \in 1..(l - 1) : LeadsTo(d, s[i], s[i + 1])
      BY <1>0, <2>1 DEF IsChain
    <2>4. t \in [1..(l + 1) -> 1..N]
      BY <1>13, <2>2, <2>3
    <2>5. t[1] = GroupNamed(d, p) /\ t[l + 1] = j /\ t[l] = s[l]
      BY <2>2, <2>3
    <2>6. ASSUME NEW i \in 1..l PROVE LeadsTo(d, t[i], t[i + 1])
      <3>1. CASE i = l
        BY <2>1, <2>5, <3>1 DEF LeadsTo
      <3>2. CASE i # l
        <4>1. i \in 1..(l - 1) /\ i + 1 # l + 1 /\ i # l + 1 /\ i + 1 \in 1..(l + 1) /\ i \in 1..(l + 1)
          BY <2>2, <3>2
        <4>2. t[i] = s[i] /\ t[i + 1] = s[i + 1]
          BY <4>1
        <4> QED BY <2>3, <4>1, <4>2
      <3> QED BY <3>1, <3>2
    <2> HIDE DEF t
    <2>7. (l + 1) - 1 = l
      BY <2>2
    <2>8. IsChain(d, GroupNamed(d, p), l + 1, t)
      BY <1>0, <2>4, <2>5, <2>6, <2>7 DEF IsChain
    <2>9. At(y, k)
      BY <1>12, <2>2, <2>5, <2>8
    <2> QED BY <1>4, <2>9
  <1> QED BY <1>14, <1>15

LEMMA OfferedAlways ==
  ASSUME design \in Designs
  PROVE  OfferedIsProtected
  <1> DEFINE N == Len(design.groups)
             Leads(i, j) == \E m \in design.groups[i].members : GroupNamed(design, m) = j
             direct == {i \in DOMAIN design.groups : "DIRECT" \in design.groups[i].members}
             Chains(i) == {s \in UNION {[1..n -> DOMAIN design.groups] : n \in 1..Len(design.groups)} :
                             s[1] = i /\ \A k \in 1..(Len(s) - 1) : Leads(s[k], s[k + 1])}
  <1>0. N \in Nat /\ DOMAIN design.groups = 1..N
    BY DesignFacts
  <1>1. SUFFICES ASSUME NEW p \in Names(design)
                 PROVE  p \in Offered(design) <=> p # "DIRECT" /\ ~\E s \in Chains(GroupNamed(design, p)) : Last(s) \in direct
    BY DEF OfferedIsProtected
  <1> DEFINE g == GroupNamed(design, p)
  <1>2. p \in Offered(design) <=> "DIRECT" \notin Walked(design, p)[N]
    BY DEF Offered, DesignPolicyCanDirect
  <1>3. g \in 1..N
    BY <1>0, NamedFacts DEF Names
  <1>4. \A n \in 1..N : \A s : IsChain(design, g, n, s) <=> s \in Chains(g) /\ Len(s) = n
    <2> TAKE n \in 1..N
    <2> TAKE s
    <2>1. s \in [1..n -> DOMAIN design.groups] => Len(s) = n
      BY <1>0, RowsAreSeq
    <2>2. ASSUME s \in Chains(g), Len(s) = n PROVE IsChain(design, g, n, s)
      <3>1. PICK m \in 1..N : s \in [1..m -> DOMAIN design.groups]
        BY <2>2
      <3>2. Len(s) = m
        BY <1>0, <3>1, RowsAreSeq
      <3> QED BY <2>2, <3>1, <3>2 DEF IsChain, LeadsTo
    <2>3. ASSUME IsChain(design, g, n, s) PROVE s \in Chains(g)
      BY <1>0, <2>1, <2>3 DEF IsChain, LeadsTo
    <2> QED BY <2>1, <2>2, <2>3 DEF IsChain
  <1>5. \A n \in 1..N : \A s : IsChain(design, g, n, s) => (Last(s) \in direct <=> "DIRECT" \in design.groups[s[n]].members)
    <2> TAKE n \in 1..N
    <2> TAKE s
    <2> HAVE IsChain(design, g, n, s)
    <2>1. Len(s) = n /\ s[n] \in DOMAIN design.groups
      BY <1>0, RowsAreSeq DEF IsChain
    <2> QED BY <2>1 DEF Last
  <1>6. ASSUME NEW s \in Chains(g) PROVE Len(s) \in 1..N
    <2>1. PICK m \in 1..N : s \in [1..m -> DOMAIN design.groups]
      OBVIOUS
    <2> QED BY <1>0, <2>1, RowsAreSeq
  <1> HIDE DEF Chains, direct
  <1>7. ASSUME p = "DIRECT" PROVE "DIRECT" \in Walked(design, p)[N]
    <2>1. Walked(design, p)[0] = {p} /\ 0 \in 0..N
      BY <1>0, WalkFacts
    <2>2. Walked(design, p)[0] \subseteq Walked(design, p)[N]
      BY <2>1, WalkGrows
    <2> QED BY <1>7, <2>1, <2>2
  <1>8. ASSUME NEW s \in Chains(g), Last(s) \in direct PROVE "DIRECT" \in Walked(design, p)[N]
    <2>1. Len(s) \in 1..N /\ IsChain(design, g, Len(s), s)
      BY <1>4, <1>6
    <2>2. "DIRECT" \in design.groups[s[Len(s)]].members
      BY <1>5, <1>8, <2>1
    <2>3. design.groups[s[Len(s)]].members \subseteq Walked(design, p)[Len(s)]
      BY <2>1, ChainIsWalked
    <2>4. Walked(design, p)[Len(s)] \subseteq Walked(design, p)[N]
      BY <1>0, <2>1, WalkGrows
    <2> QED BY <2>2, <2>3, <2>4
  <1>9. ASSUME p # "DIRECT", "DIRECT" \in Walked(design, p)[N] PROVE \E s \in Chains(g) : Last(s) \in direct
    <2>1. N \in 0..N
      BY <1>0
    <2>2. PICK l, s : l \in 1..N /\ IsChain(design, g, l, s) /\ "DIRECT" \in design.groups[s[l]].members
      BY <1>9, <2>1, WalkIsChained
    <2> QED BY <1>4, <1>5, <2>2
  <1> QED BY <1>2, <1>7, <1>8, <1>9

-----------------------------------------------------------------------------
(* Renaming a group, when every group has a name of its own.                *)

\* As many names as groups: none is empty, built in or of another group.
LEMMA OwnNamesDiffer ==
  ASSUME NEW d \in Designs, OwnNames(d)
  PROVE  /\ \A i \in DOMAIN d.groups : d.groups[i].name \notin {"", Undefined} \cup Fixed
         /\ \A i, j \in DOMAIN d.groups : d.groups[i].name = d.groups[j].name => i = j
  <1> DEFINE own == Names(d) \ (Fixed \cup {Undefined})
             N == Len(d.groups)
             named == {i \in DOMAIN d.groups : d.groups[i].name \in own}
  <1>0. N \in Nat /\ DOMAIN d.groups = 1..N
    BY DesignFacts
  <1>1. IsFiniteSet(1..N) /\ Cardinality(1..N) = N
    BY <1>0, FS_Interval
  <1>2. Cardinality(own) = N
    BY DEF OwnNames
  <1>3. \A x \in own : \E i \in 1..N : d.groups[i].name = x
    BY <1>0 DEF Names
  <1>4. ASSUME NEW bad \in 1..N, \A x \in own : \E i \in (1..N) \ {bad} : d.groups[i].name = x
        PROVE  FALSE
    <2> DEFINE rest == (1..N) \ {bad}
    <2>0. /\ IsFiniteSet(rest)
          /\ Cardinality(rest) = IF bad \in 1..N THEN Cardinality(1..N) - 1 ELSE Cardinality(1..N)
      BY <1>1, FS_RemoveElement, Zenon
    <2>1. IsFiniteSet(rest) /\ Cardinality(rest) = N - 1
      BY <1>1, <2>0
    <2> DEFINE f == [x \in own |-> CHOOSE i \in rest : d.groups[i].name = x]
    <2>2. \A x \in own : f[x] \in rest /\ d.groups[f[x]].name = x
      BY <1>4
    <2>3. f \in Injection(own, rest)
      <3>1. f \in [own -> rest]
        BY <2>2
      <3>2. \A a, b \in own : f[a] = f[b] => a = b
        BY <2>2
      <3> HIDE DEF f
      <3> QED BY <3>1, <3>2 DEF Injection, IsInjective
    <2> HIDE DEF f
    <2>4. Cardinality(own) <= Cardinality(rest)
      BY <2>1, <2>3, FS_Injection
    <2> QED BY <1>0, <1>2, <2>1, <2>4
  <1>5. ASSUME NEW i \in 1..N, d.groups[i].name \notin own PROVE FALSE
    <2>1. \A x \in own : \E j \in (1..N) \ {i} : d.groups[j].name = x
      BY <1>3, <1>5
    <2> QED BY <1>4, <2>1
  <1>6. ASSUME NEW i \in 1..N, NEW j \in 1..N, d.groups[i].name = d.groups[j].name, i # j PROVE FALSE
    <2>1. \A x \in own : \E k \in (1..N) \ {i} : d.groups[k].name = x
      BY <1>3, <1>6
    <2> QED BY <1>4, <2>1
  <1>7. \A x \in own : x \notin {"", Undefined} \cup Fixed
    BY DEF Names
  <1> QED BY <1>0, <1>5, <1>6, <1>7

\* The group of a name, when names differ.
LEMMA NamedIs ==
  ASSUME NEW d \in Designs, NEW i \in DOMAIN d.groups,
         \A j \in DOMAIN d.groups : d.groups[j].name = d.groups[i].name => j = i
  PROVE  GroupNamed(d, d.groups[i].name) = i
  BY NamedFacts

NowNamed(d, i, name, p) == IF d.groups[i].name # "" /\ p = d.groups[i].name THEN name ELSE p

\* What a renaming makes of a design.
RenamedAs(d, i, name, r) ==
  /\ r \in Designs
  /\ DOMAIN r.groups = DOMAIN d.groups /\ DOMAIN r.rules = DOMAIN d.rules
  /\ \A j \in DOMAIN d.groups : /\ r.groups[j].name = IF j = i THEN name ELSE d.groups[j].name
                                /\ r.groups[j].members = {NowNamed(d, i, name, m) : m \in d.groups[j].members}
  /\ \A j \in DOMAIN d.rules : r.rules[j] = NowNamed(d, i, name, d.rules[j])
  /\ r.final = NowNamed(d, i, name, d.final) /\ r.claudePolicy = NowNamed(d, i, name, d.claudePolicy) /\ r.dnsPolicy = NowNamed(d, i, name, d.dnsPolicy)
  /\ r.claude = d.claude /\ r.claudeRules = d.claudeRules

LEMMA RenamedFacts ==
  ASSUME NEW d \in Designs, NEW i \in DOMAIN d.groups, NEW name \in PolicyNames
  PROVE  RenamedAs(d, i, name, RenameDesignGroup(d, i, name))
  <1> DEFINE r == RenameDesignGroup(d, i, name)
             Named(p) == NowNamed(d, i, name, p)
             G == [j \in DOMAIN d.groups |-> [name |-> IF j = i THEN name ELSE d.groups[j].name,
                                              members |-> {Named(m) : m \in d.groups[j].members}]]
             R == [j \in DOMAIN d.rules |-> Named(d.rules[j])]
  <1>0. /\ Len(d.groups) \in Nat /\ DOMAIN d.groups = 1..Len(d.groups)
        /\ Len(d.rules) \in Nat /\ DOMAIN d.rules = 1..Len(d.rules)
        /\ \A j \in DOMAIN d.groups : d.groups[j].name \in PolicyNames /\ d.groups[j].members \subseteq PolicyNames
        /\ \A j \in DOMAIN d.rules : d.rules[j] \in PolicyNames
    BY DesignFacts
  <1>1. \A p \in PolicyNames : Named(p) \in PolicyNames
    BY DEF NowNamed
  <1>2. ASSUME NEW j \in DOMAIN d.groups PROVE G[j] \in DesignGroup
    BY <1>0, <1>1 DEF DesignGroup
  <1>3. G \in Seq(DesignGroup)
    BY <1>0, <1>2, RowsAreSeq
  <1>4. R \in Seq(PolicyNames)
    BY <1>0, <1>1, RowsAreSeq
  <1>5. r = [d EXCEPT !.groups = G, !.rules = R, !.final = Named(@), !.claudePolicy = Named(@), !.dnsPolicy = Named(@)]
    BY DEF RenameDesignGroup, NowNamed
  <1>6. d.final \in PolicyNames /\ d.claudePolicy \in PolicyNames /\ d.dnsPolicy \in PolicyNames
    BY DEF Designs
  <1>7. \A j \in DOMAIN d.groups : G[j].name = (IF j = i THEN name ELSE d.groups[j].name) /\ G[j].members = {Named(m) : m \in d.groups[j].members}
    OBVIOUS
  <1>8. \A j \in DOMAIN d.rules : R[j] = Named(d.rules[j])
    OBVIOUS
  <1>9. DOMAIN G = DOMAIN d.groups /\ DOMAIN R = DOMAIN d.rules
    OBVIOUS
  <1>11. Named(d.final) \in PolicyNames /\ Named(d.claudePolicy) \in PolicyNames /\ Named(d.dnsPolicy) \in PolicyNames
    BY <1>1, <1>6
  <1> HIDE DEF G, R, r
  <1>10. /\ r \in Designs /\ r.groups = G /\ r.rules = R /\ r.final = Named(d.final)
         /\ r.claudePolicy = Named(d.claudePolicy) /\ r.dnsPolicy = Named(d.dnsPolicy)
         /\ r.claude = d.claude /\ r.claudeRules = d.claudeRules
    <2> HIDE DEF Named
    <2> QED BY <1>3, <1>4, <1>5, <1>11 DEF Designs
  <1> QED BY <1>7, <1>8, <1>9, <1>10 DEF r, RenamedAs

LEMMA RenameKeeps ==
  ASSUME NEW d \in Designs, NEW i \in DOMAIN d.groups, NEW name \in PolicyNames,
         OwnNames(d), AllDefined(d), OwnNames(RenameDesignGroup(d, i, name))
  PROVE  Resolved(RenameDesignGroup(d, i, name)) = Resolved(d)
  <1> DEFINE r == RenameDesignGroup(d, i, name)
             Named(p) == NowNamed(d, i, name, p)
  <1>1. /\ r \in Designs
        /\ DOMAIN r.groups = DOMAIN d.groups /\ DOMAIN r.rules = DOMAIN d.rules
        /\ \A j \in DOMAIN d.groups : /\ r.groups[j].name = IF j = i THEN name ELSE d.groups[j].name
                                      /\ r.groups[j].members = {Named(m) : m \in d.groups[j].members}
        /\ \A j \in DOMAIN d.rules : r.rules[j] = Named(d.rules[j])
        /\ r.final = Named(d.final) /\ r.claudePolicy = Named(d.claudePolicy) /\ r.dnsPolicy = Named(d.dnsPolicy)
    BY RenamedFacts DEF RenamedAs
  <1> HIDE DEF r
  <1>0. r \in Designs /\ DOMAIN r.groups = DOMAIN d.groups
    BY <1>1
  <1> USE DEF NowNamed
  <1>2. /\ \A j \in DOMAIN d.groups : d.groups[j].name \notin {"", Undefined} \cup Fixed
        /\ \A j, k \in DOMAIN d.groups : d.groups[j].name = d.groups[k].name => j = k
    BY OwnNamesDiffer
  <1>3. OwnNames(r)
    BY DEF r
  <1>4. /\ \A j \in DOMAIN r.groups : r.groups[j].name \notin {"", Undefined} \cup Fixed
        /\ \A j, k \in DOMAIN r.groups : r.groups[j].name = r.groups[k].name => j = k
    BY <1>1, <1>3, OwnNamesDiffer
  <1>5. name \notin {"", Undefined} \cup Fixed
    BY <1>1, <1>4
  <1>6. ASSUME NEW p \in Names(d) \cup Fixed \cup {Undefined} PROVE Target(r, Named(p)) = Target(d, p)
    <2>1. CASE p \in Fixed
      <3>1. Named(p) = p
        BY <1>2, <2>1
      <3> QED BY <2>1, <3>1 DEF Target
    <2>2. CASE p = Undefined
      <3>1. Named(p) = p /\ p \notin Fixed
        BY <1>2, <2>2 DEF Undefined, Fixed
      <3>2. GroupNamed(d, p) = 0
        BY <1>2, <2>2, NamedFacts
      <3>3. GroupNamed(r, p) = 0
        BY <1>0, <1>4, <2>2, NamedFacts
      <3> QED BY <3>1, <3>2, <3>3 DEF Target
    <2>3. CASE p \in Names(d) /\ p \notin Fixed
      <3>1. PICK j \in DOMAIN d.groups : d.groups[j].name = p
        BY <2>3 DEF Names
      <3>2. GroupNamed(d, p) = j
        BY <1>2, <3>1, NamedIs
      <3>3. r.groups[j].name = Named(p)
        <4>1. CASE j = i
          BY <1>1, <1>2, <3>1, <4>1
        <4>2. CASE j # i
          BY <1>1, <1>2, <3>1, <4>2
        <4> QED BY <4>1, <4>2
      <3>4. GroupNamed(r, Named(p)) = j
        <4>1. r.groups[j].name = Named(p) /\ j \in DOMAIN r.groups
          BY <1>0, <3>3
        <4>2. GroupNamed(r, r.groups[j].name) = j
          BY <1>0, <1>4, <4>1, NamedIs
        <4> QED BY <4>1, <4>2
      <3>5. Named(p) \notin Fixed
        BY <1>1, <1>4, <3>3
      <3> QED BY <2>3, <3>2, <3>4, <3>5 DEF Target
    <2> QED BY <2>1, <2>2, <2>3
  <1>7. References(d) \subseteq Names(d) \cup Fixed \cup {Undefined}
    BY DEF AllDefined
  <1>8. ASSUME NEW j \in DOMAIN d.groups
        PROVE  {Target(r, m) : m \in r.groups[j].members} = {Target(d, m) : m \in d.groups[j].members}
    <2>1. d.groups[j].members \subseteq Names(d) \cup Fixed \cup {Undefined}
      BY <1>7 DEF References
    <2>2. r.groups[j].members = {Named(m) : m \in d.groups[j].members}
      BY <1>1
    <2>3. \A m \in d.groups[j].members : Target(r, Named(m)) = Target(d, m)
      BY <1>6, <2>1
    <2> HIDE DEF Named
    <2> QED BY <2>2, <2>3
  <1>9. ASSUME NEW j \in DOMAIN d.rules PROVE Target(r, r.rules[j]) = Target(d, d.rules[j])
    <2>0. d.rules[j] \in Range(d.rules)
      BY DEF Range
    <2>2. Range(d.rules) \subseteq References(d)
      BY Zenon DEF References
    <2>1. d.rules[j] \in Names(d) \cup Fixed \cup {Undefined}
      BY <1>7, <2>0, <2>2
    <2> QED BY <1>1, <1>6, <2>1
  <1>10. /\ Target(r, r.final) = Target(d, d.final) /\ Target(r, r.claudePolicy) = Target(d, d.claudePolicy)
         /\ Target(r, r.dnsPolicy) = Target(d, d.dnsPolicy)
    <2>0. {d.final, d.claudePolicy, d.dnsPolicy} \subseteq References(d)
      BY Zenon DEF References
    <2>1. {d.final, d.claudePolicy, d.dnsPolicy} \subseteq Names(d) \cup Fixed \cup {Undefined}
      BY <1>7, <2>0
    <2> QED BY <1>1, <1>6, <2>1
  <1>11. [j \in DOMAIN r.groups |-> {Target(r, m) : m \in r.groups[j].members}]
           = [j \in DOMAIN d.groups |-> {Target(d, m) : m \in d.groups[j].members}]
    BY <1>1, <1>8
  <1>12. [j \in DOMAIN r.rules |-> Target(r, r.rules[j])] = [j \in DOMAIN d.rules |-> Target(d, d.rules[j])]
    BY <1>1, <1>9
  <1> QED BY <1>10, <1>11, <1>12 DEF Resolved, r

-----------------------------------------------------------------------------
(* The invariant of the design: its types, and that a review of the draft   *)
(* knows which rules it was opened with.                                    *)
RulesReviews ==
  {NoRulesReview} \cup [kind : {"library"}, version : Nat]
    \cup [kind : {"draft"}, expected : Designs, of : Nat, version : Nat]

DesignInv ==
  /\ design \in Designs /\ library \in Nat
  /\ presetAsked \in DesignPresets \cup {NoPreset}
  /\ rulesReview \in RulesReviews
  /\ rulesReview.kind = "draft" => rulesReview.of = DraftClaudeRules(rulesReview.expected)

\* An edit of the form: another design that publishes the same rules.
SameRules(d) == d \in Designs /\ d.claudeRules = design.claudeRules

LEMMA EditedWith ==
  ASSUME design \in Designs
  PROVE  /\ \A gs \in Seq(DesignGroup) : SameRules([design EXCEPT !.groups = gs])
         /\ \A rs \in Seq(PolicyNames) : SameRules([design EXCEPT !.rules = rs])
         /\ \A on \in BOOLEAN : SameRules([design EXCEPT !.claude = on])
         /\ \A p \in PolicyNames : /\ SameRules([design EXCEPT !.final = p])
                                   /\ SameRules([design EXCEPT !.claudePolicy = p])
                                   /\ SameRules([design EXCEPT !.dnsPolicy = p])
  BY DEF SameRules, Designs

LEMMA DesignIsEdited ==
  ASSUME DesignInv, NEW d, SameRules(d), EditDesign(d)
  PROVE  /\ DesignInv' /\ DraftClaudeRules(design') = DraftClaudeRules(design)
  <1>1. design' = d /\ library' = library /\ presetAsked' = NoPreset
    BY DEF EditDesign, Change
  <1>2. rulesReview' \in {rulesReview, NoRulesReview}
    BY DEF EditDesign, Change
  <1>3. NoRulesReview \in RulesReviews /\ NoRulesReview.kind # "draft"
    BY DEF NoRulesReview, RulesReviews
  <1>4. rulesReview' = NoRulesReview
    BY <1>2 DEF EditDesign
  <1> QED BY <1>1, <1>3, <1>4 DEF DesignInv, SameRules, DraftClaudeRules

\* The actions of the form.
FormStep ==
  \/ AddGroup \/ AddRule \/ DeleteRule \/ ToggleClaude
  \/ \E i \in DOMAIN design.groups :
       \/ MoveGroup(i) \/ DeleteGroup(i)
       \/ \E name \in GroupNames \cup {""} : Rename(i, name)
       \/ \E m \in GroupNames \cup Fixed \cup {""} : SetMember(i, m)
  \/ \E p \in GroupNames \cup Fixed \cup {Undefined} : SetPolicy(p) \/ SetProtection(p)

LEMMA FormIsEdited ==
  ASSUME DesignInv, FormStep
  PROVE  \E d : SameRules(d) /\ EditDesign(d)
  <1>0. /\ design \in Designs /\ design.groups \in Seq(DesignGroup) /\ design.rules \in Seq(PolicyNames)
        /\ design.claude \in BOOLEAN
    BY DEF DesignInv, Designs
  <1>1. /\ Len(design.groups) \in Nat /\ DOMAIN design.groups = 1..Len(design.groups)
        /\ \A i \in DOMAIN design.groups : /\ design.groups[i] \in DesignGroup
                                           /\ design.groups[i].name \in PolicyNames /\ design.groups[i].members \subseteq PolicyNames
    BY <1>0, DesignFacts
  <1>2. Names(design) \subseteq PolicyNames
    BY <1>1 DEF Names
  <1>3. "DIRECT" \in PolicyNames /\ Fixed \subseteq PolicyNames /\ Undefined \in PolicyNames /\ GroupNames \subseteq PolicyNames
        /\ "" \in PolicyNames /\ "@all" \in PolicyNames
    BY DEF PolicyNames, Fixed
  <1>4. CASE AddGroup
    <2>1. [name |-> "", members |-> {"@all"}] \in DesignGroup
      BY <1>3 DEF DesignGroup
    <2>2. Append(design.groups, [name |-> "", members |-> {"@all"}]) \in Seq(DesignGroup)
      BY <1>0, <2>1, AppendProperties
    <2> QED BY <1>0, <1>4, <2>2, EditedWith DEF AddGroup
  <1>5. CASE AddRule
    <2>1. PICK p \in (IF Names(design) = {} THEN {"DIRECT"} ELSE Names(design)) : EditDesign([design EXCEPT !.rules = <<p>>])
      BY <1>5 DEF AddRule
    <2>2. p \in PolicyNames
      BY <1>2, <1>3, <2>1
    <2>3. <<p>> \in Seq(PolicyNames)
      BY <2>2
    <2> QED BY <1>0, <2>1, <2>3, EditedWith
  <1>6. CASE DeleteRule
    <2>1. << >> \in Seq(PolicyNames)
      OBVIOUS
    <2> QED BY <1>0, <1>6, <2>1, EditedWith DEF DeleteRule
  <1>7. CASE ToggleClaude
    <2>1. (~design.claude) \in BOOLEAN
      OBVIOUS
    <2> QED BY <1>0, <1>7, <2>1, EditedWith DEF ToggleClaude, SetClaudeEnabled
  <1>8. ASSUME NEW i \in DOMAIN design.groups, MoveGroup(i) PROVE \E d : SameRules(d) /\ EditDesign(d)
    <2> DEFINE gs == [design.groups EXCEPT ![i] = design.groups[i + 1], ![i + 1] = design.groups[i]]
    <2>1. i + 1 \in DOMAIN design.groups
      BY <1>8 DEF MoveGroup
    <2>2. gs \in [1..Len(design.groups) -> DesignGroup]
      BY <1>0, <1>1, <2>1
    <2>3. gs \in Seq(DesignGroup)
      BY <1>1, <2>2, RowsAreSeq
    <2>4. MoveDesignItem(design.groups, i, 1) = gs
      BY <2>1 DEF MoveDesignItem
    <2> HIDE DEF gs
    <2> QED BY <1>0, <1>8, <2>3, <2>4, EditedWith DEF MoveGroup
  <1>9. ASSUME NEW i \in DOMAIN design.groups, DeleteGroup(i) PROVE \E d : SameRules(d) /\ EditDesign(d)
    <2>1. RemoveAt(design.groups, i) \in Seq(DesignGroup)
      BY <1>0, <1>1, RemoveAtType
    <2> QED BY <1>0, <1>9, <2>1, EditedWith DEF DeleteGroup
  <1>10. ASSUME NEW i \in DOMAIN design.groups, NEW name \in GroupNames \cup {""}, Rename(i, name)
         PROVE  \E d : SameRules(d) /\ EditDesign(d)
    <2>1. name \in PolicyNames
      BY <1>3
    <2>2. SameRules(RenameDesignGroup(design, i, name))
      BY <1>0, <2>1, RenamedFacts DEF RenamedAs, SameRules
    <2> QED BY <1>10, <2>2 DEF Rename
  <1>11. ASSUME NEW i \in DOMAIN design.groups, NEW m \in GroupNames \cup Fixed \cup {""}, SetMember(i, m)
         PROVE  \E d : SameRules(d) /\ EditDesign(d)
    <2> DEFINE old == design.groups[i].members
               new == IF m \in old THEN old \ {m} ELSE old \cup {m}
               gs == [design.groups EXCEPT ![i].members = new]
    <2>1. m \in PolicyNames
      BY <1>3
    <2>2. new \in SUBSET PolicyNames
      BY <1>1, <2>1
    <2>3. [design.groups[i] EXCEPT !.members = new] \in DesignGroup
      <3> HIDE DEF new
      <3> QED BY <1>1, <2>2 DEF DesignGroup
    <2>4. gs \in [1..Len(design.groups) -> DesignGroup]
      <3> HIDE DEF new
      <3> QED BY <1>0, <1>1, <2>3
    <2>5. gs \in Seq(DesignGroup)
      BY <1>1, <2>4, RowsAreSeq
    <2>6. EditDesign([design EXCEPT !.groups = gs])
      BY <1>11 DEF SetMember
    <2> HIDE DEF gs
    <2> QED BY <1>0, <2>5, <2>6, EditedWith
  <1>12. ASSUME NEW p \in GroupNames \cup Fixed \cup {Undefined}, SetPolicy(p) \/ SetProtection(p)
         PROVE  \E d : SameRules(d) /\ EditDesign(d)
    <2>1. p \in PolicyNames
      BY <1>3
    <2>2. CASE EditDesign([design EXCEPT !.final = p]) \/ EditDesign([design EXCEPT !.claudePolicy = p]) \/ EditDesign([design EXCEPT !.dnsPolicy = p])
      BY <1>0, <2>1, <2>2, EditedWith
    <2>3. CASE design.rules # << >> /\ EditDesign([design EXCEPT !.rules[1] = p])
      <3>1. [design.rules EXCEPT ![1] = p] \in Seq(PolicyNames)
        <4>1. Len(design.rules) \in Nat /\ design.rules \in [1..Len(design.rules) -> PolicyNames]
          BY <1>0
        <4>2. [design.rules EXCEPT ![1] = p] \in [1..Len(design.rules) -> PolicyNames]
          BY <2>1, <4>1
        <4> QED BY <4>1, <4>2, RowsAreSeq
      <3> QED BY <1>0, <2>3, <3>1, EditedWith
    <2> QED BY <1>12, <2>2, <2>3 DEF SetPolicy, SetProtection
  <1> QED BY <1>4, <1>5, <1>6, <1>7, <1>8, <1>9, <1>10, <1>11, <1>12 DEF FormStep

LEMMA DesignStarts == DesignInit => DesignInv
  BY DesignBounds DEF DesignInit, DesignInv, RulesReviews, NoRulesReview

\* What a step may do to the rules a draft publishes.
ByReview ==
  DraftClaudeRules(design') # DraftClaudeRules(design) =>
    \/ design' = presetAsked
    \/ rulesReview.kind = "draft" /\ rulesReview.of = DraftClaudeRules(design)
       /\ design' = [rulesReview.expected EXCEPT !.claudeRules = rulesReview.version]

LEMMA DesignSteps ==
  ASSUME DesignInv, [DesignNext]_designVars
  PROVE  DesignInv' /\ ByReview
  <1>0. NoRulesReview \in RulesReviews /\ NoRulesReview.kind # "draft" /\ NoRulesReview.kind = "closed"
    BY DEF NoRulesReview, RulesReviews
  <1>1. ASSUME NEW d, SameRules(d), EditDesign(d) PROVE DesignInv' /\ ByReview
    BY <1>1, DesignIsEdited DEF ByReview
  <1>2. CASE PresetLands
    <2>1. presetAsked \in Designs /\ presetAsked' = NoPreset /\ design' = presetAsked /\ library' = library
      BY <1>2, DesignBounds DEF PresetLands, Change, DesignInv
    <2>2. CASE rulesReview' = rulesReview
      BY <2>1, <2>2 DEF DesignInv, ByReview
    <2>3. CASE rulesReview' = NoRulesReview
      BY <1>0, <2>1, <2>3 DEF DesignInv, ByReview
    <2> QED BY <1>2, <2>2, <2>3 DEF PresetLands, Change
  <1>3. CASE SyncLibrary
    <2>1. design' = design /\ presetAsked' = presetAsked /\ library' \in Nat
      BY <1>3 DEF SyncLibrary, DesignInv
    <2>2. CASE UNCHANGED rulesReview
      BY <2>1, <2>2 DEF DesignInv, ByReview
    <2>3. CASE rulesReview' = [kind |-> "library", version |-> library']
      <3>1. rulesReview' \in RulesReviews /\ rulesReview'.kind # "draft"
        BY <2>1, <2>3 DEF RulesReviews
      <3> QED BY <2>1, <3>1 DEF DesignInv, ByReview
    <2> QED BY <1>3, <2>2, <2>3 DEF SyncLibrary
  <1>4. CASE OpenDraftReview
    <2>1. design' = design /\ presetAsked' = presetAsked /\ library' = library
      BY <1>4 DEF OpenDraftReview
    <2> DEFINE v == IF rulesReview = NoRulesReview THEN library ELSE rulesReview.version
    <2>2. v \in Nat
      BY <1>4 DEF OpenDraftReview, DesignInv, RulesReviews
    <2>3. DraftClaudeRules(design) \in Nat
      BY DEF DesignInv, Designs, DraftClaudeRules
    <2>4. rulesReview' = [kind |-> "draft", expected |-> design, of |-> DraftClaudeRules(design), version |-> v]
      BY <1>4 DEF OpenDraftReview
    <2> HIDE DEF v
    <2>5. rulesReview' \in RulesReviews /\ rulesReview'.of = DraftClaudeRules(rulesReview'.expected)
      BY <2>2, <2>3, <2>4 DEF RulesReviews, DesignInv
    <2> QED BY <2>1, <2>5 DEF DesignInv, ByReview
  <1>5. CASE CloseReview
    BY <1>0, <1>5 DEF CloseReview, DesignInv, ByReview
  <1>6. CASE Adopt
    <2>1. /\ rulesReview.kind = "draft" /\ rulesReview.expected = design /\ rulesReview' = NoRulesReview
          /\ presetAsked' = NoPreset /\ library' = library
          /\ design' = AdoptClaudeRules(design, rulesReview.expected, rulesReview.version)
      BY <1>6 DEF Adopt
    <2>2. rulesReview \in [kind : {"draft"}, expected : Designs, of : Nat, version : Nat]
      BY <1>0, <2>1 DEF DesignInv, RulesReviews
    <2>3. rulesReview.version \in Nat
      BY <2>2
    <2>4. rulesReview.of = DraftClaudeRules(design)
      BY <2>1 DEF DesignInv
    <2>5. design' = design \/ design' = [rulesReview.expected EXCEPT !.claudeRules = rulesReview.version]
      BY <2>1 DEF AdoptClaudeRules
    <2>6. design' \in Designs
      BY <2>1, <2>3, <2>5 DEF DesignInv, Designs
    <2> QED BY <1>0, <2>1, <2>4, <2>5, <2>6 DEF DesignInv, ByReview
  <1>7. CASE \E p \in DesignPresets : AskPreset(p)
    BY <1>7 DEF AskPreset, DesignInv, ByReview
  <1>8. CASE UNCHANGED designVars
    BY <1>8 DEF designVars, DesignInv, ByReview
  <1> QED BY <1>1, <1>2, <1>3, <1>4, <1>5, <1>6, <1>7, <1>8, FormIsEdited DEF DesignNext, FormStep

\* A step that renames a group.
LEMMA DesignRenames ==
  ASSUME DesignInv
  PROVE  design' # design /\ Renames(design') /\ OwnNames(design) /\ AllDefined(design) /\ OwnNames(design') =>
           Resolved(design') = Resolved(design)
  <1> HAVE design' # design /\ Renames(design') /\ OwnNames(design) /\ AllDefined(design) /\ OwnNames(design')
  <1>1. PICK i \in DOMAIN design.groups, name \in GroupNames \cup {""} : design' = RenameDesignGroup(design, i, name)
    BY DEF Renames
  <1>2. name \in PolicyNames /\ design \in Designs
    BY DEF DesignInv, PolicyNames
  <1>3. OwnNames(RenameDesignGroup(design, i, name))
    BY <1>1
  <1> QED BY <1>1, <1>2, <1>3, RenameKeeps

-----------------------------------------------------------------------------
(* ChangesetDraft.  The form, what is sent and what the server keeps.       *)
KeepValues == {<< >>} \cup {<<v>> : v \in FieldValues}
InboundOps ==
  {Gone} \cup [on : {TRUE}, key : Nat, edit : BOOLEAN, tag : Nat, proto : Protos, settings : {"s1", "s2", "kept"}]
LineOps == {Gone} \cup [on : {TRUE}, ref : {"", "n"}]
EntryOps == {Gone} \cup [on : {TRUE}, field : FieldValues, keep : KeepValues]

InboundInputs ==
  {Gone} \cup [on : {TRUE}, key : Nat, edit : {TRUE}, tag : Nat]
    \cup [on : {TRUE}, key : Nat, edit : {FALSE}, tag : Nat, proto : Protos, settings : {"s1", "s2", "kept", "default"}]
EntryInputs == {Gone} \cup [on : {TRUE}, field : KeepValues]

IsForm(m) ==
  /\ m = [k \in Key |-> m[k]]
  /\ m["n"] \in InboundOps /\ m["l"] \in LineOps /\ m["e"] \in EntryOps
IsInput(o) ==
  /\ o = [k \in Key |-> o[k]]
  /\ o["n"] \in InboundInputs /\ o["l"] \in LineOps /\ o["e"] \in EntryInputs

\* A created inbound.
Creates(op) == op.on /\ ~op.edit

LEMMA InboundOpFacts ==
  ASSUME NEW op \in InboundOps
  PROVE  /\ op.on \in BOOLEAN /\ (~op.on => op = Gone)
         /\ op.on => /\ op.key \in Nat /\ op.edit \in BOOLEAN /\ op.tag \in Nat
                     /\ op.proto \in Protos /\ op.settings \in {"s1", "s2", "kept"}
  <1>1. CASE op = Gone
    BY <1>1 DEF Gone
  <1>2. CASE op \in [on : {TRUE}, key : Nat, edit : BOOLEAN, tag : Nat, proto : Protos, settings : {"s1", "s2", "kept"}]
    BY <1>2
  <1> QED BY <1>1, <1>2 DEF InboundOps

LEMMA LineOpFacts ==
  ASSUME NEW op \in LineOps
  PROVE  op.on \in BOOLEAN /\ (~op.on => op = Gone) /\ (op.on => op.ref \in {"", "n"})
  <1>1. CASE op = Gone
    BY <1>1 DEF Gone
  <1>2. CASE op \in [on : {TRUE}, ref : {"", "n"}]
    BY <1>2
  <1> QED BY <1>1, <1>2 DEF LineOps

LEMMA EntryOpFacts ==
  ASSUME NEW op \in EntryOps
  PROVE  /\ op.on \in BOOLEAN /\ (~op.on => op = Gone)
         /\ op.on => op.field \in FieldValues /\ op.keep \in KeepValues
  <1>1. CASE op = Gone
    BY <1>1 DEF Gone
  <1>2. CASE op \in [on : {TRUE}, field : FieldValues, keep : KeepValues]
    BY <1>2
  <1> QED BY <1>1, <1>2 DEF EntryOps

LEMMA InboundInputFacts ==
  ASSUME NEW op \in InboundInputs
  PROVE  /\ op.on \in BOOLEAN /\ (~op.on => op = Gone)
         /\ op.on => op.key \in Nat /\ op.edit \in BOOLEAN /\ op.tag \in Nat
         /\ op.on /\ ~op.edit => op.proto \in Protos /\ op.settings \in {"s1", "s2", "kept", "default"}
  <1>1. CASE op = Gone
    BY <1>1 DEF Gone
  <1>2. CASE op \in [on : {TRUE}, key : Nat, edit : {TRUE}, tag : Nat]
    BY <1>2
  <1>3. CASE op \in [on : {TRUE}, key : Nat, edit : {FALSE}, tag : Nat, proto : Protos, settings : {"s1", "s2", "kept", "default"}]
    BY <1>3
  <1> QED BY <1>1, <1>2, <1>3 DEF InboundInputs

LEMMA EntryInputFacts ==
  ASSUME NEW op \in EntryInputs
  PROVE  /\ op.on \in BOOLEAN /\ (~op.on => op = Gone)
         /\ op.on => op.field \in KeepValues
  <1>1. CASE op = Gone
    BY <1>1 DEF Gone
  <1>2. CASE op \in [on : {TRUE}, field : KeepValues]
    BY <1>2
  <1> QED BY <1>1, <1>2 DEF EntryInputs

LEMMA EqualInbounds ==
  ASSUME NEW a \in InboundOps, NEW b \in InboundOps, a.on, b.on,
         a.key = b.key, a.edit = b.edit, a.tag = b.tag, a.proto = b.proto, a.settings = b.settings
  PROVE  a = b
  <1> DEFINE R == [on : {TRUE}, key : Nat, edit : BOOLEAN, tag : Nat, proto : Protos, settings : {"s1", "s2", "kept"}]
  <1>0. Gone.on = FALSE
    BY DEF Gone
  <1>1. a \in R /\ b \in R
    BY <1>0 DEF InboundOps
  <1>2. a.on = TRUE /\ b.on = TRUE
    BY <1>1
  <1>3. /\ a = [on |-> a.on, key |-> a.key, edit |-> a.edit, tag |-> a.tag, proto |-> a.proto, settings |-> a.settings]
        /\ b = [on |-> b.on, key |-> b.key, edit |-> b.edit, tag |-> b.tag, proto |-> b.proto, settings |-> b.settings]
    BY <1>1
  <1> QED BY <1>2, <1>3, Zenon

LEMMA EqualEntries ==
  ASSUME NEW a \in EntryOps, NEW b \in EntryOps, a.on, b.on, a.field = b.field, a.keep = b.keep
  PROVE  a = b
  <1> DEFINE R == [on : {TRUE}, field : FieldValues, keep : KeepValues]
  <1>0. Gone.on = FALSE
    BY DEF Gone
  <1>1. a \in R /\ b \in R
    BY <1>0 DEF EntryOps
  <1>2. a.on = TRUE /\ b.on = TRUE
    BY <1>1
  <1>3. a = [on |-> a.on, field |-> a.field, keep |-> a.keep] /\ b = [on |-> b.on, field |-> b.field, keep |-> b.keep]
    BY <1>1
  <1> QED BY <1>2, <1>3, Zenon

\* What is sent of a form.
InputOf(m, o) ==
  /\ IsInput(o)
  /\ o["n"].on = m["n"].on /\ o["l"] = m["l"] /\ o["e"].on = m["e"].on
  /\ m["n"].on => o["n"].key = m["n"].key /\ o["n"].edit = m["n"].edit /\ o["n"].tag = m["n"].tag
  /\ Creates(m["n"]) => o["n"].proto = m["n"].proto /\ o["n"].settings = m["n"].settings
  /\ m["e"].on => o["e"].field = IF m["e"].keep = <<m["e"].field>> THEN << >> ELSE <<m["e"].field>>

LEMMA InputFacts ==
  ASSUME NEW m, IsForm(m)
  PROVE  InputOf(m, ChangesetInput(m))
  <1> DEFINE o == ChangesetInput(m)
  <1>0. m["n"] \in InboundOps /\ m["l"] \in LineOps /\ m["e"] \in EntryOps
    BY DEF IsForm
  <1>1. /\ o = [k \in Key |-> o[k]] /\ o["n"] = OperationInput("n", m["n"]) /\ o["l"] = OperationInput("l", m["l"])
        /\ o["e"] = OperationInput("e", m["e"])
    BY DEF ChangesetInput, Key
  <1> HIDE DEF o
  <1>2. o["l"] = m["l"]
    BY <1>0, <1>1, LineOpFacts DEF OperationInput
  <1>3. ASSUME m["n"].on
        PROVE  /\ o["n"] \in InboundInputs /\ o["n"].on = m["n"].on
               /\ o["n"].key = m["n"].key /\ o["n"].edit = m["n"].edit /\ o["n"].tag = m["n"].tag
               /\ Creates(m["n"]) => o["n"].proto = m["n"].proto /\ o["n"].settings = m["n"].settings
    <2>1. o["n"] = InboundInput(m["n"])
      BY <1>1, <1>3 DEF OperationInput
    <2>2. CASE m["n"].edit
      <3>1. o["n"] = [on |-> TRUE, key |-> m["n"].key, edit |-> TRUE, tag |-> m["n"].tag]
        BY <2>1, <2>2 DEF InboundInput
      <3>2. m["n"].key \in Nat /\ m["n"].tag \in Nat /\ m["n"].edit = TRUE /\ m["n"].on = TRUE
        BY <1>0, <1>3, <2>2, InboundOpFacts
      <3>3. o["n"] \in [on : {TRUE}, key : Nat, edit : {TRUE}, tag : Nat]
        BY <3>1, <3>2
      <3>4. o["n"] \in InboundInputs
        BY <3>3 DEF InboundInputs
      <3>5. o["n"].on = TRUE /\ o["n"].edit = TRUE /\ o["n"].key = m["n"].key /\ o["n"].tag = m["n"].tag
        BY <3>1
      <3> QED BY <3>2, <3>4, <3>5 DEF Creates
    <2>3. CASE ~m["n"].edit
      <3>1. o["n"] = [on |-> TRUE, key |-> m["n"].key, edit |-> FALSE, tag |-> m["n"].tag,
                      proto |-> m["n"].proto, settings |-> m["n"].settings]
        BY <2>1, <2>3 DEF InboundInput
      <3>2. /\ m["n"].key \in Nat /\ m["n"].tag \in Nat /\ m["n"].edit = FALSE /\ m["n"].on = TRUE
            /\ m["n"].proto \in Protos /\ m["n"].settings \in {"s1", "s2", "kept"}
        BY <1>0, <1>3, <2>3, InboundOpFacts
      <3>3. o["n"] \in [on : {TRUE}, key : Nat, edit : {FALSE}, tag : Nat, proto : Protos, settings : {"s1", "s2", "kept", "default"}]
        BY <3>1, <3>2
      <3>4. o["n"] \in InboundInputs
        BY <3>3 DEF InboundInputs
      <3>5. /\ o["n"].on = TRUE /\ o["n"].edit = FALSE /\ o["n"].key = m["n"].key /\ o["n"].tag = m["n"].tag
            /\ o["n"].proto = m["n"].proto /\ o["n"].settings = m["n"].settings
        BY <3>1
      <3> QED BY <3>2, <3>4, <3>5 DEF Creates
    <2> QED BY <2>2, <2>3
  <1>4. ASSUME ~m["n"].on PROVE o["n"] = Gone /\ m["n"] = Gone /\ Gone.on = FALSE /\ Gone \in InboundInputs
    BY <1>0, <1>1, <1>4, InboundOpFacts DEF OperationInput, InboundInputs, Gone
  <1>5. ASSUME m["e"].on
        PROVE  /\ o["e"] \in EntryInputs /\ o["e"].on = m["e"].on
               /\ o["e"].field = IF m["e"].keep = <<m["e"].field>> THEN << >> ELSE <<m["e"].field>>
    <2>1. o["e"] = EntryInput(m["e"])
      BY <1>1, <1>5 DEF OperationInput
    <2>2. m["e"].field \in FieldValues /\ m["e"].on = TRUE
      BY <1>0, <1>5, EntryOpFacts
    <2> DEFINE fd == IF m["e"].keep = <<m["e"].field>> THEN << >> ELSE <<m["e"].field>>
    <2>3. o["e"] = [on |-> TRUE, field |-> fd]
      BY <2>1 DEF EntryInput
    <2>4. fd \in KeepValues
      BY <2>2 DEF KeepValues
    <2> HIDE DEF fd
    <2>5. o["e"] \in [on : {TRUE}, field : KeepValues]
      BY <2>3, <2>4
    <2>6. o["e"] \in EntryInputs
      BY <2>5 DEF EntryInputs
    <2>7. o["e"].field = fd /\ o["e"].on = TRUE
      BY <2>3
    <2> QED BY <2>2, <2>6, <2>7 DEF fd
  <1>6. ASSUME ~m["e"].on PROVE o["e"] = Gone /\ m["e"] = Gone /\ Gone.on = FALSE /\ Gone \in EntryInputs
    BY <1>0, <1>1, <1>6, EntryOpFacts DEF OperationInput, EntryInputs, Gone
  <1>7. /\ o["n"] \in InboundInputs /\ o["n"].on = m["n"].on
        /\ m["n"].on => o["n"].key = m["n"].key /\ o["n"].edit = m["n"].edit /\ o["n"].tag = m["n"].tag
        /\ Creates(m["n"]) => o["n"].proto = m["n"].proto /\ o["n"].settings = m["n"].settings
    <2>1. CASE m["n"].on
      BY <1>3, <2>1
    <2>2. CASE ~m["n"].on
      BY <1>4, <2>2 DEF Creates
    <2> QED BY <2>1, <2>2
  <1>8. /\ o["e"] \in EntryInputs /\ o["e"].on = m["e"].on
        /\ m["e"].on => o["e"].field = IF m["e"].keep = <<m["e"].field>> THEN << >> ELSE <<m["e"].field>>
    <2>1. CASE m["e"].on
      BY <1>5, <2>1
    <2>2. CASE ~m["e"].on
      BY <1>6, <2>2
    <2> QED BY <2>1, <2>2
  <1>9. InputOf(m, o)
    BY <1>0, <1>1, <1>2, <1>7, <1>8 DEF InputOf, IsInput
  <1> QED BY <1>9 DEF o

LEMMA NothingIsInput == IsInput(NoOps) /\ IsForm(NoOps) /\ (\A k \in Key : NoOps[k] = Gone) /\ Gone.on = FALSE
  <1>1. NoOps = [k \in Key |-> NoOps[k]] /\ NoOps["n"] = Gone /\ NoOps["l"] = Gone /\ NoOps["e"] = Gone
        /\ (\A k \in Key : NoOps[k] = Gone)
    BY DEF NoOps, Key
  <1>2. Gone \in InboundOps /\ Gone \in LineOps /\ Gone \in EntryOps /\ Gone \in InboundInputs /\ Gone \in EntryInputs
    BY DEF InboundOps, LineOps, EntryOps, InboundInputs, EntryInputs
  <1>3. Gone.on = FALSE
    BY DEF Gone
  <1> QED BY <1>1, <1>2, <1>3 DEF IsInput, IsForm

\* What the server keeps of what it was sent.
StoredAs(ops, old, st) ==
  /\ IsInput(st)
  /\ st["n"].on = ops["n"].on /\ st["l"] = ops["l"] /\ st["e"] = ops["e"]
  /\ ops["n"].on => st["n"].key = ops["n"].key /\ st["n"].edit = ops["n"].edit /\ st["n"].tag = ops["n"].tag
  /\ Creates(ops["n"]) =>
       /\ st["n"].proto = ops["n"].proto
       /\ st["n"].settings = IF ops["n"].settings # "kept" THEN ops["n"].settings
                             ELSE IF SameKey(ops["n"], old["n"]) /\ ~old["n"].edit THEN old["n"].settings ELSE "default"

LEMMA StoredFacts ==
  ASSUME NEW ops, IsInput(ops), NEW old, IsInput(old)
  PROVE  StoredAs(ops, old, Stored(ops, old))
  <1>0. /\ ops = [k \in Key |-> ops[k]] /\ ops["n"] \in InboundInputs /\ ops["l"] \in LineOps /\ ops["e"] \in EntryInputs
        /\ old["n"] \in InboundInputs
    BY DEF IsInput
  <1>1. CASE ~(ops["n"].on /\ ~ops["n"].edit /\ ops["n"].settings = "kept")
    <2>1. Stored(ops, old) = ops
      BY <1>1 DEF Stored
    <2> QED BY <1>1, <2>1 DEF StoredAs, Creates
  <1>2. CASE ops["n"].on /\ ~ops["n"].edit /\ ops["n"].settings = "kept"
    <2> DEFINE s == IF SameKey(ops["n"], old["n"]) /\ ~old["n"].edit THEN old["n"].settings ELSE "default"
               op == [ops["n"] EXCEPT !.settings = s]
               st == [ops EXCEPT !["n"] = op]
    <2>1. Stored(ops, old) = st
      BY <1>2 DEF Stored
    <2>2. s \in {"s1", "s2", "kept", "default"}
      <3>1. CASE SameKey(ops["n"], old["n"]) /\ ~old["n"].edit
        <4>1. old["n"].on /\ ~old["n"].edit
          BY <3>1 DEF SameKey
        <4> QED BY <1>0, <3>1, <4>1, InboundInputFacts
      <3>2. CASE ~(SameKey(ops["n"], old["n"]) /\ ~old["n"].edit)
        BY <3>2
      <3> QED BY <3>1, <3>2
    <2>3. ops["n"] \in [on : {TRUE}, key : Nat, edit : {FALSE}, tag : Nat, proto : Protos, settings : {"s1", "s2", "kept", "default"}]
      <3>1. Gone.on = FALSE
        BY DEF Gone
      <3>2. ops["n"] # Gone
        BY <1>2, <3>1
      <3>3. ops["n"] \notin [on : {TRUE}, key : Nat, edit : {TRUE}, tag : Nat]
        BY <1>2
      <3> QED BY <1>0, <3>2, <3>3 DEF InboundInputs
    <2> HIDE DEF s
    <2>4. /\ op \in [on : {TRUE}, key : Nat, edit : {FALSE}, tag : Nat, proto : Protos, settings : {"s1", "s2", "kept", "default"}]
          /\ op.on = ops["n"].on /\ op.key = ops["n"].key /\ op.edit = ops["n"].edit /\ op.tag = ops["n"].tag
          /\ op.proto = ops["n"].proto /\ op.settings = s
      BY <2>2, <2>3
    <2>5. op \in InboundInputs
      BY <2>4 DEF InboundInputs
    <2> HIDE DEF op
    <2>6. st = [k \in Key |-> st[k]] /\ st["n"] = op /\ st["l"] = ops["l"] /\ st["e"] = ops["e"]
      BY <1>0 DEF Key
    <2> HIDE DEF st
    <2>7. IsInput(st)
      BY <1>0, <2>5, <2>6 DEF IsInput
    <2>8. op.settings = IF ops["n"].settings # "kept" THEN ops["n"].settings
                        ELSE IF SameKey(ops["n"], old["n"]) /\ ~old["n"].edit THEN old["n"].settings ELSE "default"
      BY <1>2, <2>4 DEF s
    <2>9. StoredAs(ops, old, st)
      BY <2>4, <2>6, <2>7, <2>8 DEF StoredAs
    <2> QED BY <2>1, <2>9
  <1> QED BY <1>1, <1>2

\* What an answer becomes in the form.
DraftForm(ops, m) ==
  /\ IsForm(m)
  /\ m["n"].on = ops["n"].on /\ m["l"] = ops["l"] /\ m["e"].on = ops["e"].on
  /\ ops["n"].on => m["n"].key = ops["n"].key /\ m["n"].edit = ops["n"].edit /\ m["n"].tag = ops["n"].tag
  /\ Creates(ops["n"]) => m["n"].proto = ops["n"].proto /\ m["n"].settings = "kept"
  /\ ops["n"].on /\ ops["n"].edit => m["n"].settings # "kept"
  /\ ops["e"].on => IF ops["e"].field = << >> THEN m["e"].keep = <<m["e"].field>>
                    ELSE m["e"].keep = << >> /\ <<m["e"].field>> = ops["e"].field

LEMMA FromDraftFacts ==
  ASSUME NEW ops, IsInput(ops), seen \in FieldValues
  PROVE  DraftForm(ops, ModelFromDraft(ops))
  <1> DEFINE m == ModelFromDraft(ops)
  <1>0. ops["n"] \in InboundInputs /\ ops["l"] \in LineOps /\ ops["e"] \in EntryInputs
    BY DEF IsInput
  <1>1. /\ m = [k \in Key |-> m[k]] /\ m["n"] = FromStored("n", ops["n"]) /\ m["l"] = FromStored("l", ops["l"])
        /\ m["e"] = FromStored("e", ops["e"])
    BY DEF ModelFromDraft, Key
  <1> HIDE DEF m
  <1>2. m["l"] = ops["l"]
    BY <1>0, <1>1, LineOpFacts DEF FromStored
  <1>g. Gone.on = FALSE /\ Gone \in InboundOps /\ Gone \in EntryOps
    BY DEF Gone, InboundOps, EntryOps
  <1>3. ASSUME ops["n"].on, ops["n"].edit
        PROVE  /\ m["n"] \in InboundOps /\ m["n"].on = ops["n"].on
               /\ m["n"].key = ops["n"].key /\ m["n"].edit = ops["n"].edit /\ m["n"].tag = ops["n"].tag
               /\ m["n"].settings = "s1"
    <2>1. m["n"] = EditInbound(ops["n"].key, ops["n"].tag)
      BY <1>1, <1>3 DEF FromStored
    <2>2. ops["n"].key \in Nat /\ ops["n"].tag \in Nat /\ ops["n"].on = TRUE /\ ops["n"].edit = TRUE
      BY <1>0, <1>3, InboundInputFacts
    <2>3. m["n"] = [on |-> TRUE, key |-> ops["n"].key, edit |-> TRUE, tag |-> ops["n"].tag, proto |-> "p1", settings |-> "s1"]
      BY <2>1 DEF EditInbound
    <2>4. m["n"] \in [on : {TRUE}, key : Nat, edit : BOOLEAN, tag : Nat, proto : Protos, settings : {"s1", "s2", "kept"}]
      BY <2>2, <2>3 DEF Protos
    <2>5. m["n"] \in InboundOps
      BY <2>4 DEF InboundOps
    <2>6. m["n"].on = TRUE /\ m["n"].edit = TRUE /\ m["n"].key = ops["n"].key /\ m["n"].tag = ops["n"].tag /\ m["n"].settings = "s1"
      BY <2>3
    <2> QED BY <2>2, <2>5, <2>6
  <1>4. ASSUME ops["n"].on, ~ops["n"].edit
        PROVE  /\ m["n"] \in InboundOps /\ m["n"].on = ops["n"].on
               /\ m["n"].key = ops["n"].key /\ m["n"].edit = ops["n"].edit /\ m["n"].tag = ops["n"].tag
               /\ m["n"].proto = ops["n"].proto /\ m["n"].settings = "kept"
    <2>1. m["n"] = [ops["n"] EXCEPT !.settings = "kept"]
      BY <1>1, <1>4 DEF FromStored
    <2>2. ops["n"] \in [on : {TRUE}, key : Nat, edit : {FALSE}, tag : Nat, proto : Protos, settings : {"s1", "s2", "kept", "default"}]
      <3>1. ops["n"] # Gone
        BY <1>4, <1>g
      <3>2. ops["n"] \notin [on : {TRUE}, key : Nat, edit : {TRUE}, tag : Nat]
        BY <1>4
      <3> QED BY <1>0, <3>1, <3>2 DEF InboundInputs
    <2>3. /\ m["n"] \in [on : {TRUE}, key : Nat, edit : BOOLEAN, tag : Nat, proto : Protos, settings : {"s1", "s2", "kept"}]
          /\ m["n"].on = ops["n"].on
          /\ m["n"].key = ops["n"].key /\ m["n"].edit = ops["n"].edit /\ m["n"].tag = ops["n"].tag
          /\ m["n"].proto = ops["n"].proto /\ m["n"].settings = "kept"
      BY <2>1, <2>2
    <2> QED BY <2>3 DEF InboundOps
  <1>5. ASSUME ~ops["n"].on PROVE m["n"] = Gone /\ ops["n"] = Gone
    BY <1>0, <1>1, <1>5, InboundInputFacts DEF FromStored
  <1>6. /\ m["n"] \in InboundOps /\ m["n"].on = ops["n"].on
        /\ ops["n"].on => m["n"].key = ops["n"].key /\ m["n"].edit = ops["n"].edit /\ m["n"].tag = ops["n"].tag
        /\ Creates(ops["n"]) => m["n"].proto = ops["n"].proto /\ m["n"].settings = "kept"
        /\ ops["n"].on /\ ops["n"].edit => m["n"].settings # "kept"
    <2>1. CASE ops["n"].on /\ ops["n"].edit
      BY <1>3, <2>1 DEF Creates
    <2>2. CASE ops["n"].on /\ ~ops["n"].edit
      BY <1>4, <2>2 DEF Creates
    <2>3. CASE ~ops["n"].on
      BY <1>5, <1>g, <2>3 DEF Creates
    <2> QED BY <2>1, <2>2, <2>3
  <1>8. /\ m["e"] \in EntryOps /\ m["e"].on = ops["e"].on
        /\ ops["e"].on => IF ops["e"].field = << >> THEN m["e"].keep = <<m["e"].field>>
                          ELSE m["e"].keep = << >> /\ <<m["e"].field>> = ops["e"].field
    <2>1. CASE ~ops["e"].on
      <3>1. m["e"] = Gone /\ ops["e"] = Gone
        BY <1>0, <1>1, <2>1, EntryInputFacts DEF FromStored
      <3> QED BY <1>g, <3>1
    <2>2. CASE ops["e"].on /\ ops["e"].field = << >>
      <3>1. m["e"] = Entry(seen, <<seen>>)
        BY <1>1, <2>2 DEF FromStored
      <3>2. <<seen>> \in KeepValues
        BY DEF KeepValues
      <3>3. m["e"] \in EntryOps /\ m["e"].on = TRUE /\ m["e"].field = seen /\ m["e"].keep = <<seen>>
        <4> DEFINE kp == <<seen>>
        <4>1. kp \in KeepValues /\ m["e"] = Entry(seen, kp)
          BY <3>1, <3>2
        <4> HIDE DEF kp
        <4>2. m["e"] = [on |-> TRUE, field |-> seen, keep |-> kp]
          BY <4>1 DEF Entry
        <4>3. m["e"] \in [on : {TRUE}, field : FieldValues, keep : KeepValues]
          BY <4>1, <4>2
        <4>4. m["e"].on = TRUE /\ m["e"].field = seen /\ m["e"].keep = kp
          BY <4>2
        <4> QED BY <4>3, <4>4 DEF EntryOps, kp
      <3>4. ops["e"].on = TRUE
        BY <1>0, <2>2, EntryInputFacts
      <3> QED BY <2>2, <3>3, <3>4
    <2>3. CASE ops["e"].on /\ ops["e"].field # << >>
      <3>1. m["e"] = Entry(ops["e"].field[1], << >>)
        BY <1>1, <2>3 DEF FromStored
      <3>2. ops["e"].field \in KeepValues /\ ops["e"].on = TRUE
        BY <1>0, <2>3, EntryInputFacts
      <3>3. PICK w \in FieldValues : ops["e"].field = <<w>>
        BY <2>3, <3>2 DEF KeepValues
      <3>4. ops["e"].field[1] = w
        BY <3>3
      <3>5. m["e"] \in EntryOps /\ m["e"].on = TRUE /\ m["e"].field = w /\ m["e"].keep = << >>
        <4> DEFINE kp == << >>
        <4>1. kp \in KeepValues /\ m["e"] = Entry(w, kp)
          BY <3>1, <3>4 DEF KeepValues
        <4> HIDE DEF kp
        <4>2. m["e"] = [on |-> TRUE, field |-> w, keep |-> kp]
          BY <4>1 DEF Entry
        <4>3. m["e"] \in [on : {TRUE}, field : FieldValues, keep : KeepValues]
          BY <4>1, <4>2
        <4>4. m["e"].on = TRUE /\ m["e"].field = w /\ m["e"].keep = kp
          BY <4>2
        <4> QED BY <4>3, <4>4 DEF EntryOps, kp
      <3> QED BY <2>3, <3>2, <3>3, <3>5
    <2> QED BY <2>1, <2>2, <2>3
  <1>9. DraftForm(ops, m)
    BY <1>0, <1>1, <1>2, <1>6, <1>8 DEF DraftForm, IsForm
  <1> QED BY <1>9 DEF m

\* "Keep saved": the settings are again those of the draft.
SettledForm(m, ops, r) ==
  /\ IsForm(r) /\ r["n"].on = m["n"].on /\ r["l"] = m["l"] /\ r["e"] = m["e"]
  /\ m["n"].on => r["n"].key = m["n"].key /\ r["n"].edit = m["n"].edit /\ r["n"].tag = m["n"].tag
  /\ IF SameKey(m["n"], ops["n"]) /\ ~ops["n"].edit
     THEN r["n"].proto = ops["n"].proto /\ r["n"].settings = "kept" ELSE r = m

LEMMA KeepSavedFacts ==
  ASSUME NEW m, IsForm(m), NEW ops, IsInput(ops)
  PROVE  SettledForm(m, ops, KeepSavedSettings(m, ops))
  <1>0. m = [k \in Key |-> m[k]] /\ m["n"] \in InboundOps /\ ops["n"] \in InboundInputs
    BY DEF IsForm, IsInput
  <1>1. CASE ~(SameKey(m["n"], ops["n"]) /\ ~ops["n"].edit)
    <2>1. KeepSavedSettings(m, ops) = m
      BY <1>1 DEF KeepSavedSettings, SameKey
    <2> QED BY <1>1, <2>1 DEF SettledForm
  <1>2. CASE SameKey(m["n"], ops["n"]) /\ ~ops["n"].edit
    <2> DEFINE op == [m["n"] EXCEPT !.proto = ops["n"].proto, !.settings = "kept"]
               r == [m EXCEPT !["n"] = op]
    <2>1. m["n"].on /\ ops["n"].on
      BY <1>2 DEF SameKey
    <2>2. KeepSavedSettings(m, ops) = r
      BY <1>2, <2>1 DEF KeepSavedSettings
    <2>3. ops["n"].proto \in Protos
      BY <1>0, <1>2, <2>1, InboundInputFacts
    <2>4. m["n"] \in [on : {TRUE}, key : Nat, edit : BOOLEAN, tag : Nat, proto : Protos, settings : {"s1", "s2", "kept"}]
      <3>1. Gone.on = FALSE
        BY DEF Gone
      <3> QED BY <1>0, <2>1, <3>1 DEF InboundOps
    <2>5. /\ op \in [on : {TRUE}, key : Nat, edit : BOOLEAN, tag : Nat, proto : Protos, settings : {"s1", "s2", "kept"}]
          /\ op.on = m["n"].on /\ op.key = m["n"].key /\ op.edit = m["n"].edit /\ op.tag = m["n"].tag
          /\ op.proto = ops["n"].proto /\ op.settings = "kept"
      BY <2>3, <2>4
    <2>6. op \in InboundOps
      BY <2>5 DEF InboundOps
    <2> HIDE DEF op
    <2>7. r = [k \in Key |-> r[k]] /\ r["n"] = op /\ r["l"] = m["l"] /\ r["e"] = m["e"]
      BY <1>0 DEF Key
    <2> HIDE DEF r
    <2>8. IsForm(r)
      BY <2>6, <2>7 DEF IsForm
    <2>9. SettledForm(m, ops, r)
      BY <1>2, <2>5, <2>7, <2>8 DEF SettledForm
    <2> QED BY <2>2, <2>9
  <1> QED BY <1>1, <1>2

(* The invariant of the draft.                                              *)
SaveTyped(s) ==
  /\ s = [stage |-> s.stage, sent |-> s.sent, refused |-> s.refused, answer |-> s.answer, version |-> s.version]
  /\ s.stage \in {"out", "answered"} /\ s.refused \in {"none", "conflict", "fixed"} /\ s.version \in Nat
  /\ IsForm(s.sent) /\ IsInput(s.answer)

DraftTyped ==
  /\ IsForm(model) /\ seen \in FieldValues /\ live \in FieldValues /\ typed \in BOOLEAN /\ draftEdits \in Nat
  /\ stored.version \in Nat /\ IsInput(stored.ops)
  /\ savedAs = << >> \/ \E v \in Nat \ {0} : \E i : savedAs = <<[version |-> v, sent |-> i]>>
  /\ saving = << >> \/ \E s : saving = <<s>> /\ SaveTyped(s)

\* An inbound's key is the number of the edit that added it.
KeysIssued ==
  /\ model["n"].on => model["n"].key <= draftEdits
  /\ stored.ops["n"].on => stored.ops["n"].key <= draftEdits
  /\ \A c \in clashes : c \in Nat /\ c <= draftEdits
  /\ clashes # {} => savedAs # << >>

\* The form goes on from what the server keeps.
OfStored == savedAs # << >> /\ savedAs[1].version = stored.version

\* Settings that are fixed are frozen in the form, unless they clash; and what
\* the form leaves to the server, the server has.
FrozenAsSaved ==
  OfStored /\ SameKey(model["n"], stored.ops["n"]) /\ ~stored.ops["n"].edit /\ model["n"].key \notin clashes =>
    model["n"].proto = stored.ops["n"].proto /\ model["n"].settings = "kept"
KeptIsStored ==
  Creates(model["n"]) /\ model["n"].settings = "kept" =>
    savedAs # << >> /\ (OfStored => Creates(stored.ops["n"]) /\ stored.ops["n"].key = model["n"].key)

RefersWell(m) == m["l"].on /\ m["l"].ref = "n" => m["n"].on /\ ~m["n"].edit
StillOmitted(m) == m["e"].on => m["e"].keep = <<m["e"].field>>

\* A save on its way to the server, and one that was answered.
OutHolds(s) ==
  s.stage = "out" =>
    /\ s.version = IF savedAs = << >> THEN 0 ELSE savedAs[1].version
    /\ s.version > 0 /\ s.version = stored.version => ~FixedChanged(ChangesetInput(s.sent), stored.ops)
    /\ Creates(s.sent["n"]) /\ s.sent["n"].settings = "kept" =>
         s.version > 0 /\ (s.version = stored.version => SameKey(s.sent["n"], stored.ops["n"]) /\ ~stored.ops["n"].edit)

AnswerOf(o, st) ==
  /\ st["n"].on = o["n"].on /\ st["l"] = o["l"] /\ st["e"] = o["e"]
  /\ o["n"].on => st["n"].key = o["n"].key /\ st["n"].edit = o["n"].edit /\ st["n"].tag = o["n"].tag

AnsweredHolds(s) ==
  s.stage = "answered" =>
    /\ s.refused # "fixed"
    /\ s.refused = "none" => /\ s.answer = stored.ops /\ s.version = stored.version /\ s.version > 0
                             /\ AnswerOf(ChangesetInput(s.sent), stored.ops)

\* What may change in the form while a save is out.
BesideSave(s) ==
  /\ RefersWell(s.sent) /\ (~typed => StillOmitted(s.sent))
  /\ s.sent["n"].on => s.sent["n"].key <= draftEdits
  /\ ~(model["n"].on /\ model["n"].key \in clashes)
  /\ Creates(model["n"]) /\ model["n"].settings = "kept" =>
       SameKey(model["n"], s.sent["n"]) /\ ~s.sent["n"].edit
  /\ model["e"].on => model["e"].keep = << >> \/ (s.sent["e"].on /\ model["e"].keep = s.sent["e"].keep)

SaveHolds == \A s : saving = <<s>> => OutHolds(s) /\ AnsweredHolds(s) /\ BesideSave(s)

DraftInv ==
  /\ DraftTyped /\ KeysIssued /\ FrozenAsSaved /\ KeptIsStored /\ SaveHolds
  /\ RefersWell(model)
  /\ ~typed => StillOmitted(model) /\ (stored.ops["e"].on => stored.ops["e"].field = << >>)
  /\ SettingsAreTyped /\ refusal # "fixed"

LEMMA DraftStarts == DraftInit => DraftInv
  <1> SUFFICES ASSUME DraftInit PROVE DraftInv
    OBVIOUS
  <1>1. /\ live = 0 /\ seen = 0 /\ clashes = {} /\ saving = << >> /\ typed = FALSE /\ refusal = "none" /\ draftEdits = 0
    BY DEF DraftInit
  <1>2. 0 \in FieldValues
    BY DEF FieldValues
  <1>3. SaveHolds
    BY <1>1 DEF SaveHolds
  <1>4. IsInput(NoOps) /\ IsForm(NoOps) /\ (\A k \in Key : NoOps[k] = Gone) /\ Gone.on = FALSE
    BY NothingIsInput
  <1>5. NoOps["n"] = Gone /\ NoOps["l"] = Gone /\ NoOps["e"] = Gone
    BY <1>4 DEF Key
  <1>6. CASE model = NoOps /\ savedAs = << >> /\ stored = [version |-> 0, ops |-> NoOps]
    <2>1. stored.version = 0 /\ stored.ops = NoOps
      BY <1>6
    <2>2. DraftTyped
      BY <1>1, <1>2, <1>4, <1>6, <2>1 DEF DraftTyped
    <2> QED BY <1>1, <1>3, <1>4, <1>5, <1>6, <2>1, <2>2
            DEF DraftInv, KeysIssued, FrozenAsSaved, KeptIsStored, OfStored, Creates, SameKey, RefersWell, StillOmitted, SettingsAreTyped
  <1>7. CASE /\ stored = [version |-> 1, ops |-> [NoOps EXCEPT !["e"] = [on |-> TRUE, field |-> << >>]]]
             /\ model = ModelFromDraft(stored.ops)
             /\ savedAs = << [version |-> 1, sent |-> ChangesetInput(model)] >>
    <2> DEFINE e == [on |-> TRUE, field |-> << >>]
               ops == [NoOps EXCEPT !["e"] = e]
    <2>1. stored.version = 1 /\ stored.ops = ops
      BY <1>7
    <2>2. e \in EntryInputs /\ e.on = TRUE /\ e.field = << >>
      <3>1. << >> \in KeepValues
        BY DEF KeepValues
      <3>2. e \in [on : {TRUE}, field : KeepValues]
        BY <3>1
      <3> QED BY <3>2 DEF EntryInputs
    <2> HIDE DEF e
    <2>3. ops = [k \in Key |-> ops[k]] /\ ops["n"] = Gone /\ ops["l"] = Gone /\ ops["e"] = e
      BY <1>4, <1>5 DEF NoOps, Key
    <2> HIDE DEF ops
    <2>4. IsInput(ops)
      BY <1>4, <1>5, <2>2, <2>3 DEF IsInput
    <2>5. DraftForm(ops, model)
      BY <1>1, <1>2, <1>7, <2>1, <2>4, FromDraftFacts
    <2>6. /\ IsForm(model) /\ model["n"].on = FALSE /\ model["l"] = Gone
          /\ model["e"].keep = <<model["e"].field>>
      BY <1>4, <2>2, <2>3, <2>5 DEF DraftForm
    <2>7. DraftTyped
      <3>0. 1 \in Nat \ {0}
        OBVIOUS
      <3>1. savedAs = <<[version |-> 1, sent |-> ChangesetInput(model)]>>
        BY <1>7
      <3>2. \E v \in Nat \ {0} : \E i : savedAs = <<[version |-> v, sent |-> i]>>
        BY <3>0, <3>1, Zenon
      <3>3. stored.version \in Nat /\ IsInput(stored.ops)
        BY <2>1, <2>4
      <3>4. live \in FieldValues /\ seen \in FieldValues /\ typed \in BOOLEAN /\ draftEdits \in Nat
        BY <1>1, <1>2
      <3> QED BY <1>1, <2>6, <3>2, <3>3, <3>4 DEF DraftTyped
    <2> QED BY <1>1, <1>3, <1>4, <2>1, <2>2, <2>3, <2>6, <2>7
            DEF DraftInv, KeysIssued, FrozenAsSaved, KeptIsStored, OfStored, Creates, SameKey, RefersWell, StillOmitted, SettingsAreTyped
  <1> QED BY <1>6, <1>7 DEF DraftInit

\* An edit of the form: what it may do to the inbound, the line and the entry.
EditMakes(m, touched) ==
  /\ IsForm(m) /\ RefersWell(m) /\ touched \in {TRUE, typed}
  /\ \/ m["n"] = model["n"]
     \/ ~m["n"].on
     \/ m["n"].on /\ m["n"].key = draftEdits + 1 /\ m["n"].settings # "kept"
     \/ /\ m["n"].on /\ model["n"].on /\ m["n"].key = model["n"].key /\ m["n"].edit = model["n"].edit
        /\ m["n"].proto = model["n"].proto /\ m["n"].settings = model["n"].settings
     \/ /\ m["n"].on /\ model["n"].on /\ m["n"].key = model["n"].key
        /\ m["n"].settings # "kept" /\ model["n"].settings # "kept"
  /\ \/ m["e"] = model["e"]
     \/ ~m["e"].on
     \/ touched /\ m["e"].keep = << >>
     \/ touched /\ model["e"].on /\ m["e"].keep = model["e"].keep

LEMMA EditKeepsDraft ==
  ASSUME DraftInv, NEW m, NEW touched, EditMakes(m, touched), EditOperation(m, touched)
  PROVE  DraftInv'
  <1>0. /\ model' = m /\ typed' = touched /\ draftEdits' = draftEdits + 1
        /\ savedAs' = savedAs /\ clashes' = clashes /\ saving' = saving /\ stored' = stored
        /\ live' = live /\ seen' = seen /\ refusal' = refusal
    BY DEF EditOperation
  <1>1. DraftTyped /\ KeysIssued /\ FrozenAsSaved /\ KeptIsStored /\ SaveHolds
    BY DEF DraftInv
  <1>2. draftEdits \in Nat /\ model["n"] \in InboundOps /\ m["n"] \in InboundOps /\ m["e"] \in EntryOps /\ stored.ops["n"] \in InboundInputs
    BY <1>1 DEF DraftTyped, EditMakes, IsForm, IsInput
  <1>3. DraftTyped'
    <2>1. IsForm(m) /\ touched \in BOOLEAN
      BY <1>1 DEF EditMakes, DraftTyped
    <2>2. draftEdits + 1 \in Nat
      BY <1>2
    <2> QED BY <1>0, <1>1, <2>1, <2>2 DEF DraftTyped
  <1>4. /\ model["n"].on => model["n"].key \in Nat
        /\ m["n"].on => m["n"].key \in Nat
        /\ stored.ops["n"].on => stored.ops["n"].key \in Nat
    BY <1>2, InboundOpFacts, InboundInputFacts
  <1>5. m["n"].on => m["n"].key <= draftEdits + 1
    BY <1>1, <1>2, <1>4 DEF EditMakes, KeysIssued
  <1>6. KeysIssued'
    BY <1>0, <1>1, <1>2, <1>4, <1>5 DEF KeysIssued
  <1>7. m["n"].on => \/ m["n"].key = draftEdits + 1 /\ m["n"].settings # "kept"
                     \/ /\ model["n"].on /\ m["n"].key = model["n"].key
                        /\ \/ m["n"].settings = model["n"].settings /\ m["n"].proto = model["n"].proto /\ m["n"].edit = model["n"].edit
                           \/ m["n"].settings # "kept" /\ model["n"].settings # "kept"
    BY DEF EditMakes
  <1>8. FrozenAsSaved'
    <2> SUFFICES ASSUME OfStored, SameKey(m["n"], stored.ops["n"]), ~stored.ops["n"].edit, m["n"].key \notin clashes
                 PROVE  m["n"].proto = stored.ops["n"].proto /\ m["n"].settings = "kept"
      BY <1>0 DEF FrozenAsSaved, OfStored
    <2>1. m["n"].on /\ stored.ops["n"].on /\ m["n"].key = stored.ops["n"].key
      BY DEF SameKey
    <2>2. m["n"].key # draftEdits + 1
      BY <1>1, <1>2, <1>4, <2>1 DEF KeysIssued
    <2>3. model["n"].on /\ m["n"].key = model["n"].key
      BY <1>7, <2>1, <2>2
    <2>4. model["n"].proto = stored.ops["n"].proto /\ model["n"].settings = "kept"
      BY <1>1, <2>1, <2>3 DEF FrozenAsSaved, SameKey
    <2> QED BY <1>7, <2>1, <2>2, <2>4
  <1>9. KeptIsStored'
    <2> SUFFICES ASSUME Creates(m["n"]), m["n"].settings = "kept"
                 PROVE  savedAs # << >> /\ (OfStored => Creates(stored.ops["n"]) /\ stored.ops["n"].key = m["n"].key)
      BY <1>0 DEF KeptIsStored, OfStored
    <2>1. model["n"].on /\ m["n"].key = model["n"].key /\ model["n"].settings = "kept" /\ model["n"].edit = m["n"].edit
      BY <1>7 DEF Creates
    <2> QED BY <1>1, <2>1 DEF KeptIsStored, Creates
  <1>10. touched = TRUE \/ touched = typed
    BY DEF EditMakes
  <1>11. ASSUME NEW s, saving = <<s>> PROVE (OutHolds(s) /\ AnsweredHolds(s) /\ BesideSave(s))'
    <2>1. OutHolds(s) /\ AnsweredHolds(s) /\ BesideSave(s)
      BY <1>1, <1>11 DEF SaveHolds
    <2>2. OutHolds(s)' /\ AnsweredHolds(s)'
      BY <1>0, <2>1 DEF OutHolds, AnsweredHolds
    <2>3. IsForm(s.sent)
      BY <1>1, <1>11 DEF DraftTyped, SaveTyped
    <2>4. s.sent["n"].on => s.sent["n"].key \in Nat /\ s.sent["n"].key <= draftEdits + 1
      <3>1. s.sent["n"].on => s.sent["n"].key \in Nat
        BY <2>3, InboundOpFacts DEF IsForm
      <3> QED BY <1>2, <2>1, <3>1 DEF BesideSave
    <2>5. ~(m["n"].on /\ m["n"].key \in clashes)
      <3> SUFFICES ASSUME m["n"].on, m["n"].key \in clashes PROVE FALSE
        OBVIOUS
      <3>1. m["n"].key # draftEdits + 1
        BY <1>1, <1>2, <1>4 DEF KeysIssued
      <3> QED BY <1>7, <2>1, <3>1 DEF BesideSave
    <2>6. Creates(m["n"]) /\ m["n"].settings = "kept" => SameKey(m["n"], s.sent["n"]) /\ ~s.sent["n"].edit
      BY <1>7, <2>1 DEF BesideSave, Creates, SameKey
    <2>7. m["e"].on => m["e"].keep = << >> \/ (s.sent["e"].on /\ m["e"].keep = s.sent["e"].keep)
      BY <2>1 DEF BesideSave, EditMakes
    <2>8. RefersWell(s.sent) /\ (~touched => StillOmitted(s.sent))
      BY <1>10, <2>1 DEF BesideSave
    <2>9. BesideSave(s)'
      BY <1>0, <2>4, <2>5, <2>6, <2>7, <2>8 DEF BesideSave
    <2> QED BY <2>2, <2>9
  <1>12. SaveHolds'
    BY <1>0, <1>11 DEF SaveHolds
  <1>13. ~touched => StillOmitted(m) /\ (stored.ops["e"].on => stored.ops["e"].field = << >>)
    BY <1>10 DEF EditMakes, DraftInv, StillOmitted
  <1>14. RefersWell(m) /\ SettingsAreTyped' /\ refusal' # "fixed"
    BY <1>0 DEF DraftInv, EditMakes, SettingsAreTyped
  <1> QED BY <1>0, <1>3, <1>6, <1>8, <1>9, <1>12, <1>13, <1>14 DEF DraftInv

\* The form with one operation replaced.
LEMMA FormWith ==
  ASSUME NEW m, IsForm(m)
  PROVE  /\ \A op \in InboundOps : LET r == [m EXCEPT !["n"] = op] IN
              IsForm(r) /\ r["n"] = op /\ r["l"] = m["l"] /\ r["e"] = m["e"]
         /\ \A op \in LineOps : LET r == [m EXCEPT !["l"] = op] IN
              IsForm(r) /\ r["n"] = m["n"] /\ r["l"] = op /\ r["e"] = m["e"]
         /\ \A op \in EntryOps : LET r == [m EXCEPT !["e"] = op] IN
              IsForm(r) /\ r["n"] = m["n"] /\ r["l"] = m["l"] /\ r["e"] = op
  <1>0. m = [k \in Key |-> m[k]] /\ m["n"] \in InboundOps /\ m["l"] \in LineOps /\ m["e"] \in EntryOps
    BY DEF IsForm
  <1>1. ASSUME NEW op \in InboundOps
        PROVE  LET r == [m EXCEPT !["n"] = op] IN IsForm(r) /\ r["n"] = op /\ r["l"] = m["l"] /\ r["e"] = m["e"]
    <2> DEFINE r == [m EXCEPT !["n"] = op]
    <2>1. r = [k \in Key |-> r[k]] /\ r["n"] = op /\ r["l"] = m["l"] /\ r["e"] = m["e"]
      BY <1>0 DEF Key
    <2> HIDE DEF r
    <2>2. IsForm(r)
      BY <1>0, <2>1 DEF IsForm
    <2> QED BY <2>1, <2>2 DEF r
  <1>2. ASSUME NEW op \in LineOps
        PROVE  LET r == [m EXCEPT !["l"] = op] IN IsForm(r) /\ r["n"] = m["n"] /\ r["l"] = op /\ r["e"] = m["e"]
    <2> DEFINE r == [m EXCEPT !["l"] = op]
    <2>1. r = [k \in Key |-> r[k]] /\ r["n"] = m["n"] /\ r["l"] = op /\ r["e"] = m["e"]
      BY <1>0 DEF Key
    <2> HIDE DEF r
    <2>2. IsForm(r)
      BY <1>0, <2>1 DEF IsForm
    <2> QED BY <2>1, <2>2 DEF r
  <1>3. ASSUME NEW op \in EntryOps
        PROVE  LET r == [m EXCEPT !["e"] = op] IN IsForm(r) /\ r["n"] = m["n"] /\ r["l"] = m["l"] /\ r["e"] = op
    <2> DEFINE r == [m EXCEPT !["e"] = op]
    <2>1. r = [k \in Key |-> r[k]] /\ r["n"] = m["n"] /\ r["l"] = m["l"] /\ r["e"] = op
      BY <1>0 DEF Key
    <2> HIDE DEF r
    <2>2. IsForm(r)
      BY <1>0, <2>1 DEF IsForm
    <2> QED BY <2>1, <2>2 DEF r
  <1> QED BY <1>1, <1>2, <1>3

\* The operations the form makes.
InboundRecords == [on : {TRUE}, key : Nat, edit : BOOLEAN, tag : Nat, proto : Protos, settings : {"s1", "s2", "kept"}]

LEMMA MadeOps ==
  /\ Gone \in InboundOps /\ Gone \in LineOps /\ Gone \in EntryOps /\ Gone.on = FALSE
  /\ \A k \in Nat : /\ NewInbound(k) \in InboundOps /\ NewInbound(k).on = TRUE /\ NewInbound(k).key = k
                    /\ NewInbound(k).edit = FALSE /\ NewInbound(k).settings = "s1"
  /\ \A k \in Nat, t \in Nat : /\ EditInbound(k, t) \in InboundOps /\ EditInbound(k, t).on = TRUE /\ EditInbound(k, t).key = k
                               /\ EditInbound(k, t).edit = TRUE /\ EditInbound(k, t).settings = "s1"
  /\ NewLine \in LineOps /\ NewLine.on = TRUE /\ NewLine.ref = ""
  /\ \A v \in FieldValues : Entry(v, << >>) \in EntryOps /\ Entry(v, << >>).on = TRUE /\ Entry(v, << >>).keep = << >>
  <1>1. Gone \in InboundOps /\ Gone \in LineOps /\ Gone \in EntryOps /\ Gone.on = FALSE
    BY DEF Gone, InboundOps, LineOps, EntryOps
  <1>2. ASSUME NEW k \in Nat
        PROVE  /\ NewInbound(k) \in InboundOps /\ NewInbound(k).on = TRUE /\ NewInbound(k).key = k
               /\ NewInbound(k).edit = FALSE /\ NewInbound(k).settings = "s1"
    <2>1. NewInbound(k) \in InboundRecords
      BY DEF NewInbound, InboundRecords, Protos
    <2>2. NewInbound(k) \in InboundOps
      BY <2>1 DEF InboundOps, InboundRecords
    <2> QED BY <2>2 DEF NewInbound
  <1>3. ASSUME NEW k \in Nat, NEW t \in Nat
        PROVE  /\ EditInbound(k, t) \in InboundOps /\ EditInbound(k, t).on = TRUE /\ EditInbound(k, t).key = k
               /\ EditInbound(k, t).edit = TRUE /\ EditInbound(k, t).settings = "s1"
    <2>1. EditInbound(k, t) \in InboundRecords
      BY DEF EditInbound, InboundRecords, Protos
    <2>2. EditInbound(k, t) \in InboundOps
      BY <2>1 DEF InboundOps, InboundRecords
    <2> QED BY <2>2 DEF EditInbound
  <1>4. NewLine \in LineOps /\ NewLine.on = TRUE /\ NewLine.ref = ""
    <2>1. NewLine \in [on : {TRUE}, ref : {"", "n"}]
      BY DEF NewLine
    <2>2. NewLine \in LineOps
      BY <2>1 DEF LineOps
    <2> QED BY <2>2 DEF NewLine
  <1>5. ASSUME NEW v \in FieldValues
        PROVE  Entry(v, << >>) \in EntryOps /\ Entry(v, << >>).on = TRUE /\ Entry(v, << >>).keep = << >>
    <2>0. << >> \in KeepValues
      BY DEF KeepValues
    <2>1. Entry(v, << >>) \in [on : {TRUE}, field : FieldValues, keep : KeepValues]
      BY <2>0 DEF Entry
    <2>2. Entry(v, << >>) \in EntryOps
      BY <2>1 DEF EntryOps
    <2> QED BY <2>2 DEF Entry
  <1> QED BY <1>1, <1>2, <1>3, <1>4, <1>5

\* Every edit of the form is one of EditMakes.
LEMMA FormEdits ==
  ASSUME DraftInv,
         AddOperation \/ SelectEntry \/ RemoveOperation \/ SwitchInbound \/ EditInboundFields \/ ReferTo \/ EditEntry
  PROVE  DraftInv'
  <1>0. /\ IsForm(model) /\ model["n"] \in InboundOps /\ model["l"] \in LineOps /\ model["e"] \in EntryOps
        /\ RefersWell(model) /\ seen \in FieldValues /\ draftEdits \in Nat
    BY DEF DraftInv, DraftTyped, IsForm
  <1>1. /\ model["n"].on => /\ model["n"].key \in Nat /\ model["n"].edit \in BOOLEAN /\ model["n"].tag \in Nat
                            /\ model["n"].proto \in Protos /\ model["n"].settings \in {"s1", "s2", "kept"}
        /\ ~model["n"].on => model["n"] = Gone
        /\ model["n"].on => model["n"] \in InboundRecords
    <2>1. Gone.on = FALSE
      BY DEF Gone
    <2>2. model["n"].on => model["n"] \in InboundRecords
      BY <1>0, <2>1 DEF InboundOps, InboundRecords
    <2> QED BY <1>0, <2>2, InboundOpFacts
  <1>2. typed \in {TRUE, typed} /\ TRUE \in {TRUE, typed}
    OBVIOUS
  <1>3. CASE AddOperation
    <2>1. CASE ~model["n"].on /\ EditOperation([model EXCEPT !["n"] = NewInbound(draftEdits + 1)], typed)
      <3> DEFINE m == [model EXCEPT !["n"] = NewInbound(draftEdits + 1)]
      <3>1. /\ NewInbound(draftEdits + 1) \in InboundOps /\ NewInbound(draftEdits + 1).on = TRUE
            /\ NewInbound(draftEdits + 1).key = draftEdits + 1 /\ NewInbound(draftEdits + 1).edit = FALSE
            /\ NewInbound(draftEdits + 1).settings = "s1"
        <4>1. draftEdits + 1 \in Nat
          BY <1>0
        <4> QED BY <4>1, MadeOps, Zenon
      <3>2. IsForm(m) /\ m["n"] = NewInbound(draftEdits + 1) /\ m["l"] = model["l"] /\ m["e"] = model["e"]
        BY <1>0, <3>1, FormWith
      <3>3. EditOperation(m, typed)
        BY <2>1
      <3> HIDE DEF m
      <3>4. EditMakes(m, typed)
        BY <1>2, <3>1, <3>2 DEF EditMakes, RefersWell
      <3> QED BY <3>3, <3>4, EditKeepsDraft
    <2>2. CASE ~model["l"].on /\ EditOperation([model EXCEPT !["l"] = NewLine], typed)
      <3> DEFINE m == [model EXCEPT !["l"] = NewLine]
      <3>1. IsForm(m) /\ m["n"] = model["n"] /\ m["l"] = NewLine /\ m["e"] = model["e"]
        BY <1>0, MadeOps, FormWith
      <3>2. EditOperation(m, typed)
        BY <2>2
      <3> HIDE DEF m
      <3>3. EditMakes(m, typed)
        BY <1>2, <3>1, MadeOps DEF EditMakes, RefersWell
      <3> QED BY <3>2, <3>3, EditKeepsDraft
    <2> QED BY <1>3, <2>1, <2>2 DEF AddOperation
  <1>4. CASE SelectEntry
    <2> DEFINE m == [model EXCEPT !["e"] = Entry(seen, << >>)]
    <2>1. Entry(seen, << >>) \in EntryOps /\ Entry(seen, << >>).keep = << >>
      BY <1>0, MadeOps
    <2>2. IsForm(m) /\ m["n"] = model["n"] /\ m["l"] = model["l"] /\ m["e"] = Entry(seen, << >>)
      BY <1>0, <2>1, FormWith
    <2>3. EditOperation(m, TRUE)
      BY <1>4 DEF SelectEntry
    <2> HIDE DEF m
    <2>4. EditMakes(m, TRUE)
      BY <1>0, <1>2, <2>1, <2>2 DEF EditMakes, RefersWell
    <2> QED BY <2>3, <2>4, EditKeepsDraft
  <1>5. CASE RemoveOperation
    <2>1. PICK k \in Key : model[k].on /\ ~Referenced(k) /\ EditOperation([model EXCEPT ![k] = Gone], typed)
      BY <1>5 DEF RemoveOperation
    <2> DEFINE m == [model EXCEPT ![k] = Gone]
    <2>2. Gone \in InboundOps /\ Gone \in LineOps /\ Gone \in EntryOps /\ Gone.on = FALSE
      BY MadeOps
    <2>3. CASE k = "n"
      <3>1. IsForm(m) /\ m["n"] = Gone /\ m["l"] = model["l"] /\ m["e"] = model["e"]
        BY <1>0, <2>2, <2>3, FormWith
      <3>2. ~(model["l"].on /\ model["l"].ref = "n")
        BY <2>1, <2>3 DEF Referenced
      <3> HIDE DEF m
      <3>3. EditMakes(m, typed)
        BY <1>2, <2>2, <3>1, <3>2 DEF EditMakes, RefersWell
      <3> QED BY <2>1, <3>3, EditKeepsDraft DEF m
    <2>4. CASE k = "l"
      <3>1. IsForm(m) /\ m["n"] = model["n"] /\ m["l"] = Gone /\ m["e"] = model["e"]
        BY <1>0, <2>2, <2>4, FormWith
      <3> HIDE DEF m
      <3>3. EditMakes(m, typed)
        BY <1>2, <2>2, <3>1 DEF EditMakes, RefersWell
      <3> QED BY <2>1, <3>3, EditKeepsDraft DEF m
    <2>5. CASE k = "e"
      <3>1. IsForm(m) /\ m["n"] = model["n"] /\ m["l"] = model["l"] /\ m["e"] = Gone
        BY <1>0, <2>2, <2>5, FormWith
      <3> HIDE DEF m
      <3>3. EditMakes(m, typed)
        BY <1>0, <1>2, <2>2, <3>1 DEF EditMakes, RefersWell
      <3> QED BY <2>1, <3>3, EditKeepsDraft DEF m
    <2> QED BY <2>3, <2>4, <2>5 DEF Key
  <1>6. CASE SwitchInbound
    <2>1. PICK op \in {NewInbound(model["n"].key), EditInbound(model["n"].key, 0), EditInbound(model["n"].key, 2)} :
            EditOperation([model EXCEPT !["n"] = op], typed)
      BY <1>6 DEF SwitchInbound
    <2>2. model["n"].on /\ ~Referenced("n") /\ model["n"].settings # "kept"
      BY <1>6 DEF SwitchInbound
    <2>3. op \in InboundOps /\ op.on = TRUE /\ op.key = model["n"].key /\ op.settings = "s1"
      <3>1. model["n"].key \in Nat /\ 0 \in Nat /\ 2 \in Nat
        BY <1>1, <2>2
      <3>2. CASE op = NewInbound(model["n"].key)
        BY <3>1, <3>2, MadeOps, Zenon
      <3>3. CASE op = EditInbound(model["n"].key, 0)
        BY <3>1, <3>3, MadeOps, Zenon
      <3>4. CASE op = EditInbound(model["n"].key, 2)
        BY <3>1, <3>4, MadeOps, Zenon
      <3> QED BY <2>1, <3>2, <3>3, <3>4
    <2> DEFINE m == [model EXCEPT !["n"] = op]
    <2>4. IsForm(m) /\ m["n"] = op /\ m["l"] = model["l"] /\ m["e"] = model["e"]
      BY <1>0, <2>3, FormWith
    <2>5. ~(model["l"].on /\ model["l"].ref = "n")
      BY <2>2 DEF Referenced
    <2> HIDE DEF m
    <2>6. EditMakes(m, typed)
      BY <1>2, <2>2, <2>3, <2>4, <2>5 DEF EditMakes, RefersWell
    <2> QED BY <2>1, <2>6, EditKeepsDraft DEF m
  <1>7. CASE EditInboundFields
    <2>1. model["n"].on /\ ~model["n"].edit /\ model["n"] \in InboundRecords
      BY <1>1, <1>7 DEF EditInboundFields
    <2>2. ASSUME NEW tag \in {1, 2}, EditOperation([model EXCEPT !["n"].tag = tag], typed) PROVE DraftInv'
      <3> DEFINE op == [model["n"] EXCEPT !.tag = tag]
                 m == [model EXCEPT !["n"] = op]
      <3>1. /\ op \in InboundRecords /\ op.on = model["n"].on /\ op.key = model["n"].key /\ op.edit = model["n"].edit
            /\ op.proto = model["n"].proto /\ op.settings = model["n"].settings
        <4>1. tag \in Nat
          OBVIOUS
        <4> QED BY <2>1, <4>1 DEF InboundRecords
      <3>2. op \in InboundOps
        BY <3>1 DEF InboundOps, InboundRecords
      <3>3. EditOperation(m, typed)
        BY <2>2
      <3> HIDE DEF op
      <3>4. IsForm(m) /\ m["n"] = op /\ m["l"] = model["l"] /\ m["e"] = model["e"]
        BY <1>0, <3>2, FormWith
      <3> HIDE DEF m
      <3>5. EditMakes(m, typed)
        BY <1>0, <1>2, <2>1, <3>1, <3>4 DEF EditMakes, RefersWell
      <3> QED BY <3>3, <3>5, EditKeepsDraft
    <2>3. ASSUME ~Frozen, NEW p \in Protos, NEW st \in {"s1", "s2"},
                 EditOperation([model EXCEPT !["n"] = [@ EXCEPT !.proto = p, !.settings = st]], typed)
          PROVE  DraftInv'
      <3> DEFINE op == [model["n"] EXCEPT !.proto = p, !.settings = st]
                 m == [model EXCEPT !["n"] = op]
      <3>1. /\ op \in InboundRecords /\ op.on = model["n"].on /\ op.key = model["n"].key /\ op.edit = model["n"].edit
            /\ op.settings = st
        BY <2>1 DEF InboundRecords
      <3>2. op \in InboundOps
        BY <3>1 DEF InboundOps, InboundRecords
      <3>3. EditOperation(m, typed)
        BY <2>3
      <3>6. model["n"].settings # "kept" /\ st # "kept"
        BY <2>1, <2>3 DEF Frozen
      <3> HIDE DEF op
      <3>4. IsForm(m) /\ m["n"] = op /\ m["l"] = model["l"] /\ m["e"] = model["e"]
        BY <1>0, <3>2, FormWith
      <3> HIDE DEF m
      <3>5. EditMakes(m, typed)
        BY <1>0, <1>2, <2>1, <3>1, <3>4, <3>6 DEF EditMakes, RefersWell
      <3> QED BY <3>3, <3>5, EditKeepsDraft
    <2> QED BY <1>7, <2>2, <2>3 DEF EditInboundFields
  <1>8. CASE ReferTo
    <2> DEFINE op == [model["l"] EXCEPT !.ref = "n"]
               m == [model EXCEPT !["l"] = op]
    <2>1. model["l"].on /\ model["n"].on /\ ~model["n"].edit
      BY <1>8 DEF ReferTo
    <2>2. model["l"] \in [on : {TRUE}, ref : {"", "n"}]
      <3>1. Gone.on = FALSE
        BY DEF Gone
      <3> QED BY <1>0, <2>1, <3>1 DEF LineOps
    <2>3. op \in [on : {TRUE}, ref : {"", "n"}]
      BY <2>2
    <2>4. op \in LineOps
      BY <2>3 DEF LineOps
    <2>5. EditOperation(m, typed)
      BY <1>8 DEF ReferTo
    <2> HIDE DEF op
    <2>6. IsForm(m) /\ m["n"] = model["n"] /\ m["l"] = op /\ m["e"] = model["e"]
      BY <1>0, <2>4, FormWith
    <2> HIDE DEF m
    <2>7. EditMakes(m, typed)
      BY <1>2, <2>1, <2>6 DEF EditMakes, RefersWell
    <2> QED BY <2>5, <2>7, EditKeepsDraft
  <1>9. CASE EditEntry
    <2>1. PICK v \in FieldValues : EditOperation([model EXCEPT !["e"].field = v], TRUE)
      BY <1>9 DEF EditEntry
    <2> DEFINE op == [model["e"] EXCEPT !.field = v]
               m == [model EXCEPT !["e"] = op]
    <2>2. model["e"].on
      BY <1>9 DEF EditEntry
    <2>3. model["e"] \in [on : {TRUE}, field : FieldValues, keep : KeepValues]
      <3>1. Gone.on = FALSE
        BY DEF Gone
      <3> QED BY <1>0, <2>2, <3>1 DEF EntryOps
    <2>4. op \in [on : {TRUE}, field : FieldValues, keep : KeepValues] /\ op.keep = model["e"].keep
      BY <2>3
    <2>5. op \in EntryOps
      BY <2>4 DEF EntryOps
    <2>6. EditOperation(m, TRUE)
      BY <2>1
    <2> HIDE DEF op
    <2>7. IsForm(m) /\ m["n"] = model["n"] /\ m["l"] = model["l"] /\ m["e"] = op
      BY <1>0, <2>5, FormWith
    <2> HIDE DEF m
    <2>8. EditMakes(m, TRUE)
      BY <1>0, <1>2, <2>2, <2>4, <2>7 DEF EditMakes, RefersWell
    <2> QED BY <2>6, <2>8, EditKeepsDraft
  <1> QED BY <1>3, <1>4, <1>5, <1>6, <1>7, <1>8, <1>9

\* What the invariant says of the save under way.
LEMMA SaveFacts ==
  ASSUME DraftInv, saving # << >>
  PROVE  LET s == saving[1] IN
         saving = <<s>> /\ SaveTyped(s) /\ OutHolds(s) /\ AnsweredHolds(s) /\ BesideSave(s)
  <1>1. PICK s : saving = <<s>> /\ SaveTyped(s)
    BY DEF DraftInv, DraftTyped
  <1>2. saving[1] = s
    BY <1>1
  <1>3. OutHolds(s) /\ AnsweredHolds(s) /\ BesideSave(s)
    BY <1>1 DEF DraftInv, SaveHolds
  <1> QED BY <1>1, <1>2, <1>3

LEMMA KeepSavedKeeps == DraftInv /\ KeepSaved => DraftInv'
  <1> SUFFICES ASSUME DraftInv, KeepSaved PROVE DraftInv'
    OBVIOUS
  <1>0. /\ model["n"].on /\ model["n"].key \in clashes
        /\ model' = KeepSavedSettings(model, stored.ops) /\ clashes' = {}
        /\ savedAs' = savedAs /\ saving' = saving /\ stored' = stored /\ live' = live /\ seen' = seen /\ typed' = typed
        /\ refusal' = refusal /\ draftEdits' = draftEdits
    BY DEF KeepSaved, draftBounds
  <1>1. DraftTyped /\ KeysIssued /\ KeptIsStored
    BY DEF DraftInv
  <1>2. saving = << >>
    BY <1>0, SaveFacts DEF BesideSave
  <1>3. SettledForm(model, stored.ops, model')
    BY <1>0, <1>1, KeepSavedFacts DEF DraftTyped
  <1> DEFINE m == model'
  <1>4. /\ IsForm(m) /\ m["n"].on = model["n"].on /\ m["l"] = model["l"] /\ m["e"] = model["e"]
        /\ m["n"].key = model["n"].key /\ m["n"].edit = model["n"].edit
        /\ IF SameKey(model["n"], stored.ops["n"]) /\ ~stored.ops["n"].edit
           THEN m["n"].proto = stored.ops["n"].proto /\ m["n"].settings = "kept" ELSE m = model
    BY <1>0, <1>3 DEF SettledForm
  <1> HIDE DEF m
  <1>5. DraftTyped'
    BY <1>0, <1>1, <1>4 DEF DraftTyped, m
  <1>6. KeysIssued'
    BY <1>0, <1>1, <1>4 DEF KeysIssued, m
  <1>7. FrozenAsSaved'
    <2> SUFFICES ASSUME SameKey(m["n"], stored.ops["n"]), ~stored.ops["n"].edit
                 PROVE  m["n"].proto = stored.ops["n"].proto /\ m["n"].settings = "kept"
      BY <1>0 DEF FrozenAsSaved, m
    <2>1. SameKey(model["n"], stored.ops["n"])
      BY <1>0, <1>4 DEF SameKey
    <2> QED BY <1>4, <2>1
  <1>8. KeptIsStored'
    <2> SUFFICES ASSUME Creates(m["n"]), m["n"].settings = "kept"
                 PROVE  savedAs # << >> /\ (OfStored => Creates(stored.ops["n"]) /\ stored.ops["n"].key = m["n"].key)
      BY <1>0 DEF KeptIsStored, OfStored, m
    <2>1. savedAs # << >>
      BY <1>0, <1>1 DEF KeysIssued
    <2>2. CASE SameKey(model["n"], stored.ops["n"]) /\ ~stored.ops["n"].edit
      BY <1>4, <2>1, <2>2 DEF SameKey, Creates
    <2>3. CASE ~(SameKey(model["n"], stored.ops["n"]) /\ ~stored.ops["n"].edit)
      BY <1>1, <1>4, <2>3 DEF KeptIsStored
    <2> QED BY <2>2, <2>3
  <1>9. SaveHolds'
    BY <1>0, <1>2 DEF SaveHolds
  <1>10. RefersWell(m) /\ (~typed => StillOmitted(m))
    BY <1>4 DEF DraftInv, RefersWell, StillOmitted
  <1>11. SettingsAreTyped' /\ refusal' # "fixed"
    BY <1>0 DEF DraftInv, SettingsAreTyped
  <1> QED BY <1>0, <1>5, <1>6, <1>7, <1>8, <1>9, <1>10, <1>11 DEF DraftInv, m

LEMMA SaveDraftKeeps == DraftInv /\ SaveDraft => DraftInv'
  <1> SUFFICES ASSUME DraftInv, SaveDraft PROVE DraftInv'
    OBVIOUS
  <1> DEFINE v == IF savedAs = << >> THEN 0 ELSE savedAs[1].version
  <1>p. PICK s : s = [stage |-> "out", sent |-> model, refused |-> "none", answer |-> NoOps, version |-> v]
    OBVIOUS
  <1>0. /\ saving = << >> /\ ~(model["n"].on /\ model["n"].key \in clashes) /\ saving' = <<s>>
        /\ model' = model /\ savedAs' = savedAs /\ clashes' = clashes /\ stored' = stored /\ live' = live /\ seen' = seen
        /\ typed' = typed /\ refusal' = refusal /\ draftEdits' = draftEdits
    BY <1>p DEF SaveDraft
  <1>1. DraftTyped /\ KeysIssued /\ FrozenAsSaved /\ KeptIsStored /\ RefersWell(model) /\ (~typed => StillOmitted(model))
    BY DEF DraftInv
  <1>2. v \in Nat /\ (savedAs # << >> => v > 0 /\ v = savedAs[1].version)
    <2>1. CASE savedAs = << >>
      BY <2>1
    <2>2. CASE savedAs # << >>
      <3>1. PICK u, i : u \in Nat \ {0} /\ savedAs = <<[version |-> u, sent |-> i]>>
        BY <1>1, <2>2 DEF DraftTyped
      <3>2. savedAs[1].version = u
        BY <3>1
      <3> QED BY <2>2, <3>1, <3>2
    <2> QED BY <2>1, <2>2
  <1>3. savedAs = << >> => v = 0
    OBVIOUS
  <1> HIDE DEF v
  <1>4. /\ s.stage = "out" /\ s.sent = model /\ s.refused = "none" /\ s.answer = NoOps /\ s.version = v
        /\ s = [stage |-> s.stage, sent |-> s.sent, refused |-> s.refused, answer |-> s.answer, version |-> s.version]
    BY <1>p
  <1>5. SaveTyped(s)
    BY <1>1, <1>2, <1>4, NothingIsInput DEF SaveTyped, DraftTyped
  <1>6. DraftTyped'
    <2>1. \E t : saving' = <<t>> /\ SaveTyped(t)
      BY <1>0, <1>5
    <2> QED BY <1>0, <1>1, <2>1 DEF DraftTyped
  <1>7. KeysIssued' /\ FrozenAsSaved' /\ KeptIsStored'
    BY <1>0, <1>1 DEF KeysIssued, FrozenAsSaved, KeptIsStored, OfStored
  <1>8. InputOf(model, ChangesetInput(model))
    BY <1>1, InputFacts DEF DraftTyped
  <1>9. OutHolds(s)'
    <2> DEFINE o == ChangesetInput(model)
    <2>1. v > 0 /\ v = stored.version => ~FixedChanged(o, stored.ops)
      <3> SUFFICES ASSUME v > 0, v = stored.version, FixedChanged(o, stored.ops) PROVE FALSE
        OBVIOUS
      <3>1. OfStored
        BY <1>2, <1>3 DEF OfStored
      <3>2. SameKey(o["n"], stored.ops["n"]) /\ ~o["n"].edit /\ ~stored.ops["n"].edit
            /\ (o["n"].proto # stored.ops["n"].proto \/ o["n"].settings # "kept")
        BY DEF FixedChanged
      <3> HIDE DEF o
      <3>3. InputOf(model, o)
        BY <1>8 DEF o
      <3>4. SameKey(model["n"], stored.ops["n"]) /\ ~model["n"].edit /\ model["n"].on
        BY <3>2, <3>3 DEF InputOf, SameKey
      <3>5. model["n"].proto = stored.ops["n"].proto /\ model["n"].settings = "kept"
        BY <1>0, <1>1, <3>1, <3>2, <3>4 DEF FrozenAsSaved
      <3>6. o["n"].proto = model["n"].proto /\ o["n"].settings = model["n"].settings
        BY <3>3, <3>4 DEF InputOf, Creates
      <3> QED BY <3>2, <3>5, <3>6
    <2>2. Creates(model["n"]) /\ model["n"].settings = "kept" =>
            v > 0 /\ (v = stored.version => SameKey(model["n"], stored.ops["n"]) /\ ~stored.ops["n"].edit)
      BY <1>1, <1>2 DEF KeptIsStored, OfStored, Creates, SameKey
    <2>3. v = IF savedAs = << >> THEN 0 ELSE savedAs[1].version
      BY DEF v
    <2> QED BY <1>0, <1>4, <2>1, <2>2, <2>3 DEF OutHolds
  <1>10. AnsweredHolds(s)'
    BY <1>4 DEF AnsweredHolds
  <1>11. BesideSave(s)'
    BY <1>0, <1>1, <1>4 DEF BesideSave, KeysIssued, Creates, SameKey
  <1>12. SaveHolds'
    BY <1>0, <1>9, <1>10, <1>11 DEF SaveHolds
  <1>13. SettingsAreTyped' /\ refusal' # "fixed"
    BY <1>0 DEF DraftInv, SettingsAreTyped
  <1> QED BY <1>0, <1>6, <1>7, <1>12, <1>13 DEF DraftInv, RefersWell, StillOmitted

LEMMA ServeDraftKeeps == DraftInv /\ ServeDraft => DraftInv'
  <1> SUFFICES ASSUME DraftInv, ServeDraft PROVE DraftInv'
    OBVIOUS
  <1>s. PICK s : s = saving[1]
    OBVIOUS
  <1> DEFINE ops == ChangesetInput(s.sent)
             old == IF s.version = 0 THEN NoOps ELSE stored.ops
             refused == IF s.version > 0 /\ s.version # stored.version THEN "conflict"
                        ELSE IF FixedChanged(ops, old) THEN "fixed" ELSE "none"
  <1>t. PICK t : t = [s EXCEPT !.stage = "answered", !.refused = refused, !.answer = stored'.ops, !.version = stored'.version]
    OBVIOUS
  <1>0. /\ saving # << >> /\ s.stage = "out"
        /\ stored' = IF refused # "none" THEN stored ELSE [version |-> s.version + 1, ops |-> Stored(ops, old)]
        /\ saving' = <<t>>
    BY <1>s, <1>t DEF ServeDraft
  <1>u. /\ model' = model /\ savedAs' = savedAs /\ clashes' = clashes /\ live' = live /\ seen' = seen /\ typed' = typed
        /\ refusal' = refusal /\ draftEdits' = draftEdits
    BY DEF ServeDraft, draftBounds
  <1>1. saving = <<s>> /\ SaveTyped(s) /\ OutHolds(s) /\ BesideSave(s)
    BY <1>0, <1>s, SaveFacts
  <1>2. DraftTyped /\ KeysIssued /\ FrozenAsSaved /\ KeptIsStored /\ RefersWell(model) /\ SettingsAreTyped
        /\ (~typed => StillOmitted(model) /\ (stored.ops["e"].on => stored.ops["e"].field = << >>))
    BY DEF DraftInv
  <1>3. InputOf(s.sent, ops) /\ IsForm(s.sent) /\ s.version \in Nat
    BY <1>1, InputFacts DEF SaveTyped
  <1> HIDE DEF ops
  <1>4. IsInput(ops) /\ IsInput(old)
    BY <1>2, <1>3, NothingIsInput DEF InputOf, DraftTyped
  <1>5. refused # "fixed"
    <2>1. CASE s.version = 0
      <3>1. old["n"].on = FALSE
        BY <2>1, NothingIsInput DEF Key
      <3>2. ~FixedChanged(ops, old)
        BY <3>1 DEF FixedChanged, SameKey
      <3> QED BY <3>2
    <2>2. CASE s.version > 0 /\ s.version = stored.version
      <3>1. old = stored.ops
        BY <2>2
      <3>2. ~FixedChanged(ops, old)
        BY <1>0, <1>1, <2>2, <3>1 DEF OutHolds, ops
      <3> QED BY <3>2
    <2>3. CASE s.version > 0 /\ s.version # stored.version
      BY <2>3
    <2> QED BY <1>3, <2>1, <2>2, <2>3
  <1>6. refused = "none" => s.version = 0 \/ s.version = stored.version
    BY <1>3
  <1>7. refused \in {"none", "conflict"}
    BY <1>5
  <1> HIDE DEF refused
  <1>8. /\ t.stage = "answered" /\ t.sent = s.sent /\ t.refused = refused /\ t.answer = stored'.ops /\ t.version = stored'.version
        /\ t = [stage |-> t.stage, sent |-> t.sent, refused |-> t.refused, answer |-> t.answer, version |-> t.version]
    <2>1. s = [stage |-> s.stage, sent |-> s.sent, refused |-> s.refused, answer |-> s.answer, version |-> s.version]
      BY <1>1 DEF SaveTyped
    <2> QED BY <1>t, <2>1
  <1> DEFINE st == Stored(ops, old)
  <1>9. StoredAs(ops, old, st)
    BY <1>4, StoredFacts
  <1>10. \/ refused # "none" /\ stored' = stored
         \/ refused = "none" /\ stored'.version = s.version + 1 /\ stored'.ops = st
    BY <1>0
  <1> HIDE DEF st, old
  <1>11. stored'.version \in Nat /\ IsInput(stored'.ops)
    BY <1>2, <1>3, <1>9, <1>10 DEF DraftTyped, StoredAs
  <1>12. DraftTyped'
    <2>1. SaveTyped(t)
      BY <1>1, <1>3, <1>7, <1>8, <1>11 DEF SaveTyped
    <2>2. \E r : saving' = <<r>> /\ SaveTyped(r)
      BY <1>0, <2>1
    <2> QED BY <1>2, <1>u, <1>11, <2>2 DEF DraftTyped
  <1>13. stored'.ops["n"].on => stored'.ops["n"].key <= draftEdits
    BY <1>1, <1>2, <1>3, <1>9, <1>10 DEF KeysIssued, StoredAs, InputOf, BesideSave
  <1>14. KeysIssued'
    BY <1>2, <1>u, <1>13 DEF KeysIssued
  <1>15. refused = "none" => ~OfStored'
    <2>1. savedAs # << >> => savedAs[1].version = s.version
      BY <1>0, <1>1 DEF OutHolds
    <2> QED BY <1>3, <1>10, <1>u, <2>1 DEF OfStored
  <1>16. FrozenAsSaved' /\ KeptIsStored'
    BY <1>2, <1>10, <1>15, <1>u DEF FrozenAsSaved, KeptIsStored, OfStored
  <1>17. SettingsAreTyped'
    <2>1. CASE refused # "none"
      BY <1>2, <1>10, <2>1 DEF SettingsAreTyped
    <2>2. CASE refused = "none"
      <3> SUFFICES ASSUME st["n"].on, ~st["n"].edit PROVE st["n"].settings \in {"s1", "s2"}
        BY <1>10, <2>2 DEF SettingsAreTyped
      <3>1. Creates(ops["n"]) /\ Creates(s.sent["n"])
        BY <1>3, <1>9 DEF StoredAs, InputOf, Creates
      <3>2. s.sent["n"].settings \in {"s1", "s2", "kept"} /\ ops["n"].settings = s.sent["n"].settings
        <4>1. s.sent["n"] \in InboundOps /\ s.sent["n"].on
          BY <1>3, <3>1 DEF IsForm, Creates
        <4>2. s.sent["n"].settings \in {"s1", "s2", "kept"}
          BY <4>1, InboundOpFacts
        <4> QED BY <1>3, <3>1, <4>2 DEF InputOf
      <3>3. CASE ops["n"].settings # "kept"
        BY <1>9, <3>1, <3>2, <3>3 DEF StoredAs
      <3>4. CASE ops["n"].settings = "kept"
        <4>1. s.version > 0 /\ (s.version = stored.version => SameKey(s.sent["n"], stored.ops["n"]) /\ ~stored.ops["n"].edit)
          BY <1>0, <1>1, <3>1, <3>2, <3>4 DEF OutHolds
        <4>2. s.version = stored.version
          BY <1>6, <2>2, <4>1
        <4>3. old = stored.ops
          BY <4>1 DEF old
        <4>4. SameKey(ops["n"], old["n"]) /\ ~old["n"].edit
          BY <1>3, <3>1, <4>1, <4>2, <4>3 DEF SameKey, InputOf, Creates
        <4>5. st["n"].settings = stored.ops["n"].settings
          BY <1>9, <3>1, <3>4, <4>3, <4>4 DEF StoredAs
        <4>6. stored.ops["n"].on /\ ~stored.ops["n"].edit
          BY <4>3, <4>4 DEF SameKey
        <4> QED BY <1>2, <4>5, <4>6 DEF SettingsAreTyped
      <3> QED BY <3>3, <3>4
    <2> QED BY <2>1, <2>2
  <1>18. ~typed /\ stored'.ops["e"].on => stored'.ops["e"].field = << >>
    <2>1. CASE refused # "none"
      BY <1>2, <1>10, <2>1
    <2>2. CASE refused = "none"
      <3> SUFFICES ASSUME ~typed, stored'.ops["e"].on PROVE stored'.ops["e"].field = << >>
        OBVIOUS
      <3>1. stored'.ops["e"] = ops["e"]
        BY <1>9, <1>10, <2>2 DEF StoredAs
      <3>2. s.sent["e"].on /\ s.sent["e"].keep = <<s.sent["e"].field>>
        BY <1>1, <1>3, <3>1 DEF InputOf, BesideSave, StillOmitted
      <3> QED BY <1>3, <3>1, <3>2 DEF InputOf
    <2> QED BY <2>1, <2>2
  <1>19. OutHolds(t)' /\ AnsweredHolds(t)' /\ BesideSave(t)'
    <2>1. OutHolds(t)'
      BY <1>8 DEF OutHolds
    <2>2. refused = "none" => AnswerOf(ops, stored'.ops) /\ stored'.version > 0
      BY <1>3, <1>9, <1>10 DEF AnswerOf, StoredAs
    <2>3. AnsweredHolds(t)'
      BY <1>5, <1>8, <2>2 DEF AnsweredHolds, ops
    <2>4. BesideSave(t)'
      BY <1>1, <1>8, <1>u DEF BesideSave
    <2> QED BY <2>1, <2>3, <2>4
  <1>20. SaveHolds'
    BY <1>0, <1>19 DEF SaveHolds
  <1>21. refusal' # "fixed"
    BY <1>u DEF DraftInv
  <1> QED BY <1>2, <1>u, <1>12, <1>14, <1>16, <1>17, <1>18, <1>20, <1>21 DEF DraftInv, RefersWell, StillOmitted

\* The form after an answer that was not refused, m, and the clashes it left, c:
\* the answer read again, the form as it was, or the form with the settings frozen.
AnswerMakes(s, m, c) ==
  \/ ChangesetInput(model) = ChangesetInput(s.sent) /\ DraftForm(stored.ops, m) /\ c = {}
  \/ m = model /\ c = {}
       /\ ~(SameKey(model["n"], stored.ops["n"]) /\ SameKey(s.sent["n"], stored.ops["n"]) /\ ~stored.ops["n"].edit)
  \/ m = model /\ c = {model["n"].key} /\ model["n"].on
  \/ SettledForm(model, stored.ops, m) /\ c = {} /\ Creates(stored.ops["n"]) /\ SameKey(model["n"], stored.ops["n"])

LEMMA AnswerForms ==
  ASSUME DraftInv, NEW s, saving = <<s>>, s.answer = stored.ops
  PROVE  LET merged == ReconcileChangesetSave(model, s.sent, s.answer)
         IN  AnswerMakes(s, merged.model, merged.clashes)
  <1> DEFINE merged == ReconcileChangesetSave(model, s.sent, stored.ops)
  <1>0. IsForm(model) /\ IsInput(stored.ops) /\ seen \in FieldValues
    BY DEF DraftInv, DraftTyped
  <1>1. DraftForm(stored.ops, ModelFromDraft(stored.ops)) /\ SettledForm(model, stored.ops, KeepSavedSettings(model, stored.ops))
    BY <1>0, FromDraftFacts, KeepSavedFacts
  <1>2. CASE ChangesetInput(model) = ChangesetInput(s.sent)
    <2>1. merged = [model |-> ModelFromDraft(stored.ops), clashes |-> {}]
      BY <1>2 DEF ReconcileChangesetSave
    <2> QED BY <1>1, <1>2, <2>1 DEF AnswerMakes
  <1> DEFINE apart == \/ ~stored.ops["n"].on \/ stored.ops["n"].edit
                      \/ ~SameKey(model["n"], stored.ops["n"]) \/ ~SameKey(s.sent["n"], stored.ops["n"])
  <1>3. CASE ChangesetInput(model) # ChangesetInput(s.sent) /\ apart
    <2>1. merged = [model |-> model, clashes |-> {}]
      BY <1>3 DEF ReconcileChangesetSave
    <2>2. ~(SameKey(model["n"], stored.ops["n"]) /\ SameKey(s.sent["n"], stored.ops["n"]) /\ ~stored.ops["n"].edit)
      BY <1>3 DEF SameKey
    <2> QED BY <2>1, <2>2 DEF AnswerMakes
  <1>4. ASSUME ChangesetInput(model) # ChangesetInput(s.sent), ~apart
        PROVE  AnswerMakes(s, merged.model, merged.clashes)
    <2>1. CASE SettingsFingerprint(model["n"]) # SettingsFingerprint(s.sent["n"])
      <3>1. merged = [model |-> model, clashes |-> {model["n"].key}]
        BY <1>4, <2>1 DEF ReconcileChangesetSave
      <3> QED BY <1>4, <3>1 DEF AnswerMakes, SameKey
    <2>2. CASE ~(SettingsFingerprint(model["n"]) # SettingsFingerprint(s.sent["n"]))
      <3>1. merged = [model |-> KeepSavedSettings(model, stored.ops), clashes |-> {}]
        BY <1>4, <2>2 DEF ReconcileChangesetSave
      <3> QED BY <1>1, <1>4, <3>1 DEF AnswerMakes, Creates
    <2> QED BY <2>1, <2>2
  <1> QED BY <1>2, <1>3, <1>4

\* What the server keeps of a save, seen from the form that was sent.
LEMMA AnswerFollowsSent ==
  ASSUME NEW s, IsForm(s.sent), AnswerOf(ChangesetInput(s.sent), stored.ops)
  PROVE  /\ stored.ops["n"].on = s.sent["n"].on /\ stored.ops["l"] = s.sent["l"] /\ stored.ops["e"].on = s.sent["e"].on
         /\ s.sent["n"].on => /\ stored.ops["n"].key = s.sent["n"].key /\ stored.ops["n"].edit = s.sent["n"].edit
                              /\ stored.ops["n"].tag = s.sent["n"].tag
         /\ s.sent["e"].on => stored.ops["e"].field = IF s.sent["e"].keep = <<s.sent["e"].field>> THEN << >> ELSE <<s.sent["e"].field>>
  <1> DEFINE o == ChangesetInput(s.sent)
  <1>1. InputOf(s.sent, o) /\ AnswerOf(o, stored.ops)
    BY InputFacts
  <1> HIDE DEF o
  <1> QED BY <1>1 DEF InputOf, AnswerOf

\* An answer that is not refused: the invariant, and what was typed meanwhile.
LEMMA AnswerLands ==
  ASSUME DraftInv, NEW s, saving = <<s>>, s.stage = "answered", s.refused = "none", SaveLands
  PROVE  /\ DraftInv'
         /\ \A k \in Key : model[k] # s.sent[k] =>
              /\ model'[k].on = model[k].on
              /\ model[k].on /\ k = "n" =>
                   model'[k].key = model[k].key /\ model'[k].tag = model[k].tag /\ model'[k].edit = model[k].edit
              /\ model[k].on /\ k # "n" => model'[k] = model[k]
  <1>0. saving[1] = s
    OBVIOUS
  <1>1. /\ saving' = << >> /\ refusal' = "none" /\ stored' = stored /\ live' = live /\ seen' = seen /\ typed' = typed
        /\ draftEdits' = draftEdits
        /\ model' = ReconcileChangesetSave(model, s.sent, s.answer).model
        /\ clashes' = ReconcileChangesetSave(model, s.sent, s.answer).clashes
        /\ savedAs' = <<[version |-> s.version, sent |-> ChangesetInput(ModelFromDraft(s.answer))]>>
    BY <1>0 DEF SaveLands, draftBounds
  <1>2. SaveTyped(s) /\ AnsweredHolds(s) /\ BesideSave(s)
    <2>1. saving # << >>
      OBVIOUS
    <2> QED BY <1>0, <2>1, SaveFacts
  <1>3. s.answer = stored.ops /\ s.version = stored.version /\ s.version > 0 /\ AnswerOf(ChangesetInput(s.sent), stored.ops)
    BY <1>2 DEF AnsweredHolds
  <1>4. /\ DraftTyped /\ KeysIssued /\ FrozenAsSaved /\ KeptIsStored /\ RefersWell(model) /\ SettingsAreTyped
        /\ ~typed => StillOmitted(model) /\ (stored.ops["e"].on => stored.ops["e"].field = << >>)
        /\ IsForm(s.sent) /\ IsForm(model) /\ IsInput(stored.ops) /\ s.version \in Nat
    BY <1>2 DEF DraftInv, DraftTyped, SaveTyped
  <1>5. PICK m, c : m = model' /\ c = clashes'
    OBVIOUS
  <1>6. AnswerMakes(s, m, c)
    BY <1>1, <1>3, <1>5, AnswerForms
  <1>7. /\ stored.ops["n"].on = s.sent["n"].on /\ stored.ops["l"] = s.sent["l"] /\ stored.ops["e"].on = s.sent["e"].on
        /\ s.sent["n"].on => /\ stored.ops["n"].key = s.sent["n"].key /\ stored.ops["n"].edit = s.sent["n"].edit
                             /\ stored.ops["n"].tag = s.sent["n"].tag
        /\ s.sent["e"].on => stored.ops["e"].field = IF s.sent["e"].keep = <<s.sent["e"].field>> THEN << >> ELSE <<s.sent["e"].field>>
    BY <1>3, <1>4, AnswerFollowsSent
  <1>8. IsForm(m)
    BY <1>4, <1>6 DEF AnswerMakes, DraftForm, SettledForm
  <1>9. PICK i : savedAs' = <<[version |-> s.version, sent |-> i]>>
    BY <1>1
  <1>10. savedAs' # << >> /\ savedAs'[1].version = s.version
    BY <1>9
  <1>11. DraftTyped'
    <2>1. \E v \in Nat \ {0} : \E j : savedAs' = <<[version |-> v, sent |-> j]>>
      <3>1. s.version \in Nat \ {0}
        BY <1>3, <1>4
      <3> QED BY <1>9, <3>1, Zenon
    <2> QED BY <1>1, <1>4, <1>5, <1>8, <2>1 DEF DraftTyped
  <1>12. /\ model["n"].on => model["n"].key \in Nat /\ model["n"].key <= draftEdits
         /\ stored.ops["n"].on => stored.ops["n"].key <= draftEdits
    BY <1>4, InboundOpFacts DEF KeysIssued, IsForm
  <1>13. KeysIssued'
    <2>1. m["n"].on => m["n"].key <= draftEdits
      BY <1>6, <1>12 DEF AnswerMakes, DraftForm, SettledForm
    <2>2. \A x \in c : x \in Nat /\ x <= draftEdits
      BY <1>6, <1>12 DEF AnswerMakes
    <2> QED BY <1>1, <1>5, <1>10, <1>12, <2>1, <2>2 DEF KeysIssued
  <1>14. FrozenAsSaved'
    <2> SUFFICES ASSUME SameKey(m["n"], stored.ops["n"]), ~stored.ops["n"].edit, m["n"].key \notin c
                 PROVE  m["n"].proto = stored.ops["n"].proto /\ m["n"].settings = "kept"
      BY <1>1, <1>5 DEF FrozenAsSaved
    <2>1. m["n"].on /\ stored.ops["n"].on /\ m["n"].key = stored.ops["n"].key
      BY DEF SameKey
    <2>2. SameKey(s.sent["n"], stored.ops["n"])
      BY <1>7, <2>1 DEF SameKey
    <2>3. CASE DraftForm(stored.ops, m)
      BY <2>1, <2>3 DEF DraftForm, Creates
    <2>4. CASE SettledForm(model, stored.ops, m) /\ Creates(stored.ops["n"]) /\ SameKey(model["n"], stored.ops["n"])
      BY <2>4 DEF SettledForm
    <2> QED BY <1>6, <2>2, <2>3, <2>4 DEF AnswerMakes
  <1>15. KeptIsStored'
    <2> SUFFICES ASSUME Creates(m["n"]), m["n"].settings = "kept"
                 PROVE  Creates(stored.ops["n"]) /\ stored.ops["n"].key = m["n"].key
      BY <1>1, <1>5, <1>10 DEF KeptIsStored
    <2>1. CASE DraftForm(stored.ops, m)
      BY <2>1 DEF DraftForm, Creates
    <2>2. CASE m = model
      <3>1. SameKey(model["n"], s.sent["n"]) /\ ~s.sent["n"].edit
        BY <1>2, <2>2 DEF BesideSave
      <3> QED BY <1>7, <2>2, <3>1 DEF SameKey, Creates
    <2>3. CASE SettledForm(model, stored.ops, m) /\ Creates(stored.ops["n"]) /\ SameKey(model["n"], stored.ops["n"])
      BY <2>3 DEF SettledForm, SameKey
    <2> QED BY <1>6, <2>1, <2>2, <2>3 DEF AnswerMakes
  <1>16. RefersWell(m)
    <2>1. CASE DraftForm(stored.ops, m)
      <3>1. m["l"] = s.sent["l"]
        BY <1>7, <2>1 DEF DraftForm
      <3>2. m["l"].on /\ m["l"].ref = "n" => s.sent["n"].on /\ ~s.sent["n"].edit
        BY <1>2, <3>1 DEF BesideSave, RefersWell
      <3> QED BY <1>7, <2>1, <3>2 DEF DraftForm, RefersWell
    <2>2. CASE SettledForm(model, stored.ops, m)
      BY <1>4, <2>2 DEF SettledForm, RefersWell
    <2> QED BY <1>4, <1>6, <2>1, <2>2 DEF AnswerMakes
  <1>17. ~typed => StillOmitted(m)
    <2>1. CASE DraftForm(stored.ops, m)
      BY <1>4, <2>1 DEF DraftForm, StillOmitted
    <2>2. CASE SettledForm(model, stored.ops, m)
      BY <1>4, <2>2 DEF SettledForm, StillOmitted
    <2> QED BY <1>4, <1>6, <2>1, <2>2 DEF AnswerMakes
  <1>18. SaveHolds' /\ SettingsAreTyped' /\ refusal' # "fixed"
    BY <1>1, <1>4 DEF SaveHolds, SettingsAreTyped
  <1>19. DraftInv'
    BY <1>1, <1>4, <1>5, <1>11, <1>13, <1>14, <1>15, <1>16, <1>17, <1>18 DEF DraftInv
  <1>20. ASSUME NEW k \in Key, model[k] # s.sent[k]
         PROVE  /\ m[k].on = model[k].on
                /\ model[k].on /\ k = "n" => m[k].key = model[k].key /\ m[k].tag = model[k].tag /\ m[k].edit = model[k].edit
                /\ model[k].on /\ k # "n" => m[k] = model[k]
    <2>1. CASE m = model
      BY <2>1
    <2>2. CASE SettledForm(model, stored.ops, m)
      BY <2>2 DEF SettledForm, Key
    <2>3. CASE ChangesetInput(model) = ChangesetInput(s.sent) /\ DraftForm(stored.ops, m)
      <3> DEFINE o == ChangesetInput(model)
      <3>1. InputOf(model, o) /\ InputOf(s.sent, o)
        BY <1>4, <2>3, InputFacts
      <3> HIDE DEF o
      <3>2. CASE k = "n"
        BY <1>7, <2>3, <3>1, <3>2 DEF InputOf, DraftForm
      <3>3. CASE k = "l"
        BY <1>7, <2>3, <3>1, <3>3 DEF InputOf, DraftForm
      <3>4. CASE k = "e"
        <4>1. m["e"].on = model["e"].on /\ s.sent["e"].on = model["e"].on
          BY <1>7, <2>3, <3>1 DEF InputOf, DraftForm
        <4>2. ASSUME model["e"].on PROVE m["e"] = model["e"]
          <5>1. model["e"] \in EntryOps /\ s.sent["e"] \in EntryOps /\ m["e"] \in EntryOps /\ model["e"] # s.sent["e"]
            BY <1>4, <1>8, <1>20, <3>4 DEF IsForm
          <5>2. model["e"].keep = << >> \/ model["e"].keep = s.sent["e"].keep
            BY <1>2, <4>2 DEF BesideSave
          <5> DEFINE f == model["e"].field
                     g == s.sent["e"].field
          <5>3. /\ o["e"].field = IF model["e"].keep = <<f>> THEN << >> ELSE <<f>>
                /\ o["e"].field = IF s.sent["e"].keep = <<g>> THEN << >> ELSE <<g>>
                /\ stored.ops["e"].field = o["e"].field
            BY <1>7, <3>1, <4>1, <4>2 DEF InputOf
          <5>4. model["e"].keep = s.sent["e"].keep => f = g
            <6>1. CASE o["e"].field = << >>
              BY <5>3, <6>1
            <6>2. CASE o["e"].field # << >>
              BY <5>3, <6>2
            <6> QED BY <6>1, <6>2
          <5>5. model["e"].keep = << >>
            BY <4>1, <4>2, <5>1, <5>2, <5>4, EqualEntries
          <5>6. o["e"].field = <<f>>
            BY <5>3, <5>5
          <5>7. m["e"].keep = << >> /\ <<m["e"].field>> = <<f>>
            BY <2>3, <4>1, <4>2, <5>3, <5>6 DEF DraftForm
          <5>8. m["e"].field = f
            BY <5>7
          <5> QED BY <4>1, <4>2, <5>1, <5>5, <5>7, <5>8, EqualEntries
        <4> QED BY <3>4, <4>1, <4>2
      <3> QED BY <3>2, <3>3, <3>4 DEF Key
    <2> QED BY <1>6, <2>1, <2>2, <2>3 DEF AnswerMakes
  <1> QED BY <1>5, <1>19, <1>20

\* An answer takes back nothing that was typed after its save was sent.
TypedStays ==
  \A k \in Key : saving # << >> /\ saving' = << >> /\ model[k] # saving[1].sent[k] =>
    /\ model'[k].on = model[k].on
    /\ model[k].on /\ k = "n" =>
         model'[k].key = model[k].key /\ model'[k].tag = model[k].tag /\ model'[k].edit = model[k].edit
    /\ model[k].on /\ k # "n" => model'[k] = model[k]

\* A save that was lost or refused, and what moves on the server meanwhile.
LEMMA FormUntouched ==
  ASSUME DraftInv, model' = model, savedAs' = savedAs, clashes' = clashes, stored' = stored, typed' = typed,
         draftEdits' = draftEdits, refusal' # "fixed", seen' \in FieldValues, live' \in FieldValues,
         saving' = saving \/ saving' = << >>
  PROVE  DraftInv'
  <1>1. DraftTyped'
    BY DEF DraftInv, DraftTyped
  <1>2. KeysIssued' /\ FrozenAsSaved' /\ KeptIsStored' /\ SettingsAreTyped'
    BY DEF DraftInv, KeysIssued, FrozenAsSaved, KeptIsStored, OfStored, SettingsAreTyped
  <1>3. SaveHolds'
    <2> SUFFICES ASSUME NEW s, saving' = <<s>> PROVE (OutHolds(s) /\ AnsweredHolds(s) /\ BesideSave(s))'
      BY DEF SaveHolds
    <2>1. saving = <<s>>
      OBVIOUS
    <2>2. OutHolds(s) /\ AnsweredHolds(s) /\ BesideSave(s)
      BY <2>1 DEF DraftInv, SaveHolds
    <2> QED BY <2>2 DEF OutHolds, AnsweredHolds, BesideSave
  <1> QED BY <1>1, <1>2, <1>3 DEF DraftInv, RefersWell, StillOmitted

LEMMA DraftSteps ==
  ASSUME DraftInv, [DraftNext]_draftVars
  PROVE  DraftInv' /\ TypedStays
  <1>0. refusal # "fixed" /\ seen \in FieldValues /\ live \in FieldValues
    BY DEF DraftInv, DraftTyped
  <1>1. CASE AddOperation \/ SelectEntry \/ RemoveOperation \/ SwitchInbound \/ EditInboundFields \/ ReferTo \/ EditEntry
    <2>1. saving' = saving
      BY <1>1 DEF AddOperation, SelectEntry, RemoveOperation, SwitchInbound, EditInboundFields, ReferTo, EditEntry, EditOperation
    <2> QED BY <1>1, <2>1, FormEdits DEF TypedStays
  <1>2. CASE KeepSaved
    <2>1. saving' = saving
      BY <1>2 DEF KeepSaved
    <2> QED BY <1>2, <2>1, KeepSavedKeeps DEF TypedStays
  <1>3. CASE SaveDraft
    <2>1. saving = << >>
      BY <1>3 DEF SaveDraft
    <2> QED BY <1>3, <2>1, SaveDraftKeeps DEF TypedStays
  <1>4. CASE ServeDraft
    <2>1. saving' # << >>
      BY <1>4 DEF ServeDraft
    <2> QED BY <1>4, <2>1, ServeDraftKeeps DEF TypedStays
  <1>5. CASE SaveLands
    <2>1. saving # << >> /\ saving[1].stage = "answered" /\ saving' = << >>
      BY <1>5 DEF SaveLands
    <2>2. PICK s : saving = <<s>> /\ SaveTyped(s) /\ OutHolds(s) /\ AnsweredHolds(s) /\ BesideSave(s)
      BY <2>1, SaveFacts
    <2>3. saving[1] = s /\ s.stage = "answered"
      BY <2>1, <2>2
    <2>4. CASE s.refused = "none"
      BY <1>5, <2>2, <2>3, <2>4, AnswerLands DEF TypedStays
    <2>5. CASE s.refused # "none"
      <3>1. /\ model' = model /\ savedAs' = savedAs /\ clashes' = clashes /\ stored' = stored /\ typed' = typed
            /\ draftEdits' = draftEdits /\ refusal' = s.refused /\ seen' = seen /\ live' = live
        BY <1>5, <2>3, <2>5 DEF SaveLands, draftBounds
      <3>2. s.refused # "fixed"
        BY <2>2, <2>3 DEF AnsweredHolds
      <3>3. DraftInv'
        BY <1>0, <2>1, <3>1, <3>2, FormUntouched
      <3> QED BY <3>1, <3>3 DEF TypedStays
    <2> QED BY <2>4, <2>5
  <1>6. CASE LoseSave
    <2>1. /\ model' = model /\ savedAs' = savedAs /\ clashes' = clashes /\ stored' = stored /\ typed' = typed
          /\ draftEdits' = draftEdits /\ refusal' = "lost" /\ seen' = seen /\ live' = live /\ saving' = << >>
      BY <1>6 DEF LoseSave
    <2>2. DraftInv'
      BY <1>0, <2>1, FormUntouched
    <2> QED BY <2>1, <2>2 DEF TypedStays
  <1>7. CASE LiveMoves
    <2>1. /\ model' = model /\ savedAs' = savedAs /\ clashes' = clashes /\ stored' = stored /\ typed' = typed
          /\ draftEdits' = draftEdits /\ refusal' = refusal /\ seen' = seen /\ saving' = saving /\ live' = (live + 1) % 3
      BY <1>7 DEF LiveMoves
    <2>2. live' \in FieldValues
      BY <1>0, <2>1 DEF FieldValues
    <2>3. DraftInv'
      BY <1>0, <2>1, <2>2, FormUntouched
    <2> QED BY <2>1, <2>3 DEF TypedStays
  <1>8. CASE CatalogLands
    <2>1. /\ model' = model /\ savedAs' = savedAs /\ clashes' = clashes /\ stored' = stored /\ typed' = typed
          /\ draftEdits' = draftEdits /\ refusal' = refusal /\ seen' = live /\ saving' = saving /\ live' = live
      BY <1>8 DEF CatalogLands, draftBounds
    <2>2. DraftInv'
      BY <1>0, <2>1, FormUntouched
    <2> QED BY <2>1, <2>2 DEF TypedStays
  <1>9. CASE UNCHANGED draftVars
    <2>1. /\ model' = model /\ savedAs' = savedAs /\ clashes' = clashes /\ stored' = stored /\ typed' = typed
          /\ draftEdits' = draftEdits /\ refusal' = refusal /\ seen' = seen /\ saving' = saving /\ live' = live
      BY <1>9 DEF draftVars
    <2>2. DraftInv'
      BY <1>0, <2>1, FormUntouched
    <2> QED BY <2>1, <2>2 DEF TypedStays
  <1> QED BY <1>1, <1>2, <1>3, <1>4, <1>5, <1>6, <1>7, <1>8, <1>9 DEF DraftNext
=============================================================================
