--------------------------- MODULE ChangesetDraft ---------------------------
(***************************************************************************)
(* The editor of a topology draft: an inbound that is created, a line that *)
(* refers to it, and an edit of an entry that exists, from a new draft or  *)
(* from one an API client wrote with fields left out.  The server answers  *)
(* a save without the settings of a created inbound and refuses to have    *)
(* them changed; a field that was left out stays as it is on the entry.    *)
(* An event that was queued before the form froze edits the draft while    *)
(* its save is out (reconcileChangesetSave).  Review and commit are in     *)
(* ReviewSession.                                                          *)
(***************************************************************************)
EXTENDS Integers, Sequences, FiniteSets

CONSTANTS
  MaxDraftEdits,   \* bound: edits of the form
  MaxDraftSaves,   \* bound: saves
  MaxLiveMoves,    \* bound: changes of the entry by someone else
  MaxLostSaves     \* bound: answers that are lost

VARIABLES
  model,           \* the form: operations by their key
  savedAs,         \* the draft as last answered: << >> or << [version, sent] >>
  clashes,         \* keys whose settings were changed while they were saved
  saving,          \* the save under way: << >> or << [stage, sent, version, answer] >>
  stored,          \* the server's draft: version 0 is none
  live,            \* the entry's field on the server
  seen,            \* the field in the catalogue the page has
  typed,           \* whether the person has changed the entry's field
  refusal,         \* how the last save was refused
  draftEdits, draftSaves, liveMoves, lostSaves

draftVars == <<model, savedAs, clashes, saving, stored, live, seen, typed, refusal,
               draftEdits, draftSaves, liveMoves, lostSaves>>
draftBounds == <<draftEdits, draftSaves, liveMoves, lostSaves>>

Key == {"n", "l", "e"}      \* the created inbound, the line, the edited entry
Protos == {"p1", "p2"}
FieldValues == 0..2
Gone == [on |-> FALSE]

\* An added operation has a key of its own; the number stands for it.
NewInbound(key) == [on |-> TRUE, key |-> key, edit |-> FALSE, tag |-> 1, proto |-> "p1", settings |-> "s1"]
\* An operation turned into an edit of an inbound that exists, chosen or not.
EditInbound(key, chosen) == [on |-> TRUE, key |-> key, edit |-> TRUE, tag |-> chosen, proto |-> "p1", settings |-> "s1"]
NewLine == [on |-> TRUE, ref |-> ""]
\* keep: the value an omitted field was shown with.
Entry(v, keep) == [on |-> TRUE, field |-> v, keep |-> keep]

-----------------------------------------------------------------------------
(* What is sent, and what an answer becomes in the form.                     *)

\* omitPreserved: an untouched omission stays omitted.
EntryInput(op) == [on |-> TRUE, field |-> IF op.keep = <<op.field>> THEN << >> ELSE <<op.field>>]

InboundInput(op) ==
  IF op.edit THEN [on |-> TRUE, key |-> op.key, edit |-> TRUE, tag |-> op.tag]
  ELSE [on |-> TRUE, key |-> op.key, edit |-> FALSE, tag |-> op.tag, proto |-> op.proto, settings |-> op.settings]

OperationInput(k, op) ==
  CASE ~op.on -> Gone
    [] op.on /\ k = "n" -> InboundInput(op)
    [] op.on /\ k = "l" -> op
    [] op.on /\ k = "e" -> EntryInput(op)

ChangesetInput(m) == [k \in Key |-> OperationInput(k, m[k])]

\* modelFromDraft: omitted fields are shown from the catalogue, settings not at all.
FromStored(k, op) ==
  CASE ~op.on -> Gone
    [] op.on /\ k = "n" ->
         IF op.edit THEN EditInbound(op.key, op.tag) ELSE [op EXCEPT !.settings = "kept"]
    [] op.on /\ k = "l" -> op
    [] op.on /\ k = "e" -> IF op.field = << >> THEN Entry(seen, <<seen>>) ELSE Entry(op.field[1], << >>)

ModelFromDraft(ops) == [k \in Key |-> FromStored(k, ops[k])]

\* changesetValid, for what the form can get wrong.
Valid(m) ==
  /\ \E k \in Key : m[k].on
  /\ m["n"].on /\ m["n"].edit => m["n"].tag > 0
  /\ m["l"].on => m["l"].ref = "n" /\ m["n"].on /\ ~m["n"].edit

Unsaved == \A i \in DOMAIN savedAs : savedAs[i].sent # ChangesetInput(model)

-----------------------------------------------------------------------------
(* The answer of a save.                                                     *)
SameKey(op, other) == op.on /\ other.on /\ op.key = other.key

SettingsFingerprint(op) == IF op.edit THEN <<"none">> ELSE <<op.proto, op.settings>>

KeepSavedSettings(m, ops) ==
  IF ~m["n"].on \/ ~SameKey(m["n"], ops["n"]) \/ ops["n"].edit THEN m
  ELSE [m EXCEPT !["n"] = [@ EXCEPT !.proto = ops["n"].proto, !.settings = "kept"]]

\* Mutant: settings that changed meanwhile are not noticed.
ReconcileBlind(now, sent, ops) ==
  IF ChangesetInput(now) = ChangesetInput(sent) THEN [model |-> ModelFromDraft(ops), clashes |-> {}]
  ELSE [model |-> now, clashes |-> {}]

ReconcileChangesetSave(now, sent, ops) ==
  IF ChangesetInput(now) = ChangesetInput(sent) THEN [model |-> ModelFromDraft(ops), clashes |-> {}]
  ELSE IF ~ops["n"].on \/ ops["n"].edit \/ ~SameKey(now["n"], ops["n"]) \/ ~SameKey(sent["n"], ops["n"])
       THEN [model |-> now, clashes |-> {}]
  ELSE IF SettingsFingerprint(now["n"]) # SettingsFingerprint(sent["n"])
       THEN [model |-> now, clashes |-> {now["n"].key}]
       ELSE [model |-> KeepSavedSettings(now, ops), clashes |-> {}]

-----------------------------------------------------------------------------
(* The server: SaveTopologyChangeset.                                        *)
NoOps == [k \in Key |-> Gone]

\* The settings of an inbound that is created are fixed by its first save.
FixedChanged(ops, old) ==
  /\ SameKey(ops["n"], old["n"]) /\ ~ops["n"].edit /\ ~old["n"].edit
  /\ ops["n"].proto # old["n"].proto \/ ops["n"].settings # "kept"

\* Settings that are not sent are those of the earlier save of the operation.
Stored(ops, old) ==
  IF ops["n"].on /\ ~ops["n"].edit /\ ops["n"].settings = "kept"
  THEN [ops EXCEPT !["n"].settings = IF SameKey(ops["n"], old["n"]) /\ ~old["n"].edit
                                     THEN old["n"].settings ELSE "default"]
  ELSE ops

\* A save without an id stores another draft; the form goes on with that one.
ServeDraft ==
  /\ saving # << >> /\ saving[1].stage = "out"
  /\ LET s == saving[1]
         ops == ChangesetInput(s.sent)
         old == IF s.version = 0 THEN NoOps ELSE stored.ops
         refused == IF s.version > 0 /\ s.version # stored.version THEN "conflict"
                    ELSE IF FixedChanged(ops, old) THEN "fixed" ELSE "none"
     IN /\ stored' = IF refused # "none" THEN stored ELSE [version |-> s.version + 1, ops |-> Stored(ops, old)]
        /\ saving' = << [s EXCEPT !.stage = "answered", !.refused = refused, !.answer = stored'.ops,
                                  !.version = stored'.version] >>
  /\ UNCHANGED <<model, savedAs, clashes, live, seen, typed, refusal, draftBounds>>

SaveLands ==
  /\ saving # << >> /\ saving[1].stage = "answered"
  /\ saving' = << >>
  /\ LET s == saving[1]
         merged == ReconcileChangesetSave(model, s.sent, s.answer)
     IN IF s.refused # "none" THEN refusal' = s.refused /\ UNCHANGED <<model, savedAs, clashes>>
        ELSE /\ refusal' = "none"
             /\ model' = merged.model /\ clashes' = merged.clashes
             /\ savedAs' = << [version |-> s.version, sent |-> ChangesetInput(ModelFromDraft(s.answer))] >>
  /\ UNCHANGED <<stored, live, seen, typed, draftBounds>>

LoseSave ==
  /\ saving # << >> /\ lostSaves < MaxLostSaves /\ lostSaves' = lostSaves + 1
  /\ saving' = << >> /\ refusal' = "lost"
  /\ UNCHANGED <<model, savedAs, clashes, stored, live, seen, typed, draftEdits, draftSaves, liveMoves>>

-----------------------------------------------------------------------------
(* The form.                                                                *)
SaveDraft ==
  /\ saving = << >> /\ Valid(model) /\ Unsaved /\ ~(model["n"].on /\ model["n"].key \in clashes)
  /\ draftSaves < MaxDraftSaves /\ draftSaves' = draftSaves + 1
  /\ saving' = << [stage |-> "out", sent |-> model, refused |-> "none", answer |-> NoOps,
                   version |-> IF savedAs = << >> THEN 0 ELSE savedAs[1].version] >>
  /\ UNCHANGED <<model, savedAs, clashes, stored, live, seen, typed, refusal, draftEdits, liveMoves, lostSaves>>

Referenced(k) == k = "n" /\ model["l"].on /\ model["l"].ref = "n"

Frozen == model["n"].on /\ ~model["n"].edit /\ model["n"].settings = "kept"

EditOperation(m, touched) ==
  /\ draftEdits < MaxDraftEdits /\ draftEdits' = draftEdits + 1
  /\ model' = m /\ typed' = touched
  /\ UNCHANGED <<savedAs, clashes, saving, stored, live, seen, refusal, draftSaves, liveMoves, lostSaves>>

AddOperation == \E k \in {"n", "l"} :
  ~model[k].on /\ EditOperation([model EXCEPT ![k] = IF k = "n" THEN NewInbound(draftEdits + 1) ELSE NewLine], typed)

\* selectChangesetResource: the entry as the catalogue has it.
SelectEntry == ~model["e"].on /\ EditOperation([model EXCEPT !["e"] = Entry(seen, << >>)], TRUE)

RemoveOperation == \E k \in Key :
  model[k].on /\ ~Referenced(k) /\ EditOperation([model EXCEPT ![k] = Gone], typed)

\* The switch between creating and editing keeps the operation's key.
SwitchInbound ==
  /\ model["n"].on /\ ~Referenced("n") /\ model["n"].settings # "kept"
  /\ \E op \in {NewInbound(model["n"].key), EditInbound(model["n"].key, 0), EditInbound(model["n"].key, 2)} \ {model["n"]} :
       EditOperation([model EXCEPT !["n"] = op], typed)

EditInboundFields ==
  /\ model["n"].on /\ ~model["n"].edit
  /\ \/ \E tag \in {1, 2} \ {model["n"].tag} : EditOperation([model EXCEPT !["n"].tag = tag], typed)
     \/ ~Frozen /\ \E p \in Protos, s \in {"s1", "s2"} :
          /\ <<p, s>> # <<model["n"].proto, model["n"].settings>>
          /\ EditOperation([model EXCEPT !["n"] = [@ EXCEPT !.proto = p, !.settings = s]], typed)

\* Only an inbound that the draft creates can be referred to.
ReferTo ==
  /\ model["l"].on /\ model["l"].ref = "" /\ model["n"].on /\ ~model["n"].edit
  /\ EditOperation([model EXCEPT !["l"].ref = "n"], typed)

EditEntry ==
  /\ model["e"].on
  /\ \E v \in FieldValues \ {model["e"].field} : EditOperation([model EXCEPT !["e"].field = v], TRUE)

\* The button under a clash.
KeepSaved ==
  /\ model["n"].on /\ model["n"].key \in clashes
  /\ model' = KeepSavedSettings(model, stored.ops) /\ clashes' = {}
  /\ UNCHANGED <<savedAs, saving, stored, live, seen, typed, refusal, draftBounds>>

LiveMoves ==
  /\ liveMoves < MaxLiveMoves /\ liveMoves' = liveMoves + 1
  /\ live' = (live + 1) % 3
  /\ UNCHANGED <<model, savedAs, clashes, saving, stored, seen, typed, refusal, draftEdits, draftSaves, lostSaves>>

CatalogLands ==
  /\ seen # live /\ seen' = live
  /\ UNCHANGED <<model, savedAs, clashes, saving, stored, live, typed, refusal, draftBounds>>

\* A new draft, or one that an API client wrote without the entry's field.
DraftInit ==
  /\ live = 0 /\ seen = 0
  /\ \/ /\ model = NoOps /\ savedAs = << >> /\ stored = [version |-> 0, ops |-> NoOps]
     \/ /\ stored = [version |-> 1, ops |-> [NoOps EXCEPT !["e"] = [on |-> TRUE, field |-> << >>]]]
        /\ model = ModelFromDraft(stored.ops)
        /\ savedAs = << [version |-> 1, sent |-> ChangesetInput(model)] >>
  /\ clashes = {} /\ saving = << >> /\ typed = FALSE /\ refusal = "none"
  /\ draftEdits = 0 /\ draftSaves = 0 /\ liveMoves = 0 /\ lostSaves = 0

DraftNext ==
  \/ AddOperation \/ SelectEntry \/ RemoveOperation \/ SwitchInbound \/ EditInboundFields
  \/ ReferTo \/ EditEntry \/ KeepSaved
  \/ SaveDraft \/ ServeDraft \/ SaveLands \/ LoseSave \/ LiveMoves \/ CatalogLands

-----------------------------------------------------------------------------
\* A save of this form is never refused because it would change settings that
\* an earlier save fixed: the form freezes them with the answer, and a change
\* made while the save was out is a clash that blocks the next save.
NeverRefusedAsFixed == refusal # "fixed"

\* The settings the server keeps for a created inbound are ones that were
\* typed, never what the server fills in for settings it was not sent.
SettingsAreTyped ==
  stored.ops["n"].on /\ ~stored.ops["n"].edit => stored.ops["n"].settings \in {"s1", "s2"}

\* A field that the author left out and nobody changed stays left out, however
\* often the draft is saved and the entry changes meanwhile.
OmittedStaysOmitted ==
  ~typed /\ stored.ops["e"].on => stored.ops["e"].field = << >>

\* A line refers to an operation that is there and creates an inbound.
ReferencesResolve ==
  model["l"].on /\ model["l"].ref = "n" => model["n"].on /\ ~model["n"].edit

\* The answer of a save takes back nothing that was typed after it was sent:
\* an operation that differs from the one sent keeps its free fields, and one
\* that was added or removed stays so.
LaterEditsSurvive ==
  [][\A k \in Key : saving # << >> /\ saving' = << >> /\ model[k] # saving[1].sent[k] =>
        /\ model'[k].on = model[k].on
        /\ model[k].on /\ k = "n" =>
             model'[k].key = model[k].key /\ model'[k].tag = model[k].tag /\ model'[k].edit = model[k].edit
        /\ model[k].on /\ k # "n" => model'[k] = model[k]]_draftVars
=============================================================================
