---------------------------- MODULE ProbeChoices ----------------------------
(***************************************************************************)
(* A visitor's choices on the status page, kept in local storage and shared*)
(* by every tab (web/probe/glass/src/stores/app.ts and stores/storage.ts). *)
(*                                                                         *)
(* A tab keeps a copy of each key, writes through when its copy changes and*)
(* hears of the writes of other tabs by an event, delivered later, which   *)
(* makes it read the key again.  The set of favourites is one key: a tab   *)
(* rewrites it whole.                                                      *)
(***************************************************************************)
EXTENDS Naturals, FiniteSets

CONSTANTS
  ProbeTabs,    \* tabs of one browser on the page
  Favourites,   \* servers a visitor may star
  MaxChoices,   \* choices made
  MaxForeignWrites, \* keys removed, or set by another bundle, outside these tabs
  MaxQuota      \* writes the browser refuses

ASSUME ProbeChoicesAssumption ==
  /\ IsFiniteSet(ProbeTabs) /\ IsFiniteSet(Favourites)
  /\ {MaxChoices, MaxForeignWrites, MaxQuota} \subseteq Nat

VARIABLES
  localStorage, \* by key; Absent when the key is not there
  tabCopy,      \* app.ts: raw, by tab and key; Absent in view for null
  storageEvents, \* by tab: keys changed elsewhere and not heard of
  settingsRead, \* by tab: whether the public settings have arrived
  choices, foreignWrites, refusedWrites

choiceVars == <<localStorage, tabCopy, storageEvents, settingsRead, choices, foreignWrites, refusedWrites>>

ChoiceKeys == {"theme", "favourites", "view"}
Absent == [theme |-> "absent", favourites |-> {"absent"}, view |-> "absent"]
ThemeModes == {"auto", "light", "dark"}
ViewModes == {"card", "list"}

(* Values the keys may hold: another bundle may have left a theme or a view
   mode this one does not know. *)
ChoiceValues ==
  [theme |-> ThemeModes \cup {"unknown"}, favourites |-> SUBSET Favourites,
   view |-> ViewModes \cup {"unknown"}]
Fallback == [theme |-> "auto", favourites |-> {}, view |-> Absent.view]

ChoiceTypeOK ==
  /\ \A k \in ChoiceKeys : localStorage[k] \in {Absent[k]} \cup ChoiceValues[k]
  /\ \A t \in ProbeTabs, k \in ChoiceKeys : tabCopy[t][k] \in {Fallback[k]} \cup ChoiceValues[k]
  /\ storageEvents \in [ProbeTabs -> SUBSET ChoiceKeys]
  /\ settingsRead \in [ProbeTabs -> BOOLEAN]
  /\ choices \in 0..MaxChoices /\ foreignWrites \in 0..MaxForeignWrites
  /\ refusedWrites \in 0..MaxQuota

(* ---------------------------- storage.ts ---------------------------- *)

Notify(events, t, changed) ==
  [u \in ProbeTabs |-> IF u = t THEN events[u] ELSE events[u] \cup changed]

(* setItem or removeItem: other tabs hear of it when the value changed. *)
WriteStored(t, writes, events) ==
  LET value == [k \in ChoiceKeys |-> IF k \in DOMAIN writes THEN writes[k] ELSE localStorage[k]]
  IN /\ localStorage' = value
     /\ storageEvents' = Notify(events, t, {k \in ChoiceKeys : value[k] # localStorage[k]})

ReadStored(k) == IF localStorage[k] = Absent[k] THEN Fallback[k] ELSE localStorage[k]

(* readStored writes the default back when the key is absent and it has one. *)
DefaultsFor(ks) ==
  [k \in {k \in ks : localStorage[k] = Absent[k] /\ Fallback[k] # Absent[k]} |-> Fallback[k]]

\* Mutant: the handler takes the default for every key that this tab never changed.
HearKeepingDefaults(t) ==
  \E k \in storageEvents[t] :
    /\ tabCopy' = [tabCopy EXCEPT ![t][k] = IF tabCopy[t][k] = Fallback[k] THEN Fallback[k] ELSE ReadStored(k)]
    /\ WriteStored(t, DefaultsFor({k}), [storageEvents EXCEPT ![t] = @ \ {k}])
    /\ UNCHANGED <<settingsRead, choices, foreignWrites, refusedWrites>>

(* onStoredChange: the key is read again, whatever the event carried. *)
HearOfChange(t) ==
  \E k \in storageEvents[t] :
    /\ tabCopy' = [tabCopy EXCEPT ![t][k] = ReadStored(k)]
    /\ WriteStored(t, DefaultsFor({k}), [storageEvents EXCEPT ![t] = @ \ {k}])
    /\ UNCHANGED <<settingsRead, choices, foreignWrites, refusedWrites>>

(* ------------------------------ app.ts ------------------------------ *)

(* setRaw and persist: the copy changes, and what changed is written, unless
   the browser refuses; the copy keeps the new value either way. *)
SetRaw(t, patch) ==
  LET next == [k \in ChoiceKeys |-> IF k \in DOMAIN patch THEN patch[k] ELSE tabCopy[t][k]]
      changed == {k \in DOMAIN patch : patch[k] # tabCopy[t][k]}
  IN /\ tabCopy' = [tabCopy EXCEPT ![t] = next]
     /\ \/ /\ WriteStored(t, [k \in changed |-> next[k]], storageEvents)
           /\ UNCHANGED refusedWrites
        \/ /\ changed # {} /\ refusedWrites < MaxQuota
           /\ refusedWrites' = refusedWrites + 1
           /\ UNCHANGED <<localStorage, storageEvents>>

NextMode == [auto |-> "light", light |-> "dark", dark |-> "auto"]
Resolved(mode) == IF mode \in ThemeModes THEN mode ELSE "auto"

UpdateThemeMode(t) ==
  /\ choices < MaxChoices /\ choices' = choices + 1
  /\ SetRaw(t, [theme |-> NextMode[Resolved(tabCopy[t].theme)]])
  /\ UNCHANGED <<settingsRead, foreignWrites>>

SetNodeViewMode(t) ==
  /\ choices < MaxChoices /\ choices' = choices + 1
  /\ \E mode \in ViewModes : SetRaw(t, [view |-> mode])
  /\ UNCHANGED <<settingsRead, foreignWrites>>

ToggleFavoriteNode(t, n) ==
  /\ choices < MaxChoices /\ choices' = choices + 1
  /\ SetRaw(t, [favourites |-> IF n \in tabCopy[t].favourites
                               THEN tabCopy[t].favourites \ {n}
                               ELSE tabCopy[t].favourites \cup {n}])
  /\ UNCHANGED <<settingsRead, foreignWrites>>

(* setPublicSettings ends in normalise(): a theme or a view mode the page does
   not know is replaced, the view mode by the published default. *)
Normalise(t) ==
  LET theme == IF tabCopy[t].theme \in ThemeModes THEN {} ELSE {"theme"}
      view == IF tabCopy[t].view \in ViewModes THEN {} ELSE {"view"}
  IN SetRaw(t, [k \in theme \cup view |-> IF k = "theme" THEN "auto" ELSE "card"])

SetPublicSettings(t) ==
  /\ settingsRead' = [settingsRead EXCEPT ![t] = TRUE]
  /\ Normalise(t)
  /\ ~settingsRead[t] \/ tabCopy[t].theme \notin ThemeModes \/ tabCopy[t].view \notin ViewModes
  /\ UNCHANGED <<choices, foreignWrites>>

(* Another bundle, or the visitor clearing site data. *)
WriteElsewhere ==
  /\ foreignWrites < MaxForeignWrites /\ foreignWrites' = foreignWrites + 1
  /\ \E k \in ChoiceKeys : \E v \in {Absent[k], IF k = "favourites" THEN {} ELSE "unknown"} :
       /\ v # localStorage[k]
       /\ localStorage' = [localStorage EXCEPT ![k] = v]
       /\ storageEvents' = [t \in ProbeTabs |-> storageEvents[t] \cup {k}]
  /\ UNCHANGED <<tabCopy, settingsRead, choices, refusedWrites>>

(* Every tab has been loaded: what it read, with the defaults written back and
   an unknown theme put right. *)
ChoiceInit ==
  /\ localStorage \in [theme : {"auto"}, favourites : SUBSET Favourites, view : {Absent.view, "unknown"}]
  /\ tabCopy = [t \in ProbeTabs |-> [k \in ChoiceKeys |-> ReadStored(k)]]
  /\ storageEvents = [t \in ProbeTabs |-> {}]
  /\ settingsRead = [t \in ProbeTabs |-> FALSE]
  /\ choices = 0 /\ foreignWrites = 0 /\ refusedWrites = 0

ChoiceNext ==
  \/ \E t \in ProbeTabs :
       \/ HearOfChange(t) \/ UpdateThemeMode(t) \/ SetNodeViewMode(t) \/ SetPublicSettings(t)
       \/ \E n \in Favourites : ToggleFavoriteNode(t, n)
  \/ WriteElsewhere

ChoiceFairness == \A t \in ProbeTabs : WF_choiceVars(HearOfChange(t)) /\ WF_choiceVars(SetPublicSettings(t))

ChoiceSpec == ChoiceInit /\ [][ChoiceNext]_choiceVars /\ ChoiceFairness

(* ----------------------------- properties ----------------------------- *)

(* A tab that has heard of every change holds what is stored, so all tabs
   agree: unless the browser has refused a write, which leaves the choice in
   one tab only. *)
TabsAgreeWithStorage ==
  refusedWrites = 0 =>
    \A t \in ProbeTabs, k \in ChoiceKeys : k \notin storageEvents[t] => tabCopy[t][k] = ReadStored(k)

(* Starring a server changes that server alone, unless another tab's change
   was still on its way: then this tab's set, without it, is what is stored. *)
OnlyTheStarredChanges ==
  [][\A t \in ProbeTabs :
       tabCopy[t].favourites # tabCopy'[t].favourites /\ choices' > choices /\ refusedWrites' = 0
         => \/ "favourites" \in storageEvents[t]
            \/ \E n \in Favourites : \A m \in Favourites \ {n} :
                 m \in ReadStored("favourites") <=> m \in ReadStored("favourites")']_choiceVars

(* Once choices stop, every tab settles on one theme and one view mode the page
   knows, the same in all tabs, even where another bundle left a value it does
   not know. *)
TabsSettle ==
  <>[](/\ \A t \in ProbeTabs : tabCopy[t].view \in ViewModes /\ tabCopy[t].theme \in ThemeModes
       /\ refusedWrites = 0 => \A t, u \in ProbeTabs : tabCopy[t] = tabCopy[u])
==============================================================================
