----------------------------- MODULE SubDesign -----------------------------
(***************************************************************************)
(* The subscription design an administrator edits: policy groups that name *)
(* each other, rules and options that name groups, and the version of the  *)
(* Claude rules the design publishes. Names are references, a name changes *)
(* with every key, a preset replaces the design when it arrives, and a     *)
(* newer rule version is adopted for the design it was reviewed with.      *)
(***************************************************************************)
EXTENDS FiniteSetsExt, Integers, SequencesExt

CONSTANTS
  GroupNames,       \* the names a group is given
  DesignPresets,    \* the designs the server keeps as presets
  MaxGroups,        \* groups of a design
  MaxDesignSteps,   \* edits
  MaxRuleVersions   \* versions of the rule library; version 1 is built in

Undefined == "undefined"              \* an option that is not set
Fixed == {"DIRECT", "REJECT", "@all"}

\* A policy is named by what a person types or by what is built in; claudeRules 0
\* is not set.
PolicyNames == GroupNames \cup Fixed \cup {"", Undefined}
DesignGroup == [name : PolicyNames, members : SUBSET PolicyNames]
Designs == [groups : Seq(DesignGroup), rules : Seq(PolicyNames), final : PolicyNames, claude : BOOLEAN,
            claudePolicy : PolicyNames, dnsPolicy : PolicyNames, claudeRules : Nat]

ASSUME DesignBounds ==
  /\ MaxGroups \in Nat /\ MaxDesignSteps \in Nat /\ MaxRuleVersions \in Nat \ {0}
  /\ DesignPresets \subseteq Designs

VARIABLES
  design,       \* local: the draft of the page
  presetAsked,  \* the preset on its way, or NoPreset
  library,      \* the rule version of the library as the page knows it
  rulesReview,  \* the review dialog of SubDesignClaudeRules
  designSteps

designVars == <<design, presetAsked, library, rulesReview, designSteps>>

NoPreset == [key |-> "none"]
NoRulesReview == [kind |-> "closed"]

-----------------------------------------------------------------------------
(* lib/sub-design.ts                                                        *)
\* groups.find: the first group of that name.
GroupNamed(d, name) ==
  LET same == {i \in DOMAIN d.groups : d.groups[i].name = name}
  IN IF same = {} THEN 0 ELSE Min(same)

RenameDesignGroup(d, i, name) ==
  LET old == d.groups[i].name
      Now(p) == IF old # "" /\ p = old THEN name ELSE p
  IN [d EXCEPT !.groups = [j \in DOMAIN @ |-> [name |-> IF j = i THEN name ELSE @[j].name,
                                               members |-> {Now(m) : m \in @[j].members}]],
               !.rules = [j \in DOMAIN @ |-> Now(@[j])], !.final = Now(@),
               !.claudePolicy = Now(@), !.dnsPolicy = Now(@)]

Members(d, p) == LET i == GroupNamed(d, p) IN IF i = 0 THEN {} ELSE d.groups[i].members

\* The walk over the members of groups, level by level; `seen` keeps it from
\* visiting a group twice, so that no level after the last group finds a new one.
Walked(d, policy) ==
  LET walked[n \in 0..Len(d.groups)] ==
        IF n = 0 THEN {policy}
        ELSE walked[n - 1] \cup UNION {Members(d, p) : p \in walked[n - 1]}
  IN walked
DesignPolicyCanDirect(d, policy) == "DIRECT" \in Walked(d, policy)[Len(d.groups)]

DraftClaudeRules(d) == IF d.claudeRules = 0 THEN 1 ELSE d.claudeRules

SetClaudeEnabled(d, on) == [d EXCEPT !.claude = on]

AdoptClaudeRules(d, expected, version) ==
  IF ~d.claude \/ d # expected THEN d ELSE [d EXCEPT !.claudeRules = version]

MoveDesignItem(items, i, dir) ==
  IF i + dir \notin DOMAIN items THEN items
  ELSE [items EXCEPT ![i] = items[i + dir], ![i + dir] = items[i]]

-----------------------------------------------------------------------------
(* SubDesigner: every edit gives up the preset on its way (the epoch), and  *)
(* the dialog of the rules is gone with the option it belongs to.           *)
Change(d) == design' = d /\ rulesReview' = (IF d.claude THEN rulesReview ELSE NoRulesReview)
EditDesign(d) ==
  /\ rulesReview = NoRulesReview /\ designSteps < MaxDesignSteps /\ designSteps' = designSteps + 1
  /\ Change(d) /\ presetAsked' = NoPreset /\ UNCHANGED library

Names(d) == {d.groups[i].name : i \in DOMAIN d.groups} \ {""}

AddGroup ==
  /\ Len(design.groups) < MaxGroups
  /\ EditDesign([design EXCEPT !.groups = Append(@, [name |-> "", members |-> {"@all"}])])
Rename(i, name) == name # design.groups[i].name /\ EditDesign(RenameDesignGroup(design, i, name))
\* The options of the select: other groups by name, the fixed ones and what is chosen.
SetMember(i, m) ==
  /\ m \in (Names(design) \ {design.groups[i].name}) \cup Fixed \cup design.groups[i].members
  /\ EditDesign([design EXCEPT !.groups[i].members = IF m \in @ THEN @ \ {m} ELSE @ \cup {m}])
MoveGroup(i) == i + 1 \in DOMAIN design.groups /\ EditDesign([design EXCEPT !.groups = MoveDesignItem(@, i, 1)])
DeleteGroup(i) == EditDesign([design EXCEPT !.groups = RemoveAt(@, i)])

AddRule ==
  /\ design.rules = <<>>
  /\ \E p \in IF Names(design) = {} THEN {"DIRECT"} ELSE Names(design) : EditDesign([design EXCEPT !.rules = <<p>>])
DeleteRule == design.rules # <<>> /\ EditDesign([design EXCEPT !.rules = <<>>])
SetPolicy(p) ==
  /\ p \in Names(design) \cup {"DIRECT", "REJECT"}
  /\ \/ design.rules # <<>> /\ EditDesign([design EXCEPT !.rules[1] = p])
     \/ EditDesign([design EXCEPT !.final = p])

\* SubDesignEnhancements: a policy through which traffic may go direct is not offered.
Offered(d) == {p \in Names(d) : ~DesignPolicyCanDirect(d, p)}
SetProtection(p) ==
  /\ p \in Offered(design) \cup {Undefined}
  /\ \/ design.claude /\ EditDesign([design EXCEPT !.claudePolicy = p])
     \/ EditDesign([design EXCEPT !.dnsPolicy = p])
ToggleClaude == EditDesign(SetClaudeEnabled(design, ~design.claude))

-----------------------------------------------------------------------------
\* loadPreset, once confirmed; the answer counts unless an edit came first.
AskPreset(p) ==
  /\ rulesReview = NoRulesReview /\ presetAsked = NoPreset
  /\ presetAsked' = p /\ UNCHANGED <<design, library, rulesReview, designSteps>>
PresetLands ==
  /\ presetAsked # NoPreset /\ presetAsked' = NoPreset
  /\ Change(presetAsked) /\ UNCHANGED <<library, designSteps>>

\* The library moves: by this page's sync, which opens a dialog, or by a read.
SyncLibrary ==
  /\ library < MaxRuleVersions /\ library' = library + 1
  /\ \/ design.claude /\ rulesReview = NoRulesReview /\ rulesReview' = [kind |-> "library", version |-> library']
     \/ UNCHANGED rulesReview
  /\ UNCHANGED <<design, presetAsked, designSteps>>

\* From the page with the library's version, or from the dialog with its own.
OpenDraftReview ==
  /\ design.claude /\ rulesReview.kind # "draft"
  /\ rulesReview = NoRulesReview => DraftClaudeRules(design) # library
  /\ rulesReview' = [kind |-> "draft", expected |-> design, of |-> DraftClaudeRules(design),
                version |-> IF rulesReview = NoRulesReview THEN library ELSE rulesReview.version]
  /\ UNCHANGED <<design, presetAsked, library, designSteps>>
CloseReview == rulesReview # NoRulesReview /\ rulesReview' = NoRulesReview /\ UNCHANGED <<design, presetAsked, library, designSteps>>

Adopt ==
  /\ rulesReview.kind = "draft" /\ rulesReview.expected = design       \* changedDraft disables the button
  /\ design' = AdoptClaudeRules(design, rulesReview.expected, rulesReview.version) /\ rulesReview' = NoRulesReview
  /\ presetAsked' = NoPreset /\ UNCHANGED <<library, designSteps>>

DesignInit ==
  /\ design \in DesignPresets
  /\ presetAsked = NoPreset /\ library = 1 /\ rulesReview = NoRulesReview /\ designSteps = 0

DesignNext ==
  \/ AddGroup \/ AddRule \/ DeleteRule \/ ToggleClaude \/ PresetLands \/ SyncLibrary
  \/ OpenDraftReview \/ CloseReview \/ Adopt
  \/ \E i \in DOMAIN design.groups :
       \/ MoveGroup(i) \/ DeleteGroup(i)
       \/ \E name \in GroupNames \cup {""} : Rename(i, name)
       \/ \E m \in GroupNames \cup Fixed \cup {""} : SetMember(i, m)
  \/ \E p \in GroupNames \cup Fixed \cup {Undefined} : SetPolicy(p) \/ SetProtection(p)
  \/ \E p \in DesignPresets : AskPreset(p)

-----------------------------------------------------------------------------
\* What each reference of a design stands for.
Target(d, p) == IF p \in Fixed THEN <<p, 0>> ELSE <<"group", GroupNamed(d, p)>>
Resolved(d) ==
  [groups |-> [i \in DOMAIN d.groups |-> {Target(d, m) : m \in d.groups[i].members}],
   rules |-> [i \in DOMAIN d.rules |-> Target(d, d.rules[i])],
   options |-> <<Target(d, d.final), Target(d, d.claudePolicy), Target(d, d.dnsPolicy)>>]

\* Every group has a name, of no other group and of no built-in policy.
OwnNames(d) == Cardinality(Names(d) \ (Fixed \cup {Undefined})) = Len(d.groups)
References(d) == (UNION {d.groups[i].members : i \in DOMAIN d.groups}) \cup Range(d.rules)
                   \cup {d.final, d.claudePolicy, d.dnsPolicy}
AllDefined(d) == References(d) \subseteq Names(d) \cup Fixed \cup {Undefined}
Renames(step) == \E i \in DOMAIN design.groups, name \in GroupNames \cup {""} : step = RenameDesignGroup(design, i, name)

\* While every group has a name of its own and every reference names a group,
\* renaming one leaves every member, rule, final policy and option with the
\* group it stood for.
RenameKeepsReferences ==
  [][design' # design /\ Renames(design') /\ OwnNames(design) /\ AllDefined(design) /\ OwnNames(design') =>
       Resolved(design') = Resolved(design)]_designVars

\* The rules a draft will publish change only with a preset, or to the version
\* a person has reviewed against the draft as it is now: not by switching the
\* option, not because the library moved, not after a preset replaced the draft.
RulesChangeByReview ==
  [][DraftClaudeRules(design') # DraftClaudeRules(design) =>
       \/ design' = presetAsked
       \/ rulesReview.kind = "draft" /\ rulesReview.of = DraftClaudeRules(design)
          /\ design' = [rulesReview.expected EXCEPT !.claudeRules = rulesReview.version]]_designVars

\* A protection policy is offered exactly when no chain of groups leads from it
\* to DIRECT, whatever cycles and duplicate names the draft has; a group that was
\* given the name DIRECT is never offered.
OfferedIsProtected ==
  LET Leads(i, j) == \E m \in design.groups[i].members : GroupNamed(design, m) = j
      direct == {i \in DOMAIN design.groups : "DIRECT" \in design.groups[i].members}
      Chains(i) == {s \in UNION {[1..n -> DOMAIN design.groups] : n \in 1..Len(design.groups)} :
                      s[1] = i /\ \A k \in 1..(Len(s) - 1) : Leads(s[k], s[k + 1])}
  IN \A p \in Names(design) :
       p \in Offered(design) <=> p # "DIRECT" /\ ~\E s \in Chains(GroupNamed(design, p)) : Last(s) \in direct
=============================================================================
