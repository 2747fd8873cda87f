----------------------------- MODULE LineOrder -----------------------------
(***************************************************************************)
(* The order of a release's steps, on every pair of small paths: a plan is *)
(* drawn up, its targets are installed one after the other in their order, *)
(* and the plan may be given up after any of them for a second plan that   *)
(* leads back (CompensateLineRollout).  Failures, deliveries and receipts  *)
(* are LineRollout's; here every step succeeds.                            *)
(***************************************************************************)
EXTENDS LinePlan

CONSTANTS MaxGroup,      \* bound: listeners of a group
          MaxHops        \* bound: groups of a path (the code allows 8)

ASSUME LineOrderBounds == MaxGroup \in Nat /\ MaxHops \in Nat

Groups == {g \in SUBSET Listeners : Cardinality(g) \in 1..MaxGroup}
Paths == {p \in UNION {[1..k -> Groups] : k \in 1..MaxHops} : IsPath(p)}
Intents == Paths \cup {NoLine}

VARIABLES before, after,  \* the intents of the plan in force
          saved,          \* the intent forward_lines holds
          installed,      \* rules on every server
          steps,          \* targets still to install, in order
          second          \* the plan in force is a compensation

vars == <<before, after, saved, installed, steps, second>>

Compiled(path) == [n \in Nodes |-> RulesOn(path, n)]
Expands(s) == Len(s) > 0 /\ Head(s).phase = "expand"

\* The line table while the steps s of a plan to intent a remain: a new line is
\* saved when it is planned, an edit when the expansion is done, a deletion
\* when everything is.
SavedWith(s, a, old) ==
  IF a = NoLine THEN IF s = << >> THEN NoLine ELSE old
  ELSE IF old = NoLine \/ ~Expands(s) THEN a ELSE old

Init ==
  \E b, a \in Intents :
    /\ b # a
    /\ \A n \in Nodes : Coexist(RulesOn(b, n) \cup RulesOn(a, n))
    /\ before = b /\ after = a
    /\ installed = Compiled(b)
    /\ steps = OrderedTargets(Compiled(b), Compiled(a), b, a)
    /\ saved = SavedWith(steps, a, b)
    /\ second = FALSE

\* The next target is confirmed; with the last expansion the line is published.
Confirm ==
  /\ steps # << >>
  /\ installed' = [installed EXCEPT ![Head(steps).node] = Head(steps).expect]
  /\ steps' = Tail(steps)
  /\ saved' = SavedWith(steps', after, saved)
  /\ UNCHANGED <<before, after, second>>

\* CompensateLineRollout: what is installed is held, the line as it is saved
\* gives the cleanup depths, the plan's earlier intent is the destination.
Compensate ==
  /\ ~second
  /\ before # NoLine \/ saved # NoLine
  /\ \A n \in Nodes : Coexist(installed[n] \cup RulesOn(before, n))
  /\ before' = saved
  /\ after' = before
  /\ steps' = OrderedTargets(installed, Compiled(before), saved, before)
  /\ saved' = SavedWith(steps', before, saved)
  /\ second' = TRUE
  /\ UNCHANGED installed

Next == Confirm \/ Compensate
Spec == Init /\ [][Next]_vars

\* ResolveLineEntry: the path a subscription entry may be bound to.  Not while
\* a deletion is under way, nor before a new line is published.
Bindable ==
  IF after = NoLine \/ (before = NoLine /\ Expands(steps)) THEN NoLine ELSE saved

-----------------------------------------------------------------------------
\* The plan takes back one that was given up before the saved line changed.
Restores == second /\ before = after

\* Expanding from downstream to entry and cleaning up from entry to downstream
\* never leaves a listener forwarding to one that is not there
\* (docs/LINE_RELEASES.md, Expand and Cleanup; the sort in prepareLineRolloutTx).
NeverDangling == Connected(installed)

\* The same of every plan but one that takes back an unpublished change: its
\* cleanups have no place on the path their depths are read from.
PathStaysConnected == Restores \/ NeverDangling

\* The path subscription entries can be bound to, and advertise, is installed on
\* all its servers, because publication waits for the whole expansion.  Not so
\* while a half deleted line is being brought back: that plan is an edit of a
\* line that is still saved, and ResolveLineEntry lets entries bind to it.
PublishedIsInstalled ==
  \/ Restores /\ Expands(steps)
  \/ \A n \in Nodes : RulesOn(Bindable, n) \subseteq installed[n]

\* A finished plan, a compensation too, leaves exactly its destination's rules.
NothingLeftBehind == steps = << >> => installed = Compiled(after)
=============================================================================
