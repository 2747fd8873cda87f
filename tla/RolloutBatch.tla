---------------------------- MODULE RolloutBatch ----------------------------
(***************************************************************************)
(* The scheduler over all running release plans (AdvanceLineRollouts,      *)
(* internal/store/line_rollout_scheduler.go, every five seconds from       *)
(* RunLineRollouts): one transaction takes the Limit plans checked longest *)
(* ago and advances each; the first error rolls all of it back.            *)
(*                                                                         *)
(* A plan is reduced to what its next tick meets (LineRollout has the      *)
(* rest): it waits for a receipt, with a deadline that may have passed, or *)
(* has all receipts and is about to publish.  Publishing fails while an    *)
(* entry is bound to a member the plan removes (linePublishedMembersTx).   *)
(***************************************************************************)
EXTENDS Naturals, FiniteSets, Sequences, SequencesExt

CONSTANTS Plans,      \* running plans, by ordinal
          Limit       \* plans of one tick (20)

VARIABLES status,   \* "running", "paused" or "completed"
          ready,    \* every receipt of the expansion is in
          due,      \* the deadline of the released step has passed
          bound,    \* is an entry bound to a member the plan removes? ("no", "yes", "dropped")
          queue     \* all plans by checked_at, then ordinal

vars == <<status, ready, due, bound, queue>>

Running == SelectSeq(queue, LAMBDA p : status[p] = "running")

Batch == ToSet(SubSeq(Running, 1, IF Len(Running) < Limit THEN Len(Running) ELSE Limit))

\* advanceLineRolloutTx returns an error.
Fails(p) == ready[p] /\ bound[p] = "yes"

Stepped(p) == IF ready[p] THEN "completed" ELSE IF due[p] THEN "paused" ELSE "running"

\* AdvanceLineRollouts: the batch gets one checked_at, so it goes to the end of
\* the queue in the order of its ordinals.
Tick ==
  /\ Batch # {}
  /\ \A p \in Batch : ~Fails(p)
  /\ status' = [p \in Plans |-> IF p \in Batch THEN Stepped(p) ELSE status[p]]
  /\ queue' = SelectSeq(queue, LAMBDA p : p \notin Batch) \o SetToSortSeq(Batch, <)
  /\ UNCHANGED <<ready, due, bound>>

Receipt(p) ==
  /\ status[p] = "running" /\ ~ready[p]
  /\ ready' = [ready EXCEPT ![p] = TRUE]
  /\ UNCHANGED <<status, due, bound, queue>>

DeadlinePasses(p) ==
  /\ status[p] = "running" /\ ~due[p]
  /\ due' = [due EXCEPT ![p] = TRUE]
  /\ UNCHANGED <<status, ready, bound, queue>>

\* ResolveLineEntry accepts a member of the published first group, also one the
\* running edit is about to remove (once per plan here).
BindEntry(p) ==
  /\ status[p] = "running" /\ bound[p] = "no"
  /\ bound' = [bound EXCEPT ![p] = "yes"]
  /\ UNCHANGED <<status, ready, due, queue>>

DropEntry(p) ==
  /\ bound[p] = "yes"
  /\ bound' = [bound EXCEPT ![p] = "dropped"]
  /\ UNCHANGED <<status, ready, due, queue>>

Init ==
  /\ status = [p \in Plans |-> "running"]
  /\ ready = [p \in Plans |-> FALSE]
  /\ due = [p \in Plans |-> FALSE]
  /\ bound = [p \in Plans |-> "no"]
  /\ queue = SetToSortSeq(Plans, <)

Next == Tick \/ \E p \in Plans : Receipt(p) \/ DeadlinePasses(p) \/ BindEntry(p) \/ DropEntry(p)

\* The ticker never stops; nothing is assumed of agents and operators.
Spec == Init /\ [][Next]_vars /\ WF_vars(Tick)

\* "Failed or overdue receipts pause the plan" (docs/LINE_RELEASES.md): every
\* plan whose receipt is overdue stops running, or the receipt comes after all,
\* however many plans there are and whatever becomes of the others.
OverduePauses == \A p \in Plans : due[p] /\ ~ready[p] ~> status[p] # "running" \/ ready[p]
=============================================================================
