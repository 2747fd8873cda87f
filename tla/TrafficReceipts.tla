-------------------------- MODULE TrafficReceipts --------------------------
(***************************************************************************)
(* Traffic reports of one server (internal/http/agent/agent.go, report;    *)
(* internal/store/traffic_receipts.go, traffic_history.go).  The agent     *)
(* keeps one numbered batch and sends it, again and again, until a report  *)
(* is answered; copies may be on their way or being handled at the same    *)
(* time.  The panel recognises a batch by a cursor per journal generation  *)
(* (epoch), older agents by one cursor for the server.                     *)
(*                                                                         *)
(* Everything AcceptNodeTraffic writes commits with the cursor, so one     *)
(* count per batch stands for the charges and for the daily totals.        *)
(***************************************************************************)
EXTENDS Integers, Sequences

CONSTANTS Epochs,      \* generations of the agent's journal
          Legacy,      \* the generation of an agent without a journal: epoch ""
          Gap,         \* seqRestartGap
          MaxSeq,      \* bound: batches of a generation
          MaxRows,     \* trafficHistoryMaxRows
          MaxTokens,   \* bound: pairings
          Slots        \* reports in flight at the same time

ASSUME TrafficConstants ==
  /\ Legacy \in Epochs
  /\ Gap \in Nat /\ MaxSeq \in Nat /\ MaxRows \in Nat \ {0} /\ MaxTokens \in Nat \ {0}

VARIABLES
  epoch,     \* the agent's generation
  made,      \* number of the last batch collected, by generation
  acked,     \* number of the last batch the agent let go of, by generation
  token,     \* the current pairing; the agent uses it
  report,    \* reports in flight
  cursor,    \* node_traffic_receipts.seq by epoch; nodes.traffic_seq for Legacy
  charged,   \* how often each batch was charged
  history    \* node_traffic_history, oldest first

vars == <<epoch, made, acked, token, report, cursor, charged, history>>

Seqs == 1..MaxSeq
Batches == Epochs \X Seqs
Stages == {"sent", "served", "accepted", "answered"}
Free == [stage |-> "free", epoch |-> Legacy, seq |-> 0, token |-> 0]
InFlight == [stage : Stages, epoch : Epochs, seq : Seqs, token : 1..MaxTokens]
At(r, stage) == report' = [report EXCEPT ![r].stage = stage]
End(r) == report' = [report EXCEPT ![r] = Free]
-----------------------------------------------------------------------------
(* The agent.                                                              *)

\* A report of an agent without a journal is not so old, when it is handled,
\* that Gap batches have been sent since.
NotOutrun == \A r \in Slots : report[r].stage # "free" /\ report[r].epoch = Legacy
                                => made[Legacy] < report[r].seq + Gap

\* The next batch is taken from the cores' counters.
Collect ==
  /\ acked[epoch] = made[epoch] /\ made[epoch] < MaxSeq
  /\ epoch = Legacy => NotOutrun
  /\ made' = [made EXCEPT ![epoch] = @ + 1]
  /\ UNCHANGED <<epoch, acked, token, report, cursor, charged, history>>

\* The batch is sent, also again when no answer came.
Send(r) ==
  /\ report[r].stage = "free" /\ acked[epoch] < made[epoch]
  /\ report' = [report EXCEPT ![r] = [stage |-> "sent", epoch |-> epoch, seq |-> made[epoch], token |-> token]]
  /\ UNCHANGED <<epoch, made, acked, token, cursor, charged, history>>

\* An answered batch is let go of.
Receive(r) ==
  /\ report[r].stage = "answered" /\ End(r)
  /\ acked' = IF report[r].epoch = epoch /\ report[r].seq = made[epoch]
              THEN [acked EXCEPT ![epoch] = made[epoch]] ELSE acked
  /\ UNCHANGED <<epoch, made, token, cursor, charged, history>>

\* The agent is installed anew, or a version with a journal replaces an old one.
Reinstall(e) ==
  /\ e # epoch /\ e # Legacy /\ made[e] = 0
  /\ epoch' = e
  /\ UNCHANGED <<made, acked, token, report, cursor, charged, history>>

\* The request or its answer is lost.
Lose(r) ==
  /\ report[r].stage \in {"sent", "answered"} /\ End(r)
  /\ UNCHANGED <<epoch, made, acked, token, cursor, charged, history>>
-----------------------------------------------------------------------------
(* The panel.                                                              *)

\* RedeemPairCode: the old token is worth nothing from now on.
Repair ==
  /\ token < MaxTokens
  /\ token' = token + 1
  /\ UNCHANGED <<epoch, made, acked, report, cursor, charged, history>>

\* requireNode
RequireNode(r) ==
  /\ report[r].stage = "sent"
  /\ IF report[r].token = token THEN At(r, "served") ELSE End(r)
  /\ UNCHANGED <<epoch, made, acked, token, cursor, charged, history>>

\* A step of report before AcceptNodeTraffic fails: nothing about the batch is kept.
Refuse(r) ==
  /\ report[r].stage = "served" /\ End(r)
  /\ UNCHANGED <<epoch, made, acked, token, cursor, charged, history>>

\* Mutant: a batch as far behind as the gap counts as a restart.
RestartAtGap(e, s) == cursor[e] < s \/ (e = Legacy /\ cursor[e] - s >= Gap)

\* A batch is new if it is ahead of the cursor, or, without an epoch, so far
\* behind that the agent must have started over.
New(e, s) == cursor[e] < s \/ (e = Legacy /\ cursor[e] - s > Gap)

\* recordTrafficHistoryTx: one row comes, at most one goes.
Recorded(h, row) == IF Len(h) < MaxRows THEN Append(h, row) ELSE Append(Tail(h), row)

\* Mutant: a repeated batch is noted as received once more.
HistoryOfRepeats(e, s) == Recorded(history, <<e, s>>)

\* A repeated batch leaves no trace.
HistoryAfter(e, s) == IF New(e, s) THEN Recorded(history, <<e, s>>) ELSE history

\* Mutant: a repeated batch is answered with an error.
RepeatIsRefused(r) ==
  LET e == report[r].epoch
      s == report[r].seq
  IN  /\ report[r].stage = "served"
      /\ IF New(e, s) THEN At(r, "accepted") ELSE End(r)
      /\ cursor' = IF New(e, s) THEN [cursor EXCEPT ![e] = s] ELSE cursor
      /\ charged' = IF New(e, s) THEN [charged EXCEPT ![<<e, s>>] = @ + 1] ELSE charged
      /\ history' = HistoryAfter(e, s)
      /\ UNCHANGED <<epoch, made, acked, token>>

\* AcceptNodeTraffic
AcceptNodeTraffic(r) ==
  LET e == report[r].epoch
      s == report[r].seq
  IN  /\ report[r].stage = "served" /\ At(r, "accepted")
      /\ cursor' = IF New(e, s) THEN [cursor EXCEPT ![e] = s] ELSE cursor
      /\ charged' = IF New(e, s) THEN [charged EXCEPT ![<<e, s>>] = @ + 1] ELSE charged
      /\ history' = HistoryAfter(e, s)
      /\ UNCHANGED <<epoch, made, acked, token>>

\* AcceptNodeTraffic fails and rolls everything back.
AcceptFails(r) ==
  /\ report[r].stage = "served" /\ End(r)
  /\ UNCHANGED <<epoch, made, acked, token, cursor, charged, history>>

\* RecordNodeReport wants the token to be current still; then the answer is 200.
RecordNodeReport(r) ==
  /\ report[r].stage = "accepted"
  /\ IF report[r].token = token THEN At(r, "answered") ELSE End(r)
  /\ UNCHANGED <<epoch, made, acked, token, cursor, charged, history>>

\* RecordNodeReport fails: the batch stays charged, the agent is told 500.
RecordFails(r) ==
  /\ report[r].stage = "accepted" /\ End(r)
  /\ UNCHANGED <<epoch, made, acked, token, cursor, charged, history>>

\* The retention job drops rows that are old enough.
Expire ==
  /\ history # <<>>
  /\ history' = Tail(history)
  /\ UNCHANGED <<epoch, made, acked, token, report, cursor, charged>>
-----------------------------------------------------------------------------
Init ==
  /\ epoch \in Epochs
  /\ made = [e \in Epochs |-> 0] /\ acked = [e \in Epochs |-> 0]
  /\ token = 1
  /\ report = [r \in Slots |-> Free]
  /\ cursor = [e \in Epochs |-> 0]
  /\ charged = [b \in Batches |-> 0]
  /\ history = <<>>

Handle(r) == RequireNode(r) \/ Refuse(r) \/ AcceptNodeTraffic(r) \/ AcceptFails(r)
               \/ RecordNodeReport(r) \/ RecordFails(r)

Next ==
  \/ Collect \/ Repair \/ Expire
  \/ \E e \in Epochs : Reinstall(e)
  \/ \E r \in Slots : Send(r) \/ Receive(r) \/ Lose(r) \/ Handle(r)

Spec == Init /\ [][Next]_vars

\* The agent retries, some requests and some answers arrive, and the database
\* does not fail every time.
TrafficFairness ==
  /\ WF_vars(\E r \in Slots : Send(r))
  /\ SF_vars(\E r \in Slots : RequireNode(r))
  /\ SF_vars(\E r \in Slots : AcceptNodeTraffic(r))
  /\ SF_vars(\E r \in Slots : RecordNodeReport(r))
  /\ SF_vars(\E r \in Slots : Receive(r))

FairSpec == Spec /\ TrafficFairness
-----------------------------------------------------------------------------
\* Type correctness; the history never exceeds its limit (recordTrafficHistoryTx).
TypeOK ==
  /\ epoch \in Epochs
  /\ made \in [Epochs -> 0..MaxSeq] /\ acked \in [Epochs -> 0..MaxSeq]
  /\ token \in 1..MaxTokens
  /\ report \in [Slots -> InFlight \cup {Free}]
  /\ cursor \in [Epochs -> 0..MaxSeq]
  /\ charged \in [Batches -> Nat]
  /\ history \in Seq(Batches) /\ Len(history) <= MaxRows

Ledger == INSTANCE TrafficLedger WITH billed <- charged

\* Every batch is charged at most once and in order, however many copies of its
\* report are handled, whichever step fails and whoever pairs the server anew,
\* and the agent lets go of no batch that was not charged (AcceptNodeTraffic: "a
\* delayed old journal must never become a fresh batch after an agent reinstall").
BilledOnce == Ledger!Spec

\* The strengthening BilledOnce rests on: the cursor says which batches have been
\* charged, and a report in flight is of a batch whose predecessors are charged.
Books ==
  /\ \A e \in Epochs : acked[e] <= cursor[e] /\ cursor[e] <= made[e] /\ made[e] <= acked[e] + 1
  /\ \A e \in Epochs, s \in Seqs : charged[<<e, s>>] = IF s <= cursor[e] THEN 1 ELSE 0
  /\ \A r \in Slots : report[r].stage # "free" =>
       LET e == report[r].epoch
           s == report[r].seq
       IN  /\ s <= made[e] /\ s <= cursor[e] + 1
           /\ e = Legacy => made[e] <= s + Gap
           /\ report[r].stage \in {"accepted", "answered"} => s <= cursor[e]

\* "Repeated or older receipts neither charge again nor update the first reception
\* time. Expired history is not recreated by retrying an old batch"
\* (docs/TRAFFIC_HISTORY.md): a row appears with the first charge of its batch.
HistoryIsFirstReception ==
  [][\A i \in 1..Len(history') :
       \/ \E j \in 1..Len(history) : history[j] = history'[i] /\ j >= i
       \/ charged[history'[i]] = 0 /\ charged'[history'[i]] = 1]_vars

\* A collected batch is acknowledged in the end, unless the agent is installed
\* anew: neither failures nor a change of the token leave it stuck.
BatchGetsThrough ==
  \A e \in Epochs : []<>(epoch # e \/ acked[e] = made[e])
=============================================================================
