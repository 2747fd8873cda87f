------------------------ MODULE ConfigEvidenceProofs ------------------------
(***************************************************************************)
(* For every number of processes, pairings, deliveries and requests: the   *)
(* evidence of a node is type correct and implements ConfigHead; the head  *)
(* is a delivery that is served; a superseded process and a revoked token  *)
(* change nothing; a take-over is proven; what is called applied was       *)
(* installed, and what is called fresh was said within the window.         *)
(*                                                                         *)
(* The inductive invariant HandoverInv says that a challenge is always     *)
(* newer than the head it was issued against, and that the head's own      *)
(* process is never superseded.  The later theorems add what the processes *)
(* have heard (HearingInv), installed (InstalledInv) and said (SpokenInv). *)
(***************************************************************************)
EXTENDS ConfigEvidence, TLAPS

\* What a process is told keeps the process records well formed, whatever
\* delivery it is given (the reply of the long poll in agent.go).
LEMMA AnswerTypes ==
  ASSUME TypeOK, NEW g \in gets, g.rev # NoRev, NEW id \in Ordinals, Answer(g, id)
  PROVE  /\ gets' \subseteq Request
         /\ procs' \in [Sessions -> Process]
         /\ \A s \in Sessions : procs'[s].up => procs'[s].gen # 0
<1>1. CASE g.seen = id
  BY <1>1 DEF Answer, Hold, TypeOK, Request
<1>2. CASE g.seen # id
  <2>1. Reply(g, id)
    BY <1>2 DEF Answer
  <2>2. PICK arrives \in BOOLEAN :
          procs' = IF arrives /\ procs[g.session].up
                   THEN [procs EXCEPT ![g.session].held = id, ![g.session].rev = g.rev]
                   ELSE procs
    BY <2>1 DEF Reply
  <2>3. g.session \in Sessions /\ g.rev \in Revisions \cup {NoRev}
    BY DEF TypeOK, Request
  <2>4. QED
    BY <2>1, <2>2, <2>3 DEF TypeOK, Reply, Process
<1>3. QED
  BY <1>1, <1>2

\* The initial state is well formed.
LEMMA InitTypes == Init => TypeOK
<1> SUFFICES ASSUME Init PROVE TypeOK
  OBVIOUS
<1>1. sess \in [Keys -> SessionRow]
  BY EvidenceConstants DEF Init, NewSession, SessionRow, Ordinals
<1>2. /\ procs \in [Sessions -> Process]
      /\ \A s \in Sessions : procs[s].up => procs[s].gen # 0
  BY EvidenceConstants DEF Init, Process, Ordinals
<1>3. deliv \in [DOMAIN deliv -> DeliveryRow] /\ DOMAIN deliv \subseteq 1..issued
  BY DEF Init
<1>4. now \in Epoch..MaxTime
  BY EvidenceConstants DEF Init, Epoch
<1>5. /\ paired \in BOOLEAN /\ (paired => token # 0)
  BY Zenon DEF Init
<1>6. /\ token \in 0..MaxGenerations
      /\ issued \in Ordinals /\ head = NoHead /\ config \in Revisions
      /\ edits \in 0..MaxEdits /\ gets \subseteq Request /\ receipts \subseteq Receipt
  BY EvidenceConstants DEF Init, Ordinals
<1>7. QED
  BY <1>1, <1>2, <1>3, <1>4, <1>5, <1>6 DEF TypeOK

\* Superseding a process, or giving a session a challenge, keeps its row well formed.
LEMMA RowTypes ==
  ASSUME NEW table \in [Keys -> SessionRow]
  PROVE  /\ \A k : [table EXCEPT ![k].retired = TRUE] \in [Keys -> SessionRow]
         /\ \A k \in Keys, c \in Ordinals, p \in Ordinals :
              [table EXCEPT ![k].cand = c, ![k].parent = p] \in [Keys -> SessionRow]
         /\ \A k \in Keys, q \in 0..MaxSeq, o \in Times, r \in Times :
              [table EXCEPT ![k].seq = q, ![k].observed = o, ![k].received = r]
                \in [Keys -> SessionRow]
<1>1. ASSUME NEW k
      PROVE  [table EXCEPT ![k].retired = TRUE] \in [Keys -> SessionRow]
  BY DEF SessionRow
<1>2. ASSUME NEW k \in Keys, NEW c \in Ordinals, NEW p \in Ordinals
      PROVE  [table EXCEPT ![k].cand = c, ![k].parent = p] \in [Keys -> SessionRow]
  BY DEF SessionRow
<1>3. ASSUME NEW k \in Keys, NEW q \in 0..MaxSeq, NEW o \in Times, NEW r \in Times
      PROVE  [table EXCEPT ![k].seq = q, ![k].observed = o, ![k].received = r]
               \in [Keys -> SessionRow]
  BY DEF SessionRow
<1>4. QED
  BY <1>1, <1>2, <1>3

\* Recording a receipt keeps every table well formed.
LEMMA ReceiptTypes ==
  ASSUME TypeOK, NEW m \in receipts, NEW at \in (now - Lag)..now, RecordReceipt(m, at)
  PROVE  TypeOK'
<1>1. at \in Times
  BY EvidenceConstants DEF TypeOK, Epoch, Times
<1>2. m \in Receipt /\ Key(m) \in Keys
  BY DEF TypeOK, Receipt, Key, Keys
<1>3. m.delivery \in DOMAIN deliv /\ m.delivery \in 1..MaxDeliveries
  BY EvidenceConstants DEF RecordReceipt, Answers, TypeOK, Ordinals
<1>4. Retire(sess, Key(m)) \in [Keys -> SessionRow]
  BY RowTypes DEF Retire, TypeOK
<1>5. sess' \in [Keys -> SessionRow]
  <2>1. m.seq \in 0..MaxSeq /\ m.observed \in Times
    BY <1>2, EvidenceConstants DEF Receipt
  <2>2. QED
    BY <1>1, <1>2, <1>4, <2>1, RowTypes DEF RecordReceipt
<1>6. /\ DOMAIN deliv' = DOMAIN deliv
      /\ deliv' \in [DOMAIN deliv' -> DeliveryRow]
  <2>1. Applied(m) \in BOOLEAN
    BY DEF Applied
  <2>2. m.observed \in Times /\ m.seq \in 0..MaxSeq
    BY <1>2, EvidenceConstants DEF Receipt
  <2>3. QED
    BY <1>1, <1>3, <2>1, <2>2 DEF RecordReceipt, DeliveryRow, TypeOK
<1>7. head' \in HeadRow
  BY <1>2, <1>3 DEF RecordReceipt, Activated, HeadRow, Receipt, Key
<1>8. QED
  BY <1>5, <1>6, <1>7 DEF RecordReceipt, TypeOK

\* Issuing or re-offering a challenge keeps every table well formed.
LEMMA CandidateTypes ==
  ASSUME TypeOK, NEW g \in gets, PrepareCandidate(g)
  PROVE  TypeOK'
<1> DEFINE reuse(f) == Reusable(g) /\ ~f
           id(f) == IF reuse(f) THEN sess[Key(g)].cand ELSE issued + 1
           active(f) == Activates(g, reuse(f) /\ g.seen = id(f))
           h(f) == IF active(f) THEN Activated(Key(g), id(f)) ELSE head
           row == [key |-> Key(g), rev |-> g.rev, issued |-> now, received |-> Null,
                   observed |-> Null, seq |-> 0, applied |-> FALSE, confirmed |-> FALSE]
           stored(f) == IF reuse(f) THEN DOMAIN deliv ELSE DOMAIN deliv \cup {id(f)}
           table(f) == [sess EXCEPT ![Key(g)].cand = id(f), ![Key(g)].parent = head.delivery]
<1>1. PICK f \in Forced :
        /\ id(f) <= MaxDeliveries
        /\ issued' = IF reuse(f) THEN issued ELSE id(f)
        /\ head' = h(f)
        /\ sess' = IF active(f) THEN Retire(table(f), Key(g)) ELSE table(f)
        /\ deliv' = [d \in Kept(stored(f), h(f).delivery) |->
                       IF d \in DOMAIN deliv THEN deliv[d] ELSE row]
        /\ Answer(g, id(f))
  BY DEF PrepareCandidate
<1>2. g.rev \in Revisions /\ Key(g) \in Keys /\ g.token \in Generations /\ g.session \in Sessions
  BY DEF PrepareCandidate, TypeOK, Request, Key, Keys
<1>3. id(f) \in 1..MaxDeliveries
  <2>1. CASE reuse(f)
    BY <1>1, <1>2, <2>1 DEF Reusable, TypeOK, SessionRow, Ordinals
  <2>2. CASE ~reuse(f)
    BY <1>1, <2>2, EvidenceConstants DEF TypeOK, Ordinals
  <2>3. QED
    BY <2>1, <2>2
<1>4. head.delivery \in Ordinals
  BY EvidenceConstants DEF TypeOK, NoHead, HeadRow, Ordinals
<1>5. table(f) \in [Keys -> SessionRow]
  <2>1. id(f) \in Ordinals /\ sess \in [Keys -> SessionRow]
    BY <1>3 DEF TypeOK, Ordinals
  <2>2. QED
    BY <2>1, <1>2, <1>4, RowTypes
<1>6. sess' \in [Keys -> SessionRow]
  BY <1>1, <1>5, RowTypes DEF Retire
<1>7. head' = NoHead \/ head' \in HeadRow
  BY <1>1, <1>2, <1>3 DEF Activated, HeadRow, TypeOK, Key
<1>8. issued' \in Ordinals /\ DOMAIN deliv' \subseteq 1..issued'
  <2>1. DOMAIN deliv' \subseteq stored(f)
    BY <1>1 DEF Kept
  <2>2. CASE reuse(f)
    BY <1>1, <2>1, <2>2 DEF TypeOK
  <2>3. CASE ~reuse(f)
    <3>1. issued' = issued + 1 /\ issued \in Nat /\ issued' \in 1..MaxDeliveries
      BY <1>1, <1>3, <2>3, EvidenceConstants DEF TypeOK, Ordinals
    <3>2. DOMAIN deliv' \subseteq 1..issued \cup {issued + 1}
      BY <2>1, <2>3 DEF TypeOK
    <3>3. QED
      BY <3>1, <3>2, EvidenceConstants DEF Ordinals
  <2>4. QED
    BY <2>2, <2>3
<1>9. deliv' \in [DOMAIN deliv' -> DeliveryRow]
  <2>1. now \in Times
    BY EvidenceConstants DEF TypeOK, Epoch, Times
  <2>2. row \in DeliveryRow
    BY <1>2, <2>1, EvidenceConstants DEF DeliveryRow
  <2>3. \A d \in DOMAIN deliv : deliv[d] \in DeliveryRow
    BY DEF TypeOK
  <2>4. QED
    BY <1>1, <2>2, <2>3
<1>10. /\ gets' \subseteq Request
       /\ procs' \in [Sessions -> Process]
       /\ \A s \in Sessions : procs'[s].up => procs'[s].gen # 0
  <2>1. id(f) \in Ordinals /\ g.rev # NoRev
    BY <1>3 DEF Ordinals, PrepareCandidate
  <2>2. QED
    BY <1>1, <2>1, AnswerTypes
<1>11. QED
  BY <1>6, <1>7, <1>8, <1>9, <1>10 DEF PrepareCandidate, TypeOK

\* Every reachable state of the evidence is well formed: the tables of
\* node_config_evidence.go never hold a row of the wrong shape or an ordinal
\* that was not issued.
THEOREM TypeCorrect == Spec => []TypeOK
<1>1. Init => TypeOK
  BY InitTypes
<1>2. TypeOK /\ [Next]_vars => TypeOK'
  <2> SUFFICES ASSUME TypeOK, [Next]_vars PROVE TypeOK'
    OBVIOUS
  <2>1. CASE RedeemPairCode
    BY <2>1, EvidenceConstants DEF RedeemPairCode, TypeOK
  <2>2. CASE ResetPairCode
    BY <2>2 DEF ResetPairCode, TypeOK
  <2>3. CASE Edit
    BY <2>3, EvidenceConstants DEF Edit, TypeOK, panel
  <2>4. CASE Tick
    BY <2>4, EvidenceConstants DEF Tick, TypeOK, panel, Epoch
  <2>5. ASSUME NEW s \in Sessions, Start(s) PROVE TypeOK'
    BY <2>5 DEF Start, TypeOK, panel, Process
  <2>6. ASSUME NEW s \in Sessions, Stop(s) PROVE TypeOK'
    BY <2>6 DEF Stop, TypeOK, panel, Process
  <2>7. ASSUME NEW s \in Sessions, Poll(s) PROVE TypeOK'
    <3>1. gets' \subseteq Request
      BY <2>7 DEF Poll, TypeOK, Process, Request, Generations
    <3>2. QED
      BY <2>7, <3>1 DEF Poll, TypeOK, panel
  <2>8. ASSUME NEW s \in Sessions, Install(s) PROVE TypeOK'
    <3>1. procs[s] \in Process
      BY DEF TypeOK
    <3>2. procs[s].done \cup {procs[s].rev} \in SUBSET Revisions
      BY <2>8, <3>1 DEF Install, Process
    <3>3. /\ procs' \in [Sessions -> Process]
          /\ \A q \in Sessions : procs'[q].up => procs'[q].gen # 0
      BY <2>8, <3>1, <3>2 DEF Install, TypeOK, Process
    <3>4. QED
      BY <2>8, <3>3 DEF Install, TypeOK, panel
  <2>9. ASSUME NEW s \in Sessions, Report(s) PROVE TypeOK'
    <3>1. PICK applied \in Claims, observed \in (now - Skew)..(now + Skew) :
            receipts' = receipts \cup
              {[token |-> procs[s].gen, session |-> s, delivery |-> procs[s].held,
                rev |-> procs[s].rev, seq |-> procs[s].seq + 1, applied |-> applied,
                running |-> procs[s].inst, observed |-> observed]}
      BY <2>9 DEF Report
    <3>2. observed \in Times /\ now \in Times
      BY EvidenceConstants DEF TypeOK, Epoch, Times
    <3>3. receipts' \subseteq Receipt
      <4>1. procs[s] \in Process /\ procs[s].gen \in Generations
        BY <2>9 DEF Report, TypeOK, Process, Generations
      <4>2. procs[s].seq + 1 \in 1..MaxSeq
        BY <2>9, <4>1, EvidenceConstants DEF Report, Process
      <4>3. applied \in BOOLEAN
        BY EvidenceConstants
      <4>4. [token |-> procs[s].gen, session |-> s, delivery |-> procs[s].held,
             rev |-> procs[s].rev, seq |-> procs[s].seq + 1, applied |-> applied,
             running |-> procs[s].inst, observed |-> observed] \in Receipt
        BY <3>2, <4>1, <4>2, <4>3 DEF Process, Receipt
      <4>5. QED
        BY <3>1, <4>4 DEF TypeOK
    <3>4. /\ procs' \in [Sessions -> Process]
          /\ \A q \in Sessions : procs'[q].up => procs'[q].gen # 0
      <4>1. procs[s] \in Process
        BY DEF TypeOK
      <4>2. procs[s].seq + 1 \in 0..MaxSeq
        BY <2>9, <4>1, EvidenceConstants DEF Report, Process
      <4>3. QED
        BY <2>9, <3>2, <4>1, <4>2 DEF Report, TypeOK, Process
    <3>5. QED
      BY <2>9, <3>3, <3>4 DEF Report, TypeOK, panel
  <2>10. ASSUME NEW g \in gets, Snapshot(g) PROVE TypeOK'
    <3>1. gets' \subseteq Request
      BY <2>10 DEF Snapshot, TypeOK, Request
    <3>2. QED
      BY <2>10, <3>1 DEF Snapshot, TypeOK, panel
  <2>11. ASSUME NEW g \in gets, PrepareUnauthorized(g) PROVE TypeOK'
    BY <2>11 DEF PrepareUnauthorized, TypeOK, panel
  <2>12. ASSUME NEW g \in gets, PrepareRetired(g) PROVE TypeOK'
    <3>1. g.rev # NoRev /\ 0 \in Ordinals /\ Answer(g, 0)
      BY <2>12, EvidenceConstants DEF PrepareRetired, Ordinals
    <3>2. QED
      BY <2>12, <3>1, AnswerTypes DEF PrepareRetired, TypeOK, panel
  <2>13. ASSUME NEW g \in gets, PrepareUnchanged(g) PROVE TypeOK'
    <3>1. g.rev # NoRev /\ head.delivery \in Ordinals /\ Answer(g, head.delivery)
      BY <2>13, EvidenceConstants DEF PrepareUnchanged, TypeOK, NoHead, HeadRow, Ordinals
    <3>2. QED
      BY <2>13, <3>1, AnswerTypes DEF PrepareUnchanged, TypeOK, panel
  <2>14. ASSUME NEW g \in gets, PrepareCandidate(g) PROVE TypeOK'
    BY <2>14, CandidateTypes
  <2>15. ASSUME NEW g \in gets, Drop(g) PROVE TypeOK'
    BY <2>15 DEF Drop, TypeOK, panel
  <2>16. ASSUME NEW m \in receipts, HandleReceipt(m) PROVE TypeOK'
    BY <2>16, ReceiptTypes DEF HandleReceipt
  <2>17. CASE UNCHANGED vars
    BY <2>17 DEF TypeOK, vars
  <2>18. QED
    BY <2>1, <2>2, <2>3, <2>4, <2>5, <2>6, <2>7, <2>8, <2>9, <2>10, <2>11, <2>12, <2>13,
       <2>14, <2>15, <2>16, <2>17 DEF Next, Prepare
<1>3. QED
  BY <1>1, <1>2, PTL DEF Spec

(***************************************************************************)
(* Why the head only hands over.  A challenge is issued against a head and *)
(* is newer than it; the only heads a challenge can replace are the one it *)
(* was issued against and the one it already is.                           *)
(***************************************************************************)
ChallengeNewer == \A k \in Keys : sess[k].cand # 0 => sess[k].cand > sess[k].parent
HeadIssued == head.delivery <= issued
HeadNotRetired == head.delivery # 0 => ~sess[HeadKey(head)].retired

HandoverInv == TypeOK /\ ChallengeNewer /\ HeadIssued /\ HeadNotRetired

\* What activateNodeConfigDeliveryTx does to each session row.
LEMMA RetireRows ==
  ASSUME NEW table \in [Keys -> SessionRow], NEW key, NEW k \in Keys
  PROVE  /\ Retire(table, key)[k].cand = table[k].cand
         /\ Retire(table, key)[k].parent = table[k].parent
         /\ Retire(table, key)[k].seq = table[k].seq
         /\ Retire(table, key)[k].retired <=>
              \/ table[k].retired
              \/ head.delivery # 0 /\ HeadKey(head) # key /\ k = HeadKey(head)
<1>1. CASE head.delivery # 0 /\ HeadKey(head) # key /\ k = HeadKey(head)
  BY <1>1 DEF Retire, SessionRow
<1>2. CASE ~(head.delivery # 0 /\ HeadKey(head) # key /\ k = HeadKey(head))
  BY <1>2 DEF Retire, SessionRow
<1>3. QED
  BY <1>1, <1>2

\* Once a process of key p with delivery id newer than the head has been made
\* the head, and exactly the old head's process was retired, the abstract head
\* has moved on or handed over.
LEMMA HeadMoves ==
  ASSUME TypeOK, TypeOK', NEW p \in Keys, NEW id \in Ordinals,
         id > head.delivery, ~sess[p].retired,
         head' = Activated(p, id),
         \A k \in Keys : sess'[k].retired <=>
           \/ sess[k].retired
           \/ head.delivery # 0 /\ HeadKey(head) # p /\ k = HeadKey(head)
  PROVE  Abstract!Next
<1>1. HeadKey(head)' = p /\ head'.delivery = id
  BY DEF Activated, HeadKey, Keys
<1>2. (head.delivery = 0 <=> head = NoHead) /\ (head.delivery # 0 => HeadKey(head) \in Keys)
  BY DEF TypeOK, NoHead, HeadRow, HeadKey, Keys
<1>3. HeadKey(NoHead) \notin Keys
  BY EvidenceConstants DEF HeadKey, NoHead, Keys, Generations
<1>4. CASE HeadKey(head) = p
  <2>1. {k \in Keys : sess[k].retired}' = {k \in Keys : sess[k].retired}
    BY <1>4
  <2>2. QED
    BY <1>1, <1>3, <1>4, <2>1 DEF Abstract!Next, Abstract!Advance
<1>5. CASE HeadKey(head) # p
  <2>1. {k \in Keys : sess[k].retired}' =
          {k \in Keys : sess[k].retired} \cup ({HeadKey(head)} \ {HeadKey(NoHead)})
    BY <1>2, <1>3, <1>5
  <2>2. Abstract!Takeover(p)
    BY <1>1, <1>5, <2>1 DEF Abstract!Takeover
  <2>3. QED
    BY <2>2 DEF Abstract!Next
<1>6. QED
  BY <1>4, <1>5

\* prepareNodeConfigDelivery: the challenge it stores is newer than the head,
\* and if it activates one the head moves to that challenge.
LEMMA CandidateStep ==
  ASSUME HandoverInv, TypeOK', NEW g \in gets, PrepareCandidate(g)
  PROVE  /\ ChallengeNewer' /\ HeadIssued' /\ HeadNotRetired'
         /\ Abstract!Next \/ UNCHANGED Abstract!headVars
<1> DEFINE reuse(f) == Reusable(g) /\ ~f
           id(f) == IF reuse(f) THEN sess[Key(g)].cand ELSE issued + 1
           active(f) == Activates(g, reuse(f) /\ g.seen = id(f))
           table(f) == [sess EXCEPT ![Key(g)].cand = id(f), ![Key(g)].parent = head.delivery]
<1>1. PICK f \in Forced :
        /\ id(f) <= MaxDeliveries
        /\ issued' = IF reuse(f) THEN issued ELSE id(f)
        /\ head' = IF active(f) THEN Activated(Key(g), id(f)) ELSE head
        /\ sess' = IF active(f) THEN Retire(table(f), Key(g)) ELSE table(f)
  BY DEF PrepareCandidate
<1>2. Key(g) \in Keys /\ ~sess[Key(g)].retired
  BY DEF PrepareCandidate, HandoverInv, TypeOK, Request, Key, Keys
<1>3. /\ sess \in [Keys -> SessionRow]
      /\ issued \in Nat /\ head.delivery \in Ordinals /\ head.delivery <= issued
  BY EvidenceConstants DEF HandoverInv, TypeOK, HeadIssued, NoHead, HeadRow, Ordinals
<1>4. id(f) \in Ordinals /\ id(f) # 0 /\ id(f) > head.delivery
  <2>1. CASE reuse(f)
    <3>1. sess[Key(g)].cand # 0 /\ sess[Key(g)].parent = head.delivery
      BY <2>1 DEF Reusable
    <3>2. QED
      BY <1>2, <1>3, <2>1, <3>1 DEF HandoverInv, ChallengeNewer, SessionRow
  <2>2. CASE ~reuse(f)
    BY <1>1, <1>3, <2>2, EvidenceConstants DEF Ordinals
  <2>3. QED
    BY <2>1, <2>2
<1>5. table(f) \in [Keys -> SessionRow]
  BY <1>2, <1>3, <1>4, RowTypes
<1>6. \A k \in Keys : /\ table(f)[k].cand = IF k = Key(g) THEN id(f) ELSE sess[k].cand
                      /\ table(f)[k].parent = IF k = Key(g) THEN head.delivery ELSE sess[k].parent
                      /\ table(f)[k].retired = sess[k].retired
  BY <1>2, <1>3, <1>4 DEF SessionRow
<1> HIDE DEF id, table
<1>7. \A k \in Keys : sess'[k].cand = table(f)[k].cand /\ sess'[k].parent = table(f)[k].parent
  BY <1>1, <1>5, RetireRows
<1>8. ChallengeNewer'
  BY <1>3, <1>4, <1>6, <1>7 DEF HandoverInv, ChallengeNewer, Ordinals
<1>9. HeadIssued'
  <2>1. CASE reuse(f)
    <3>1. id(f) = sess[Key(g)].cand /\ sess[Key(g)].cand \in DOMAIN deliv
      BY <2>1 DEF id, Reusable
    <3>2. id(f) <= issued
      BY <3>1, <1>3 DEF HandoverInv, TypeOK
    <3>3. QED
      BY <1>1, <1>3, <2>1, <3>2 DEF HeadIssued, Activated
  <2>2. CASE ~reuse(f)
    BY <1>1, <1>3, <1>4, <2>2 DEF HeadIssued, Activated, Ordinals
  <2>3. QED
    BY <2>1, <2>2
<1>10. CASE active(f)
  <2>1. \A k \in Keys : sess'[k].retired <=>
          \/ sess[k].retired
          \/ head.delivery # 0 /\ HeadKey(head) # Key(g) /\ k = HeadKey(head)
    BY <1>1, <1>5, <1>6, <1>10, RetireRows
  <2>2. HeadKey(head)' = Key(g)
    BY <1>1, <1>10 DEF HeadKey, Activated, Key
  <2>3. HeadNotRetired'
    BY <1>2, <2>1, <2>2 DEF HeadNotRetired
  <2>4. Abstract!Next
    BY <1>1, <1>2, <1>4, <1>10, <2>1, HeadMoves DEF HandoverInv
  <2>5. QED
    BY <1>8, <1>9, <2>3, <2>4
<1>11. CASE ~active(f)
  <2>1. head' = head /\ sess' = table(f)
    BY <1>1, <1>11
  <2>2. \A k \in Keys : sess'[k].retired = sess[k].retired
    BY <1>6, <2>1
  <2>3. HeadNotRetired'
    BY <2>1, <2>2 DEF HandoverInv, HeadNotRetired, HeadKey, TypeOK, NoHead, HeadRow, Keys
  <2>4. UNCHANGED Abstract!headVars
    BY <2>1, <2>2 DEF Abstract!headVars, HeadKey
  <2>5. QED
    BY <1>8, <1>9, <2>3, <2>4
<1>12. QED
  BY <1>10, <1>11

\* recordNodeConfigReceiptTx: an accepted receipt confirms the head or the
\* challenge that was issued against it.
LEMMA ReceiptStep ==
  ASSUME HandoverInv, TypeOK', NEW m \in receipts, NEW at, RecordReceipt(m, at)
  PROVE  /\ ChallengeNewer' /\ HeadIssued' /\ HeadNotRetired'
         /\ Abstract!Next \/ UNCHANGED Abstract!headVars
<1>1. Key(m) \in Keys /\ ~sess[Key(m)].retired /\ sess[Key(m)].cand = m.delivery
  BY DEF RecordReceipt, Answers, HandoverInv, TypeOK, Receipt, Key, Keys
<1>2. m.delivery \in 1..issued /\ m.delivery \in Ordinals /\ issued' = issued
  BY DEF RecordReceipt, Answers, HandoverInv, TypeOK, Receipt
<1>3. /\ sess \in [Keys -> SessionRow]
      /\ issued \in Nat /\ head.delivery \in Ordinals /\ head.delivery <= issued
  BY EvidenceConstants DEF HandoverInv, TypeOK, HeadIssued, NoHead, HeadRow, Ordinals
<1>4. Retire(sess, Key(m)) \in [Keys -> SessionRow]
  BY <1>3, RowTypes DEF Retire
<1>5. \A k \in Keys : /\ sess'[k].cand = Retire(sess, Key(m))[k].cand
                      /\ sess'[k].parent = Retire(sess, Key(m))[k].parent
                      /\ sess'[k].retired = Retire(sess, Key(m))[k].retired
  BY <1>1, <1>4 DEF RecordReceipt, SessionRow
<1>6. \A k \in Keys : /\ sess'[k].cand = sess[k].cand
                      /\ sess'[k].parent = sess[k].parent
                      /\ sess'[k].retired <=>
                           \/ sess[k].retired
                           \/ head.delivery # 0 /\ HeadKey(head) # Key(m) /\ k = HeadKey(head)
  BY <1>3, <1>5, RetireRows
<1>7. ChallengeNewer'
  BY <1>6 DEF HandoverInv, ChallengeNewer
<1>8. head' = Activated(Key(m), m.delivery)
  BY DEF RecordReceipt
<1>9. HeadIssued'
  BY <1>2, <1>3, <1>8 DEF HeadIssued, Activated
<1>10. HeadKey(head)' = Key(m)
  BY <1>8 DEF HeadKey, Activated, Key
<1>11. HeadNotRetired'
  BY <1>1, <1>6, <1>10 DEF HeadNotRetired
<1>12. CASE head.session = m.session /\ head.delivery = m.delivery
  <2>1. HeadKey(head) = Key(m) /\ head'.delivery = head.delivery
    BY <1>8, <1>12 DEF RecordReceipt, Answers, HeadKey, Key, Activated
  <2>2. UNCHANGED Abstract!headVars
    BY <1>6, <1>10, <2>1 DEF Abstract!headVars
  <2>3. QED
    BY <1>7, <1>9, <1>11, <2>2
<1>13. CASE ~(head.session = m.session /\ head.delivery = m.delivery)
  <2>1. head.delivery = sess[Key(m)].parent
    BY <1>13 DEF RecordReceipt, Answers
  <2>2. m.delivery > head.delivery
    BY <1>1, <1>2, <2>1 DEF HandoverInv, ChallengeNewer
  <2>3. Abstract!Next
    BY <1>1, <1>2, <1>6, <1>8, <2>2, HeadMoves DEF HandoverInv
  <2>4. QED
    BY <1>7, <1>9, <1>11, <2>3
<1>14. QED
  BY <1>12, <1>13

\* A request or report that leaves the three tables alone leaves the
\* argument alone.
LEMMA QuietStep ==
  ASSUME HandoverInv, UNCHANGED <<sess, head, issued>>
  PROVE  /\ ChallengeNewer' /\ HeadIssued' /\ HeadNotRetired'
         /\ UNCHANGED Abstract!headVars
BY DEF HandoverInv, ChallengeNewer, HeadIssued, HeadNotRetired, HeadKey, Abstract!headVars

\* The step of the argument: every action keeps the invariant and is a step
\* or a stutter of ConfigHead.
LEMMA HandoverStep ==
  ASSUME HandoverInv, TypeOK', [Next]_vars
  PROVE  HandoverInv' /\ [Abstract!Next]_(Abstract!headVars)
<1>1. ASSUME NEW g \in gets, PrepareCandidate(g)
      PROVE  HandoverInv' /\ [Abstract!Next]_(Abstract!headVars)
  BY <1>1, CandidateStep DEF HandoverInv
<1>2. ASSUME NEW m \in receipts, HandleReceipt(m)
      PROVE  HandoverInv' /\ [Abstract!Next]_(Abstract!headVars)
  BY <1>2, ReceiptStep DEF HandoverInv, HandleReceipt
<1>3. ASSUME UNCHANGED <<sess, head, issued>>
      PROVE  HandoverInv' /\ [Abstract!Next]_(Abstract!headVars)
  BY <1>3, QuietStep DEF HandoverInv
<1>4. CASE RedeemPairCode \/ ResetPairCode
  BY <1>3, <1>4 DEF RedeemPairCode, ResetPairCode
<1>5. CASE Edit \/ Tick
  BY <1>3, <1>5 DEF Edit, Tick, panel
<1>6. ASSUME NEW s \in Sessions, Start(s) \/ Stop(s) \/ Poll(s) \/ Install(s) \/ Report(s)
      PROVE  UNCHANGED <<sess, head, issued>>
  BY <1>6 DEF Start, Stop, Poll, Install, Report, panel
<1>7. ASSUME NEW g \in gets,
             \/ Snapshot(g) \/ PrepareUnauthorized(g) \/ PrepareRetired(g)
             \/ PrepareUnchanged(g) \/ Drop(g)
      PROVE  UNCHANGED <<sess, head, issued>>
  BY <1>7 DEF Snapshot, PrepareUnauthorized, PrepareRetired, PrepareUnchanged, Drop, panel
<1>8. CASE UNCHANGED vars
  BY <1>3, <1>8 DEF vars
<1>9. QED
  BY <1>1, <1>2, <1>3, <1>4, <1>5, <1>6, <1>7, <1>8 DEF Next, Prepare

\* The evidence of a node implements ConfigHead for every number of
\* processes, pairings and deliveries: whatever overlapping processes, delayed
\* long polls and repeated receipts do, a superseded process never speaks for
\* the node again and the delivery the node is judged by never goes back
\* (prepareNodeConfigDelivery, recordNodeConfigReceiptTx).
THEOREM HeadImplementsHandover == Spec => HeadOnlyHandsOver
<1>1. Init => HandoverInv
  <2>1. Init => ChallengeNewer /\ HeadIssued /\ HeadNotRetired
    BY DEF Init, ChallengeNewer, HeadIssued, HeadNotRetired, NewSession, NoHead
  <2>2. QED
    BY <2>1, InitTypes DEF HandoverInv
<1>2. Init => Abstract!Init
  BY DEF Init, Abstract!Init, NoHead, HeadKey, NewSession
<1>3. HandoverInv /\ TypeOK' /\ [Next]_vars =>
        HandoverInv' /\ [Abstract!Next]_(Abstract!headVars)
  BY HandoverStep
<1>4. QED
  BY <1>1, <1>2, <1>3, TypeCorrect, PTL DEF Spec, HeadOnlyHandsOver, Abstract!Spec

(***************************************************************************)
(* Who has heard what.  Deliveries are handed to a process one after the   *)
(* other, so while it is not superseded what it echoes is at most what it  *)
(* holds, and what it holds at most the challenge the panel keeps for it.  *)
(* Evidence about a process is never ahead of the process.                 *)
(***************************************************************************)
CandIssued == \A k \in Keys : sess[k].cand <= issued
HeadIsCand == head.delivery # 0 => sess[HeadKey(head)].cand = head.delivery

Own(s) == <<procs[s].gen, s>>
HeldKnown ==
  \A s \in Sessions :
    /\ procs[s].gen = 0 => procs[s].held = 0
    /\ procs[s].gen # 0 /\ ~sess[Own(s)].retired => procs[s].held <= sess[Own(s)].cand

EchoesHeld ==
  \A g \in gets : /\ g.token = procs[g.session].gen
                  /\ ~sess[Key(g)].retired => g.seen <= procs[g.session].held

ReceiptsOfHeld ==
  \A m \in receipts : /\ m.token = procs[m.session].gen
                      /\ ~sess[Key(m)].retired => m.delivery <= procs[m.session].held

HearingInv == CandIssued /\ HeadIsCand /\ HeldKnown /\ EchoesHeld /\ ReceiptsOfHeld

RunningInstalled == \A s \in Sessions : procs[s].inst # NoRev => procs[s].inst \in procs[s].done
ReceiptsInstalled ==
  \A m \in receipts : m.running # NoRev => m.running \in procs[m.session].done

InstalledInv == RunningInstalled /\ ReceiptsInstalled /\ AppliedIsTrue

SpokenInv ==
  /\ \A s \in Sessions : procs[s].spoke # Null => procs[s].spoke <= now
  /\ \A m \in receipts : /\ procs[m.session].spoke # Null
                         /\ m.observed <= procs[m.session].spoke + Skew
  /\ \A d \in DOMAIN deliv : deliv[d].received # Null =>
       LET spoke == procs[deliv[d].key[2]].spoke
       IN spoke # Null /\ deliv[d].observed # Null /\ deliv[d].observed <= spoke + Skew

\* The answer of a long poll changes only which delivery and state its own
\* process holds, and the requests left are requests that were open.
LEMMA AnswerEffect ==
  ASSUME TypeOK, NEW g \in gets, NEW id \in Ordinals, Answer(g, id)
  PROVE  /\ \A s \in Sessions :
              /\ procs'[s].gen = procs[s].gen /\ procs'[s].inst = procs[s].inst
              /\ procs'[s].done = procs[s].done /\ procs'[s].spoke = procs[s].spoke
              /\ \/ procs'[s].held = procs[s].held
                 \/ s = g.session /\ procs'[s].held = id
         /\ \A h \in gets' : \E o \in gets :
              h.token = o.token /\ h.session = o.session /\ h.seen = o.seen
<1>1. CASE g.seen = id
  <2>1. procs' = procs /\ gets' = (gets \ {g}) \cup {[g EXCEPT !.rev = NoRev]}
    BY <1>1 DEF Answer, Hold
  <2>2. g \in Request
    BY DEF TypeOK
  <2>3. /\ [g EXCEPT !.rev = NoRev].token = g.token
        /\ [g EXCEPT !.rev = NoRev].session = g.session
        /\ [g EXCEPT !.rev = NoRev].seen = g.seen
    BY <2>2 DEF Request
  <2>4. QED
    BY <2>1, <2>3
<1>2. CASE g.seen # id
  <2>1. PICK arrives \in BOOLEAN :
          procs' = IF arrives /\ procs[g.session].up
                   THEN [procs EXCEPT ![g.session].held = id, ![g.session].rev = g.rev]
                   ELSE procs
    BY <1>2 DEF Answer, Reply
  <2>2. g.session \in Sessions /\ gets' = gets \ {g}
    BY <1>2 DEF TypeOK, Request, Answer, Reply
  <2>3. CASE procs' = procs
    BY <2>2, <2>3
  <2>4. CASE procs' = [procs EXCEPT ![g.session].held = id, ![g.session].rev = g.rev]
    BY <2>2, <2>4 DEF TypeOK, Process
  <2>5. QED
    BY <2>1, <2>3, <2>4
<1>3. QED
  BY <1>1, <1>2

\* What prepareNodeConfigDelivery writes below its early return: one delivery,
\* offered again or new, becomes the session's challenge; the head stays or
\* moves to it; every retained row is the old one or the new one.
Prepared(g, id) ==
  /\ \/ Reusable(g) /\ id = sess[Key(g)].cand /\ issued' = issued
     \/ id = issued + 1 /\ issued' = id
  /\ \/ head' = head
     \/ /\ head' = Activated(Key(g), id)
        /\ \/ head.token # g.token \/ Current(g)
           \/ Reusable(g) /\ id = sess[Key(g)].cand /\ g.seen = id
  /\ Current(g) => head' = Activated(Key(g), id)
  /\ \A k \in Keys :
       /\ sess'[k].cand = IF k = Key(g) THEN id ELSE sess[k].cand
       /\ sess'[k].seq = sess[k].seq
       /\ sess[k].retired => sess'[k].retired
  /\ DOMAIN deliv' = Kept(DOMAIN deliv \cup {id}, head'.delivery)
  /\ \A d \in DOMAIN deliv' :
       \/ d \in DOMAIN deliv /\ deliv'[d] = deliv[d]
       \/ /\ d = id /\ d \notin DOMAIN deliv
          /\ deliv'[d].key = Key(g)
          /\ deliv'[d].applied = FALSE /\ deliv'[d].received = Null
  /\ Answer(g, id)

\* Everything below the early return is described by Prepared.
LEMMA CandidateEffect ==
  ASSUME TypeOK, NEW g \in gets, PrepareCandidate(g)
  PROVE  \E id \in 1..MaxDeliveries : Prepared(g, id)
<1> DEFINE reuse(f) == Reusable(g) /\ ~f
           id(f) == IF reuse(f) THEN sess[Key(g)].cand ELSE issued + 1
           active(f) == Activates(g, reuse(f) /\ g.seen = id(f))
           h(f) == IF active(f) THEN Activated(Key(g), id(f)) ELSE head
           row == [key |-> Key(g), rev |-> g.rev, issued |-> now, received |-> Null,
                   observed |-> Null, seq |-> 0, applied |-> FALSE, confirmed |-> FALSE]
           stored(f) == IF reuse(f) THEN DOMAIN deliv ELSE DOMAIN deliv \cup {id(f)}
           table(f) == [sess EXCEPT ![Key(g)].cand = id(f), ![Key(g)].parent = head.delivery]
<1>1. PICK f \in Forced :
        /\ id(f) <= MaxDeliveries
        /\ issued' = IF reuse(f) THEN issued ELSE id(f)
        /\ head' = h(f)
        /\ sess' = IF active(f) THEN Retire(table(f), Key(g)) ELSE table(f)
        /\ deliv' = [d \in Kept(stored(f), h(f).delivery) |->
                       IF d \in DOMAIN deliv THEN deliv[d] ELSE row]
        /\ Answer(g, id(f))
  BY DEF PrepareCandidate
<1>2. Key(g) \in Keys
  BY DEF TypeOK, Request, Key, Keys
<1>3. /\ id(f) \in 1..MaxDeliveries /\ id(f) \in Ordinals
      /\ \/ Reusable(g) /\ id(f) = sess[Key(g)].cand /\ issued' = issued
         \/ id(f) = issued + 1 /\ issued' = id(f)
      /\ stored(f) = DOMAIN deliv \cup {id(f)}
  <2>1. CASE reuse(f)
    <3>1. sess[Key(g)].cand \in DOMAIN deliv /\ id(f) = sess[Key(g)].cand
      BY <2>1 DEF Reusable
    <3>2. id(f) \in 1..MaxDeliveries /\ id(f) \in Ordinals
      BY <3>1, EvidenceConstants DEF TypeOK, Ordinals
    <3>3. stored(f) = DOMAIN deliv \cup {id(f)}
      BY <2>1, <3>1
    <3>4. QED
      BY <1>1, <2>1, <3>1, <3>2, <3>3
  <2>2. CASE ~reuse(f)
    BY <1>1, <2>2, EvidenceConstants DEF TypeOK, Ordinals
  <2>3. QED
    BY <2>1, <2>2
<1>4. /\ \/ head' = head
         \/ /\ head' = Activated(Key(g), id(f))
            /\ \/ head.token # g.token \/ Current(g)
               \/ Reusable(g) /\ id(f) = sess[Key(g)].cand /\ g.seen = id(f)
      /\ Current(g) => head' = Activated(Key(g), id(f))
  BY <1>1 DEF Activates
<1>5. sess \in [Keys -> SessionRow] /\ head.delivery \in Ordinals
  BY EvidenceConstants DEF TypeOK, NoHead, HeadRow, Ordinals
<1> HIDE DEF id
<1>6. table(f) \in [Keys -> SessionRow]
  BY <1>2, <1>3, <1>5, RowTypes
<1>7. \A k \in Keys : /\ table(f)[k].cand = IF k = Key(g) THEN id(f) ELSE sess[k].cand
                      /\ table(f)[k].seq = sess[k].seq
                      /\ table(f)[k].retired = sess[k].retired
  BY <1>2, <1>3, <1>5 DEF SessionRow
<1>8. DOMAIN deliv' = Kept(DOMAIN deliv \cup {id(f)}, head'.delivery)
  BY <1>1, <1>3
<1>9. \A d \in DOMAIN deliv' :
        \/ d \in DOMAIN deliv /\ deliv'[d] = deliv[d]
        \/ /\ d = id(f) /\ d \notin DOMAIN deliv
           /\ deliv'[d].key = Key(g)
           /\ deliv'[d].applied = FALSE /\ deliv'[d].received = Null
  BY <1>1, <1>3, <1>8 DEF Kept
<1> HIDE DEF table
<1>10. \A k \in Keys : /\ sess'[k].cand = IF k = Key(g) THEN id(f) ELSE sess[k].cand
                       /\ sess'[k].seq = sess[k].seq
                       /\ sess[k].retired => sess'[k].retired
  BY <1>1, <1>6, <1>7, RetireRows
<1>11. Prepared(g, id(f))
  BY <1>1, <1>3, <1>4, <1>8, <1>9, <1>10 DEF Prepared
<1>12. QED
  BY <1>3, <1>11

\* What recordNodeConfigReceiptTx writes: the evidence of one delivery and the
\* progress of one session, whose process becomes or stays the head.
LEMMA ReceiptEffect ==
  ASSUME TypeOK, NEW m \in receipts, NEW at, RecordReceipt(m, at)
  PROVE  /\ Key(m) \in Keys /\ m.delivery \in DOMAIN deliv /\ DOMAIN deliv' = DOMAIN deliv
         /\ head' = Activated(Key(m), m.delivery)
         /\ \A k \in Keys : /\ sess'[k].cand = sess[k].cand
                            /\ k # Key(m) => sess'[k].seq = sess[k].seq
                            /\ sess[k].retired => sess'[k].retired
         /\ \A d \in DOMAIN deliv : /\ d # m.delivery => deliv'[d] = deliv[d]
                                   /\ deliv'[d].key = deliv[d].key
                                   /\ deliv'[d].rev = deliv[d].rev
         /\ deliv'[m.delivery].applied = Applied(m)
         /\ deliv'[m.delivery].observed = m.observed
<1>1. Key(m) \in Keys /\ m.delivery \in DOMAIN deliv
  BY DEF RecordReceipt, Answers, TypeOK, Receipt, Key, Keys
<1>2. Retire(sess, Key(m)) \in [Keys -> SessionRow] /\ sess \in [Keys -> SessionRow]
  BY RowTypes DEF Retire, TypeOK
<1>3. \A k \in Keys : /\ sess'[k].cand = Retire(sess, Key(m))[k].cand
                      /\ k # Key(m) => sess'[k].seq = Retire(sess, Key(m))[k].seq
                      /\ sess'[k].retired = Retire(sess, Key(m))[k].retired
  BY <1>1, <1>2 DEF RecordReceipt, SessionRow
<1>4. \A k \in Keys : /\ sess'[k].cand = sess[k].cand
                      /\ k # Key(m) => sess'[k].seq = sess[k].seq
                      /\ sess[k].retired => sess'[k].retired
  BY <1>2, <1>3, RetireRows
<1>5. \A d \in DOMAIN deliv : deliv[d] \in DeliveryRow
  BY DEF TypeOK
<1>6. /\ DOMAIN deliv' = DOMAIN deliv
      /\ \A d \in DOMAIN deliv : /\ d # m.delivery => deliv'[d] = deliv[d]
                                /\ deliv'[d].key = deliv[d].key
                                /\ deliv'[d].rev = deliv[d].rev
      /\ deliv'[m.delivery].applied = Applied(m)
      /\ deliv'[m.delivery].observed = m.observed
  BY <1>1, <1>5 DEF RecordReceipt, DeliveryRow
<1>7. QED
  BY <1>1, <1>4, <1>6 DEF RecordReceipt

\* Only those two transactions write the tables of the evidence.
LEMMA TablesWrittenBy ==
  ASSUME [Next]_vars
  PROVE  \/ \E g \in gets : PrepareCandidate(g)
         \/ \E m \in receipts, at \in (now - Lag)..now : RecordReceipt(m, at)
         \/ UNCHANGED <<sess, deliv, head, issued>>
<1>1. CASE RedeemPairCode \/ ResetPairCode \/ Edit \/ Tick
  BY <1>1 DEF RedeemPairCode, ResetPairCode, Edit, Tick, panel
<1>2. ASSUME NEW s \in Sessions, Start(s) \/ Stop(s) \/ Poll(s) \/ Install(s) \/ Report(s)
      PROVE  UNCHANGED <<sess, deliv, head, issued>>
  BY <1>2 DEF Start, Stop, Poll, Install, Report, panel
<1>3. ASSUME NEW g \in gets,
             \/ Snapshot(g) \/ PrepareUnauthorized(g) \/ PrepareRetired(g)
             \/ PrepareUnchanged(g) \/ Drop(g)
      PROVE  UNCHANGED <<sess, deliv, head, issued>>
  BY <1>3 DEF Snapshot, PrepareUnauthorized, PrepareRetired, PrepareUnchanged, Drop, panel
<1>4. CASE UNCHANGED vars
  BY <1>4 DEF vars
<1>5. QED
  BY <1>1, <1>2, <1>3, <1>4 DEF Next, Prepare, HandleReceipt

\* The argument of HeadImplementsHandover, as an invariant.
LEMMA HandoverInvariant == Spec => []HandoverInv
<1>1. Init => HandoverInv
  <2>1. Init => ChallengeNewer /\ HeadIssued /\ HeadNotRetired
    BY DEF Init, ChallengeNewer, HeadIssued, HeadNotRetired, NewSession, NoHead
  <2>2. QED
    BY <2>1, InitTypes DEF HandoverInv
<1>2. HandoverInv /\ TypeOK' /\ [Next]_vars => HandoverInv'
  BY HandoverStep
<1>3. QED
  BY <1>1, <1>2, TypeCorrect, PTL DEF Spec

\* In every reachable state the head row names a retained delivery of its own
\* process, which was not superseded: the JOINs of every reader find it, however
\* many deliveries were pruned since (pruneNodeConfigDeliveriesTx keeps the head,
\* activateNodeConfigDeliveryTx takes a delivery of the session it activates).
THEOREM HeadIsServed == Spec => []HeadServes
<1>1. Init => HeadServes
  BY DEF Init, HeadServes, NoHead
<1>2. HandoverInv /\ HandoverInv' /\ HeadServes /\ [Next]_vars => HeadServes'
  <2> SUFFICES ASSUME HandoverInv, HandoverInv', HeadServes, [Next]_vars,
                      head'.delivery # 0
               PROVE  head'.delivery \in DOMAIN deliv' /\ deliv'[head'.delivery].key = HeadKey(head')
    BY DEF HeadServes, HandoverInv, HeadNotRetired, HeadKey
  <2>1. ASSUME NEW g \in gets, PrepareCandidate(g)
        PROVE  head'.delivery \in DOMAIN deliv' /\ deliv'[head'.delivery].key = HeadKey(head')
    <3>1. PICK id \in 1..MaxDeliveries : Prepared(g, id)
      BY <2>1, CandidateEffect DEF HandoverInv
    <3>2. CASE head' = head
      <4>1. head.delivery \in DOMAIN deliv /\ deliv[head.delivery].key = HeadKey(head)
        BY <3>2 DEF HeadServes
      <4>2. head.delivery \in DOMAIN deliv'
        BY <3>1, <3>2, <4>1 DEF Kept, Prepared
      <4>3. QED
        BY <3>1, <3>2, <4>1, <4>2 DEF Prepared
    <3>3. CASE head' = Activated(Key(g), id)
      <4>1. head'.delivery = id /\ HeadKey(head') = Key(g)
        BY <3>3 DEF Activated, HeadKey, Key
      <4>2. id \in DOMAIN deliv'
        BY <3>1, <4>1 DEF Kept, Prepared
      <4>3. id \in DOMAIN deliv => deliv[id].key = Key(g)
        <5>1. id = issued + 1 => id \notin DOMAIN deliv
          BY EvidenceConstants DEF HandoverInv, TypeOK, Ordinals
        <5>2. QED
          BY <3>1, <5>1 DEF Prepared, Reusable
      <4>4. QED
        BY <3>1, <4>1, <4>2, <4>3 DEF Prepared
    <3>4. QED
      BY <3>1, <3>2, <3>3 DEF Prepared
  <2>2. ASSUME NEW m \in receipts, NEW at, RecordReceipt(m, at)
        PROVE  head'.delivery \in DOMAIN deliv' /\ deliv'[head'.delivery].key = HeadKey(head')
    <3>1. /\ m.delivery \in DOMAIN deliv /\ DOMAIN deliv' = DOMAIN deliv
          /\ head' = Activated(Key(m), m.delivery)
          /\ deliv'[m.delivery].key = deliv[m.delivery].key
      BY <2>2, ReceiptEffect DEF HandoverInv
    <3>2. head'.delivery = m.delivery /\ HeadKey(head') = Key(m)
      BY <3>1 DEF Activated, HeadKey, Key
    <3>3. deliv[m.delivery].key = Key(m)
      BY <2>2 DEF RecordReceipt, Answers
    <3>4. QED
      BY <3>1, <3>2, <3>3
  <2>3. CASE UNCHANGED <<sess, deliv, head, issued>>
    BY <2>3 DEF HeadServes
  <2>4. QED
    BY <2>1, <2>2, <2>3, TablesWrittenBy
<1>3. QED
  BY <1>1, <1>2, HandoverInvariant, PTL DEF Spec

\* Nothing a superseded process still sends, and nothing anybody else sends,
\* changes what is recorded about its deliveries: a receipt is recorded for a
\* delivery of a process that is not superseded, and a delivery that is retained
\* keeps its row (recordNodeConfigReceiptTx, prepareNodeConfigDelivery).
THEOREM SupersededStaysSilent == Spec => SupersededIsSilent
<1>1. TypeOK /\ [Next]_vars =>
        [\A d \in DOMAIN deliv \cap DOMAIN deliv' :
           sess[deliv[d].key].retired => deliv'[d] = deliv[d]]_vars
  <2> SUFFICES ASSUME TypeOK, [Next]_vars, NEW d \in DOMAIN deliv, d \in DOMAIN deliv',
                      sess[deliv[d].key].retired
               PROVE  deliv'[d] = deliv[d]
    OBVIOUS
  <2>1. ASSUME NEW g \in gets, PrepareCandidate(g) PROVE deliv'[d] = deliv[d]
    BY <2>1, CandidateEffect DEF Prepared
  <2>2. ASSUME NEW m \in receipts, NEW at, RecordReceipt(m, at) PROVE deliv'[d] = deliv[d]
    <3>1. d # m.delivery
      BY <2>2 DEF RecordReceipt, Answers
    <3>2. QED
      BY <2>2, <3>1, ReceiptEffect
  <2>3. QED
    BY <2>1, <2>2, TablesWrittenBy
<1>2. QED
  BY <1>1, TypeCorrect, PTL DEF Spec, SupersededIsSilent

\* After a re-pairing no request of an earlier token moves the head or a session,
\* even one that had passed the check of its token before: both transactions
\* resolve the token again (requireNodeTokenTx).
THEOREM RevokedStaysPowerless == Spec => RevokedIsPowerless
<1> DEFINE Powerless ==
             /\ head' # head => paired /\ head'.token = token
             /\ \A k \in Keys : ~paired \/ k[1] # token =>
                  sess'[k].cand = sess[k].cand /\ sess'[k].seq = sess[k].seq
<1>1. TypeOK /\ [Next]_vars => [Powerless]_vars
  <2> SUFFICES ASSUME TypeOK, [Next]_vars PROVE Powerless
    OBVIOUS
  <2>1. ASSUME NEW g \in gets, PrepareCandidate(g) PROVE Powerless
    <3>1. paired /\ g.token = token
      BY <2>1 DEF PrepareCandidate, Authorized
    <3>2. PICK id \in 1..MaxDeliveries : Prepared(g, id)
      BY <2>1, CandidateEffect
    <3>3. Key(g)[1] = token
      BY <3>1 DEF Key
    <3>4. head' # head => head'.token = token
      BY <3>2, <3>3 DEF Prepared, Activated
    <3>5. QED
      BY <3>1, <3>2, <3>3, <3>4 DEF Prepared
  <2>2. ASSUME NEW m \in receipts, NEW at, RecordReceipt(m, at) PROVE Powerless
    <3>1. paired /\ Key(m)[1] = token
      BY <2>2 DEF RecordReceipt, Authorized, Key
    <3>2. /\ head' = Activated(Key(m), m.delivery)
          /\ \A k \in Keys : /\ sess'[k].cand = sess[k].cand
                             /\ k # Key(m) => sess'[k].seq = sess[k].seq
      BY <2>2, ReceiptEffect
    <3>3. head'.token = token
      BY <3>1, <3>2 DEF Activated
    <3>4. QED
      BY <3>1, <3>2, <3>3
  <2>3. CASE UNCHANGED <<sess, deliv, head, issued>>
    BY <2>3
  <2>4. QED
    BY <2>1, <2>2, <2>3, TablesWrittenBy
<1>2. QED
  BY <1>1, TypeCorrect, PTL DEF Spec, RevokedIsPowerless

\* An answer that gives a process the challenge kept for it, or anything once it
\* is superseded, keeps process and panel in step.
LEMMA HearingAnswer ==
  ASSUME TypeOK, TypeOK', HearingInv, NEW g \in gets, NEW id \in Ordinals, Answer(g, id),
         UNCHANGED receipts,
         \A k \in Keys : sess[k].retired => sess'[k].retired,
         \A k \in Keys : sess[k].cand <= sess'[k].cand,
         ~sess'[Key(g)].retired => sess[Key(g)].cand <= id /\ id <= sess'[Key(g)].cand
  PROVE  HeldKnown' /\ EchoesHeld' /\ ReceiptsOfHeld'
<1>1. g \in Request /\ Key(g) \in Keys /\ g.session \in Sessions /\ g.token \in Generations
  BY DEF TypeOK, Request, Key, Keys
<1>2. g.token = procs[g.session].gen /\ Own(g.session) = Key(g)
  BY <1>1 DEF HearingInv, EchoesHeld, Own, Key
<1>3. \A s \in Sessions : /\ procs[s].gen \in 0..MaxGenerations
                          /\ procs[s].held \in Nat /\ procs'[s].held \in Nat
                          /\ procs[s].gen # 0 => Own(s) \in Keys
  BY EvidenceConstants DEF TypeOK, Process, Ordinals, Own, Keys, Generations
<1>4. \A k \in Keys : sess[k].cand \in Nat /\ sess'[k].cand \in Nat
  BY EvidenceConstants DEF TypeOK, SessionRow, Ordinals
<1>5. id \in Nat
  BY EvidenceConstants DEF Ordinals
<1>6. \A s \in Sessions : /\ procs'[s].gen = procs[s].gen /\ Own(s)' = Own(s)
                          /\ \/ procs'[s].held = procs[s].held
                             \/ s = g.session /\ procs'[s].held = id
  BY AnswerEffect DEF Own
<1>7. procs[g.session].gen # 0
  BY <1>1, <1>2, EvidenceConstants DEF Generations
<1>8. \A s \in Sessions : procs[s].gen # 0 /\ ~sess'[Own(s)].retired =>
         procs[s].held <= procs'[s].held /\ procs'[s].held <= sess'[Own(s)].cand
  <2> SUFFICES ASSUME NEW s \in Sessions, procs[s].gen # 0, ~sess'[Own(s)].retired
               PROVE  procs[s].held <= procs'[s].held /\ procs'[s].held <= sess'[Own(s)].cand
    OBVIOUS
  <2>1. procs[s].held <= sess[Own(s)].cand /\ sess[Own(s)].cand <= sess'[Own(s)].cand
    BY <1>3 DEF HearingInv, HeldKnown
  <2>2. CASE procs'[s].held = procs[s].held
    BY <1>3, <1>4, <2>1, <2>2
  <2>3. CASE s = g.session /\ procs'[s].held = id
    BY <1>2, <1>3, <1>4, <1>5, <2>1, <2>3
  <2>4. QED
    BY <1>6, <2>2, <2>3
<1>9. HeldKnown'
  <2>1. ASSUME NEW s \in Sessions, procs[s].gen = 0 PROVE procs'[s].held = 0
    BY <2>1, <1>6, <1>7 DEF HearingInv, HeldKnown
  <2>2. QED
    BY <1>6, <1>8, <2>1 DEF HeldKnown
<1>10. EchoesHeld'
  <2> SUFFICES ASSUME NEW h \in gets'
               PROVE  /\ h.token = procs'[h.session].gen
                      /\ ~sess'[Key(h)].retired => h.seen <= procs'[h.session].held
    BY DEF EchoesHeld, Key
  <2>1. PICK o \in gets : h.token = o.token /\ h.session = o.session /\ h.seen = o.seen
    BY AnswerEffect
  <2>2. o \in Request /\ o.session \in Sessions /\ o.seen \in Nat /\ Key(o) \in Keys /\ Key(h) = Key(o)
    BY <2>1, EvidenceConstants DEF TypeOK, Request, Ordinals, Key, Keys
  <2>3. /\ o.token = procs[o.session].gen /\ Own(o.session) = Key(o) /\ procs[o.session].gen # 0
        /\ ~sess[Key(o)].retired => o.seen <= procs[o.session].held
    BY <2>2, EvidenceConstants DEF HearingInv, EchoesHeld, Own, Key, Request, Generations
  <2>4. QED
    BY <1>3, <1>6, <1>8, <2>1, <2>2, <2>3
<1>11. ReceiptsOfHeld'
  <2> SUFFICES ASSUME NEW m \in receipts
               PROVE  /\ m.token = procs'[m.session].gen
                      /\ ~sess'[Key(m)].retired => m.delivery <= procs'[m.session].held
    BY DEF ReceiptsOfHeld, Key
  <2>1. m \in Receipt /\ m.session \in Sessions /\ m.delivery \in Nat /\ Key(m) \in Keys
    BY EvidenceConstants DEF TypeOK, Receipt, Ordinals, Key, Keys
  <2>2. /\ m.token = procs[m.session].gen /\ Own(m.session) = Key(m) /\ procs[m.session].gen # 0
        /\ ~sess[Key(m)].retired => m.delivery <= procs[m.session].held
    BY <2>1, EvidenceConstants DEF HearingInv, ReceiptsOfHeld, Own, Key, Receipt, Generations
  <2>3. QED
    BY <1>3, <1>6, <1>8, <2>1, <2>2
<1>12. QED
  BY <1>9, <1>10, <1>11

\* A step of a process that leaves what it holds alone, and adds at most a
\* request or a receipt that says what it holds.
LEMMA HearingProcess ==
  ASSUME TypeOK, TypeOK', HearingInv, UNCHANGED <<sess, head, issued>>,
         \A s \in Sessions : procs'[s].gen = procs[s].gen /\ procs'[s].held = procs[s].held,
         \A g \in gets' : \/ g.token = procs[g.session].gen /\ g.seen = procs[g.session].held
                          \/ \E o \in gets : /\ g.token = o.token /\ g.session = o.session
                                             /\ g.seen = o.seen,
         \A m \in receipts' : \/ m.token = procs[m.session].gen /\ m.delivery = procs[m.session].held
                              \/ m \in receipts
  PROVE  HearingInv'
<1>1. CandIssued' /\ HeadIsCand'
  BY DEF HearingInv, CandIssued, HeadIsCand, HeadKey
<1>2. HeldKnown'
  BY DEF HearingInv, HeldKnown, Own
<1>3. EchoesHeld'
  <2> SUFFICES ASSUME NEW g \in gets'
               PROVE  /\ g.token = procs'[g.session].gen
                      /\ ~sess[Key(g)].retired => g.seen <= procs'[g.session].held
    BY DEF EchoesHeld, Key
  <2>1. g.session \in Sessions /\ procs[g.session].held \in Nat
    BY EvidenceConstants DEF TypeOK, Request, Process, Ordinals
  <2>2. CASE g.token = procs[g.session].gen /\ g.seen = procs[g.session].held
    BY <2>1, <2>2
  <2>3. CASE \E o \in gets : g.token = o.token /\ g.session = o.session /\ g.seen = o.seen
    BY <2>1, <2>3 DEF HearingInv, EchoesHeld, Key
  <2>4. QED
    BY <2>2, <2>3
<1>4. ReceiptsOfHeld'
  <2> SUFFICES ASSUME NEW m \in receipts'
               PROVE  /\ m.token = procs'[m.session].gen
                      /\ ~sess[Key(m)].retired => m.delivery <= procs'[m.session].held
    BY DEF ReceiptsOfHeld, Key
  <2>1. m.session \in Sessions /\ procs[m.session].held \in Nat
    BY EvidenceConstants DEF TypeOK, Receipt, Process, Ordinals
  <2>2. QED
    BY <2>1 DEF HearingInv, ReceiptsOfHeld, Key
<1>5. QED
  BY <1>1, <1>2, <1>3, <1>4 DEF HearingInv

\* A process starts with nothing, and nothing was said in its name before.
LEMMA HearingStart ==
  ASSUME TypeOK, TypeOK', HearingInv, NEW p \in Sessions, Start(p)
  PROVE  HearingInv'
<1>1. procs[p].gen = 0 /\ procs'[p].gen = token /\ procs[p].held = 0 /\ procs'[p].held = 0
  BY DEF Start, TypeOK, Process, HearingInv, HeldKnown
<1>2. UNCHANGED <<sess, head, issued, gets, receipts>>
  BY DEF Start, panel
<1>3. \A s \in Sessions \ {p} : procs'[s] = procs[s]
  BY DEF Start, TypeOK
<1>4. \A g \in gets : g.session # p
  BY <1>1, EvidenceConstants DEF HearingInv, EchoesHeld, TypeOK, Request, Generations
<1>5. \A m \in receipts : m.session # p
  BY <1>1, EvidenceConstants DEF HearingInv, ReceiptsOfHeld, TypeOK, Receipt, Generations
<1>6. CandIssued' /\ HeadIsCand'
  BY <1>2 DEF HearingInv, CandIssued, HeadIsCand, HeadKey
<1>7. HeldKnown'
  <2>1. token # 0 /\ <<token, p>> \in Keys /\ sess[<<token, p>>].cand \in Nat
    BY EvidenceConstants DEF Start, TypeOK, Keys, Generations, SessionRow, Ordinals
  <2>2. ASSUME NEW s \in Sessions, s # p
        PROVE  /\ procs'[s].gen = 0 => procs'[s].held = 0
               /\ procs'[s].gen # 0 /\ ~sess'[Own(s)'].retired => procs'[s].held <= sess'[Own(s)'].cand
    BY <1>2, <1>3, <2>2 DEF HearingInv, HeldKnown, Own
  <2>3. /\ procs'[p].gen = 0 => procs'[p].held = 0
        /\ procs'[p].gen # 0 /\ ~sess'[Own(p)'].retired => procs'[p].held <= sess'[Own(p)'].cand
    BY <1>1, <1>2, <2>1 DEF Own
  <2>4. QED
    BY <2>2, <2>3 DEF HeldKnown
<1>8. EchoesHeld'
  BY <1>2, <1>3, <1>4 DEF HearingInv, EchoesHeld, Key, TypeOK, Request
<1>9. ReceiptsOfHeld'
  BY <1>2, <1>3, <1>5 DEF HearingInv, ReceiptsOfHeld, Key, TypeOK, Receipt
<1>10. QED
  BY <1>6, <1>7, <1>8, <1>9 DEF HearingInv

\* The three answers of a long poll: a superseded process is given no delivery,
\* the head's process the head's delivery, any other its challenge.
LEMMA HearingPrepare ==
  ASSUME TypeOK, TypeOK', HearingInv, NEW g \in gets,
         PrepareRetired(g) \/ PrepareUnchanged(g) \/ PrepareCandidate(g)
  PROVE  HearingInv'
<1>1. Key(g) \in Keys /\ g.session \in Sessions /\ g.token \in Generations
  BY DEF TypeOK, Request, Key, Keys
<1>2. \A k \in Keys : sess[k].cand \in Nat /\ sess'[k].cand \in Nat
  BY EvidenceConstants DEF TypeOK, SessionRow, Ordinals
<1>3. CASE PrepareRetired(g)
  <2>1. UNCHANGED <<sess, head, issued, receipts>> /\ Answer(g, 0) /\ sess[Key(g)].retired
    BY <1>3 DEF PrepareRetired, panel
  <2>2. 0 \in Ordinals
    BY EvidenceConstants DEF Ordinals
  <2>3. HeldKnown' /\ EchoesHeld' /\ ReceiptsOfHeld'
    BY <1>1, <1>2, <2>1, <2>2, HearingAnswer
  <2>4. CandIssued' /\ HeadIsCand'
    BY <2>1 DEF HearingInv, CandIssued, HeadIsCand, HeadKey
  <2>5. QED
    BY <2>3, <2>4 DEF HearingInv
<1>4. CASE PrepareUnchanged(g)
  <2>1. UNCHANGED <<sess, head, issued, receipts>> /\ Answer(g, head.delivery) /\ Current(g)
    BY <1>4 DEF PrepareUnchanged, Unchanged, panel
  <2>2. head \in HeadRow /\ head.delivery # 0 /\ head.delivery \in Ordinals
    <3>1. head # NoHead
      BY <1>1, <2>1, EvidenceConstants DEF Current, NoHead, Generations
    <3>2. QED
      BY <3>1, EvidenceConstants DEF TypeOK, HeadRow, Ordinals
  <2>3. HeadKey(head) = Key(g) /\ sess[Key(g)].cand = head.delivery
    BY <2>1, <2>2 DEF Current, HeadKey, Key, HearingInv, HeadIsCand
  <2>4. HeldKnown' /\ EchoesHeld' /\ ReceiptsOfHeld'
    BY <1>1, <1>2, <2>1, <2>2, <2>3, HearingAnswer
  <2>5. CandIssued' /\ HeadIsCand'
    BY <2>1 DEF HearingInv, CandIssued, HeadIsCand, HeadKey
  <2>6. QED
    BY <2>4, <2>5 DEF HearingInv
<1>5. CASE PrepareCandidate(g)
  <2>1. PICK id \in 1..MaxDeliveries : Prepared(g, id)
    BY <1>5, CandidateEffect
  <2>2. id \in Ordinals /\ issued \in Nat /\ issued' \in Nat
    BY EvidenceConstants DEF Ordinals, TypeOK
  <2>3. sess[Key(g)].cand <= id /\ id <= issued' /\ issued <= issued'
    BY <1>1, <1>2, <2>1, <2>2 DEF Prepared, HearingInv, CandIssued
  <2>4. /\ \A k \in Keys : sess[k].retired => sess'[k].retired
        /\ \A k \in Keys : sess[k].cand <= sess'[k].cand
        /\ sess'[Key(g)].cand = id
    BY <1>1, <1>2, <2>1, <2>3 DEF Prepared
  <2>5. HeldKnown' /\ EchoesHeld' /\ ReceiptsOfHeld'
    <3>1. UNCHANGED receipts /\ Answer(g, id)
      BY <1>5, <2>1 DEF PrepareCandidate, Prepared
    <3>2. QED
      BY <1>2, <2>2, <2>3, <2>4, <3>1, HearingAnswer
  <2>6. CandIssued'
    <3> SUFFICES ASSUME NEW k \in Keys PROVE sess'[k].cand <= issued'
      BY DEF CandIssued
    <3>1. CASE k = Key(g)
      BY <3>1, <2>3, <2>4
    <3>2. CASE k # Key(g)
      BY <3>2, <1>2, <2>1, <2>2, <2>3 DEF Prepared, HearingInv, CandIssued
    <3>3. QED
      BY <3>1, <3>2
  <2>7. HeadIsCand'
    <3>1. CASE head' = Activated(Key(g), id)
      BY <2>4, <3>1 DEF HeadIsCand, Activated, HeadKey, Key
    <3>2. CASE head' # Activated(Key(g), id)
      <4>1. head' = head /\ ~Current(g)
        BY <2>1, <3>2 DEF Prepared
      <4>2. HeadKey(head) # Key(g)
        BY <4>1 DEF Current, HeadKey, Key
      <4>3. head.delivery # 0 => HeadKey(head) \in Keys
        BY DEF TypeOK, NoHead, HeadRow, HeadKey, Keys
      <4>4. head.delivery # 0 => sess'[HeadKey(head)].cand = sess[HeadKey(head)].cand
        BY <2>1, <4>2, <4>3 DEF Prepared
      <4>5. QED
        BY <4>1, <4>4 DEF HearingInv, HeadIsCand, HeadKey
    <3>3. QED
      BY <3>1, <3>2
  <2>8. QED
    BY <2>5, <2>6, <2>7 DEF HearingInv
<1>6. QED
  BY <1>3, <1>4, <1>5

\* A recorded receipt tells no process anything.
LEMMA HearingReceipt ==
  ASSUME TypeOK, HearingInv, NEW m \in receipts, NEW at, RecordReceipt(m, at)
  PROVE  HearingInv'
<1>1. UNCHANGED <<issued, gets, procs, receipts>> /\ sess[Key(m)].cand = m.delivery
  BY DEF RecordReceipt, Answers
<1>2. /\ \A k \in Keys : sess'[k].cand = sess[k].cand /\ (sess[k].retired => sess'[k].retired)
      /\ Key(m) \in Keys /\ head' = Activated(Key(m), m.delivery)
  BY ReceiptEffect
<1>3. CandIssued' /\ HeadIsCand'
  BY <1>1, <1>2 DEF HearingInv, CandIssued, HeadIsCand, HeadKey, Activated, Key
<1>4. HeldKnown'
  <2>1. \A s \in Sessions : procs[s].gen # 0 => Own(s) \in Keys
    BY EvidenceConstants DEF TypeOK, Process, Own, Keys, Generations
  <2>2. QED
    BY <1>1, <1>2, <2>1 DEF HearingInv, HeldKnown, Own
<1>5. EchoesHeld'
  <2>1. \A g \in gets : Key(g) \in Keys
    BY DEF TypeOK, Request, Key, Keys
  <2>2. QED
    BY <1>1, <1>2, <2>1 DEF HearingInv, EchoesHeld, Key
<1>6. ReceiptsOfHeld'
  <2>1. \A r \in receipts : Key(r) \in Keys
    BY DEF TypeOK, Receipt, Key, Keys
  <2>2. QED
    BY <1>1, <1>2, <2>1 DEF HearingInv, ReceiptsOfHeld, Key
<1>7. QED
  BY <1>3, <1>4, <1>5, <1>6 DEF HearingInv

\* What processes hold, echo and report stays in step with the panel.
LEMMA HearingInvariant == Spec => []HearingInv
<1>1. Init => HearingInv
  <2> SUFFICES ASSUME Init PROVE HearingInv
    OBVIOUS
  <2>1. \A s \in Sessions : procs[s].gen = 0 /\ procs[s].held = 0
    BY DEF Init
  <2>2. \A k \in Keys : sess[k].cand = 0
    BY DEF Init, NewSession
  <2>3. QED
    BY <2>1, <2>2 DEF Init, NoHead, HearingInv, CandIssued, HeadIsCand, HeldKnown, EchoesHeld,
                      ReceiptsOfHeld
<1>2. TypeOK /\ TypeOK' /\ HearingInv /\ [Next]_vars => HearingInv'
  <2> SUFFICES ASSUME TypeOK, TypeOK', HearingInv, [Next]_vars PROVE HearingInv'
    OBVIOUS
  <2>1. CASE RedeemPairCode \/ ResetPairCode \/ Edit \/ Tick \/ UNCHANGED vars
    BY <2>1, HearingProcess DEF RedeemPairCode, ResetPairCode, Edit, Tick, panel, vars
  <2>2. ASSUME NEW s \in Sessions, Start(s) PROVE HearingInv'
    BY <2>2, HearingStart
  <2>3. ASSUME NEW s \in Sessions, Stop(s) PROVE HearingInv'
    <3>1. UNCHANGED <<sess, head, issued, gets, receipts>>
      BY <2>3 DEF Stop, panel
    <3>2. \A q \in Sessions : procs'[q].gen = procs[q].gen /\ procs'[q].held = procs[q].held
      BY <2>3 DEF Stop, TypeOK, Process
    <3>3. QED
      BY <3>1, <3>2, HearingProcess
  <2>4. ASSUME NEW s \in Sessions, Poll(s) PROVE HearingInv'
    <3>1. /\ UNCHANGED <<sess, head, issued, procs, receipts>>
          /\ gets' = gets \cup {[token |-> procs[s].gen, session |-> s,
                                 seen |-> procs[s].held, rev |-> NoRev]}
      BY <2>4 DEF Poll, panel
    <3>2. \A g \in gets' : \/ g.token = procs[g.session].gen /\ g.seen = procs[g.session].held
                           \/ \E o \in gets : /\ g.token = o.token /\ g.session = o.session
                                              /\ g.seen = o.seen
      BY <3>1
    <3>3. QED
      BY <3>1, <3>2, HearingProcess
  <2>5. ASSUME NEW s \in Sessions, Install(s) PROVE HearingInv'
    <3>1. UNCHANGED <<sess, head, issued, gets, receipts>>
      BY <2>5 DEF Install, panel
    <3>2. \A q \in Sessions : procs'[q].gen = procs[q].gen /\ procs'[q].held = procs[q].held
      BY <2>5 DEF Install, TypeOK, Process
    <3>3. QED
      BY <3>1, <3>2, HearingProcess
  <2>6. ASSUME NEW s \in Sessions, Report(s) PROVE HearingInv'
    <3>1. UNCHANGED <<sess, head, issued, gets>>
      BY <2>6 DEF Report, panel
    <3>2. \A q \in Sessions : procs'[q].gen = procs[q].gen /\ procs'[q].held = procs[q].held
      BY <2>6 DEF Report, TypeOK, Process
    <3>3. \A m \in receipts' :
            \/ m.token = procs[m.session].gen /\ m.delivery = procs[m.session].held
            \/ m \in receipts
      BY <2>6 DEF Report
    <3>4. QED
      BY <3>1, <3>2, <3>3, HearingProcess
  <2>7. ASSUME NEW g \in gets, Snapshot(g) PROVE HearingInv'
    <3>1. UNCHANGED <<sess, head, issued, procs, receipts>>
      BY <2>7 DEF Snapshot, panel
    <3>2. \A h \in gets' : \E o \in gets :
            h.token = o.token /\ h.session = o.session /\ h.seen = o.seen
      BY <2>7 DEF Snapshot, TypeOK, Request
    <3>3. QED
      BY <3>1, <3>2, HearingProcess
  <2>8. ASSUME NEW g \in gets, PrepareUnauthorized(g) \/ Drop(g) PROVE HearingInv'
    BY <2>8, HearingProcess DEF PrepareUnauthorized, Drop, panel
  <2>9. ASSUME NEW g \in gets, PrepareRetired(g) \/ PrepareUnchanged(g) \/ PrepareCandidate(g)
        PROVE  HearingInv'
    BY <2>9, HearingPrepare
  <2>10. ASSUME NEW m \in receipts, HandleReceipt(m) PROVE HearingInv'
    BY <2>10, HearingReceipt DEF HandleReceipt
  <2>11. QED
    BY <2>1, <2>2, <2>3, <2>4, <2>5, <2>6, <2>7, <2>8, <2>9, <2>10 DEF Next, Prepare
<1>3. QED
  BY <1>1, <1>2, TypeCorrect, PTL DEF Spec

\* A live process is superseded by another one of the same token only when that
\* one holds the challenge it answers at that moment, by the echo of a poll or by
\* a receipt: however long its first requests were delayed, they retire nobody
\* (prepareNodeConfigDelivery, recordNodeConfigReceiptTx).
THEOREM TakeoverNeedsProof == Spec => TakeoverIsProven
<1> DEFINE Proven == head.token = token /\ head'.token = token /\ head'.session # head.session =>
                       procs[head'.session].held = head'.delivery
<1>1. TypeOK /\ HearingInv /\ [Next]_vars => [Proven]_vars
  <2> SUFFICES ASSUME TypeOK, HearingInv, [Next]_vars,
                      head.token = token, head'.token = token, head'.session # head.session
               PROVE  procs[head'.session].held = head'.delivery
    OBVIOUS
  <2>1. ASSUME NEW g \in gets, PrepareCandidate(g)
        PROVE  procs[head'.session].held = head'.delivery
    <3>1. PICK id \in 1..MaxDeliveries : Prepared(g, id)
      BY <2>1, CandidateEffect
    <3>2. head' = Activated(Key(g), id) /\ head'.session = g.session /\ head'.delivery = id
      BY <3>1 DEF Prepared, Activated, Key
    <3>3. head.token = g.token /\ ~Current(g)
      BY <2>1, <3>2 DEF PrepareCandidate, Authorized, Current
    <3>4. g.seen = id /\ sess[Key(g)].cand = id
      BY <3>1, <3>2, <3>3 DEF Prepared
    <3>5. ~sess[Key(g)].retired /\ g.session \in Sessions /\ g.token \in Generations
      BY <2>1 DEF PrepareCandidate, TypeOK, Request
    <3>6. /\ g.token = procs[g.session].gen /\ Own(g.session) = Key(g) /\ procs[g.session].gen # 0
          /\ g.seen <= procs[g.session].held
      BY <3>5, EvidenceConstants DEF HearingInv, EchoesHeld, Own, Key, Generations
    <3>7. procs[g.session].held <= id
      BY <3>4, <3>5, <3>6 DEF HearingInv, HeldKnown
    <3>8. procs[g.session].held \in Nat /\ id \in Nat
      BY <3>5, EvidenceConstants DEF TypeOK, Process, Ordinals
    <3>9. QED
      BY <3>2, <3>4, <3>6, <3>7, <3>8
  <2>2. ASSUME NEW m \in receipts, NEW at, RecordReceipt(m, at)
        PROVE  procs[head'.session].held = head'.delivery
    <3>1. head'.session = m.session /\ head'.delivery = m.delivery
      BY <2>2 DEF RecordReceipt, Activated, Key
    <3>2. /\ m.session \in Sessions /\ m.token \in Generations /\ m.delivery \in Nat
          /\ ~sess[Key(m)].retired /\ sess[Key(m)].cand = m.delivery
      BY <2>2, EvidenceConstants DEF RecordReceipt, Answers, TypeOK, Receipt, Ordinals
    <3>3. /\ m.token = procs[m.session].gen /\ Own(m.session) = Key(m) /\ procs[m.session].gen # 0
          /\ m.delivery <= procs[m.session].held
      BY <3>2, EvidenceConstants DEF HearingInv, ReceiptsOfHeld, Own, Key, Generations
    <3>4. procs[m.session].held <= m.delivery
      BY <3>2, <3>3 DEF HearingInv, HeldKnown
    <3>5. procs[m.session].held \in Nat
      BY <3>2, EvidenceConstants DEF TypeOK, Process, Ordinals
    <3>6. QED
      BY <3>1, <3>2, <3>3, <3>4, <3>5
  <2>3. QED
    BY <2>1, <2>2, TablesWrittenBy
<1>2. QED
  BY <1>1, TypeCorrect, HearingInvariant, PTL DEF Spec, TakeoverIsProven

(***************************************************************************)
(* Evidence is never ahead of the process it is about: what is marked      *)
(* applied was installed, what counts as observed was said.                *)
(***************************************************************************)
\* What a step does to the record of what a process did and said.
Moves(s) ==
  /\ procs[s].done \subseteq procs'[s].done
  /\ procs'[s].inst = procs[s].inst \/ procs'[s].inst \in procs'[s].done
  /\ procs'[s].spoke = procs[s].spoke \/ procs'[s].spoke = now

Says(m) ==
  \/ m \in receipts
  \/ /\ m.session \in Sessions
     /\ m.running = procs[m.session].inst
     /\ procs'[m.session].spoke = now
     /\ m.observed <= now + Skew

\* No step takes back what a process has done or said, and a new receipt says
\* what its process runs and when it was sent.
LEMMA ProcessStep ==
  ASSUME TypeOK, [Next]_vars
  PROVE  /\ \A s \in Sessions : Moves(s)
         /\ \A m \in receipts' : Says(m)
         /\ now' = now \/ now' = now + 1
<1>1. CASE UNCHANGED <<procs, receipts>>
  <2>1. now' = now \/ now' = now + 1
    <3>1. CASE Tick
      BY <3>1 DEF Tick
    <3>2. CASE UNCHANGED vars
      BY <3>2 DEF vars
    <3>3. CASE RedeemPairCode \/ ResetPairCode \/ Edit
      BY <3>3 DEF RedeemPairCode, ResetPairCode, Edit
    <3>4. ASSUME NEW s \in Sessions, Start(s) \/ Stop(s) \/ Poll(s) \/ Install(s) \/ Report(s)
          PROVE  now' = now
      BY <3>4 DEF Start, Stop, Poll, Install, Report
    <3>5. ASSUME NEW g \in gets, Snapshot(g) \/ Drop(g)
          PROVE  now' = now
      BY <3>5 DEF Snapshot, Drop
    <3>6. ASSUME NEW g \in gets, Prepare(g)
          PROVE  now' = now
      <4>1. CASE PrepareUnauthorized(g) \/ PrepareRetired(g) \/ PrepareUnchanged(g)
        BY <4>1 DEF PrepareUnauthorized, PrepareRetired, PrepareUnchanged
      <4>2. CASE PrepareCandidate(g)
        BY <4>2 DEF PrepareCandidate
      <4> QED BY <3>6, <4>1, <4>2 DEF Prepare
    <3>7. ASSUME NEW m \in receipts, HandleReceipt(m)
          PROVE  now' = now
      BY <3>7 DEF HandleReceipt, RecordReceipt
    <3>8. QED
      BY <3>1, <3>2, <3>3, <3>4, <3>5, <3>6, <3>7 DEF Next
  <2>2. QED
    BY <1>1, <2>1 DEF Moves, Says
<1>2. ASSUME NEW q \in Sessions, Start(q) \/ Stop(q)
      PROVE  (\A s \in Sessions : Moves(s)) /\ UNCHANGED <<receipts, now>>
  BY <1>2 DEF Start, Stop, TypeOK, Process, Moves
<1>3. ASSUME NEW q \in Sessions, Install(q)
      PROVE  (\A s \in Sessions : Moves(s)) /\ UNCHANGED <<receipts, now>>
  BY <1>3 DEF Install, TypeOK, Process, Moves
<1>4. ASSUME NEW q \in Sessions, Report(q)
      PROVE  /\ \A s \in Sessions : Moves(s)
             /\ \A m \in receipts' : Says(m)
             /\ now' = now
  <2>1. procs' = [procs EXCEPT ![q].seq = @ + 1, ![q].spoke = now] /\ now' = now
    BY <1>4 DEF Report
  <2>2. /\ procs'[q].spoke = now
        /\ \A s \in Sessions : Moves(s)
    BY <2>1 DEF TypeOK, Process, Moves
  <2>3. PICK applied \in Claims, observed \in (now - Skew)..(now + Skew) :
          receipts' = receipts \cup
            {[token |-> procs[q].gen, session |-> q, delivery |-> procs[q].held,
              rev |-> procs[q].rev, seq |-> procs[q].seq + 1, applied |-> applied,
              running |-> procs[q].inst, observed |-> observed]}
    BY <1>4 DEF Report
  <2>4. observed <= now + Skew
    BY EvidenceConstants DEF TypeOK, Epoch
  <2> DEFINE said == [token |-> procs[q].gen, session |-> q, delivery |-> procs[q].held,
                      rev |-> procs[q].rev, seq |-> procs[q].seq + 1, applied |-> applied,
                      running |-> procs[q].inst, observed |-> observed]
  <2>5. /\ said.session = q /\ said.running = procs[q].inst /\ said.observed = observed
        /\ \A m \in receipts' : m \in receipts \/ m = said
    BY <2>3
  <2> HIDE DEF said
  <2>6. \A m \in receipts' : Says(m)
    BY <2>2, <2>4, <2>5 DEF Says
  <2>7. QED
    BY <2>1, <2>2, <2>6
<1>5. ASSUME NEW g \in gets, PrepareRetired(g) \/ PrepareUnchanged(g) \/ PrepareCandidate(g)
      PROVE  (\A s \in Sessions : Moves(s)) /\ UNCHANGED <<receipts, now>>
  <2>1. UNCHANGED <<receipts, now>>
    BY <1>5 DEF PrepareRetired, PrepareUnchanged, PrepareCandidate
  <2>2. \E id \in Ordinals : Answer(g, id)
    <3>1. CASE PrepareRetired(g)
      BY <3>1, EvidenceConstants DEF PrepareRetired, Ordinals
    <3>2. CASE PrepareUnchanged(g)
      BY <3>2, EvidenceConstants DEF PrepareUnchanged, TypeOK, NoHead, HeadRow, Ordinals
    <3>3. CASE PrepareCandidate(g)
      <4>1. PICK id \in 1..MaxDeliveries : Prepared(g, id)
        BY <3>3, CandidateEffect
      <4>2. id \in Ordinals /\ Answer(g, id)
        BY <4>1, EvidenceConstants DEF Prepared, Ordinals
      <4>3. QED
        BY <4>2
    <3>4. QED
      BY <1>5, <3>1, <3>2, <3>3
  <2>3. QED
    BY <2>1, <2>2, AnswerEffect DEF Moves
<1>6. CASE RedeemPairCode \/ ResetPairCode \/ Edit \/ Tick \/ UNCHANGED vars
  BY <1>1, <1>6 DEF RedeemPairCode, ResetPairCode, Edit, Tick, vars
<1>7. ASSUME NEW q \in Sessions, Poll(q) PROVE UNCHANGED <<procs, receipts>>
  BY <1>7 DEF Poll
<1>8. ASSUME NEW g \in gets, Snapshot(g) \/ PrepareUnauthorized(g) \/ Drop(g)
      PROVE  UNCHANGED <<procs, receipts>>
  BY <1>8 DEF Snapshot, PrepareUnauthorized, Drop
<1>9. ASSUME NEW m \in receipts, HandleReceipt(m) PROVE UNCHANGED <<procs, receipts>>
  BY <1>9 DEF HandleReceipt, RecordReceipt
<1>10. (\A s \in Sessions : Moves(s)) /\ UNCHANGED <<receipts, now>> =>
         /\ \A m \in receipts' : Says(m)
         /\ now' = now \/ now' = now + 1
  BY DEF Says
<1>11. QED
  BY <1>1, <1>2, <1>3, <1>4, <1>5, <1>6, <1>7, <1>8, <1>9, <1>10 DEF Next, Prepare

\* A delivery marked applied was installed by the process it was issued to, for
\* every number of processes, however receipts are delayed, repeated or worded:
\* the claim counts only together with the revision the report runs
\* (recordNodeConfigReceiptTx).
THEOREM AppliedWasInstalled == Spec => []AppliedIsTrue
<1>1. Init => InstalledInv
  BY DEF Init, InstalledInv, RunningInstalled, ReceiptsInstalled, AppliedIsTrue
<1>2. TypeOK /\ InstalledInv /\ [Next]_vars => InstalledInv'
  <2> SUFFICES ASSUME TypeOK, InstalledInv, [Next]_vars PROVE InstalledInv'
    OBVIOUS
  <2>1. /\ \A s \in Sessions : Moves(s)
        /\ \A m \in receipts' : Says(m)
    BY ProcessStep
  <2>2. RunningInstalled'
    BY <2>1 DEF Moves, InstalledInv, RunningInstalled
  <2>3. ReceiptsInstalled'
    <3> SUFFICES ASSUME NEW m \in receipts', m.running # NoRev
                 PROVE  m.running \in procs'[m.session].done
      BY DEF ReceiptsInstalled
    <3>1. CASE m \in receipts
      <4>1. m.session \in Sessions
        BY <3>1 DEF TypeOK, Receipt
      <4>2. m.running \in procs[m.session].done
        BY <3>1 DEF InstalledInv, ReceiptsInstalled
      <4>3. QED
        BY <2>1, <4>1, <4>2 DEF Moves
    <3>2. CASE m.session \in Sessions /\ m.running = procs[m.session].inst
      BY <2>1, <3>2 DEF Moves, InstalledInv, RunningInstalled
    <3>3. QED
      BY <2>1, <3>1, <3>2 DEF Says
  <2>4. \A d \in DOMAIN deliv : /\ deliv[d].key[2] \in Sessions /\ deliv[d].rev \in Revisions
                                /\ deliv[d].applied =>
                                     deliv[d].rev \in procs'[deliv[d].key[2]].done
    <3>1. \A d \in DOMAIN deliv : deliv[d].key[2] \in Sessions /\ deliv[d].rev \in Revisions
      BY DEF TypeOK, DeliveryRow, Keys
    <3>2. QED
      BY <2>1, <3>1 DEF Moves, InstalledInv, AppliedIsTrue
  <2>5. AppliedIsTrue'
    <3> SUFFICES ASSUME NEW d \in DOMAIN deliv', deliv'[d].applied
                 PROVE  deliv'[d].rev \in procs'[deliv'[d].key[2]].done
      BY DEF AppliedIsTrue
    <3>1. ASSUME NEW g \in gets, PrepareCandidate(g)
          PROVE  d \in DOMAIN deliv /\ deliv'[d] = deliv[d]
      BY <3>1, CandidateEffect DEF Prepared
    <3>2. ASSUME NEW m \in receipts, NEW at, RecordReceipt(m, at)
          PROVE  deliv'[d].rev \in procs'[deliv'[d].key[2]].done
      <4>1. d \in DOMAIN deliv
        BY <3>2, ReceiptEffect
      <4>2. CASE d = m.delivery
        <5>1. /\ deliv[d].key = Key(m) /\ deliv[d].rev = m.rev
              /\ deliv'[d].key = deliv[d].key /\ deliv'[d].rev = deliv[d].rev
              /\ deliv'[d].applied = Applied(m)
          BY <3>2, <4>1, <4>2, ReceiptEffect DEF RecordReceipt, Answers
        <5>2. m.running = m.rev /\ m.rev # NoRev
          BY <2>4, <4>1, <5>1, EvidenceConstants DEF Applied
        <5>3. m \in receipts'
          BY <3>2 DEF RecordReceipt
        <5>4. m.rev \in procs'[m.session].done
          BY <2>3, <5>2, <5>3 DEF ReceiptsInstalled
        <5>5. QED
          BY <5>1, <5>4 DEF Key
      <4>3. CASE d # m.delivery
        <5>1. deliv'[d] = deliv[d]
          BY <3>2, <4>1, <4>3, ReceiptEffect
        <5>2. QED
          BY <2>4, <4>1, <5>1
      <4>4. QED
        BY <4>2, <4>3
    <3>3. CASE UNCHANGED <<sess, deliv, head, issued>>
      BY <2>4, <3>3
    <3>4. QED
      BY <2>4, <3>1, <3>2, <3>3, TablesWrittenBy
  <2>6. QED
    BY <2>2, <2>3, <2>5 DEF InstalledInv
<1>3. InstalledInv => AppliedIsTrue
  BY DEF InstalledInv
<1>4. QED
  BY <1>1, <1>2, <1>3, TypeCorrect, PTL DEF Spec

\* What a process has said, and what is recorded of it, is not later than the
\* process spoke, up to the skew of its clock.
LEMMA SpokenInvariant == Spec => []SpokenInv
<1>1. Init => SpokenInv
  BY DEF Init, SpokenInv
<1>2. TypeOK /\ TypeOK' /\ SpokenInv /\ [Next]_vars => SpokenInv'
  <2> SUFFICES ASSUME TypeOK, TypeOK', SpokenInv, [Next]_vars PROVE SpokenInv'
    OBVIOUS
  <2>1. /\ \A s \in Sessions : Moves(s)
        /\ \A m \in receipts' : Says(m)
        /\ now' = now \/ now' = now + 1
    BY ProcessStep
  <2>2. now \in Nat /\ now' \in Nat /\ Skew \in Nat /\ Null \notin Nat
    BY EvidenceConstants DEF TypeOK, Epoch, Null
  <2>3. \A s \in Sessions : /\ procs[s].spoke # Null => procs[s].spoke \in Nat
                            /\ procs'[s].spoke # Null => procs'[s].spoke \in Nat
    BY EvidenceConstants DEF TypeOK, Process, Times
  <2>4. \A s \in Sessions : procs'[s].spoke # Null => procs'[s].spoke <= now'
    BY <2>1, <2>2, <2>3 DEF Moves, SpokenInv
  <2>5. \A s \in Sessions : procs[s].spoke # Null =>
          procs'[s].spoke # Null /\ procs[s].spoke <= procs'[s].spoke
    BY <2>1, <2>2, <2>3 DEF Moves, SpokenInv
  <2>6. \A m \in receipts' : /\ procs'[m.session].spoke # Null
                             /\ m.observed <= procs'[m.session].spoke + Skew
    <3> SUFFICES ASSUME NEW m \in receipts'
                 PROVE  /\ procs'[m.session].spoke # Null
                        /\ m.observed <= procs'[m.session].spoke + Skew
      OBVIOUS
    <3>1. m.session \in Sessions /\ m.observed \in Nat
      BY EvidenceConstants DEF TypeOK, Receipt, Times
    <3>2. CASE m \in receipts
      <4>1. procs[m.session].spoke # Null /\ m.observed <= procs[m.session].spoke + Skew
        BY <3>2 DEF SpokenInv
      <4>2. QED
        BY <2>2, <2>3, <2>5, <3>1, <4>1
    <3>3. CASE procs'[m.session].spoke = now /\ m.observed <= now + Skew
      BY <2>2, <3>3
    <3>4. QED
      BY <2>1, <3>2, <3>3 DEF Says
  <2>7. ASSUME NEW d \in DOMAIN deliv, deliv[d].received # Null
        PROVE  /\ procs'[deliv[d].key[2]].spoke # Null /\ deliv[d].observed # Null
               /\ deliv[d].observed <= procs'[deliv[d].key[2]].spoke + Skew
    <3>1. deliv[d].key[2] \in Sessions /\ (deliv[d].observed # Null => deliv[d].observed \in Nat)
      BY EvidenceConstants DEF TypeOK, DeliveryRow, Keys, Times
    <3>2. /\ procs[deliv[d].key[2]].spoke # Null /\ deliv[d].observed # Null
          /\ deliv[d].observed <= procs[deliv[d].key[2]].spoke + Skew
      BY <2>7 DEF SpokenInv
    <3>3. QED
      BY <2>2, <2>3, <2>5, <3>1, <3>2
  <2>8. ASSUME NEW d \in DOMAIN deliv', deliv'[d].received # Null
        PROVE  /\ procs'[deliv'[d].key[2]].spoke # Null /\ deliv'[d].observed # Null
               /\ deliv'[d].observed <= procs'[deliv'[d].key[2]].spoke + Skew
    <3>1. ASSUME NEW g \in gets, PrepareCandidate(g)
          PROVE  d \in DOMAIN deliv /\ deliv'[d] = deliv[d]
      BY <2>8, <3>1, CandidateEffect DEF Prepared
    <3>2. ASSUME NEW m \in receipts, NEW at, RecordReceipt(m, at)
          PROVE  \/ d \in DOMAIN deliv /\ deliv'[d] = deliv[d]
                 \/ deliv'[d].key = Key(m) /\ deliv'[d].observed = m.observed /\ m \in receipts'
      BY <3>2, ReceiptEffect DEF RecordReceipt, Answers
    <3>3. CASE d \in DOMAIN deliv /\ deliv'[d] = deliv[d]
      BY <2>7, <2>8, <3>3
    <3>4. ASSUME NEW m \in receipts', deliv'[d].key = Key(m), deliv'[d].observed = m.observed
          PROVE  /\ procs'[deliv'[d].key[2]].spoke # Null /\ deliv'[d].observed # Null
                 /\ deliv'[d].observed <= procs'[deliv'[d].key[2]].spoke + Skew
      <4>1. m.observed \in Nat
        BY EvidenceConstants DEF TypeOK, Receipt, Times
      <4>2. QED
        BY <2>2, <2>6, <3>4, <4>1 DEF Key
    <3>5. QED
      BY <3>1, <3>2, <3>3, <3>4, TablesWrittenBy
  <2>9. QED
    BY <2>4, <2>6, <2>8 DEF SpokenInv
<1>3. QED
  BY <1>1, <1>2, TypeCorrect, PTL DEF Spec

\* What the panel calls fresh was said within the freshness window and the
\* tolerated skew, for every window, skew and lag between a handler's reading of
\* the clock and its commit, although the receipt may have spent most of the
\* window in the network (setNodeConfigFreshness).
THEOREM FreshWasRecent == Spec => []FreshIsRecent
<1>1. TypeOK /\ HeadServes /\ SpokenInv => FreshIsRecent
  <2> SUFFICES ASSUME TypeOK, HeadServes, SpokenInv, HasCurrent, Fresh(deliv[head.delivery], now)
               PROVE  /\ procs[head.session].spoke # Null
                      /\ now < procs[head.session].spoke + FreshFor + Skew
    BY DEF FreshIsRecent
  <2> DEFINE d == head.delivery
  <2>1. d \in DOMAIN deliv /\ deliv[d].key[2] = head.session
    BY DEF HeadServes, HasCurrent, HeadKey
  <2>2. deliv[d].received # Null /\ deliv[d].observed + FreshFor > now
    BY DEF Fresh
  <2>3. /\ procs[head.session].spoke # Null /\ deliv[d].observed # Null
        /\ deliv[d].observed <= procs[head.session].spoke + Skew
    BY <2>1, <2>2 DEF SpokenInv
  <2>4. deliv[d].observed \in Nat /\ procs[head.session].spoke \in Nat
    <3>1. head.session \in Sessions
      BY <2>1 DEF TypeOK, DeliveryRow, Keys
    <3>2. QED
      BY <2>1, <2>3, <3>1, EvidenceConstants DEF TypeOK, DeliveryRow, Process, Times
  <2>5. now \in Nat /\ Skew \in Nat /\ FreshFor \in Nat
    BY EvidenceConstants DEF TypeOK, Epoch
  <2>6. QED
    BY <2>2, <2>3, <2>4, <2>5
<1>2. QED
  BY <1>1, TypeCorrect, HeadIsServed, SpokenInvariant, PTL
=============================================================================
