-------------------------- MODULE NodeRemovalProofs --------------------------
(***************************************************************************)
(* For any number of dialogs, modes, jobs and faults: one removal acts at  *)
(* a time, none after one that succeeded, and the row of a server goes     *)
(* after a job only when that job changed the host.                        *)
(*                                                                         *)
(* The reason is that a job which may still act, or has acted, is always   *)
(* the newest one: QueueNodeRemoval closes all others with an error, and   *)
(* is refused while one of them is claimed or has succeeded.               *)
(***************************************************************************)
EXTENDS NodeRemoval, FiniteSetTheorems, TLAPS

JobRow == [mode : RemovalModes, phase : {"", "running", "complete"},
           done : BOOLEAN, error : BOOLEAN, expired : BOOLEAN]
Places == {"none", "started", "refused", "acting", "changed", "unchanged", "reported"}
Doings == {"open", "pressed", "posting", "waiting", "deleting"}
DialogRow == [at : Doings, mode : RemovalModes \cup {"none"}, job : Nat]

\* Jobs are numbered in the order they are queued.
RowsTyped ==
  /\ LatestRemoval \in 0..MaxJobs /\ Jobs = 1..LatestRemoval
  /\ removal \in [Jobs -> JobRow] /\ worker \in [Jobs -> Places]
  /\ dialog \in [Staff -> DialogRow]
  /\ host \subseteq Jobs /\ losses \in Nat
  /\ record \in {"here", "removed", "deleted"}

\* A job is done when it is complete and not while it runs; one that is not the
\* newest is closed with an error.
Closed(row, newest) ==
  /\ row.phase = "running" => ~row.done
  /\ row.phase = "complete" => row.done
  /\ newest \/ (row.done /\ row.error)

\* A worker acts on the job it claimed, and the outcome of a job is what its
\* worker did to the host.
Agrees(row, place, changed) ==
  /\ place = "acting" => row.phase = "running"
  /\ place = "changed" => row.phase = "running" \/ (row.phase = "complete" /\ ~row.error)
  /\ place = "unchanged" => row.phase = "running" \/ (row.phase = "complete" /\ row.error)
  /\ place = "changed" => changed
  /\ changed => /\ place \in {"changed", "reported"}
                /\ row.phase = "running" \/ (row.done /\ ~row.error)
  /\ row.phase = "complete" /\ ~row.error => changed

JobHolds(j) ==
  /\ Closed(removal[j], j = LatestRemoval)
  /\ Agrees(removal[j], worker[j], j \in host)

\* A dialog that waits has a job to wait for, and deletes after a job it saw.
DialogAgrees(s) ==
  /\ dialog[s].at # "open" => dialog[s].mode \in RemovalModes
  /\ dialog[s].at = "waiting" => LatestRemoval > 0
  /\ dialog[s].at = "deleting" => dialog[s].job > 0
  /\ dialog[s].job <= LatestRemoval

RemovalInv ==
  /\ RowsTyped
  /\ \A j \in Jobs : JobHolds(j)
  /\ \A s \in Staff : DialogAgrees(s)

-----------------------------------------------------------------------------
\* A step of the agent or of a worker changes one job, and the host by that job.
JobMoves(j, row, place, changed) ==
  /\ row \in JobRow /\ place \in Places /\ changed \in BOOLEAN
  /\ removal' = [removal EXCEPT ![j] = row] /\ worker' = [worker EXCEPT ![j] = place]
  /\ host' = (IF changed THEN host \cup {j} ELSE host) /\ (j \in host => changed)
  /\ losses' \in Nat /\ UNCHANGED <<record, dialog>>
  /\ Closed(row, j = LatestRemoval) /\ Agrees(row, place, changed)

LEMMA OneJobMoves ==
  ASSUME RemovalInv, NEW j \in Jobs, NEW row, NEW place, NEW changed,
         JobMoves(j, row, place, changed)
  PROVE  RemovalInv'
  <1>1. Jobs' = Jobs /\ LatestRemoval' = LatestRemoval
    BY DEF RemovalInv, RowsTyped, Jobs, LatestRemoval, JobMoves
  <1>2. RowsTyped'
    <2>1. removal' \in [Jobs -> JobRow] /\ worker' \in [Jobs -> Places]
      BY DEF RemovalInv, RowsTyped, JobMoves
    <2>2. host' \subseteq Jobs
      BY DEF RemovalInv, RowsTyped, JobMoves
    <2> QED BY <1>1, <2>1, <2>2 DEF RemovalInv, RowsTyped, JobMoves
  <1>3. ASSUME NEW k \in Jobs PROVE JobHolds(k)'
    <2>1. CASE k = j
      <3>1. removal'[k] = row /\ worker'[k] = place /\ (k \in host' <=> changed)
        BY <2>1 DEF RemovalInv, RowsTyped, JobMoves
      <3>2. (k \in host') = changed
        BY <3>1 DEF JobMoves
      <3> QED BY <1>1, <2>1, <3>1, <3>2 DEF JobHolds, JobMoves
    <2>2. CASE k # j
      <3>1. removal'[k] = removal[k] /\ worker'[k] = worker[k]
        BY <2>2 DEF RemovalInv, RowsTyped, JobMoves
      <3>2. (k \in host') = (k \in host)
        BY <2>2 DEF JobMoves
      <3> QED BY <1>1, <3>1, <3>2 DEF RemovalInv, JobHolds
    <2> QED BY <2>1, <2>2
  <1>4. ASSUME NEW s \in Staff PROVE DialogAgrees(s)'
    BY <1>1 DEF RemovalInv, DialogAgrees, JobMoves
  <1> QED BY <1>1, <1>2, <1>3, <1>4 DEF RemovalInv

\* A step of a dialog changes what that dialog does, and perhaps the row.
DialogMoves(s, d) ==
  /\ d \in DialogRow /\ dialog' = [dialog EXCEPT ![s] = d]
  /\ UNCHANGED <<removal, worker, host, losses>> /\ record' \in {"here", "removed", "deleted"}
  /\ d.at # "open" => d.mode \in RemovalModes
  /\ d.at = "waiting" => LatestRemoval > 0
  /\ d.at = "deleting" => d.job > 0
  /\ d.job <= LatestRemoval

LEMMA OneDialogMoves ==
  ASSUME RemovalInv, NEW s \in Staff, NEW d, DialogMoves(s, d)
  PROVE  RemovalInv'
  <1>1. Jobs' = Jobs /\ LatestRemoval' = LatestRemoval
    BY DEF Jobs, LatestRemoval, DialogMoves
  <1>2. RowsTyped'
    <2>1. dialog' \in [Staff -> DialogRow]
      BY DEF RemovalInv, RowsTyped, DialogMoves
    <2> QED BY <1>1, <2>1 DEF RemovalInv, RowsTyped, DialogMoves
  <1>3. ASSUME NEW k \in Jobs PROVE JobHolds(k)'
    BY <1>1 DEF RemovalInv, JobHolds, DialogMoves
  <1>4. ASSUME NEW t \in Staff PROVE DialogAgrees(t)'
    <2>1. CASE t = s
      <3>1. dialog'[t] = d
        BY <2>1 DEF RemovalInv, RowsTyped, DialogMoves
      <3> QED BY <1>1, <3>1 DEF DialogAgrees, DialogMoves
    <2>2. CASE t # s
      <3>1. dialog'[t] = dialog[t]
        BY <2>2 DEF RemovalInv, RowsTyped, DialogMoves
      <3> QED BY <1>1, <3>1 DEF RemovalInv, DialogAgrees
    <2> QED BY <2>1, <2>2
  <1> QED BY <1>1, <1>2, <1>3, <1>4 DEF RemovalInv

\* What is known of one job.
LEMMA JobFacts ==
  ASSUME RemovalInv, NEW j \in Jobs
  PROVE  /\ removal[j] \in JobRow /\ worker[j] \in Places
         /\ Closed(removal[j], j = LatestRemoval) /\ Agrees(removal[j], worker[j], j \in host)
         /\ removal = [removal EXCEPT ![j] = removal[j]]
         /\ worker = [worker EXCEPT ![j] = worker[j]]
         /\ losses \in Nat /\ losses + 1 \in Nat
         /\ host = IF j \in host THEN host \cup {j} ELSE host
  BY DEF RemovalInv, RowsTyped, JobHolds

LEMMA LaunchKeeps ==
  ASSUME RemovalInv, NEW j \in Jobs, LaunchWorker(j)
  PROVE  RemovalInv'
  <1>1. Agrees(removal[j], "started", j \in host)
    BY JobFacts DEF LaunchWorker, Agrees
  <1>2. "started" \in Places /\ (j \in host) \in BOOLEAN
    BY DEF Places
  <1>3. JobMoves(j, removal[j], "started", j \in host)
    BY <1>1, <1>2, JobFacts DEF LaunchWorker, JobMoves
  <1> QED BY <1>3, OneJobMoves

LEMMA ReportedKeeps ==
  ASSUME RemovalInv, NEW j \in Jobs, CompleteReportedNodeJob(j)
  PROVE  RemovalInv'
  <1> DEFINE row == IF removal[j].done \/ removal[j].phase # "" THEN removal[j]
                    ELSE [removal[j] EXCEPT !.done = TRUE, !.error = TRUE]
  <1>1. row \in JobRow
    BY JobFacts DEF JobRow
  <1>2. removal' = [removal EXCEPT ![j] = row]
    BY JobFacts DEF CompleteReportedNodeJob, InJob
  <1>3. Closed(row, j = LatestRemoval)
    BY JobFacts DEF Closed, JobRow
  <1>4. Agrees(row, worker[j], j \in host)
    BY JobFacts DEF Agrees, Closed, JobRow
  <1>5. (j \in host) \in BOOLEAN
    OBVIOUS
  <1> HIDE DEF row
  <1>6. JobMoves(j, row, worker[j], j \in host)
    BY <1>1, <1>2, <1>3, <1>4, <1>5, JobFacts DEF CompleteReportedNodeJob, JobMoves
  <1> QED BY <1>6, OneJobMoves

LEMMA ClaimKeeps ==
  ASSUME RemovalInv, NEW j \in Jobs, ClaimNodeRemoval(j)
  PROVE  RemovalInv'
  <1> DEFINE refused == removal[j].done \/ removal[j].expired
             row == IF refused THEN removal[j] ELSE [removal[j] EXCEPT !.phase = "running"]
  <1>1. PICK lost \in BOOLEAN :
          /\ losses' = IF lost THEN losses + 1 ELSE losses
          /\ removal' = IF refused THEN removal ELSE InJob(j, [removal[j] EXCEPT !.phase = "running"])
          /\ worker' = [worker EXCEPT ![j] =
               IF lost THEN "started" ELSE IF refused THEN "refused" ELSE "acting"]
    BY DEF ClaimNodeRemoval
  <1> DEFINE place == IF lost THEN "started" ELSE IF refused THEN "refused" ELSE "acting"
  <1>2. row \in JobRow /\ place \in Places
    BY JobFacts DEF JobRow, Places
  <1>3. removal' = [removal EXCEPT ![j] = row] /\ worker' = [worker EXCEPT ![j] = place]
    BY <1>1, JobFacts DEF InJob
  <1>4. Closed(row, j = LatestRemoval)
    BY JobFacts DEF Closed, JobRow
  <1>5. j \notin host /\ Agrees(row, place, FALSE)
    BY JobFacts DEF Agrees, Closed, JobRow, ClaimNodeRemoval
  <1>6. losses' \in Nat
    BY <1>1, JobFacts
  <1> HIDE DEF row, place
  <1>7. JobMoves(j, row, place, FALSE)
    BY <1>2, <1>3, <1>4, <1>5, <1>6 DEF ClaimNodeRemoval, JobMoves
  <1> QED BY <1>7, OneJobMoves

LEMMA ActKeeps ==
  ASSUME RemovalInv, NEW j \in Jobs, Act(j)
  PROVE  RemovalInv'
  <1>1. j \notin host /\ removal[j].phase = "running" /\ removal' = [removal EXCEPT ![j] = removal[j]]
    BY JobFacts DEF Act, Agrees
  <1>2. /\ Agrees(removal[j], "changed", TRUE) /\ Agrees(removal[j], "unchanged", FALSE)
        /\ "changed" \in Places /\ "unchanged" \in Places
    BY <1>1 DEF Agrees, Places
  <1>3. CASE worker' = [worker EXCEPT ![j] = "changed"] /\ host' = host \cup {j} /\ UNCHANGED losses
    <2>1. JobMoves(j, removal[j], "changed", TRUE)
      BY <1>1, <1>2, <1>3, JobFacts DEF Act, JobMoves
    <2> QED BY <2>1, OneJobMoves
  <1>4. CASE worker' = [worker EXCEPT ![j] = "unchanged"] /\ host' = host /\ losses' = losses + 1
    <2>1. JobMoves(j, removal[j], "unchanged", FALSE)
      BY <1>1, <1>2, <1>4, JobFacts DEF Act, JobMoves
    <2> QED BY <2>1, OneJobMoves
  <1> QED BY <1>3, <1>4 DEF Act

LEMMA ResultKeeps ==
  ASSUME RemovalInv, NEW j \in Jobs, ReportResult(j)
  PROVE  RemovalInv'
  <1> DEFINE row == IF removal[j].done \/ removal[j].phase # "running" THEN removal[j]
                    ELSE [removal[j] EXCEPT !.done = TRUE, !.phase = "complete",
                                            !.error = (worker[j] = "unchanged")]
  <1>1. row \in JobRow
    BY JobFacts DEF JobRow
  <1>2. removal' = [removal EXCEPT ![j] = row]
    BY JobFacts DEF ReportResult, InJob
  <1>3. Closed(row, j = LatestRemoval)
    BY JobFacts DEF Closed, JobRow
  <1>4. Agrees(row, worker[j], j \in host) /\ Agrees(row, "reported", j \in host)
    BY JobFacts DEF Agrees, Closed, JobRow, ReportResult
  <1>5. (j \in host) \in BOOLEAN /\ "reported" \in Places
    BY DEF Places
  <1> HIDE DEF row
  <1>6. CASE worker' = [worker EXCEPT ![j] = "reported"] /\ UNCHANGED losses
    <2>1. JobMoves(j, row, "reported", j \in host)
      BY <1>1, <1>2, <1>3, <1>4, <1>5, <1>6, JobFacts DEF ReportResult, JobMoves
    <2> QED BY <2>1, OneJobMoves
  <1>7. CASE losses' = losses + 1 /\ UNCHANGED worker
    <2>1. JobMoves(j, row, worker[j], j \in host)
      BY <1>1, <1>2, <1>3, <1>4, <1>5, <1>7, JobFacts DEF ReportResult, JobMoves
    <2> QED BY <2>1, OneJobMoves
  <1> QED BY <1>6, <1>7 DEF ReportResult

LEMMA ExpireKeeps ==
  ASSUME RemovalInv, NEW j \in Jobs, ExpireJob(j)
  PROVE  RemovalInv'
  <1> DEFINE row == [removal[j] EXCEPT !.expired = TRUE]
  <1>1. row \in JobRow /\ removal' = [removal EXCEPT ![j] = row]
    BY JobFacts DEF JobRow, ExpireJob, InJob
  <1>2. Closed(row, j = LatestRemoval) /\ Agrees(row, worker[j], j \in host)
    BY JobFacts DEF Closed, Agrees, JobRow
  <1>3. (j \in host) \in BOOLEAN
    OBVIOUS
  <1> HIDE DEF row
  <1>4. JobMoves(j, row, worker[j], j \in host)
    BY <1>1, <1>2, <1>3, JobFacts DEF ExpireJob, JobMoves
  <1> QED BY <1>4, OneJobMoves

\* Every dialog step but the POST.
LEMMA DialogStep ==
  ASSUME RemovalInv, NEW s \in Staff,
         \/ \E mode \in RemovalModes : PressRemove(s, mode)
         \/ ReadLatest(s) \/ PollJob(s) \/ GiveUpWaiting(s) \/ DeleteNode(s) \/ DeleteRecord(s)
  PROVE  RemovalInv'
  <1>1. /\ dialog[s] \in DialogRow /\ DialogAgrees(s) /\ LatestRemoval \in Nat
        /\ record \in {"here", "removed", "deleted"}
        /\ dialog = [dialog EXCEPT ![s] = dialog[s]]
    BY RemovalBounds DEF RemovalInv, RowsTyped
  <1>2. Idle \in DialogRow /\ Idle.at = "open" /\ Idle.job = 0
    BY DEF Idle, DialogRow, Doings
  <1>3. ASSUME NEW mode \in RemovalModes, PressRemove(s, mode)
        PROVE  RemovalInv'
    <2>1. DialogMoves(s, [at |-> "pressed", mode |-> mode, job |-> 0])
      BY <1>1, <1>3 DEF PressRemove, DialogMoves, DialogRow, Doings
    <2> QED BY <2>1, OneDialogMoves
  <1>4. CASE ReadLatest(s)
    <2> DEFINE at == IF NothingUnderWay THEN "posting" ELSE "waiting"
               d == [dialog[s] EXCEPT !.at = at]
    <2>1. at \in {"posting", "waiting"} /\ (at = "waiting" => LatestRemoval > 0)
      BY <1>1 DEF NothingUnderWay
    <2>2. dialog' = [dialog EXCEPT ![s] = d]
      BY <1>4 DEF ReadLatest
    <2>3. d.at = at /\ d.mode = dialog[s].mode /\ d.job = dialog[s].job
      BY <1>1 DEF DialogRow
    <2> HIDE DEF at
    <2>4. d \in DialogRow
      BY <1>1, <2>1 DEF DialogRow, Doings
    <2> HIDE DEF d
    <2>5. DialogMoves(s, d)
      BY <1>1, <1>4, <2>1, <2>2, <2>3, <2>4 DEF ReadLatest, DialogMoves, DialogAgrees
    <2> QED BY <2>5, OneDialogMoves
  <1>5. CASE PollJob(s)
    <2>0. dialog[s].at = "waiting" /\ UNCHANGED <<removal, record, worker, host, losses>>
      BY <1>5 DEF PollJob
    <2>1. CASE dialog' = [dialog EXCEPT ![s] = Idle]
      <3>1. DialogMoves(s, Idle)
        BY <1>1, <1>2, <2>0, <2>1 DEF DialogMoves
      <3> QED BY <3>1, OneDialogMoves
    <2>2. CASE dialog' = [dialog EXCEPT ![s] = [dialog[s] EXCEPT !.at = "deleting", !.job = LatestRemoval]]
      <3> DEFINE d == [dialog[s] EXCEPT !.at = "deleting", !.job = LatestRemoval]
      <3>1. d \in DialogRow /\ d.at = "deleting" /\ d.mode = dialog[s].mode /\ d.job = LatestRemoval
        BY <1>1 DEF DialogRow, Doings
      <3>2. dialog' = [dialog EXCEPT ![s] = d]
        BY <2>2
      <3> HIDE DEF d
      <3>3. DialogMoves(s, d)
        BY <1>1, <2>0, <3>1, <3>2 DEF DialogMoves, DialogAgrees
      <3> QED BY <3>3, OneDialogMoves
    <2> QED BY <1>5, <2>1, <2>2 DEF PollJob
  <1>6. CASE GiveUpWaiting(s) \/ DeleteNode(s)
    <2>1. DialogMoves(s, Idle)
      BY <1>1, <1>2, <1>6 DEF GiveUpWaiting, DeleteNode, DialogMoves
    <2> QED BY <2>1, OneDialogMoves
  <1>7. CASE DeleteRecord(s)
    <2>1. DialogMoves(s, dialog[s])
      BY <1>1, <1>7 DEF DeleteRecord, DialogMoves, DialogAgrees
    <2> QED BY <2>1, OneDialogMoves
  <1> QED BY <1>3, <1>4, <1>5, <1>6, <1>7

\* A new job closes all others, none of which runs or has succeeded.
LEMMA QueueKeeps ==
  ASSUME RemovalInv, NEW s \in Staff, QueueNodeRemoval(s)
  PROVE  RemovalInv'
  <1> DEFINE L == LatestRemoval
  <1>1. /\ dialog[s] \in DialogRow /\ DialogAgrees(s) /\ L \in Nat /\ L <= MaxJobs /\ MaxJobs \in Nat
        /\ Jobs = 1..L /\ record \in {"here", "removed", "deleted"}
    BY RemovalBounds DEF RemovalInv, RowsTyped
  <1>2. CASE \E j \in Jobs : Blocking(j)
    <2>1. Idle \in DialogRow /\ Idle.at = "open" /\ Idle.job = 0
      BY DEF Idle, DialogRow, Doings
    <2>2. dialog' = [dialog EXCEPT ![s] = Idle] /\ UNCHANGED <<removal, record, worker, host, losses>>
      BY <1>2 DEF QueueNodeRemoval
    <2>3. DialogMoves(s, Idle)
      BY <1>1, <2>1, <2>2 DEF DialogMoves
    <2> QED BY <2>3, OneDialogMoves
  <1>3. CASE \A j \in Jobs : ~Blocking(j)
    <2> DEFINE Shut(j) == IF removal[j].done THEN removal[j]
                          ELSE [removal[j] EXCEPT !.done = TRUE, !.error = TRUE]
    <2>1. /\ L < MaxJobs
          /\ removal' = [j \in 1..(L + 1) |-> IF j > L THEN NewJob(dialog[s].mode) ELSE Shut(j)]
          /\ worker' = [j \in 1..(L + 1) |-> IF j > L THEN "none" ELSE worker[j]]
          /\ dialog' = [dialog EXCEPT ![s] = [dialog[s] EXCEPT !.at = "waiting"]]
          /\ UNCHANGED <<record, host, losses>>
      BY <1>3 DEF QueueNodeRemoval
    <2>2. Jobs' = 1..(L + 1) /\ LatestRemoval' = L + 1
      <3>1. Jobs' = 1..(L + 1)
        BY <2>1 DEF Jobs
      <3>2. Cardinality(1..(L + 1)) = L + 1
        BY <1>1, FS_Interval
      <3> QED BY <3>1, <3>2 DEF LatestRemoval
    <2>3. ASSUME NEW j \in Jobs
          PROVE  /\ Shut(j) \in JobRow /\ Closed(Shut(j), FALSE)
                 /\ Agrees(Shut(j), worker[j], j \in host)
      <3>1. removal[j] \in JobRow /\ ~Blocking(j) /\ Closed(removal[j], j = LatestRemoval)
            /\ Agrees(removal[j], worker[j], j \in host)
        BY <1>3, <2>3, JobFacts
      <3>2. \/ removal[j].done /\ removal[j].error
            \/ ~removal[j].done /\ removal[j].phase = ""
        BY <3>1 DEF Blocking, Closed, JobRow
      <3>3. CASE removal[j].done /\ removal[j].error
        BY <3>1, <3>3 DEF Closed
      <3>4. CASE ~removal[j].done /\ removal[j].phase = ""
        <4>1. /\ Shut(j) \in JobRow /\ Shut(j).done /\ Shut(j).error /\ Shut(j).phase = ""
          BY <3>1, <3>4 DEF JobRow
        <4> HIDE DEF Shut
        <4> QED BY <3>1, <3>4, <4>1 DEF Closed, Agrees
      <3> QED BY <3>2, <3>3, <3>4
    <2> HIDE DEF Shut
    <2>4. /\ NewJob(dialog[s].mode) \in JobRow /\ Closed(NewJob(dialog[s].mode), TRUE)
          /\ Agrees(NewJob(dialog[s].mode), "none", FALSE)
      <3>1. dialog[s].mode \in RemovalModes
        BY <1>1 DEF QueueNodeRemoval, DialogAgrees
      <3> QED BY <3>1 DEF NewJob, JobRow, Closed, Agrees
    <2>5. host \subseteq Jobs /\ L + 1 \notin host
      BY <1>1 DEF RemovalInv, RowsTyped
    <2>6. RowsTyped'
      <3>1. removal' \in [1..(L + 1) -> JobRow]
        <4>1. ASSUME NEW j \in 1..(L + 1)
              PROVE  (IF j > L THEN NewJob(dialog[s].mode) ELSE Shut(j)) \in JobRow
          <5>1. CASE j > L
            BY <2>4, <5>1
          <5>2. CASE ~(j > L)
            <6>1. j \in Jobs
              BY <1>1, <5>2
            <6> QED BY <2>3, <5>2, <6>1
          <5> QED BY <5>1, <5>2
        <4> QED BY <2>1, <4>1
      <3>2. worker' \in [1..(L + 1) -> Places]
        <4>1. ASSUME NEW j \in 1..(L + 1) PROVE (IF j > L THEN "none" ELSE worker[j]) \in Places
          BY <1>1, JobFacts DEF Places
        <4> QED BY <2>1, <4>1
      <3>3. dialog' \in [Staff -> DialogRow]
        <4>1. [dialog[s] EXCEPT !.at = "waiting"] \in DialogRow
          BY <1>1 DEF DialogRow, Doings
        <4> QED BY <2>1, <4>1 DEF RemovalInv, RowsTyped
      <3>4. host' \subseteq 1..(L + 1) /\ L + 1 \in 0..MaxJobs
        BY <1>1, <2>1, <2>5
      <3> QED BY <2>1, <2>2, <3>1, <3>2, <3>3, <3>4 DEF RemovalInv, RowsTyped
    <2>7. ASSUME NEW j \in Jobs' PROVE JobHolds(j)'
      <3>1. CASE j = L + 1
        <4>1. removal'[j] = NewJob(dialog[s].mode) /\ worker'[j] = "none" /\ j \notin host'
          BY <1>1, <2>1, <2>5, <3>1
        <4>2. (j = LatestRemoval') = TRUE /\ (j \in host') = FALSE
          BY <2>2, <3>1, <4>1
        <4> QED BY <2>4, <4>1, <4>2 DEF JobHolds
      <3>2. CASE j \in Jobs
        <4>1. j \in 1..(L + 1) /\ ~(j > L)
          BY <1>1, <3>2
        <4>2. removal'[j] = Shut(j) /\ worker'[j] = worker[j]
          BY <2>1, <4>1
        <4>3. (j = LatestRemoval') = FALSE /\ (j \in host') = (j \in host)
          BY <1>1, <2>1, <2>2, <4>1
        <4> QED BY <2>3, <3>2, <4>2, <4>3 DEF JobHolds
      <3> QED BY <1>1, <2>2, <3>1, <3>2
    <2>8. ASSUME NEW t \in Staff PROVE DialogAgrees(t)'
      <3>0. dialog[t] \in DialogRow /\ DialogAgrees(t)
        BY DEF RemovalInv, RowsTyped
      <3>1. CASE t = s
        <4>1. dialog'[t] = [dialog[s] EXCEPT !.at = "waiting"]
          BY <2>1, <3>1 DEF RemovalInv, RowsTyped
        <4>2. dialog'[t].at = "waiting" /\ dialog'[t].mode = dialog[s].mode /\ dialog'[t].job = dialog[s].job
          BY <1>1, <4>1 DEF DialogRow
        <4>3. dialog[s].mode \in RemovalModes /\ dialog[s].job <= L /\ dialog[s].job \in Nat
          BY <1>1 DEF QueueNodeRemoval, DialogAgrees, DialogRow
        <4> QED BY <1>1, <2>2, <4>2, <4>3 DEF DialogAgrees
      <3>2. CASE t # s
        <4>1. dialog'[t] = dialog[t]
          BY <2>1, <3>2 DEF RemovalInv, RowsTyped
        <4> QED BY <1>1, <2>2, <3>0, <4>1 DEF DialogAgrees, DialogRow
      <3> QED BY <3>1, <3>2
    <2> QED BY <2>6, <2>7, <2>8 DEF RemovalInv
  <1> QED BY <1>2, <1>3

LEMMA RemovalStarts == RemovalInit => RemovalInv
  <1> SUFFICES ASSUME RemovalInit PROVE RemovalInv
    OBVIOUS
  <1>1. Jobs = 1..0 /\ LatestRemoval = 0
    <2>1. Jobs = 1..0
      BY DEF RemovalInit, Jobs
    <2>2. Cardinality(1..0) = 0
      BY FS_Interval
    <2> QED BY <2>1, <2>2 DEF LatestRemoval
  <1>2. Idle \in DialogRow /\ Idle.at = "open" /\ Idle.job = 0
    BY DEF Idle, DialogRow, Doings
  <1>3. RowsTyped
    <2>1. removal \in [Jobs -> JobRow] /\ worker \in [Jobs -> Places]
      BY <1>1 DEF RemovalInit
    <2> QED BY <1>1, <1>2, <2>1, RemovalBounds DEF RemovalInit, RowsTyped
  <1>4. \A s \in Staff : DialogAgrees(s)
    BY <1>1, <1>2 DEF RemovalInit, DialogAgrees
  <1> QED BY <1>1, <1>3, <1>4 DEF RemovalInv

LEMMA RemovalStep == RemovalInv /\ [RemovalNext]_removalVars => RemovalInv'
  <1> SUFFICES ASSUME RemovalInv, [RemovalNext]_removalVars PROVE RemovalInv'
    OBVIOUS
  <1>1. CASE UNCHANGED removalVars
    BY <1>1 DEF removalVars, RemovalInv, RowsTyped, JobHolds, DialogAgrees, Jobs, LatestRemoval
  <1>2. ASSUME NEW s \in Staff,
               \/ \E mode \in RemovalModes : PressRemove(s, mode)
               \/ ReadLatest(s) \/ QueueNodeRemoval(s) \/ PollJob(s) \/ GiveUpWaiting(s)
               \/ DeleteNode(s) \/ DeleteRecord(s)
        PROVE  RemovalInv'
    BY <1>2, DialogStep, QueueKeeps
  <1>3. ASSUME NEW j \in Jobs,
               \/ LaunchWorker(j) \/ CompleteReportedNodeJob(j) \/ ClaimNodeRemoval(j)
               \/ Act(j) \/ ReportResult(j) \/ ExpireJob(j)
        PROVE  RemovalInv'
    BY <1>3, LaunchKeeps, ReportedKeeps, ClaimKeeps, ActKeeps, ResultKeeps, ExpireKeeps
  <1> QED BY <1>1, <1>2, <1>3 DEF RemovalNext

LEMMA RemovalInvariant == RemovalSpec => []RemovalInv
  BY RemovalStarts, RemovalStep, PTL DEF RemovalSpec

-----------------------------------------------------------------------------
\* Jobs, workers and dialogs keep the shape the database, the host and the page
\* give them, for any number of people, jobs and faults (node_removal.go,
\* DeleteNodeModal).
THEOREM RemovalIsTyped == RemovalSpec => []RemovalTypeOK
  <1>1. RemovalInv => RemovalTypeOK
    <2> SUFFICES ASSUME RemovalInv PROVE RemovalTypeOK
      OBVIOUS
    <2>1. /\ LatestRemoval \in Nat /\ LatestRemoval <= MaxJobs /\ Jobs = 1..LatestRemoval
          /\ host \subseteq Jobs /\ record \in {"here", "removed", "deleted"}
          /\ DOMAIN worker = Jobs
      BY RemovalBounds DEF RemovalInv, RowsTyped
    <2>2. \A j \in Jobs : removal[j].mode \in RemovalModes /\ removal[j].phase \in {"", "running", "complete"}
      BY DEF RemovalInv, RowsTyped, JobRow
    <2>3. ASSUME NEW s \in Staff PROVE dialog[s].job \in Jobs \union {0}
      <3>1. dialog[s].job \in Nat /\ dialog[s].job <= LatestRemoval
        BY DEF RemovalInv, RowsTyped, DialogRow, DialogAgrees
      <3> QED BY <2>1, <3>1
    <2> QED BY <2>1, <2>2, <2>3 DEF RemovalTypeOK
  <1> QED BY <1>1, RemovalInvariant, PTL

\* Two workers never change the host at the same time, and none touches it after
\* a removal has succeeded, however many people press the button, claims are lost
\* and jobs expire: the claim and QueueNodeRemoval exclude each other.
THEOREM OneRemovalAtATime == RemovalSpec => []OneRemovalActs
  <1>1. RemovalInv => OneRemovalActs
    <2> SUFFICES ASSUME RemovalInv PROVE OneRemovalActs
      OBVIOUS
    <2>1. LatestRemoval \in Nat /\ Jobs = 1..LatestRemoval /\ host \subseteq Jobs
      BY RemovalBounds DEF RemovalInv, RowsTyped
    <2>2. ASSUME NEW j \in Jobs, worker[j] = "acting" \/ j \in host
          PROVE  j = LatestRemoval
      <3>1. Closed(removal[j], j = LatestRemoval) /\ Agrees(removal[j], worker[j], j \in host)
        BY <2>2, JobFacts
      <3> QED BY <2>2, <3>1 DEF Closed, Agrees
    <2>3. Cardinality({j \in Jobs : worker[j] = "acting"}) <= 1
      <3>1. {j \in Jobs : worker[j] = "acting"} \subseteq {LatestRemoval}
        BY <2>2
      <3>2. IsFiniteSet({LatestRemoval}) /\ Cardinality({LatestRemoval}) = 1
        BY FS_Singleton
      <3>3. Cardinality({j \in Jobs : worker[j] = "acting"}) <= Cardinality({LatestRemoval})
        BY <3>1, <3>2, FS_Subset
      <3> QED BY <3>2, <3>3
    <2>4. \A j \in host, k \in Jobs : k > j => worker[k] \notin {"acting", "changed", "unchanged"}
      BY <2>1, <2>2
    <2> QED BY <2>3, <2>4 DEF OneRemovalActs
  <1> QED BY <1>1, RemovalInvariant, PTL

\* DELETE takes the row away after a job only when that job changed the host: a
\* late answer, a lost result or a failed worker keeps the server in the list.
THEOREM RowGoesLast == RemovalSpec => RowGoesAfterTheHost
  <1>1. RemovalInv /\ [RemovalNext]_removalVars =>
          [(record = "here" /\ record' = "removed") => \E s \in Staff : dialog[s].job \in host]_removalVars
    <2> SUFFICES ASSUME RemovalInv, RemovalNext, record = "here", record' = "removed"
                 PROVE  \E s \in Staff : dialog[s].job \in host
      BY DEF removalVars
    <2>1. PICK s \in Staff : DeleteNode(s)
      BY DEF RemovalNext, PressRemove, ReadLatest, QueueNodeRemoval, PollJob, GiveUpWaiting, DeleteRecord,
             LaunchWorker, CompleteReportedNodeJob, ClaimNodeRemoval, Act, ReportResult, ExpireJob
    <2> DEFINE j == dialog[s].job
    <2>2. removal[j].done /\ ~removal[j].error /\ removal[j].phase = "complete"
      BY <2>1 DEF DeleteNode
    <2>3. j \in Jobs
      BY <2>1, RemovalBounds DEF DeleteNode, RemovalInv, RowsTyped, DialogAgrees, DialogRow
    <2>4. j \in host
      BY <2>2, <2>3, JobFacts DEF Agrees
    <2> QED BY <2>4
  <1> QED BY <1>1, RemovalInvariant, PTL DEF RemovalSpec, RowGoesAfterTheHost
=============================================================================
