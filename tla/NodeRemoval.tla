----------------------------- MODULE NodeRemoval -----------------------------
(***************************************************************************)
(* Taking a server out: the dialog of the staff console in several tabs,   *)
(* the removal jobs in the database, the agent that starts a worker for a  *)
(* job it finds in its state, and the worker, which claims the job before  *)
(* it stops the agent and reports the outcome afterwards.  Requests and    *)
(* answers are lost, the agent reports late, jobs expire while a worker    *)
(* starts, and two people press the button with different choices.         *)
(***************************************************************************)
EXTENDS Integers, FiniteSets

CONSTANTS
  Staff,          \* open dialogs
  RemovalModes,   \* "standalone", "uninstall"
  MaxJobs,        \* jobs queued
  MaxLosses       \* claims and results whose answer is lost, failed removals

ASSUME RemovalBounds == {MaxJobs, MaxLosses} \subseteq Nat

VARIABLES
  removal,   \* node_jobs of the kind node_remove: mode, phase, done, error, expired
  record,    \* how the server's row went: "here", "removed" after a job, or "deleted" alone
  dialog,    \* per dialog: what it is doing, the mode chosen, the job it waits for
  worker,    \* per job: where its worker on the host is
  host,      \* the modes the host was changed to, in order of the jobs
  losses     \* faults so far

removalVars == <<removal, record, dialog, worker, host, losses>>

Jobs == DOMAIN removal
NewJob(mode) == [mode |-> mode, phase |-> "", done |-> FALSE, error |-> FALSE, expired |-> FALSE]
Idle == [at |-> "open", mode |-> "none", job |-> 0]
LatestRemoval == Cardinality(Jobs)
InJob(j, new) == [removal EXCEPT ![j] = new]

-----------------------------------------------------------------------------
(* The dialog: DeleteNodeModal's mutation.                                  *)
\* getNodeRemoval shows an expired job that was not claimed as failed.
SeenDone(j) == removal[j].done \/ (removal[j].expired /\ removal[j].phase # "running")
SeenError(j) == IF removal[j].done THEN removal[j].error ELSE TRUE

NothingUnderWay == LatestRemoval > 0 => (SeenDone(LatestRemoval) /\ SeenError(LatestRemoval))

PressRemove(s, mode) ==
  /\ dialog[s].at = "open" /\ record = "here"
  /\ dialog' = [dialog EXCEPT ![s] = [at |-> "pressed", mode |-> mode, job |-> 0]]
  /\ UNCHANGED <<removal, record, worker, host, losses>>

\* The read before the POST: a job that is pending or complete is taken up.
ReadLatest(s) ==
  /\ dialog[s].at = "pressed" /\ record = "here"
  /\ dialog' = [dialog EXCEPT ![s].at =
       IF NothingUnderWay THEN "posting" ELSE "waiting"]
  /\ UNCHANGED <<removal, record, worker, host, losses>>

\* Mutant: the expiry is looked at without the claim.
BlockingByTime(j) == (~removal[j].done /\ ~removal[j].expired) \/ (removal[j].done /\ ~removal[j].error)

\* QueueNodeRemoval: a job that is neither finished with an error nor expired
\* unclaimed is in the way.
Blocking(j) ==
  /\ ~removal[j].done \/ ~removal[j].error
  /\ ~(~removal[j].done /\ removal[j].expired /\ removal[j].phase # "running")

QueueNodeRemoval(s) ==
  /\ dialog[s].at = "posting" /\ record = "here"
  /\ IF \E j \in Jobs : Blocking(j)
       THEN /\ dialog' = [dialog EXCEPT ![s] = Idle]
            /\ UNCHANGED <<removal, worker>>
       ELSE /\ LatestRemoval < MaxJobs
            /\ removal' = [j \in 1..(LatestRemoval + 1) |->
                 IF j > LatestRemoval THEN NewJob(dialog[s].mode)
                 ELSE IF removal[j].done THEN removal[j] ELSE [removal[j] EXCEPT !.done = TRUE, !.error = TRUE]]
            /\ worker' = [j \in 1..(LatestRemoval + 1) |-> IF j > LatestRemoval THEN "none" ELSE worker[j]]
            /\ dialog' = [dialog EXCEPT ![s].at = "waiting"]
  /\ UNCHANGED <<record, host, losses>>

\* The poll while waiting: the latest job decides, whoever queued it.
PollJob(s) ==
  /\ dialog[s].at = "waiting" /\ record = "here"
  /\ SeenDone(LatestRemoval)
  /\ dialog' = [dialog EXCEPT ![s] =
       IF SeenError(LatestRemoval) \/ removal[LatestRemoval].phase # "complete" THEN Idle
       ELSE [@ EXCEPT !.at = "deleting", !.job = LatestRemoval]]
  /\ UNCHANGED <<removal, record, worker, host, losses>>

\* The four minutes are over.
GiveUpWaiting(s) ==
  /\ dialog[s].at = "waiting"
  /\ dialog' = [dialog EXCEPT ![s] = Idle]
  /\ UNCHANGED <<removal, record, worker, host, losses>>

\* DELETE with removal_job: the handler looks at the job again.
DeleteNode(s) ==
  /\ dialog[s].at = "deleting" /\ record = "here"
  /\ LET j == removal[dialog[s].job] IN
       record' = IF j.done /\ ~j.error /\ j.phase = "complete" THEN "removed" ELSE record
  /\ dialog' = [dialog EXCEPT ![s] = Idle]
  /\ UNCHANGED <<removal, worker, host, losses>>

\* "Only remove the record": DELETE without a job asks nothing about the jobs. (The
\* dialog offers it while the last job it read is neither pending nor complete.)
DeleteRecord(s) ==
  /\ dialog[s].at = "open" /\ record = "here"
  /\ record' = "deleted"
  /\ UNCHANGED <<removal, dialog, worker, host, losses>>

-----------------------------------------------------------------------------
(* The agent and the worker.                                                *)
\* The state lists every job that is not done, an expired one too.
LaunchWorker(j) ==
  /\ record = "here" /\ ~removal[j].done /\ worker[j] = "none"
  /\ worker' = [worker EXCEPT ![j] = "started"]
  /\ UNCHANGED <<removal, record, dialog, host, losses>>

\* The agent believes that the worker did not start, and reports that late.
CompleteReportedNodeJob(j) ==
  /\ record = "here" /\ worker[j] # "none" /\ losses < MaxLosses
  /\ losses' = losses + 1
  /\ removal' = IF removal[j].done \/ removal[j].phase # "" THEN removal
            ELSE InJob(j, [removal[j] EXCEPT !.done = TRUE, !.error = TRUE])
  /\ UNCHANGED <<record, dialog, worker, host>>

\* ClaimNodeRemoval: refused when the job is done or expired.  The worker acts
\* only on a granted claim, and asks again when it got no answer.
ClaimNodeRemoval(j) ==
  /\ record = "here" /\ worker[j] = "started"
  /\ LET refused == removal[j].done \/ removal[j].expired IN
     \E lost \in BOOLEAN :
       /\ lost => losses < MaxLosses
       /\ losses' = IF lost THEN losses + 1 ELSE losses
       /\ removal' = IF refused THEN removal ELSE InJob(j, [removal[j] EXCEPT !.phase = "running"])
       /\ worker' = [worker EXCEPT ![j] =
            IF lost THEN "started" ELSE IF refused THEN "refused" ELSE "acting"]
  /\ UNCHANGED <<record, dialog, host>>

\* The worker changes the host, or fails and leaves it as it was.
Act(j) ==
  /\ worker[j] = "acting"
  /\ \/ worker' = [worker EXCEPT ![j] = "changed"] /\ host' = host \union {j} /\ UNCHANGED losses
     \/ /\ losses < MaxLosses /\ losses' = losses + 1
        /\ worker' = [worker EXCEPT ![j] = "unchanged"] /\ UNCHANGED host
  /\ UNCHANGED <<removal, record, dialog>>

\* The result, sent again until it is answered.
ReportResult(j) ==
  /\ record = "here" /\ worker[j] \in {"changed", "unchanged"}
  /\ removal' = IF removal[j].done \/ removal[j].phase # "running" THEN removal
            ELSE InJob(j, [removal[j] EXCEPT !.done = TRUE, !.phase = "complete", !.error = worker[j] = "unchanged"])
  /\ \/ worker' = [worker EXCEPT ![j] = "reported"] /\ UNCHANGED losses
     \/ losses < MaxLosses /\ losses' = losses + 1 /\ UNCHANGED worker
  /\ UNCHANGED <<record, dialog, host>>

\* The five minutes of a request are over.
ExpireJob(j) ==
  /\ ~removal[j].expired
  /\ removal' = InJob(j, [removal[j] EXCEPT !.expired = TRUE])
  /\ UNCHANGED <<record, dialog, worker, host, losses>>

-----------------------------------------------------------------------------
RemovalInit ==
  /\ removal = [j \in 1..0 |-> NewJob("none")]
  /\ record = "here"
  /\ dialog = [s \in Staff |-> Idle]
  /\ worker = [j \in 1..0 |-> "none"]
  /\ host = {}
  /\ losses = 0

RemovalNext ==
  \/ \E s \in Staff :
       \/ \E mode \in RemovalModes : PressRemove(s, mode)
       \/ ReadLatest(s) \/ QueueNodeRemoval(s) \/ PollJob(s) \/ GiveUpWaiting(s)
       \/ DeleteNode(s) \/ DeleteRecord(s)
  \/ \E j \in Jobs :
       \/ LaunchWorker(j) \/ CompleteReportedNodeJob(j) \/ ClaimNodeRemoval(j)
       \/ Act(j) \/ ReportResult(j) \/ ExpireJob(j)

RemovalSpec == RemovalInit /\ [][RemovalNext]_removalVars

\* The agent, the worker and the polls go on.
RemovalFairness ==
  /\ \A j \in 1..MaxJobs :
       /\ WF_removalVars(j \in Jobs /\ LaunchWorker(j))
       /\ WF_removalVars(j \in Jobs /\ ClaimNodeRemoval(j) /\ worker' # worker)
       /\ WF_removalVars(j \in Jobs /\ Act(j))
       /\ WF_removalVars(j \in Jobs /\ ReportResult(j) /\ worker' # worker)
-----------------------------------------------------------------------------
\* A job and its worker agree: nobody acts on a job that was never claimed.
RemovalTypeOK ==
  /\ DOMAIN worker = Jobs /\ host \subseteq Jobs /\ LatestRemoval <= MaxJobs
  /\ record \in {"here", "removed", "deleted"}
  /\ \A j \in Jobs : removal[j].mode \in RemovalModes /\ removal[j].phase \in {"", "running", "complete"}
  /\ \A s \in Staff : dialog[s].job \in Jobs \union {0}

\* Two workers never change the host at the same time, and once a removal has
\* succeeded no other one touches the host again - however late a worker, a
\* report of the agent or a second click arrives, and whenever a job expires.
OneRemovalActs ==
  /\ Cardinality({j \in Jobs : worker[j] = "acting"}) <= 1
  /\ \A j \in host, k \in Jobs : k > j => worker[k] \notin {"acting", "changed", "unchanged"}

\* The row of a server is taken away after a job only when the host was changed
\* by that very job: a late answer, a lost result or a failed worker keeps it.
RowGoesAfterTheHost == [][(record = "here" /\ record' = "removed") =>
  \E s \in Staff : dialog[s].job \in host]_removalVars

\* A worker that was granted its job ends it: the row is not left with a removal
\* that is pending for ever, which would refuse every other one.
ClaimedJobsEnd ==
  \A j \in 1..MaxJobs :
    []<>(j \in Jobs /\ worker[j] \in {"acting", "changed", "unchanged", "reported"}
           => record # "here" \/ (removal[j].done /\ removal[j].error = (j \notin host)))
=============================================================================
