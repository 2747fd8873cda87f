--------------------------- MODULE UpdateSession ---------------------------
(***************************************************************************)
(* Updating, rolling back and restarting the panel from its own page. The  *)
(* process that answers is the one that goes away: a blocking dialog asks  *)
(* again and again, error messages are muted meanwhile, and the page loads *)
(* itself anew once the version it waits for answers. In a container the   *)
(* host's updater does the work, and reports the phase of its job.         *)
(***************************************************************************)
EXTENDS Integers

CONSTANTS
  MaxUpdateOrders, MaxOrderFaults,   \* commands sent, and their answers lost
  WaitLimit                          \* polls that fill thirty minutes
ASSUME OrderBounds == MaxUpdateOrders \in Nat /\ MaxOrderFaults \in Nat /\ WaitLimit \in Nat

VARIABLES
  panelHost,      \* the server: inContainer, running version, the installed one, up
  hostJob,        \* the job of the host's updater: target and phase
  updateCommand,  \* the three commands of the page: state, what it was answered
  overlay,        \* RestartOverlay: on, version, timedOut, phase, polls since its ticks started
  asking,         \* its chain of ticks: "off", "timer", "sent", "answered" or "broken"
  heard,          \* the answer of the poll that is under way
  muted,          \* whether error messages are suppressed
  reloaded,       \* the version the page waited for when it reloaded itself, or -1
  issued          \* commands and faults so far

updateVars == <<panelHost, hostJob, updateCommand, overlay, asking, heard, muted, reloaded, issued>>

Backup == 1        \* versions: the one before, the running one and the latest
Running == 2
Newest == 3
NoVersion == 0     \* a restart waits for any answer

Closed == [on |-> FALSE, version |-> NoVersion, timedOut |-> FALSE, phase |-> "none", polls |-> 0]
UpdateOrders == {"apply", "rollback", "restart"}
NoUpdateCommand == [state |-> "idle", version |-> NoVersion]
NotReloaded == reloaded = -1

-----------------------------------------------------------------------------
(* RestartOverlay: mounting mutes and starts the ticks, unmounting and      *)
(* another version stop them.                                               *)
Opened(v) ==
  /\ overlay' = [overlay EXCEPT !.on = TRUE, !.version = v, !.polls = 0]
  /\ muted' = TRUE /\ asking' = "timer"

OverlayGone == overlay' = Closed /\ asking' = "off" /\ muted' = FALSE

Tick ==
  /\ NotReloaded /\ asking = "timer" /\ asking' = "sent"
  /\ overlay' = [overlay EXCEPT !.polls = IF @ < WaitLimit THEN @ + 1 ELSE @]
  /\ UNCHANGED <<panelHost, hostJob, updateCommand, heard, muted, reloaded, issued>>

\* systemUpdate, or the panel is away: the poll is cut off after eight seconds.
ServeTick ==
  /\ NotReloaded /\ asking = "sent"
  /\ \/ panelHost.up /\ asking' = "answered" /\ heard' = [current |-> panelHost.version, job |-> hostJob]
     \/ ~panelHost.up /\ asking' = "broken" /\ UNCHANGED heard
  /\ UNCHANGED <<panelHost, hostJob, updateCommand, overlay, muted, reloaded, issued>>

Submitting == updateCommand["apply"].state # "idle"
OwnJob == ~Submitting /\ heard.job.target = overlay.version

Arrived ==
  \/ overlay.version = NoVersion
  \/ heard.current = overlay.version /\ (panelHost.inContainer => heard.job.phase = "complete")

\* elapsed >= 1800.
TooLate == overlay.polls >= WaitLimit

\* An answer: a job that failed ends the waiting, the wanted version reloads
\* the page, anything else is asked again until thirty minutes have passed.
TickAnswered ==
  /\ NotReloaded /\ asking = "answered"
  /\ IF overlay.version # NoVersion /\ OwnJob /\ heard.job.phase = "failed"
     THEN /\ overlay' = [overlay EXCEPT !.phase = "failed", !.timedOut = TRUE] /\ asking' = "off"
          /\ UNCHANGED <<muted, reloaded>>
     ELSE IF Arrived THEN reloaded' = overlay.version /\ OverlayGone
     ELSE /\ overlay' = [overlay EXCEPT !.phase = IF OwnJob THEN heard.job.phase ELSE @, !.timedOut = @ \/ TooLate]
          /\ asking' = IF TooLate THEN "off" ELSE "timer"
          /\ UNCHANGED <<muted, reloaded>>
  /\ UNCHANGED <<panelHost, hostJob, updateCommand, heard, issued>>

\* A poll that failed is asked again likewise.
TickBroken ==
  /\ NotReloaded /\ asking = "broken"
  /\ asking' = IF TooLate THEN "off" ELSE "timer"
  /\ overlay' = [overlay EXCEPT !.timedOut = @ \/ TooLate]
  /\ UNCHANGED <<panelHost, hostJob, updateCommand, heard, muted, reloaded, issued>>

\* "Cancel" goes back to the page, "reload" starts it anew.
PollGivesUp ==
  /\ NotReloaded /\ overlay.timedOut /\ OverlayGone /\ updateCommand' \in {updateCommand, [k \in UpdateOrders |-> NoUpdateCommand]}
  /\ UNCHANGED <<panelHost, hostJob, heard, reloaded, issued>>

\* A job that is under way can be followed from the page.
FollowJob ==
  /\ NotReloaded /\ ~overlay.on /\ hostJob.phase \in {"queued", "recreating", "verifying"} /\ panelHost.up
  /\ Opened(hostJob.target)
  /\ UNCHANGED <<panelHost, hostJob, updateCommand, heard, reloaded, issued>>

-----------------------------------------------------------------------------
(* UpdateCard: the update opens the dialog before it is sent, the others    *)
(* after they were answered.                                                *)
SendOrder(k) ==
  /\ NotReloaded /\ ~overlay.on /\ updateCommand[k] = NoUpdateCommand /\ issued.orders < MaxUpdateOrders
  /\ k = "rollback" => ~panelHost.inContainer
  /\ k = "apply" => panelHost.version # Newest
  /\ updateCommand' = [updateCommand EXCEPT ![k].state = "sent"]
  /\ IF k = "apply" THEN Opened(Newest) ELSE UNCHANGED <<overlay, asking, muted>>
  /\ issued' = [issued EXCEPT !.orders = @ + 1] /\ UNCHANGED <<panelHost, hostJob, heard, reloaded>>

\* systemUpdateApply, systemUpdateRollback, systemRestart.
ServeOrder(k) ==
  /\ NotReloaded /\ updateCommand[k].state = "sent" /\ panelHost.up
  /\ k = "apply" => panelHost.version # Newest     \* ErrUpToDate
  /\ LET version == CASE k = "apply" -> Newest [] k = "rollback" -> Backup [] OTHER -> NoVersion
     IN /\ updateCommand' = [updateCommand EXCEPT ![k] = [state |-> "done", version |-> version]]
        /\ IF k = "apply" /\ panelHost.inContainer
           THEN hostJob' = [target |-> Newest, phase |-> "queued"] /\ UNCHANGED panelHost
           ELSE panelHost' = [panelHost EXCEPT !.installed = IF version = NoVersion THEN @ ELSE version, !.leaving = TRUE]
                /\ UNCHANGED hostJob
  /\ UNCHANGED <<overlay, asking, heard, muted, reloaded, issued>>

RefuseOrder(k) ==
  /\ NotReloaded /\ updateCommand[k].state = "sent" /\ updateCommand' = [updateCommand EXCEPT ![k].state = "error"]
  /\ UNCHANGED <<panelHost, hostJob, overlay, asking, heard, muted, reloaded, issued>>

LoseOrder(k) ==
  /\ NotReloaded /\ updateCommand[k].state \in {"sent", "done"} /\ issued.faults < MaxOrderFaults
  /\ updateCommand' = [updateCommand EXCEPT ![k].state = "error"] /\ issued' = [issued EXCEPT !.faults = @ + 1]
  /\ UNCHANGED <<panelHost, hostJob, overlay, asking, heard, muted, reloaded>>

\* afterExit: the same version keeps the ticks there are.
OrderDone(k) ==
  /\ NotReloaded /\ updateCommand[k].state = "done" /\ updateCommand' = [updateCommand EXCEPT ![k] = NoUpdateCommand]
  /\ LET version == updateCommand[k].version
     IN IF overlay.on /\ overlay.version = version THEN UNCHANGED <<overlay, asking, muted>> ELSE Opened(version)
  /\ UNCHANGED <<panelHost, hostJob, heard, reloaded, issued>>

\* A failed update takes the dialog away.
OrderFailed(k) ==
  /\ NotReloaded /\ updateCommand[k].state = "error" /\ updateCommand' = [updateCommand EXCEPT ![k] = NoUpdateCommand]
  /\ IF k = "apply" THEN OverlayGone ELSE UNCHANGED <<overlay, asking, muted>>
  /\ UNCHANGED <<panelHost, hostJob, heard, reloaded, issued>>

-----------------------------------------------------------------------------
(* The process and the host's updater.                                      *)
Restarts ==
  /\ panelHost.leaving \/ ~panelHost.up
  /\ panelHost' = IF panelHost.up THEN [panelHost EXCEPT !.up = FALSE, !.leaving = FALSE]
                  ELSE [panelHost EXCEPT !.up = TRUE, !.version = panelHost.installed]
  /\ UNCHANGED <<hostJob, updateCommand, overlay, asking, heard, muted, reloaded, issued>>

HostStep ==
  /\ \/ hostJob.phase = "queued" /\ hostJob' = [hostJob EXCEPT !.phase = "recreating"]
        /\ panelHost' = [panelHost EXCEPT !.installed = Newest, !.leaving = TRUE]
     \/ hostJob.phase = "recreating" /\ panelHost.up /\ panelHost.version = Newest
        /\ hostJob' = [hostJob EXCEPT !.phase = "verifying"] /\ UNCHANGED panelHost
     \/ hostJob.phase = "verifying" /\ hostJob' = [hostJob EXCEPT !.phase = "complete"] /\ UNCHANGED panelHost
     \/ hostJob.phase \in {"queued", "verifying"} /\ hostJob' = [hostJob EXCEPT !.phase = "failed"] /\ UNCHANGED panelHost
  /\ UNCHANGED <<updateCommand, overlay, asking, heard, muted, reloaded, issued>>

UpdateInit ==
  /\ \E c \in BOOLEAN :
       panelHost = [inContainer |-> c, version |-> Running, installed |-> Running, up |-> TRUE, leaving |-> FALSE]
  /\ hostJob \in {[target |-> NoVersion, phase |-> "none"], [target |-> Newest, phase |-> "failed"]}
  /\ updateCommand = [k \in UpdateOrders |-> NoUpdateCommand] /\ overlay = Closed /\ asking = "off" /\ muted = FALSE /\ reloaded = -1
  /\ heard = [current |-> Running, job |-> hostJob] /\ issued = [orders |-> 0, faults |-> 0]

UpdateNext ==
  \/ Tick \/ ServeTick \/ TickAnswered \/ TickBroken \/ PollGivesUp \/ FollowJob
  \/ \E k \in UpdateOrders : SendOrder(k) \/ ServeOrder(k) \/ RefuseOrder(k) \/ LoseOrder(k) \/ OrderDone(k) \/ OrderFailed(k)
  \/ Restarts \/ HostStep

\* Timers fire and requests have time limits. Nothing is assumed of the process
\* that is to come back, nor of the host's updater.
UpdateFairness ==
  /\ WF_updateVars(Tick) /\ WF_updateVars(ServeTick) /\ WF_updateVars(TickAnswered) /\ WF_updateVars(TickBroken)
  /\ \A k \in UpdateOrders : WF_updateVars(ServeOrder(k) \/ RefuseOrder(k)) /\ WF_updateVars(OrderDone(k) \/ OrderFailed(k))

-----------------------------------------------------------------------------
\* The page never loads itself anew while the host may still fail the update:
\* the version that answers has been verified, not only started.
ReloadedIsDone == reloaded = Newest /\ panelHost.inContainer => hostJob.phase = "complete"

\* Error messages are heard again once the dialog is gone, however it went.
ToastsAreHeard == ~overlay.on => ~muted

\* Whether the panel comes back or not, the blocking dialog ends: the page reloads, the dialog goes, or it says
\* that the update failed or took too long.
OverlayEnds == []<>(overlay.on => reloaded # -1 \/ overlay.timedOut)
=============================================================================
