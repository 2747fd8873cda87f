---------------------------- MODULE DiagnosticView ----------------------------
(***************************************************************************)
(* The live diagnostics of a server as one browser tab shows them: a       *)
(* DiagnosticSession that owns at most one lease, the LiveSampleWindow of  *)
(* the lease, the requests on the wire, and the side of the API that hands *)
(* out leases and samples.  Requests are answered in any order, or not at  *)
(* all; a release sent before its lease exists leaves a tombstone, so that *)
(* a create overtaken by it is refused.  The order in which the lease's    *)
(* time to live, the renewals and the ten seconds of a request end is left *)
(* open: each may come first.                                              *)
(***************************************************************************)
EXTENDS Integers, FiniteSets

CONSTANTS
  MaxLeases,     \* leases a tab asks for, one after the other
  MaxRenewals,   \* renewals of one lease
  MaxSamples,    \* samples of one epoch
  MaxMishaps     \* times the reader hides the tab or presses stop, calls that are lost or take
                 \* too long, leases that expire, sampling processes taken over by another

ASSUME DiagnosticBounds ==
  {MaxLeases, MaxRenewals, MaxSamples, MaxMishaps} \subseteq Nat

VARIABLES
  tab,     \* the session and its component: generation, phase, lease, timers, data, wishes
  window,  \* LiveSampleWindow: lease, epoch, samples and cursor
  calls,   \* the requests on the wire
  leases,  \* the server: leases alive and released, epoch and samples
  spent    \* the mishaps so far, and the leases whose release was lost

diagnosticVars == <<tab, window, calls, leases, spent>>

NoLease == 0
NoData == [lease |-> NoLease, epoch |-> 0, samples |-> {}]
NoView == [epoch |-> 0, samples |-> {}, latest |-> 0]
LatestSample(samples) == IF samples = {} THEN 0 ELSE CHOOSE s \in samples : \A x \in samples : x <= s

-----------------------------------------------------------------------------
(* LiveSampleWindow.                                                        *)
WindowOpen(id) == [lease |-> id, epoch |-> 0, samples |-> {}, after |-> 0]

WindowClose(id, w) == IF w.lease = id THEN WindowOpen(NoLease) ELSE w

\* mergeLiveSamples: what is kept is of the answer's epoch.
MergeLiveSamples(w, view) == (IF w.epoch = view.epoch THEN w.samples ELSE {}) \cup view.samples

\* accept: an answer for another lease changes nothing, and the cursor of a new
\* epoch starts over unless the answer already has samples.
WindowAccept(id, w, view) ==
  IF w.lease # id THEN w
  ELSE [w EXCEPT !.samples = MergeLiveSamples(w, view),
                 !.after = IF w.epoch # view.epoch /\ view.samples = {} THEN 0 ELSE view.latest,
                 !.epoch = view.epoch]

-----------------------------------------------------------------------------
(* DiagnosticSession, and the calls it sends.                               *)
Call(kind, id, gen) ==
  [kind |-> kind, id |-> id, gen |-> gen, after |-> IF kind = "read" THEN window.after ELSE 0,
   at |-> "sent", heard |-> TRUE, view |-> NoView]

\* A release is sent with keepalive and nobody waits for its answer; a second
\* release of a lease is a call of its own.
Release(id, why) ==
  IF id = NoLease THEN {}
  ELSE {[kind |-> "release", id |-> id, gen |-> 0, after |-> 0, at |-> why, heard |-> FALSE, view |-> NoView]}

\* stop: a new generation, no timers, the requests aborted, the lease released.
Stopped(phase) ==
  [tab EXCEPT !.gen = @ + 1, !.phase = phase, !.lease = NoLease, !.due = {}, !.data = NoData, !.renewals = 0]

Stop(then) ==
  /\ tab' = then
  /\ window' = WindowClose(tab.lease, window)
  /\ calls' = calls \cup Release(tab.lease, "sent")

\* start, which begins with a stop.
Start ==
  /\ tab.ids < MaxLeases
  /\ tab' = [Stopped("starting") EXCEPT !.ids = @ + 1, !.lease = tab.ids + 1, !.wanted = TRUE,
                                        !.failed = FALSE, !.visible = TRUE]
  /\ window' = WindowOpen(tab.ids + 1)
  /\ calls' = calls \cup Release(tab.lease, "sent") \cup {Call("create", tab.ids + 1, tab.gen + 1)}

\* sync, offline or hidden, and the page going away; the stop button.
Hide ==
  /\ tab.visible /\ spent.mishaps < MaxMishaps
  /\ Stop([Stopped("idle") EXCEPT !.visible = FALSE])
  /\ spent' = [spent EXCEPT !.mishaps = @ + 1] /\ UNCHANGED leases

PressStop ==
  /\ tab.phase \in {"starting", "active"} /\ spent.mishaps < MaxMishaps
  /\ Stop([Stopped("idle") EXCEPT !.wanted = FALSE])
  /\ spent' = [spent EXCEPT !.mishaps = @ + 1] /\ UNCHANGED leases

\* sync, shown again: starts what is wanted and has not failed; the start button.
Show ==
  /\ ~tab.visible
  /\ \/ tab.wanted /\ ~tab.failed /\ Start
     \/ ~(tab.wanted /\ ~tab.failed) /\ tab' = [tab EXCEPT !.visible = TRUE] /\ UNCHANGED <<window, calls>>
  /\ UNCHANGED <<leases, spent>>

PressStart ==
  /\ tab.visible /\ tab.phase \in {"idle", "error"}
  /\ Start
  /\ UNCHANGED <<leases, spent>>

\* A timer of the session: the next renewal, the next poll.
Due(kind) ==
  /\ kind \in tab.due
  /\ kind = "renew" => tab.renewals < MaxRenewals
  /\ tab' = [tab EXCEPT !.due = @ \ {kind}, !.renewals = @ + IF kind = "renew" THEN 1 ELSE 0]
  /\ calls' = calls \cup {Call(kind, tab.lease, tab.gen)}
  /\ UNCHANGED <<window, leases, spent>>

\* An answer of this generation is adopted.
Adopted(c) ==
  CASE c.kind = "create" -> [tab EXCEPT !.phase = "active", !.due = {"renew", "read"}]
    [] c.kind = "renew"  -> [tab EXCEPT !.due = @ \cup {"renew"}]
    [] c.kind = "read"   -> [tab EXCEPT !.due = @ \cup {"read"},
                               !.data = [lease |-> c.id, epoch |-> c.view.epoch, samples |-> window'.samples]]

\* An answer of an older one is not, and its lease is released again.
Answered(c) ==
  /\ c.heard /\ c.at = "granted"
  /\ window' = IF c.kind = "read" THEN WindowAccept(c.id, window, c.view)
               ELSE IF c.gen # tab.gen THEN WindowClose(c.id, window) ELSE window
  /\ tab' = IF c.gen = tab.gen THEN Adopted(c) ELSE tab
  /\ calls' = (calls \ {c}) \cup IF c.gen # tab.gen /\ c.kind # "read" THEN Release(c.id, "again") ELSE {}
  /\ UNCHANGED <<leases, spent>>

\* A call that was refused, lost or aborted, or took ten seconds, fails the session of
\* its generation; an older renewal is released again.  What may still
\* change the server stays on the wire.
Rejected(c) ==
  /\ c.heard
  /\ c.at \in {"refused", "lost"} \/ c.gen # tab.gen \/ spent.mishaps < MaxMishaps
  /\ LET left == (calls \ {c}) \cup IF c.at = "sent" /\ c.kind # "read" THEN {[c EXCEPT !.heard = FALSE]} ELSE {}
     IN  \/ /\ c.gen = tab.gen
            /\ tab' = [Stopped("error") EXCEPT !.failed = TRUE]
            /\ window' = WindowClose(tab.lease, window)
            /\ calls' = left \cup Release(tab.lease, "sent")
         \/ /\ c.gen # tab.gen
            /\ calls' = left \cup IF c.kind = "renew" THEN Release(c.id, "again") ELSE {}
            /\ UNCHANGED <<tab, window>>
  /\ spent' = [spent EXCEPT !.mishaps = @ + IF c.gen = tab.gen /\ c.at \in {"sent", "granted"} THEN 1 ELSE 0]
  /\ UNCHANGED leases

-----------------------------------------------------------------------------
(* The server's side (service/diagnostics.go), and the wire.                *)

\* updateRunning: the first viewer and the last one start an epoch.
Viewers(live) ==
  [leases EXCEPT !.live = live,
                 !.epoch = IF (live = {}) # (leases.live = {}) THEN @ + 1 ELSE @,
                 !.samples = IF (live = {}) # (leases.live = {}) THEN {} ELSE @]

\* Mutant: no tombstones.
GrantedWithoutTombstone(c) == c.kind = "renew" => c.id \in leases.live

\* Lease: a released lease stays released, a renewal needs a live one.
LeaseGranted(c) ==
  /\ c.id \notin leases.released
  /\ c.kind = "renew" => c.id \in leases.live

\* Release, of a lease that may not exist yet.
LeaseReleased(c) == [Viewers(leases.live \ {c.id}) EXCEPT !.released = @ \cup {c.id}]

\* Snapshot: the samples after the caller's cursor; "expired" is a refusal to the tab.
LeaseSnapshot(c) == [epoch |-> leases.epoch, samples |-> {s \in leases.samples : s > c.after},
                latest |-> LatestSample(leases.samples)]

Result(c, at, view) ==
  (calls \ {c}) \cup IF c.heard THEN {[c EXCEPT !.at = at, !.view = view]} ELSE {}

Serve(c) ==
  /\ c.at = "sent" \/ c.kind = "release"
  /\ \/ /\ c.kind \in {"create", "renew"} /\ LeaseGranted(c)
        /\ leases' = Viewers(leases.live \cup {c.id}) /\ calls' = Result(c, "granted", NoView)
     \/ /\ c.kind \in {"create", "renew"} /\ ~LeaseGranted(c)
        /\ calls' = Result(c, "refused", NoView) /\ UNCHANGED leases
     \/ /\ c.kind = "read" /\ c.id \in leases.live
        /\ calls' = Result(c, "granted", LeaseSnapshot(c)) /\ UNCHANGED leases
     \/ /\ c.kind = "read" /\ c.id \notin leases.live
        /\ calls' = Result(c, "refused", NoView) /\ UNCHANGED leases
     \/ c.kind = "release" /\ leases' = LeaseReleased(c) /\ calls' = calls \ {c}
  /\ UNCHANGED <<tab, window, spent>>

\* A call that never arrives, or whose answer does not; to the tab a create that
\* the limits on viewers refuse is the same.
Drop(c) ==
  /\ spent.mishaps < MaxMishaps /\ c.at # "lost" /\ c.at # "refused"
  /\ calls' = Result(c, "lost", NoView)
  /\ spent' = [spent EXCEPT !.mishaps = @ + 1, !.releases = @ \cup IF c.kind = "release" THEN {c.id} ELSE {}]
  /\ UNCHANGED <<tab, window, leases>>

\* The time to live of a lease, another sampling process, a sample.
LeaseExpires(id) ==
  /\ spent.mishaps < MaxMishaps
  /\ leases' = Viewers(leases.live \ {id})
  /\ spent' = [spent EXCEPT !.mishaps = @ + 1]
  /\ UNCHANGED <<tab, window, calls>>

TakeOver ==
  /\ spent.mishaps < MaxMishaps /\ leases.live # {}
  /\ leases' = [leases EXCEPT !.epoch = @ + 1, !.samples = {}]
  /\ spent' = [spent EXCEPT !.mishaps = @ + 1]
  /\ UNCHANGED <<tab, window, calls>>

Sample ==
  /\ leases.live # {} /\ Cardinality(leases.samples) < MaxSamples
  /\ leases' = [leases EXCEPT !.samples = @ \cup {LatestSample(@) + 1}]
  /\ UNCHANGED <<tab, window, calls, spent>>

-----------------------------------------------------------------------------
DiagnosticInit ==
  /\ tab = [gen |-> 1, phase |-> "idle", lease |-> NoLease, ids |-> 0, due |-> {}, data |-> NoData,
            renewals |-> 0, wanted |-> TRUE, failed |-> FALSE, visible |-> FALSE]
  /\ window = WindowOpen(NoLease)
  /\ calls = {}
  /\ leases = [live |-> {}, released |-> {}, epoch |-> 1, samples |-> {}]
  /\ spent = [mishaps |-> 0, releases |-> {}]

DiagnosticNext ==
  \/ Hide \/ Show \/ PressStart \/ PressStop
  \/ \E kind \in {"renew", "read"} : Due(kind)
  \/ \E c \in calls : Answered(c) \/ Rejected(c) \/ Serve(c) \/ Drop(c)
  \/ \E id \in leases.live : LeaseExpires(id)
  \/ TakeOver \/ Sample

\* The browser's timers fire and the answers that arrive are handled; a call on
\* the wire reaches the server unless it is lost.
DiagnosticFairness ==
  /\ WF_diagnosticVars(Due("read"))
  /\ WF_diagnosticVars(\E c \in calls : Answered(c))
  /\ WF_diagnosticVars(\E c \in calls : c.at \in {"refused", "lost"} /\ Rejected(c))
  /\ \A id \in 1..MaxLeases : WF_diagnosticVars(\E c \in calls : c.id = id /\ c.kind \in {"create", "read", "release"} /\ Serve(c))

-----------------------------------------------------------------------------
(* Properties.                                                              *)

\* What the tab shows was read under the lease it now holds, and the samples are
\* those of one epoch, whatever answers arrived late.
ShownUnderTheLease ==
  /\ tab.data # NoData => tab.phase = "active" /\ tab.data.lease = tab.lease
  /\ window.lease \in {NoLease, tab.lease}
  /\ \A s \in tab.data.samples : tab.data.epoch = leases.epoch => s \in leases.samples

\* A lease the tab has given up is not kept alive by a create or a renewal that
\* was overtaken by its release: it is released, or about to be, unless the wire
\* lost the release (then its time to live ends it).
NoLeaseForgotten ==
  \A id \in leases.live :
    \/ id = tab.lease \/ id \in spent.releases
    \/ \E c \in calls : c.id = id /\ c.kind = "release"

\* A tab that stays active catches up with the newest sample, also after another
\* sampling process started counting from one.
CatchesUp ==
  []<>(\/ tab.phase # "active" \/ tab.lease \notin leases.live \/ leases.samples = {}
       \/ tab.data.epoch = leases.epoch /\ LatestSample(leases.samples) \in tab.data.samples)
=============================================================================
