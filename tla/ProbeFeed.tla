------------------------------ MODULE ProbeFeed ------------------------------
(***************************************************************************)
(* The polling loop of the public status page and the store it fills       *)
(* (web/probe/glass/src/utils/init.ts, web/probe/glass/src/stores/nodes.ts *)
(* and web/probe/glass-shared/captain.ts).                                 *)
(*                                                                         *)
(* Each refresh aborts the request before it, applies what it reads to the *)
(* snapshot and to the node list, and arms the timer of the next one.  An  *)
(* aborted refresh arms a timer too, over the handle of the one that is    *)
(* kept, so a retry during a request leaves a second chain behind.  The    *)
(* rejection of an aborted request runs before the next event, hence in    *)
(* the step that aborts it.                                                *)
(***************************************************************************)
EXTENDS Naturals, Sequences, FiniteSets, SequencesExt

CONSTANTS
  ProbeNodes,   \* identifiers of servers, natural numbers
  MaxWorlds,    \* changes of what the service publishes
  MaxRetries,   \* retries: the button, or a change of the system's colours
  MaxBreaks     \* requests that fail

ASSUME ProbeFeedAssumption ==
  /\ ProbeNodes \subseteq Nat /\ IsFiniteSet(ProbeNodes)
  /\ {MaxWorlds, MaxRetries, MaxBreaks} \subseteq Nat

VARIABLES
  published,    \* what GET /api/probe answers now
  page,         \* "open", "left" for another theme's bundle, or "closed"
  snap,         \* captain.ts: snapshot.value
  nodeList,     \* nodes.ts: raw.nodes
  poll,         \* the refresh in flight
  feedTimers,   \* timers armed: id, and whether armed during this request
  handle,       \* init.ts: timer
  broken,       \* app.ts: connectionError
  retried, breaks

feedVars == <<published, page, snap, nodeList, poll, feedTimers, handle, broken,
              retried, breaks>>

NoSnapshot == [at |-> 0, order |-> <<>>, shape |-> "none"]
NoPoll == [state |-> "none", by |-> "poll", answer |-> NoSnapshot]

Orders == {<<>>} \cup UNION {SetToSeqs(s) : s \in SUBSET ProbeNodes}
TimerIds == 1..(2 + MaxRetries)

FeedTypeOK ==
  /\ published \in [at : 1..(1 + MaxWorlds), order : Orders,
                    shape : {"plain", "fuller", "other"}, refusing : BOOLEAN]
  /\ page \in {"open", "left", "closed"}
  /\ snap.at \in 0..(1 + MaxWorlds)
  /\ poll.state \in {"none", "sent", "answered", "failed", "refused"}
  /\ feedTimers \in SUBSET [id : TimerIds, late : BOOLEAN]
  /\ handle \in {0} \cup TimerIds
  /\ broken \in BOOLEAN /\ retried \in 0..MaxRetries /\ breaks \in 0..MaxBreaks

(* -------------------------------- the store -------------------------------- *)

Weight(s, n) == CHOOSE i \in 1..Len(s.order) : s.order[i] = n
Listed(s) == {s.order[i] : i \in 1..Len(s.order)}

sortByWeight(list) == SortSeq(list, LAMBDA a, b : a.weight < b.weight)

CreateNodeFromClient(s, n) == [id |-> n, weight |-> Weight(s, n), status |-> 0, patch |-> 0]

(* The clients of a snapshot are an object keyed by number: JavaScript
   enumerates such keys in ascending order, whatever their weights. *)
AscendingIds(ids) == SetToSortSeq(ids, LAMBDA a, b : a < b)

\* Mutant: the list is sorted only when a server appears or disappears.
SortOnChangeOnly(list, s) ==
  LET kept == SelectSeq(list, LAMBDA e : e.id \in Listed(s))
      updated == [i \in 1..Len(kept) |-> [kept[i] EXCEPT !.weight = Weight(s, kept[i].id)]]
      new == AscendingIds(Listed(s) \ {list[i].id : i \in 1..Len(list)})
      next == updated \o [i \in 1..Len(new) |-> CreateNodeFromClient(s, new[i])]
  IN IF Len(kept) = Len(list) /\ new = <<>> THEN next ELSE sortByWeight(next)

updateNodeClients(list, s) ==
  LET kept == SelectSeq(list, LAMBDA e : e.id \in Listed(s))
      updated == [i \in 1..Len(kept) |-> [kept[i] EXCEPT !.weight = Weight(s, kept[i].id)]]
      new == AscendingIds(Listed(s) \ {list[i].id : i \in 1..Len(list)})
      next == updated \o [i \in 1..Len(new) |-> CreateNodeFromClient(s, new[i])]
      needSort == \/ Len(kept) # Len(list)
                  \/ new # <<>>
                  \/ \E i \in 1..Len(kept) : kept[i].weight # updated[i].weight
  IN IF needSort THEN sortByWeight(next) ELSE next

updateNodeStatuses(list, s) ==
  [i \in 1..Len(list) |-> IF list[i].id \in Listed(s) THEN [list[i] EXCEPT !.status = s.at] ELSE list[i]]

patchNodes(list, s) ==
  [i \in 1..Len(list) |-> IF list[i].id \in Listed(s) THEN [list[i] EXCEPT !.patch = s.at] ELSE list[i]]

(* ------------------------------- the refresh ------------------------------- *)

TimerId(timers) == CHOOSE i \in TimerIds : \A t \in timers : t.id # i

(* The finally block: a refresh that ends, aborted or not, arms a timer and
   overwrites the handle, unless the page has been closed. *)
ArmTimer(timers, late) ==
  IF page = "open" THEN timers \cup {[id |-> TimerId(timers), late |-> late]} ELSE timers
Armed(timers) == IF page = "open" THEN TimerId(timers) ELSE handle

(* refresh(): the request in flight is aborted, and arms a timer that cannot
   be due before this request ends; the others may be. *)
RefreshFeed(timers, by) ==
  LET aged == {[t EXCEPT !.late = FALSE] : t \in timers}
      aborted == poll.state # "none"
  IN /\ poll' = [state |-> "sent", by |-> by, answer |-> NoSnapshot]
     /\ feedTimers' = IF aborted THEN ArmTimer(aged, TRUE) ELSE aged
     /\ handle' = IF aborted THEN Armed(aged) ELSE handle

ServePoll ==
  /\ poll.state = "sent"
  /\ poll' = [poll EXCEPT !.state = IF published.refusing THEN "refused" ELSE "answered",
                          !.answer = IF published.refusing THEN NoSnapshot
                                     ELSE [at |-> published.at, order |-> published.order,
                                           shape |-> published.shape]]
  /\ UNCHANGED <<published, page, snap, nodeList, feedTimers, handle, broken, retried, breaks>>

(* No answer within 15 seconds, a lost connection, or a status that is not 2xx. *)
BreakPoll ==
  /\ poll.state \in {"sent", "answered"} /\ breaks < MaxBreaks
  /\ poll' = [poll EXCEPT !.state = "failed"]
  /\ breaks' = breaks + 1
  /\ UNCHANGED <<published, page, snap, nodeList, feedTimers, handle, broken, retried>>

SettleRead ==
  /\ poll' = NoPoll
  /\ feedTimers' = ArmTimer(feedTimers, FALSE)
  /\ handle' = Armed(feedTimers)

(* The page was closed while the request was out: nothing is applied. *)
LandStopped ==
  /\ poll.state \in {"answered", "failed", "refused"} /\ page # "open"
  /\ SettleRead
  /\ UNCHANGED <<published, page, snap, nodeList, broken, retried, breaks>>

MustReload(s) == snap # NoSnapshot /\ (s.shape = "other" \/ s.shape # snap.shape)

LandAnswer ==
  /\ poll.state = "answered" /\ page = "open" /\ ~MustReload(poll.answer)
  /\ snap' = poll.answer
  /\ nodeList' = patchNodes(updateNodeStatuses(updateNodeClients(nodeList, poll.answer),
                                              poll.answer), poll.answer)
  /\ broken' = FALSE
  /\ SettleRead
  /\ UNCHANGED <<published, page, retried, breaks>>

(* The sections published, or the theme, changed: the page is loaded again, by
   this bundle or by another theme's. *)
LandReload ==
  /\ poll.state = "answered" /\ page = "open" /\ MustReload(poll.answer)
  /\ page' = IF published.shape = "other" THEN "left" ELSE "open"
  /\ snap' = NoSnapshot /\ nodeList' = <<>> /\ broken' = FALSE
  /\ poll' = IF published.shape = "other" THEN NoPoll ELSE [NoPoll EXCEPT !.state = "sent"]
  /\ feedTimers' = {} /\ handle' = 0
  /\ UNCHANGED <<published, retried, breaks>>

LandFailure ==
  /\ poll.state \in {"failed", "refused"} /\ page = "open"
  /\ broken' = TRUE
  /\ snap' = IF poll.state = "refused" THEN NoSnapshot ELSE snap
  /\ nodeList' = IF poll.state = "refused" THEN <<>> ELSE nodeList
  /\ SettleRead
  /\ UNCHANGED <<published, page, retried, breaks>>

(* --------------------------- timers, retries, page --------------------------- *)

(* A timer waits five seconds at least; one armed during a request is assumed
   not to be due before that request is answered. *)
Fire ==
  \E t \in feedTimers :
    /\ poll.state # "none" => ~t.late
    /\ RefreshFeed(feedTimers \ {t}, "poll")
    /\ UNCHANGED <<published, page, snap, nodeList, broken, retried, breaks>>

(* The retry button of the connection alert, shown and enabled, or the system
   changing its colours under an automatic scheme. *)
Retry ==
  \E by \in {"button", "system"} :
    /\ page = "open" /\ retried < MaxRetries
    /\ by = "button" => broken /\ ~(poll.state # "none" /\ poll.by = "button")
    /\ by = "system" => snap # NoSnapshot
    /\ retried' = retried + 1
    /\ RefreshFeed({t \in feedTimers : t.id # handle}, by)
    /\ UNCHANGED <<published, page, snap, nodeList, broken, breaks>>

ClosePage ==
  /\ page = "open"
  /\ page' = "closed"
  /\ poll' = NoPoll
  /\ feedTimers' = {t \in feedTimers : t.id # handle}
  /\ UNCHANGED <<published, snap, nodeList, handle, broken, retried, breaks>>

(* Servers are added, removed and reordered, sections published, the theme
   changed, the page withdrawn. *)
Publish ==
  /\ published.at <= MaxWorlds
  /\ \E order \in Orders, shape \in {"plain", "fuller", "other"}, refusing \in BOOLEAN :
       published' = [at |-> published.at + 1, order |-> order, shape |-> shape, refusing |-> refusing]
  /\ UNCHANGED <<page, snap, nodeList, poll, feedTimers, handle, broken, retried, breaks>>

FeedInit ==
  /\ published \in [at : {1}, order : Orders, shape : {"plain"}, refusing : {FALSE}]
  /\ page = "open" /\ snap = NoSnapshot /\ nodeList = <<>>
  /\ poll = [NoPoll EXCEPT !.state = "sent"]
  /\ feedTimers = {} /\ handle = 0 /\ broken = FALSE /\ retried = 0 /\ breaks = 0

FeedNext ==
  \/ ServePoll \/ BreakPoll \/ LandStopped \/ LandAnswer \/ LandReload \/ LandFailure
  \/ Fire \/ Retry \/ ClosePage \/ Publish

(* The service answers, the browser runs what has arrived and fires timers. *)
FeedFairness ==
  /\ WF_feedVars(ServePoll)
  /\ WF_feedVars(LandStopped \/ LandAnswer \/ LandReload \/ LandFailure)
  /\ WF_feedVars(Fire)

FeedSpec == FeedInit /\ [][FeedNext]_feedVars /\ FeedFairness

(* -------------------------------- properties -------------------------------- *)

(* The list the page draws is the snapshot's: the same servers, in its order,
   each with its status and its figures, however servers came, went and moved
   between snapshots (nodes.ts updates the list it has, and sorts only when it
   sees a reason to). *)
StoreIsTheSnapshot ==
  /\ [i \in 1..Len(nodeList) |-> nodeList[i].id] = snap.order
  /\ \A i \in 1..Len(nodeList) : nodeList[i].status = snap.at /\ nodeList[i].patch = snap.at

(* What is shown never goes back to something published earlier, with several
   chains of requests running, and nothing changes once the page is closed. *)
FeedNeverGoesBack ==
  [][/\ snap # NoSnapshot /\ snap' # NoSnapshot => snap'.at >= snap.at
     /\ page = "closed" => UNCHANGED <<snap, nodeList>>]_feedVars

ShouldShow ==
  IF published.refusing THEN snap = NoSnapshot ELSE snap.at = published.at /\ snap.shape = published.shape

(* An open page goes on showing what is published now, and stops showing
   anything when the page has been withdrawn. *)
FeedCatchesUp == []<>(page # "open" \/ ShouldShow)
==============================================================================
