---------------------------- MODULE ProbeRequests ----------------------------
(***************************************************************************)
(* The request pool of the status page and the load history its charts     *)
(* share (web/probe/glass-shared/services/request.service.ts,              *)
(* composables/loadRecords.ts and glass/src/hooks/useNodeLoadStats.ts).    *)
(*                                                                         *)
(* Callers of one key share a request; requests wait for a place in the    *)
(* pool, are tried again, and may be aborted while queued or active.  A    *)
(* card of the history waits for a permission, which may be refused, then  *)
(* starts or joins the shared load at once, and subscribes to the entry    *)
(* one render later; the load reads all servers' history, falls back to    *)
(* one server's when that fails, and is aborted when the last subscription *)
(* goes.  A card that goes between its load and its subscription releases  *)
(* nothing.  (Captain's own adapter answers that nobody is logged in, so   *)
(* on a stock panel every permission is refused.)                          *)
(***************************************************************************)
EXTENDS Naturals, Sequences, FiniteSets

CONSTANTS
  Cards,        \* components that read the shared history
  PoolSize,     \* REQUEST_CONFIG.pool.maxConcurrent
  RetryAttempts, \* REQUEST_CONFIG.retry.attempts
  MaxRequests,  \* requests made
  MaxBadAnswers \* attempts that fail or time out

ASSUME ProbeRequestsAssumption ==
  /\ IsFiniteSet(Cards) /\ PoolSize \in Nat \ {0}
  /\ {RetryAttempts, MaxRequests, MaxBadAnswers} \subseteq Nat

VARIABLES
  requests,     \* sequence of requests, with their key and state
  pendingOf,    \* RequestManager.pending: key -> request, 0 when absent
  waiting,      \* RequestManager.queue
  activeCount,  \* RequestManager.activeCount
  entry,        \* the shared entry, and whether a card that waited for its load
                \* has gone without having subscribed
  cards,        \* each card: how far it is and what it awaits
  badAnswers

requestVars == <<requests, pendingOf, waiting, activeCount, entry, cards, badAnswers>>

(* "all" is the shared history, "one" the history of a server, which the detail
   page reads too, "chart" a query of a chart. *)
RequestKeys == {"all", "one", "chart"}
CardIdle == [st |-> "off", awaits |-> 0, stage |-> "all"]

Live(i) == requests[i].st \in {"queued", "active"}
ActiveRequests == {i \in 1..Len(requests) : requests[i].st = "active"}
Subscribers == {c \in Cards : cards[c].st = "on"}

RequestTypeOK ==
  /\ requests \in Seq([key : RequestKeys, st : {"queued", "active", "ok", "error", "aborted"},
                       tries : 0..(RetryAttempts + 1)])
  /\ Len(requests) <= MaxRequests
  /\ pendingOf \in [RequestKeys -> 0..MaxRequests]
  /\ activeCount \in 0..PoolSize
  /\ entry \in [promise : 0..MaxRequests, node : 0..MaxRequests, data : {"none", "part", "all"},
                unavailable : BOOLEAN, skip : 0..1, timer : BOOLEAN, left : BOOLEAN]
  /\ cards \in [Cards -> [st : {"off", "asking", "refused", "granted", "on"}, awaits : 0..MaxRequests, stage : {"all", "one"}]]
  /\ badAnswers \in 0..MaxBadAnswers

(* ------------------------- request.service.ts ------------------------- *)

\* The pool as one value, so that several of its steps make one action.
Pool == [requests |-> requests, pending |-> pendingOf, queue |-> waiting, active |-> activeCount]

SetPool(p) ==
  /\ requests' = p.requests /\ pendingOf' = p.pending
  /\ waiting' = p.queue /\ activeCount' = p.active

(* drainQueue: while there is a place, the first in the queue starts. *)
DrainQueue(p) ==
  LET n == IF PoolSize - p.active < Len(p.queue) THEN PoolSize - p.active ELSE Len(p.queue)
      started == {p.queue[i] : i \in 1..n}
  IN [p EXCEPT !.queue = SubSeq(p.queue, n + 1, Len(p.queue)),
               !.active = @ + n,
               !.requests = [i \in 1..Len(p.requests) |->
                               IF i \in started THEN [p.requests[i] EXCEPT !.st = "active"]
                                                ELSE p.requests[i]]]

Run(p, k) ==
  LET id == Len(p.requests) + 1
  IN IF p.pending[k] # 0 THEN [pool |-> p, id |-> p.pending[k]]
     ELSE [pool |-> DrainQueue([p EXCEPT !.requests = Append(@, [key |-> k, st |-> "queued", tries |-> 0]),
                                         !.pending[k] = id,
                                         !.queue = Append(@, id)]),
           id |-> id]

\* Mutant: a request that ends gives its place back, and nobody takes it.
EndedWithoutDrain(p, i, outcome) ==
  LET wasActive == p.requests[i].st = "active"
  IN [p EXCEPT !.requests[i].st = outcome, !.requests[i].tries = 0,
               !.pending[p.requests[i].key] = 0,
               !.queue = SelectSeq(@, LAMBDA j : j # i),
               !.active = IF wasActive THEN @ - 1 ELSE @]

(* A request ends: its promise settles, the entry of its key is deleted,
   whoever holds it by then, and the place in the pool is given away. *)
Ended(p, i, outcome) ==
  LET wasActive == p.requests[i].st = "active"
  IN DrainQueue([p EXCEPT !.requests[i].st = outcome, !.requests[i].tries = 0,
                          !.pending[p.requests[i].key] = 0,
                          !.queue = SelectSeq(@, LAMBDA j : j # i),
                          !.active = IF wasActive THEN @ - 1 ELSE @])

Abort(p, k) == IF p.pending[k] = 0 THEN p ELSE Ended(p, p.pending[k], "aborted")

(* --------------------------- loadRecords.ts --------------------------- *)

(* loadSharedLoadRecords: nothing while the full load is known not to work,
   the promise in flight if there is one, else a request. *)
LoadShared(p, e, due) ==
  IF e.unavailable /\ ~due THEN [pool |-> p, entry |-> e, awaits |-> 0]
  ELSE IF e.promise # 0 THEN [pool |-> p, entry |-> e, awaits |-> e.promise]
  ELSE LET r == Run(p, "all")
       IN [pool |-> r.pool, entry |-> [e EXCEPT !.promise = r.id, !.left = FALSE], awaits |-> r.id]

(* loadNodeRecordsIntoEntry: one server's history, the same way. *)
LoadOne(p, e) ==
  IF e.node # 0 THEN [pool |-> p, entry |-> e, awaits |-> e.node]
  ELSE LET r == Run(p, "one")
       IN [pool |-> r.pool, entry |-> [e EXCEPT !.node = r.id], awaits |-> r.id]

(* A card's run, once it is permitted: it loads when there is no history, or an
   old one, and reads its own server when all cannot be read. *)
Joined(shared) ==
  LET needsOne == shared.awaits = 0
      one == LoadOne(shared.pool, shared.entry)
  IN IF needsOne THEN [pool |-> one.pool, entry |-> one.entry,
                       card |-> [CardIdle EXCEPT !.st = "granted", !.awaits = one.awaits, !.stage = "one"]]
     ELSE [pool |-> shared.pool, entry |-> shared.entry,
           card |-> [CardIdle EXCEPT !.st = "granted", !.awaits = shared.awaits]]

Loading(p, e, due) == Joined(LoadShared(p, e, due))

\* A card comes and asks for its permission.
Mount(c) ==
  /\ cards[c].st = "off"
  /\ cards' = [cards EXCEPT ![c].st = "asking"]
  /\ UNCHANGED <<requests, pendingOf, waiting, activeCount, entry, badAnswers>>

\* requireLoginPermission answers no: the card neither loads nor subscribes.
Refuse(c) ==
  /\ cards[c].st = "asking"
  /\ cards' = [cards EXCEPT ![c].st = "refused"]
  /\ UNCHANGED <<requests, pendingOf, waiting, activeCount, entry, badAnswers>>

\* It answers yes: the run goes on to the load, while the subscription waits for
\* the render that setRecordsAllowed asked for.
Permit(c) ==
  /\ cards[c].st = "asking" /\ Len(requests) < MaxRequests
  /\ \/ /\ entry.data = "all"      \* read recently: nothing to load
        /\ cards' = [cards EXCEPT ![c].st = "granted"]
        /\ UNCHANGED <<requests, pendingOf, waiting, activeCount, entry>>
     \/ \E due \in {TRUE, entry.skip = 0} :
          LET s == Loading(Pool, entry, due)
          IN SetPool(s.pool) /\ entry' = s.entry /\ cards' = [cards EXCEPT ![c] = s.card]
  /\ UNCHANGED badAnswers

\* retainSharedLoadRecordsEntry, in the effect of that render.
Subscribe(c) ==
  /\ cards[c].st = "granted"
  /\ cards' = [cards EXCEPT ![c].st = "on"]
  /\ entry' = [entry EXCEPT !.timer = TRUE]
  /\ UNCHANGED <<requests, pendingOf, waiting, activeCount, badAnswers>>

(* The last subscription goes: the timer stops and what the entry waits for is
   aborted; its promises reject, and are forgotten. *)
Released(p) ==
  LET all == Abort(p, "all")
  IN IF entry.node # 0 THEN Abort(all, "one") ELSE all

Forgotten(e) == [e EXCEPT !.promise = 0, !.node = 0, !.timer = FALSE, !.left = FALSE]

\* A card that waits for an aborted request, subscribed or not, fails with it.
Hears(p, card) ==
  IF card.awaits # 0 /\ p.requests[card.awaits].st = "aborted"
  THEN [card EXCEPT !.awaits = 0, !.stage = "all"] ELSE card

LeavesLoad(c) == cards[c].st = "granted" /\ cards[c].awaits # 0 /\ cards[c].awaits = entry.promise

Unmount(c) ==
  /\ cards[c].st # "off"
  /\ IF Subscribers = {c}
     THEN /\ SetPool(Released(Pool)) /\ entry' = Forgotten(entry)
          /\ cards' = [d \in Cards |-> IF d = c THEN CardIdle ELSE Hears(Released(Pool), cards[d])]
     ELSE /\ cards' = [cards EXCEPT ![c] = CardIdle]
          /\ entry' = [entry EXCEPT !.left = @ \/ LeavesLoad(c)]
          /\ UNCHANGED <<requests, pendingOf, waiting, activeCount>>
  /\ UNCHANGED badAnswers

(* The last subscriber goes, and the permission of another card is there before
   the aborted promises are forgotten: that card may join one, and fails with
   it. *)
Swap(c, d) ==
  /\ Subscribers = {c} /\ cards[d].st \in {"off", "asking"} /\ Len(requests) < MaxRequests
  /\ \E due \in {TRUE, entry.skip = 0} :
       LET s == Loading(Released(Pool), [entry EXCEPT !.timer = FALSE], due)
           dead(i) == i # 0 /\ s.pool.requests[i].st = "aborted"
       IN /\ SetPool(s.pool)
          /\ entry' = [s.entry EXCEPT !.promise = IF dead(@) THEN 0 ELSE @, !.left = FALSE,
                                      !.node = IF dead(@) THEN 0 ELSE @]
          /\ cards' = [x \in Cards |-> CASE x = c -> CardIdle
                                        [] x = d -> Hears(s.pool, s.card)
                                        [] OTHER -> Hears(s.pool, cards[x])]
  /\ UNCHANGED badAnswers

(* The last card goes and the detail page asks for the same server in the same
   task: the rejection of the aborted request then deletes the entry of the new
   one, which nobody can share or abort any more. *)
LeaveForDetail(c) ==
  /\ Subscribers = {c} /\ entry.node # 0 /\ Len(requests) < MaxRequests
  /\ LET r == Run(Released(Pool), "one")
     IN SetPool([r.pool EXCEPT !.pending["one"] = 0])
  /\ entry' = Forgotten(entry)
  /\ cards' = [d \in Cards |-> IF d = c THEN CardIdle ELSE Hears(Released(Pool), cards[d])]
  /\ UNCHANGED badAnswers

(* The interval of the entry.  The retry of an unavailable full load is due one
   interval after it failed, so the first tick after the failure is early. *)
RefreshTick ==
  /\ entry.timer /\ Len(requests) < MaxRequests
  /\ LET s == LoadShared(Pool, entry, entry.skip = 0)
     IN SetPool(s.pool) /\ entry' = [s.entry EXCEPT !.skip = 0]
  /\ entry.promise = 0
  /\ UNCHANGED <<cards, badAnswers>>

(* The detail page and the charts ask through the pool, with keys of their own
   or the one the entry uses for a server. *)
AskElsewhere ==
  /\ Len(requests) < MaxRequests
  /\ \E k \in {"one", "chart"} :
       /\ pendingOf[k] = 0
       /\ SetPool(Run(Pool, k).pool)
  /\ UNCHANGED <<entry, cards, badAnswers>>

(* --------------------------- attempts and answers --------------------------- *)

(* Cards that awaited request i go on: those of the shared load read their own
   server if it turned out unavailable. *)
CardsAfter(i, outcome, one) ==
  [c \in Cards |->
     IF cards[c].awaits # i THEN cards[c]
     ELSE IF cards[c].stage = "all" /\ outcome = "error"
          THEN [cards[c] EXCEPT !.awaits = one, !.stage = "one"]
     ELSE [cards[c] EXCEPT !.awaits = 0, !.stage = "all"]]

EntryAfter(i, outcome) ==
  IF entry.promise = i
  THEN [entry EXCEPT !.promise = 0, !.left = FALSE,
                     !.data = IF outcome = "ok" THEN "all" ELSE @,
                     !.unavailable = (outcome # "ok"),
                     !.skip = IF outcome = "ok" THEN 0 ELSE 1]
  ELSE IF entry.node = i
  THEN [entry EXCEPT !.node = 0, !.data = IF outcome = "ok" /\ @ = "none" THEN "part" ELSE @]
  ELSE entry

Answer(i) ==
  /\ requests[i].st = "active"
  /\ SetPool(Ended(Pool, i, "ok"))
  /\ entry' = EntryAfter(i, "ok")
  /\ cards' = CardsAfter(i, "ok", 0)
  /\ UNCHANGED badAnswers

(* The attempt fails or times out; another follows while there are some left. *)
TryAgain(i) ==
  /\ requests[i].st = "active" /\ requests[i].tries < RetryAttempts /\ badAnswers < MaxBadAnswers
  /\ requests' = [requests EXCEPT ![i].tries = @ + 1]
  /\ badAnswers' = badAnswers + 1
  /\ UNCHANGED <<pendingOf, waiting, activeCount, entry, cards>>

(* The last attempt fails, or the error is one not worth another. *)
GiveUp(i) ==
  /\ requests[i].st = "active" /\ badAnswers < MaxBadAnswers
  /\ badAnswers' = badAnswers + 1
  /\ LET ended == Ended(Pool, i, "error")
         after == EntryAfter(i, "error")
         fallsBack == \E c \in Cards : cards[c].awaits = i /\ cards[c].stage = "all"
         one == LoadOne(ended, after)
     IN IF fallsBack
        THEN /\ Len(requests) < MaxRequests
             /\ SetPool(one.pool) /\ entry' = one.entry /\ cards' = CardsAfter(i, "error", one.awaits)
        ELSE SetPool(ended) /\ entry' = after /\ cards' = CardsAfter(i, "error", 0)

RequestInit ==
  /\ requests = <<>> /\ pendingOf = [k \in RequestKeys |-> 0] /\ waiting = <<>> /\ activeCount = 0
  /\ entry = [promise |-> 0, node |-> 0, data |-> "none", unavailable |-> FALSE, skip |-> 0, timer |-> FALSE,
              left |-> FALSE]
  /\ cards = [c \in Cards |-> CardIdle]
  /\ badAnswers = 0

RequestNext ==
  \/ \E c \in Cards : Mount(c) \/ Refuse(c) \/ Permit(c) \/ Subscribe(c) \/ Unmount(c) \/ LeaveForDetail(c)
  \/ \E c, d \in Cards : Swap(c, d)
  \/ RefreshTick \/ AskElsewhere
  \/ \E i \in 1..Len(requests) : Answer(i) \/ TryAgain(i) \/ GiveUp(i)

(* Every attempt ends: the timeout sees to it. *)
RequestFairness == \A i \in 1..MaxRequests : WF_requestVars(i \in DOMAIN requests /\ Answer(i))

RequestSpec == RequestInit /\ [][RequestNext]_requestVars /\ RequestFairness

(* ------------------------------ properties ------------------------------ *)

(* The pool counts the requests that run, never lets more run than it has
   places, and leaves no place empty while a request waits, through retries,
   aborts of queued and of active requests and failures. *)
PoolIsUsed ==
  /\ activeCount = Cardinality(ActiveRequests) /\ activeCount <= PoolSize
  /\ waiting # <<>> => activeCount = PoolSize

(* The shared history is asked for once at a time however many cards read it.
   Once the last subscription is gone nothing asks for it again, and a load that
   still runs is one that a card started or joined ahead of its subscription:
   the card is about to subscribe, or has gone without having done so, which
   nobody aborts. *)
SharedLoadIsShared ==
  LET shared == {i \in 1..Len(requests) : requests[i].key = "all" /\ Live(i)}
  IN /\ Cardinality(shared) <= 1
     /\ \A i \in shared : entry.promise = i
     /\ Subscribers = {} =>
          /\ ~entry.timer
          /\ \A i \in shared : entry.left \/ \E c \in Cards : cards[c].st = "granted" /\ cards[c].awaits = i

(* A card that waits hears of the end of the request it waits for, by an answer,
   an error or the request of its own server that follows. *)
CardsHear == \A c \in Cards : []<>(cards[c].awaits = 0)
==============================================================================
