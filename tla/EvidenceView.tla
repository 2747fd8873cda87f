----------------------------- MODULE EvidenceView -----------------------------
(***************************************************************************)
(* A page that says of a server, a line or an entry that something is so   *)
(* NOW: the configuration is applied, the path is up, the service is       *)
(* healthy.  The server's evidence has a lifetime, the browser only has    *)
(* clocks: a monotonic one that may stand still while the machine sleeps,  *)
(* and a wall clock that may be set back.  What one page does differently  *)
(* from the next is its profile (below):                                   *)
(*                                                                         *)
(*   method  deadlines   two deadlines, from the clocks at the request     *)
(*           elapsed     the longest of the elapsed times, the receipt's   *)
(*                       included                                          *)
(*           generation  the same, and a clock seen going back ends it     *)
(*           bounded     a fixed lifetime from the request on both clocks  *)
(*           stamp       the server's time stamp against the wall clock    *)
(*   now     "state" the clocks of the last tick, "render" read again      *)
(*   bound   the evidence names the saved revision it is about             *)
(*   discard evidence found too old is thrown away at the next tick        *)
(*   online  the page listens for the browser going offline                *)
(*   ahead   a stamp a little ahead of the wall clock is taken for current *)
(***************************************************************************)
EXTENDS Integers

CONSTANTS
  EvidenceProfiles,  \* the profiles of the pages
  Lifetime,          \* how long evidence holds
  MaxAhead,          \* how far ahead such a stamp may be
  MaxTime,           \* real time that passes
  MaxBack,           \* how far the wall clock is set back, once
  MaxSaves,          \* saves of the configuration the evidence is about
  MaxLost,           \* requests that fail
  MaxAsks            \* requests

ASSUME EvidenceBounds == Lifetime \in Nat \ {0} /\ {MaxAhead, MaxTime, MaxBack, MaxSaves, MaxLost, MaxAsks} \subseteq Nat

\* A page that counts generations reads its clock whenever it renders.
ASSUME EvidencePages ==
  /\ EvidenceProfiles \subseteq [method : {"deadlines", "elapsed", "generation", "bounded", "stamp"},
                                now : {"state", "render"}, bound : BOOLEAN, discard : BOOLEAN, online : BOOLEAN, ahead : BOOLEAN]
  /\ \A p \in EvidenceProfiles : p.method = "generation" => p.now = "render"

VARIABLES
  page,      \* the profile of the page
  clocks,    \* real time, the monotonic clock and the wall clock
  ticked,    \* the clocks at the last tick of the page
  reading,   \* observationClock: its last reading, with its generation
  observed,  \* the server's evidence: when it was made and of which revision
  savedRevision,
  ask,       \* the request on the wire, with the clocks it left at
  evidence,  \* the answer the page holds, with the clocks of its receipt
  lost,      \* the last request failed
  online,    \* the browser is online
  mishaps    \* requests, saves and failures so far, whether the wall clock was set back and
             \* whether a render has found the evidence too old

evidenceVars == <<page, clocks, ticked, reading, observed, savedRevision, ask, evidence, lost, online, mishaps>>

NoEvidence == [at |-> "none"]
NoAsk == [at |-> "no"]
Dawn == [mono |-> 0, wall |-> 0, gen |-> 0]
Larger(a, b) == IF a > b THEN a ELSE b

-----------------------------------------------------------------------------

\* createObservationClock: a reading behind the last one starts a generation.
ObservationClock ==
  [mono |-> clocks.mono, wall |-> clocks.wall,
   gen |-> reading.gen + IF clocks.wall < reading.wall \/ clocks.mono < reading.mono THEN 1 ELSE 0]

\* Only some pages go through it; the time stamp of the others needs no clock.
ReadClock == reading' = IF page.method = "generation" THEN ObservationClock ELSE reading
Noted == IF page.method = "stamp" THEN Dawn ELSE ObservationClock
NotedAtReceipt == IF page.method \in {"elapsed", "generation"} THEN ObservationClock ELSE Dawn

\* The clocks a page judges its evidence by.
Now == IF page.now = "state" THEN ticked ELSE ObservationClock

Elapsed(from, to) == Larger(0, Larger(to.mono - from.mono, to.wall - from.wall))

\* Mutant: the monotonic clock alone.
WithinMonotonic(e, now) == now.mono < e.started.mono + e.freshFor

\* evidenceIsFresh, the deadlines counted from the request.
WithinDeadlines(e, now) ==
  now.mono < e.started.mono + e.freshFor /\ now.wall < e.started.wall + e.freshFor

\* pathHealthElapsed against the answer's fresh_for_ms.
WithinElapsed(e, now) ==
  e.freshFor > Larger(Elapsed(e.started, now), Elapsed(e.started, e.received))

\* observationFresh.
WithinGeneration(e, now) ==
  /\ e.started.gen = e.received.gen /\ e.received.gen = now.gen
  /\ now.wall >= e.received.wall /\ now.mono >= e.received.mono
  /\ e.received.wall >= e.started.wall /\ e.received.mono >= e.started.mono
  /\ WithinElapsed(e, now)

\* agentHTTPSFresh: 30 seconds from the request, on both clocks.
WithinBounds(e, now) ==
  /\ (now.wall - e.started.wall) \in 0..(Lifetime - 1)
  /\ (now.mono - e.started.mono) \in 0..(Lifetime - 1)

\* snapshotExpired, dnsSnapshotStale and addressObservationFresh: a stamp too far
\* ahead of the wall clock is no evidence either.
WithinStamp(e, now) ==
  e.made - now.wall <= (IF page.ahead THEN MaxAhead ELSE 0) /\ now.wall - e.made < Lifetime

Young(e, now) ==
  CASE page.method = "deadlines"  -> WithinDeadlines(e, now)
    [] page.method = "elapsed"    -> WithinElapsed(e, now)
    [] page.method = "generation" -> WithinGeneration(e, now)
    [] page.method = "bounded"    -> WithinBounds(e, now)
    [] page.method = "stamp"      -> WithinStamp(e, now)

\* What the page says: a failed refresh and a browser that is offline revoke it.
Fresh ==
  /\ evidence.at = "held"
  /\ ~lost /\ (page.online => online)
  /\ page.bound => evidence.revision = savedRevision
  /\ Young(evidence, Now)

-----------------------------------------------------------------------------
(* Time, as the browser sees it.                                            *)
Pass ==
  /\ clocks.real < MaxTime
  /\ clocks' = [real |-> clocks.real + 1, mono |-> clocks.mono + 1, wall |-> clocks.wall + 1]
  /\ UNCHANGED <<page, ticked, reading, observed, savedRevision, ask, evidence, lost, online, mishaps>>

Sleep ==
  /\ clocks.real < MaxTime
  /\ clocks' = [clocks EXCEPT !.real = @ + 1, !.wall = @ + 1]
  /\ ask' = IF ask.at = "no" THEN ask ELSE [ask EXCEPT !.slept = TRUE]
  /\ evidence' = IF evidence.at = "none" THEN evidence ELSE [evidence EXCEPT !.slept = TRUE]
  /\ UNCHANGED <<page, ticked, reading, observed, savedRevision, lost, online, mishaps>>

SetBack ==
  \E by \in 1..MaxBack :
    /\ ~mishaps.back
    /\ clocks' = [clocks EXCEPT !.wall = @ - by]
    /\ mishaps' = [mishaps EXCEPT !.back = TRUE]
    /\ ask' = IF ask.at = "no" THEN ask ELSE [ask EXCEPT !.back = TRUE]
    /\ evidence' = IF evidence.at = "none" THEN evidence ELSE [evidence EXCEPT !.back = TRUE]
    /\ UNCHANGED <<page, ticked, reading, observed, savedRevision, lost, online>>

\* The page's interval, and the focus, online and visibility events: render.
\* AgentHTTPSCard drops an observation that a render finds too old.
ClockTick ==
  /\ ticked' = IF page.now = "state" THEN [mono |-> clocks.mono, wall |-> clocks.wall] ELSE ticked
  /\ ReadClock
  /\ LET old == evidence.at = "held"
               /\ ~Young(evidence, IF page.now = "state" THEN ticked' ELSE ObservationClock) IN
       /\ evidence' = IF page.discard /\ old THEN NoEvidence ELSE evidence
       /\ mishaps' = [mishaps EXCEPT !.tooOld = @ \/ old]
  /\ UNCHANGED <<page, clocks, observed, savedRevision, ask, lost, online>>

GoOffline ==
  /\ page.online
  /\ IF online THEN mishaps.failures < MaxLost ELSE TRUE
  /\ online' = ~online
  /\ mishaps' = IF online THEN [mishaps EXCEPT !.failures = @ + 1] ELSE mishaps
  /\ UNCHANGED <<page, clocks, ticked, reading, observed, savedRevision, ask, evidence, lost>>

-----------------------------------------------------------------------------
(* The evidence on the server and the request for it.                       *)
Observe ==
  /\ observed' = [made |-> clocks.real, revision |-> savedRevision]
  /\ UNCHANGED <<page, clocks, ticked, reading, savedRevision, ask, evidence, lost, online, mishaps>>

SaveSubject ==
  /\ page.bound /\ mishaps.saves < MaxSaves
  /\ savedRevision' = savedRevision + 1
  /\ mishaps' = [mishaps EXCEPT !.saves = @ + 1]
  /\ UNCHANGED <<page, clocks, ticked, reading, observed, ask, evidence, lost, online>>

\* queryFn notes the clocks before it sends.
SendRequest ==
  /\ ask.at = "no" /\ online
  /\ mishaps.asks < MaxAsks
  /\ mishaps' = [mishaps EXCEPT !.asks = @ + 1]
  /\ ReadClock
  /\ ask' = [at |-> "sent", started |-> Noted, slept |-> FALSE, back |-> FALSE]
  /\ UNCHANGED <<page, clocks, ticked, observed, savedRevision, evidence, lost, online>>

\* fresh_for_ms is what is left of the evidence when the server answers.
Answer ==
  /\ ask.at = "sent"
  /\ ask' = [at |-> "answered", started |-> ask.started, slept |-> ask.slept, back |-> ask.back,
             made |-> observed.made, revision |-> observed.revision,
             freshFor |-> IF page.method = "bounded" THEN Lifetime
                          ELSE Larger(0, observed.made + Lifetime - clocks.real)]
  /\ page.method = "bounded" => observed.made = clocks.real
  /\ UNCHANGED <<page, clocks, ticked, reading, observed, savedRevision, evidence, lost, online, mishaps>>

Receive ==
  /\ ask.at = "answered"
  /\ ReadClock
  /\ evidence' = [at |-> "held", started |-> ask.started, received |-> NotedAtReceipt, made |-> ask.made,
                  revision |-> ask.revision, freshFor |-> ask.freshFor, slept |-> ask.slept,
                  back |-> ask.back, late |-> clocks.real >= ask.made + Lifetime]
  /\ ask' = NoAsk
  /\ lost' = FALSE
  /\ mishaps' = [mishaps EXCEPT !.tooOld = FALSE]
  /\ UNCHANGED <<page, clocks, ticked, observed, savedRevision, online>>

\* A failed refresh, and a request cut off by its timeout.
LoseRequest ==
  /\ ask.at # "no"
  /\ mishaps.failures < MaxLost
  /\ mishaps' = [mishaps EXCEPT !.failures = @ + 1]
  /\ ask' = NoAsk
  /\ lost' = TRUE
  /\ UNCHANGED <<page, clocks, ticked, reading, observed, savedRevision, evidence, online>>

-----------------------------------------------------------------------------
EvidenceInit ==
  /\ page \in EvidenceProfiles
  /\ clocks = [real |-> 0, mono |-> 0, wall |-> 0]
  /\ ticked = [mono |-> 0, wall |-> 0]
  /\ reading = Dawn
  /\ observed = [made |-> 0, revision |-> 0]
  /\ savedRevision = 0
  /\ ask = NoAsk
  /\ evidence = NoEvidence
  /\ lost = FALSE /\ online = TRUE
  /\ mishaps = [asks |-> 0, saves |-> 0, failures |-> 0, back |-> FALSE, tooOld |-> FALSE]

EvidenceNext ==
  \/ Pass \/ Sleep \/ SetBack \/ ClockTick \/ GoOffline
  \/ Observe \/ SaveSubject \/ SendRequest \/ Answer \/ Receive \/ LoseRequest

EvidenceSpec == EvidenceInit /\ [][EvidenceNext]_evidenceVars

-----------------------------------------------------------------------------
(* The pages that call something current, one profile each.                 *)
LeasedPage == [method |-> "deadlines", now |-> "state", bound |-> FALSE, discard |-> FALSE, online |-> TRUE,
               ahead |-> FALSE]
StampedPage == [LeasedPage EXCEPT !.method = "stamp"]

NodeConfigurationCard == LeasedPage
LineChangesModal == LeasedPage
LineRolloutsModal == LeasedPage
NodeTrafficHistory == [LeasedPage EXCEPT !.now = "render"]
PathHealthModal == [LeasedPage EXCEPT !.method = "elapsed"]
OperationDetail == [LeasedPage EXCEPT !.method = "generation", !.now = "render"]
AgentHTTPSStatus == [LeasedPage EXCEPT !.method = "bounded"]
AgentHTTPSCheck == [AgentHTTPSStatus EXCEPT !.bound = TRUE, !.discard = TRUE]
PortalServiceStatus == [StampedPage EXCEPT !.ahead = TRUE]
SiteServiceStatus == PortalServiceStatus
NodeAddressObservation == StampedPage
DNSHealthResult == [StampedPage EXCEPT !.online = FALSE]
NodeDNSTarget == [DNSHealthResult EXCEPT !.bound = TRUE]

EvidencePageProfiles ==
  {NodeConfigurationCard, LineChangesModal, LineRolloutsModal, NodeTrafficHistory, PathHealthModal,
   OperationDetail, AgentHTTPSStatus, AgentHTTPSCheck, PortalServiceStatus, SiteServiceStatus,
   NodeAddressObservation, DNSHealthResult, NodeDNSTarget}

-----------------------------------------------------------------------------
\* The two clocks cover for each other, but not for both at once: the machine
\* slept and its wall clock was set back since the request left.  A page that
\* has only the wall clock is fooled by the second alone.
Fooled(e) == IF page.method = "stamp" THEN mishaps.back ELSE e.slept /\ e.back

TickIsCurrent == page.now = "render" \/ (ticked.mono = clocks.mono /\ ticked.wall = clocks.wall)

\* Whatever a page calls current is current: the server's evidence has not run
\* out, however long the answer travelled, whether the machine slept or its
\* clock was moved, and although nothing but the browser's clocks tells the page.
FreshIsTrue ==
  (Fresh /\ TickIsCurrent /\ ~Fooled(evidence)) => clocks.real < evidence.made + Lifetime

\* An answer that was too old when it landed is never called current, not even
\* before the next tick of a page that has just woken up: path health counts the
\* receipt in, and the operations page reads its clock at every render.
FreshOnArrival ==
  (Fresh /\ page.method \in {"elapsed", "generation"} /\ ~Fooled(evidence))
     => ~evidence.late

\* Evidence a render has found too old does not come back when the wall clock
\* does: a generation ends it, or the page has thrown it away.
TooOldIsFinal ==
  (mishaps.tooOld /\ (page.discard \/ page.method = "generation")) => ~Fresh
=============================================================================
