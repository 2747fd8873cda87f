----------------------------- MODULE ViewSession -----------------------------
(***************************************************************************)
(* A page of one of the web clients that shows what the server has for a   *)
(* selection: a subject (a server, an order, an article) and a view of it  *)
(* (a range, a page, a filter).  The person changes the selection while    *)
(* requests for the former one are out, intervals ask again, and answers   *)
(* come in any order or not at all.  What one page does differently from   *)
(* the next is its profile (below):                                        *)
(*                                                                         *)
(*   guard   which answers the page takes: "query" (react-query: each into *)
(*           the entry of its own key, one request per key at a time),     *)
(*           "ticket" (only the last request's), "abort" (not those of a   *)
(*           controller that a new selection has aborted), "none" (any)    *)
(*   keyed   what is shown is looked up under the current selection        *)
(*   clears  what a new selection empties: "all", "subject" (the data      *)
(*           stays while only the view changes), "none" (it stays, under   *)
(*           its key), or "press" (all, and so does the button)            *)
(*   fails   an error "blank"s what is shown or "keep"s it                 *)
(*   polls   "never", "interval", "after" the end of the request before,   *)
(*           "live" (in the range of that name only), or "pending" (while  *)
(*           what is shown is not final)                                   *)
(*   asks    on "show" of a selection, or on the "press" of a button       *)
(*   picks   a row of the answer can be made the new selection, below      *)
(*           which the answer stays                                        *)
(*   gaps    "late": the source has no guard against a late answer         *)
(***************************************************************************)
EXTENDS Integers, FiniteSets

CONSTANTS
  ViewProfiles,   \* the profiles of the pages
  Subjects,       \* servers, users, orders ...
  Ranges,         \* the views of one subject
  LiveRange,      \* the one that follows the present
  MaxSelects,     \* changes of the selection
  MaxVersions,    \* changes of the data on the server; the last one is final
  MaxAsked,       \* requests out at one time
  MaxBroken       \* requests that fail

ASSUME ViewBounds == LiveRange \in Ranges /\ {MaxSelects, MaxVersions, MaxAsked, MaxBroken} \subseteq Nat

VARIABLES
  viewer,     \* the profile of the page
  selected,   \* the selection, or Nothing while the page is closed
  stored,     \* what the page (or the query cache) holds, by key
  fetches,    \* the requests out
  ticket,     \* the number of the last request
  version,    \* the version of the data on the server
  failed,     \* the page shows an error
  viewLeft    \* changes of the selection and failures left

viewVars == <<viewer, selected, stored, fetches, ticket, version, failed, viewLeft>>

Nothing == [subject |-> "none", range |-> "none"]
Selections == [subject : Subjects, range : Ranges]

-----------------------------------------------------------------------------
\* What is on the page.
OnPage == IF viewer.keyed THEN {d \in stored : selected \in {d.key, d.picked}} ELSE stored

\* The interval is armed: always, in one range, or by the data it has got.
Polling ==
  CASE viewer.polls = "live" -> selected.range = LiveRange
    [] viewer.polls = "pending" -> \E d \in OnPage : d.rev < MaxVersions
    [] OTHER -> viewer.polls # "never"

\* What a new selection leaves of it.  The cache of react-query keeps its
\* entries; the state of a component is emptied by its effect.
Kept(s) ==
  IF viewer.guard = "query" \/ viewer.clears = "none" THEN stored
  ELSE IF viewer.clears = "subject" THEN {d \in stored : d.key.subject = s.subject}
  ELSE {}

\* The cleanup of an effect aborts the controller of its requests.
Aborted(all) ==
  IF viewer.guard = "abort" THEN {[f EXCEPT !.aborted = TRUE] : f \in all} ELSE all

\* ++epoch.current, ++sequence.current: the other guards count nothing.
NextTicket == IF viewer.guard = "ticket" THEN ticket + 1 ELSE ticket
NewFetch(s) == [key |-> s, ticket |-> NextTicket, at |-> "asked", rev |-> -1, aborted |-> FALSE]
OutFor(s) == {f \in fetches : f.key = s /\ ~f.aborted}

\* Mutant: the sequence number is not compared after the await.
TakesAny(f) == viewer.guard = "abort" => ~f.aborted

\* The answers the page takes.
Takes(f) ==
  CASE viewer.guard = "ticket" -> f.ticket = ticket
    [] viewer.guard = "abort" -> ~f.aborted
    [] OTHER -> TRUE

-----------------------------------------------------------------------------
(* The person selects, closes the page, presses the button.                 *)
\* A cached answer that is not stale is shown without a request.
Select(s) ==
  /\ s # selected /\ viewLeft.selects > 0
  /\ viewLeft' = [viewLeft EXCEPT !.selects = @ - 1]
  /\ selected' = s
  /\ stored' = Kept(s)
  /\ failed' = FALSE
  /\ \E asks \in BOOLEAN :
       /\ ~asks => \/ viewer.asks = "press"
                   \/ viewer.guard = "query" /\ (OutFor(s) # {} \/ \E d \in stored : d.key = s)
       /\ asks => /\ viewer.asks = "show" /\ Cardinality(fetches) < MaxAsked
                  /\ viewer.guard = "query" => OutFor(s) = {}
       /\ fetches' = Aborted(fetches) \union IF asks THEN {NewFetch(s)} ELSE {}
       /\ ticket' = NextTicket
  /\ UNCHANGED <<viewer, version>>

\* The state of an unmounted component is gone, and what lands later with it.
Leave ==
  /\ selected # Nothing
  /\ selected' = Nothing
  /\ stored' = IF viewer.guard = "query" THEN stored ELSE {}
  /\ fetches' = IF viewer.guard = "query" THEN fetches ELSE {}
  /\ failed' = FALSE
  /\ UNCHANGED <<viewer, ticket, version, viewLeft>>

\* A row of the answer is picked: its host is the new selection, the request
\* out for the former one is aborted and the answer stays.
Pick(s) ==
  /\ viewer.picks /\ OnPage # {} /\ s.subject = selected.subject
  /\ selected' = s
  /\ stored' = {[d EXCEPT !.picked = s] : d \in stored}
  /\ fetches' = IF s = selected THEN fetches ELSE Aborted(fetches)
  /\ UNCHANGED <<viewer, ticket, version, failed, viewLeft>>

Press ==
  /\ viewer.asks = "press" /\ selected # Nothing
  /\ OutFor(selected) = {} /\ Cardinality(fetches) < MaxAsked
  /\ fetches' = fetches \union {NewFetch(selected)}
  /\ ticket' = NextTicket
  /\ stored' = IF viewer.clears = "press" THEN {} ELSE stored
  /\ UNCHANGED <<viewer, selected, version, failed, viewLeft>>

-----------------------------------------------------------------------------
(* The interval, the server, the answers.                                   *)

\* setInterval asks whether or not an answer is still out; react-query and the
\* timers set at the end of a request do not.
Poll ==
  /\ selected # Nothing /\ Polling
  /\ \A d \in OnPage : d.key = selected => (d.rev < version \/ failed)
  /\ \/ viewer.polls = "interval" /\ viewer.guard = "none"
     \/ OutFor(selected) = {}
  /\ Cardinality(fetches) < MaxAsked
  /\ fetches' = fetches \union {NewFetch(selected)}
  /\ ticket' = NextTicket
  /\ UNCHANGED <<viewer, selected, stored, version, failed, viewLeft>>

Serves(f) ==
  /\ f.at = "asked"
  /\ fetches' = (fetches \ {f}) \union {[f EXCEPT !.at = "served", !.rev = version]}
  /\ UNCHANGED <<viewer, selected, stored, ticket, version, failed, viewLeft>>

\* The automatic scan picks the best row of its answer itself.
Best(f) ==
  {Nothing} \union IF viewer.picks /\ Takes(f) THEN {s \in Selections : s.subject = f.key.subject} ELSE {}

\* The page's data after an answer it takes: one entry per key in the cache,
\* one piece of state in a component.
Lands(f) ==
  /\ f.at = "served"
  /\ \E best \in Best(f) :
       /\ fetches' = IF best \in {Nothing, selected} THEN fetches \ {f} ELSE Aborted(fetches \ {f})
       /\ selected' = IF best = Nothing THEN selected ELSE best
       /\ stored' = IF ~Takes(f) THEN stored
                    ELSE {[key |-> f.key, rev |-> f.rev, picked |-> best]} \union
                         IF viewer.guard = "query" THEN {d \in stored : d.key # f.key} ELSE {}
  /\ failed' = (failed /\ ~(Takes(f) /\ f.key = selected))
  /\ UNCHANGED <<viewer, ticket, version, viewLeft>>

Breaks(f) ==
  /\ f.at = "asked" /\ viewLeft.broken > 0
  /\ viewLeft' = [viewLeft EXCEPT !.broken = @ - 1]
  /\ fetches' = fetches \ {f}
  /\ failed' = (failed \/ (Takes(f) /\ f.key = selected))
  /\ stored' = IF Takes(f) /\ viewer.fails = "blank" THEN {} ELSE stored
  /\ UNCHANGED <<viewer, selected, ticket, version>>

DataMoves ==
  /\ version < MaxVersions
  /\ version' = version + 1
  /\ UNCHANGED <<viewer, selected, stored, fetches, ticket, failed, viewLeft>>

-----------------------------------------------------------------------------
ViewInit ==
  /\ viewer \in ViewProfiles
  /\ selected = Nothing
  /\ stored = {}
  /\ fetches = {}
  /\ ticket = 0
  /\ version = 0
  /\ failed = FALSE
  /\ viewLeft = [selects |-> MaxSelects, broken |-> MaxBroken]

ServeSome == \E f \in fetches : Serves(f)
LandSome == \E f \in fetches : Lands(f)

ViewNext ==
  \/ \E s \in Selections : Select(s) \/ Pick(s)
  \/ Leave \/ Press \/ Poll
  \/ ServeSome \/ LandSome \/ \E f \in fetches : Breaks(f)
  \/ DataMoves

\* Intervals fire and the server answers; the browser hands every answer over.
ViewFairness == WF_viewVars(Poll) /\ WF_viewVars(ServeSome) /\ WF_viewVars(LandSome)
-----------------------------------------------------------------------------
(* The pages of the web clients that only show, one profile each.  A        *)
(* definition stands for the component's requests, its effects and the      *)
(* places that draw or hide their answers.                                  *)
\* A query with the selection in its key (or with one fixed key), and one with
\* a refetchInterval.
Query == [guard |-> "query", keyed |-> TRUE, clears |-> "all", fails |-> "keep",
          polls |-> "never", asks |-> "show", picks |-> FALSE, gaps |-> {}]
PolledQuery == [Query EXCEPT !.polls = "interval"]


-----------------------------------------------------------------------------
(* Queries of the staff console.                                            *)
NodePage == PolledQuery
ServerProxy == PolledQuery
NodeProbe == PolledQuery
DashboardPage == PolledQuery
AdminLogCard == PolledQuery
NodeRenderedConfig == PolledQuery
NetworkQualityCard == PolledQuery
AvailabilityCard == PolledQuery
PrivateAccessReadiness == PolledQuery
NetworkDiagnosticsCard == PolledQuery
AgentConnectionFields == PolledQuery
UseCoreSelection == PolledQuery
ResourceHistoryCard == Query
SelfCheckCard == Query
AdminOrdersPage == Query
UserConnections == Query
UserAudit == Query
LineDependencies == Query
NodeWorkflow == Query
AppLayoutUpdate == PolledQuery
UseNodeDomainCheck == Query

-----------------------------------------------------------------------------
(* Queries of the customer portal and of the public site.                   *)
ConnectionPage == Query
HelpPage == Query
ServerList == Query
\* The orders, from the menu and on the way back from a payment.
PortalOrdersPage == Query
PortalOrdersReturn == [Query EXCEPT !.polls = "pending"]
SiteHomePage == Query
SiteLayout == Query
SiteApp == Query
DownloadsPage == Query

-----------------------------------------------------------------------------
(* The probe pages: queries of the plain one, requests of the glass one.    *)
ProbeNodeDetail == PolledQuery
\* Its fetches set the state whatever is selected when they come back.
LoadChart ==
  [guard |-> "none", keyed |-> FALSE, clears |-> "subject", fails |-> "blank",
   polls |-> "interval", asks |-> "show", picks |-> FALSE, gaps |-> {"late"}]
\* The sequence number and the server are compared after every await.
PingChart == [LoadChart EXCEPT !.guard = "ticket", !.polls = "never", !.gaps = {}]
\* The next refresh is armed at the end of the last one only.
UseNodePingStats == [PingChart EXCEPT !.clears = "all", !.keyed = TRUE, !.polls = "after"]
\* The effect's cleanup aborts, and the result stays with its key.
UseStorageHistory == [UseNodePingStats EXCEPT !.guard = "abort", !.clears = "none", !.polls = "live"]
TrafficPeak == [PingChart EXCEPT !.clears = "all"]
\* The refresh number is compared when a lookup comes back.
UseNodeProviderMetadata == PingChart

-----------------------------------------------------------------------------
(* Answers to a button.                                                     *)
\* Typing another target aborts the scan, so that it cannot be picked; the rows
\* stay below a target picked from them, and come back with the former one.
RealityScan == [UseStorageHistory EXCEPT !.clears = "subject", !.fails = "keep", !.polls = "never",
                  !.asks = "press", !.picks = TRUE]
ConnectionCheck == [RealityScan EXCEPT !.keyed = FALSE, !.clears = "press", !.picks = FALSE]
DomainEditor == ConnectionCheck

-----------------------------------------------------------------------------
AllViews ==
  {NodePage, ServerProxy, NodeProbe, DashboardPage, AdminLogCard,
   NodeRenderedConfig, NetworkQualityCard, AvailabilityCard,
   PrivateAccessReadiness, NetworkDiagnosticsCard, AgentConnectionFields,
   UseCoreSelection, ResourceHistoryCard, SelfCheckCard, AdminOrdersPage,
   UserConnections, UserAudit, LineDependencies, NodeWorkflow,
   AppLayoutUpdate, UseNodeDomainCheck, ConnectionPage, HelpPage,
   ServerList, PortalOrdersPage, PortalOrdersReturn, SiteHomePage, SiteLayout, SiteApp,
   DownloadsPage, ProbeNodeDetail, LoadChart, PingChart, UseNodePingStats,
   UseStorageHistory, TrafficPeak, UseNodeProviderMetadata, RealityScan,
   ConnectionCheck, DomainEditor}

-----------------------------------------------------------------------------
LateGap == "late" \in viewer.gaps

\* Data is held under keys that exist and no request runs ahead of the server.
ViewTypeOK ==
  /\ selected \in Selections \union {Nothing}
  /\ \A d \in stored : d.key \in Selections /\ d.picked \in Selections \union {Nothing} /\ d.rev \in 0..version
  /\ \A f \in fetches : f.key \in Selections /\ f.rev \in -1..version /\ f.ticket <= ticket
  /\ Cardinality(fetches) <= MaxAsked

\* The data on the page belongs to the selection on the page: an answer for a
\* former server or range is never drawn under the new one.  A chart that keeps
\* the former range drawn does so only while its own answer is out, and rows of
\* a scan are shown under another target only if that was picked from them, on
\* the same server.
ShownIsSelected ==
  selected # Nothing =>
    \A d \in OnPage :
      \/ d.key = selected
      \/ d.picked = selected /\ d.key.subject = selected.subject
      \/ /\ viewer.clears = "subject" /\ d.key.subject = selected.subject
         /\ \E f \in fetches : f.key = selected /\ Takes(f)
      \/ LateGap

\* What is on the page for a selection is never replaced by older data for the
\* same selection, whatever the order in which the answers arrive.
NeverOlder ==
  [][\A d \in OnPage, e \in OnPage' : d.key = e.key => (e.rev >= d.rev \/ LateGap)]_viewVars

\* In the end the page shows its selection or says that it could not be loaded,
\* and a page that polls shows the server's current data: the storage chart in
\* its live range, the orders until the payment they wait for is final.
ViewSettles ==
  []<>( \/ selected = Nothing \/ LateGap \/ viewer.asks = "press"
        \/ failed /\ ~Polling
        \/ \E d \in OnPage : d.key = selected /\ (Polling => d.rev = version) )
=============================================================================
