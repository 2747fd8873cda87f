------------------------------ MODULE MCPages ------------------------------
(***************************************************************************)
(* Parts that share no state and whose properties are all about safety,    *)
(* checked side by side in one run: the order of a release's steps, the    *)
(* editors, reviews and drafts of the staff console, pages that show       *)
(* evidence, and what the status page computes.  `moving` says which of    *)
(* them moves; the others rest in one initial state.                       *)
(***************************************************************************)
EXTENDS LineOrder, EvidenceView, PanelSession, AdminPanels, ServerRenewal, ProbeCards,
        PingSeries, LoadSeries, ProviderCache, ChangesetDraft, SubDesign, ReviewSession, TLC

VARIABLE moving

Parts == {"line", "evidence", "panel", "renewal", "cards", "pings", "load", "cache", "changeset", "design",
          "review"}

pageVars ==
  <<moving, vars, evidenceVars, panelVars, renewalVars, cardVars, pingVars, loadVars, cacheVars,
    draftVars, designVars, reviewVars>>
-----------------------------------------------------------------------------
(* Renewal dates at the end of months of different lengths.                 *)
Day(y, m, d) == [m |-> 12 * y + m - 1, d |-> d]
SomeDays == {Day(2023, 2, 28), Day(2023, 8, 31)}

(* Two currencies beside the one shown, one of the costs soon over.         *)
SomeCosts == {NoCost, [cur |-> "EUR", amt |-> 2, until |-> 3], [cur |-> "CNY", amt |-> 1, until |-> 9]}
SomeUnits == "USD" :> 1 @@ "EUR" :> 2 @@ "CNY" :> 4

(* A bucket of answers, one with a loss, one of losses alone.               *)
SomeBuckets == {[n |-> 2, lost |-> 0, avg |-> 10], [n |-> 3, lost |-> 1, avg |-> 40], [n |-> 1, lost |-> 1, avg |-> 0]}

(* A range that both clocks agree on, one whose last bucket the browser has *)
(* not reached, and one whose first it has left behind.                     *)
SomeWindows ==
  {[start |-> 11, end |-> 30, ahead |-> 0], [start |-> 9, end |-> 30, ahead |-> -1], [start |-> 9, end |-> 30, ahead |-> 10]}

(* Minutes of two servers: with everything, without CPU, without memory and *)
(* processes, with nothing measured or no report; the sections a site may   *)
(* publish.                                                                 *)
Everything == Families
SomeReports ==
  {1 :> Everything @@ 2 :> Everything, 1 :> Everything \ {"cpu"} @@ 2 :> {},
   1 :> Everything \ {"memory", "processes", "network"}}
SomeSections == {{"cpu", "memory", "disk", "network", "system"}, {"cpu", "network"}}
AllCards == DOMAIN ChartCards

(* A design whose groups refer to each other, with and without Claude.      *)
BaseDesign ==
  [groups |-> <<[name |-> "a", members |-> {"b", "@all"}], [name |-> "b", members |-> {"@all"}]>>,
   rules |-> <<"a">>, final |-> "a", claude |-> TRUE, claudePolicy |-> "a", dnsPolicy |-> "b", claudeRules |-> 0]
SomePresets ==
  {BaseDesign, [BaseDesign EXCEPT !.groups[2].members = {"a", "DIRECT"}, !.claude = FALSE,
                                  !.claudePolicy = Undefined, !.claudeRules = 2]}

-----------------------------------------------------------------------------
\* A part that rests has one initial state.
LineRests ==
  /\ before = NoLine /\ after = NoLine /\ saved = NoLine
  /\ installed = Compiled(NoLine) /\ steps = << >> /\ second = FALSE

RenewalRests ==
  LET d == Day(2023, 2, 28) IN
  /\ today = d /\ linked = FALSE
  /\ server = [expiry |-> d, months |-> 1, enabled |-> FALSE, anchorDate |-> NoDate, anchorDay |-> 0]
  /\ bill = [due |-> d, period |-> 1, anchorDay |-> d.d, rev |-> 1]
  /\ samples = {} /\ cursor = 0 /\ payment = NoPayment /\ paid = <<>> /\ dateEdits = 0 /\ sent = 0

PageInit ==
  /\ moving \in Parts
  /\ IF moving = "line" THEN Init ELSE LineRests
  /\ moving # "evidence" => page = CHOOSE p \in EvidenceProfiles : TRUE
  /\ EvidenceInit
  /\ moving # "panel" => panel = CHOOSE p \in PanelProfiles : p.kind = "none"
  /\ PanelInit
  /\ IF moving = "renewal" THEN RenewalInit ELSE RenewalRests
  /\ moving # "cards" => site = [sections |-> Sections, there |-> CardServers, measured |-> CardServers,
                                 online |-> CardServers, cost |-> [s \in CardServers |-> CHOOSE c \in CardCosts : c # NoCost]]
  /\ CardInit
  /\ moving # "pings" => /\ pings = [s \in PingSources |-> [t \in GridTimes |-> {}]] /\ shownTasks = {}
                         /\ window = CHOOSE w \in PingWindows : TRUE
  /\ PingInit
  /\ moving # "load" => /\ published = CHOOSE s \in SectionSets : TRUE
                        /\ minutes = [t \in 1..PastMinutes |-> CHOOSE r \in MinuteReports : TRUE]
  /\ uuid = CHOOSE s \in LoadServers : TRUE
  /\ LoadInit
  /\ CacheInit
  /\ moving # "changeset" => savedAs = << >> /\ model = NoOps
  /\ DraftInit
  /\ moving # "design" => design = BaseDesign
  /\ DesignInit
  /\ moving # "review" => desk = CHOOSE d \in ReviewProfiles : TRUE
  /\ ReviewInit

Only(p) ==
  /\ UNCHANGED moving
  /\ p # "line" => UNCHANGED vars
  /\ p # "evidence" => UNCHANGED evidenceVars
  /\ p # "panel" => UNCHANGED panelVars
  /\ p # "renewal" => UNCHANGED renewalVars
  /\ p # "cards" => UNCHANGED cardVars
  /\ p # "pings" => UNCHANGED pingVars
  /\ p # "load" => UNCHANGED loadVars
  /\ p # "cache" => UNCHANGED cacheVars
  /\ p # "changeset" => UNCHANGED draftVars
  /\ p # "design" => UNCHANGED designVars
  /\ p # "review" => UNCHANGED reviewVars

PageNext ==
  \/ moving = "line"      /\ Next         /\ Only("line")
  \/ moving = "evidence"  /\ EvidenceNext /\ Only("evidence")
  \/ moving = "panel"     /\ PanelNext    /\ Only("panel")
  \/ moving = "renewal"   /\ RenewalNext  /\ Only("renewal")
  \/ moving = "cards"     /\ CardNext     /\ Only("cards")
  \/ moving = "pings"     /\ PingNext     /\ Only("pings")
  \/ moving = "load"      /\ LoadNext     /\ Only("load")
  \/ moving = "cache"     /\ CacheNext    /\ Only("cache")
  \/ moving = "changeset" /\ DraftNext    /\ Only("changeset")
  \/ moving = "design"    /\ DesignNext   /\ Only("design")
  \/ moving = "review"    /\ ReviewNext   /\ Only("review")

PageSpec == PageInit /\ [][PageNext]_pageVars
-----------------------------------------------------------------------------
(* What each part promises; the conjuncts are stated in the part's module.  *)

\* After every step of a release, and of a second one stopped half way, the line
\* reaches its exit or nobody uses it, every published entry is installed, and
\* what no line needs is gone (lineRolloutSteps).
StepsKeepTheLine ==
  moving = "line" => PathStaysConnected /\ PublishedIsInstalled /\ NothingLeftBehind

\* No edit is lost in silence by any of the editors, whatever reads, failures,
\* conflicts and late answers came in between (SettingsForm.tsx and the panels).
EditsSurvive == moving = "panel" => EditsAreKept

\* A save does no harm: it overwrites nobody unseen, undoes none of the person's
\* own saves, creates nothing twice, and no older read is shown after it, in every
\* editor but where its profile in AdminPanels names the gap its code leaves.
SavesAreSafe ==
  NoBlindOverwrite /\ LateReadsAreDropped /\ OwnSavesStand /\ CreatedOnce

\* Whatever a page calls current is current by the server's own count, through
\* slow answers, sleep and clocks that were moved, and does not become so again
\* (evidence-freshness.ts and the pages of EvidenceView).
CurrentIsCurrent == moving = "evidence" => FreshIsTrue /\ FreshOnArrival /\ TooOldIsFinal

\* What is carried out is what was reviewed, once, and the price shown is that of
\* the choice (the review dialogs of lines, routes, releases, changesets and DNS; of
\* the DNS records, as far as they were when the sync read them).
ReviewedIsDone ==
  /\ CommittedAsReviewed /\ CarriedOutOnce
  /\ [](moving = "review" => QuoteIsOfTheChoice)

\* Renewal, billing day, traffic period and payment agree about the calendar, on
\* the server and in the page, whatever is edited, paid or linked in between.
RenewalsKeepTheCalendar ==
  /\ [](moving = "renewal" => BillFollowsServer /\ PeriodsTile)
  /\ RenewedToTheNext /\ RenewedPeriodIsWhole /\ BillingDayKept /\ PaymentDoesAsShown

\* The two structured drafts keep what their author meant: a changeset saves what
\* was typed, omits what was omitted and survives the answers of its saves; a
\* design keeps its references through renames, offers only policies that protect,
\* and changes its rules only by a review.
DraftsKeepTheirMeaning ==
  /\ [](moving = "changeset" => NeverRefusedAsFixed /\ SettingsAreTyped /\ OmittedStaysOmitted /\ ReferencesResolve)
  /\ LaterEditsSurvive
  /\ [](moving = "design" => OfferedIsProtected)
  /\ RenameKeepsReferences /\ RulesChangeByReview

\* The load charts draw what was measured, when and where it was measured, nothing
\* that is not published and, but for the network lines, nothing that was not
\* measured; and what the latest call read, once it landed last (charts/load.ts,
\* LoadChart.tsx).
DrawnIsMeasured ==
  moving = "load" => LoadIsMeasured /\ LatestCallIsDrawn /\ RangeIsShown /\ HiddenIsNotDrawn /\ LatestIsTheLast

\* The cards of the status page show no hidden section, no zero for what is unknown
\* and no total that leaves something out; rates never go back; the ping chart and
\* its table are of the buckets the server answered with; and the cache behind the
\* provider badges is bounded, shared and keeps what is in use.
CardsTellTheTruth ==
  /\ [](moving = "cards" => HiddenHasNoCard /\ UnmeasuredIsNotZero /\ TotalIsComplete /\ StaleIsSaid)
  /\ RatesNeverGoBack
  /\ [](moving = "pings" => DrawnAsMeasured /\ AverageIsOfTheLine /\ LatestIsTheEnd /\ CutStaysInside)
  /\ [](moving = "cache" => CacheIsBounded /\ SharedByFingerprint)
  /\ UsedStaysCached
=============================================================================
