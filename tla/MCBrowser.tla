----------------------------- MODULE MCBrowser -----------------------------
(***************************************************************************)
(* Parts of the browser applications, and the removal of a server, that    *)
(* share no state: checked side by side in one run.  `moving` says which   *)
(* of them moves; the others rest in one initial state, and fairness is    *)
(* asked of the one that moves alone.                                      *)
(***************************************************************************)
EXTENDS PanelSession, AdminPanels, DiagnosticView, ReferralSignIn, NodeRemoval, ProbeFeed,
        ProbeChoices, ProbeRequests, ViewSession, ProbeHome, CarrierBars,
        Transitions, DialogStack, LazyChart, BackTop, UpdateSession

VARIABLE moving

Parts == {"panel", "diagnostic", "signin", "removal", "feed", "choices", "requests", "view",
          "home", "bars", "transition", "dialogs", "lazy", "top", "update"}

browserVars ==
  <<moving, panelVars, diagnosticVars, referralVars, removalVars, feedVars, choiceVars, requestVars,
    viewVars, homeVars, barVars, transitionVars, dialogVars, lazyVars, topVars, updateVars>>

-----------------------------------------------------------------------------
(* Two servers of different groups, one of them alone, both in one group;   *)
(* what a person may type finds everything, a group, or one server.         *)
HomeSnapshots ==
  {[n \in {"1", "2"} |-> [group |-> IF n = "1" THEN "g" ELSE "h", online |-> n = "1"]],
   [n \in {"1"} |-> [group |-> "g", online |-> FALSE]],
   [n \in {"1", "2"} |-> [group |-> "h", online |-> TRUE]]}
HomeSearches == {{}, {"g"}, {"2", "h"}}

(* Ping targets: two carriers over IPv4; one with IPv6 beside it and the    *)
(* other unreachable; a carrier whose series was replaced; targets that are *)
(* no carriers; ping switched off.                                          *)
Target(id, n, f, s, u) == [id |-> id, name |-> n, family |-> f, series |-> s, usable |-> u]
OverIPv4 == <<Target(0, "CU", "ipv4", "a", TRUE), Target(0, "CT", "ipv4", "a", TRUE)>>
Setup(on, carriers, list, out) == [on |-> on, carrierPing |-> carriers, tasks |-> list, unreachable |-> out]
Setups ==
  {Setup(TRUE, TRUE, OverIPv4, {}),
   Setup(TRUE, TRUE, OverIPv4 \o <<Target(0, "CU", "ipv6", "b", TRUE)>>, {"CT"}),
   Setup(TRUE, TRUE, <<Target(0, "CU", "ipv4", "c", TRUE), Target(0, "CT", "ipv6", "a", FALSE)>>, {}),
   Setup(TRUE, FALSE, OverIPv4 \o <<Target(2, "CU", "", "a", TRUE), Target(1, "x", "", "a", TRUE)>>, {}),
   Setup(FALSE, TRUE, OverIPv4, {})}

Point(id, n, s, ts, k, l, a) ==
  [id |-> id, name |-> n, series |-> s, ts |-> ts, n |-> k, lost |-> l, avg |-> a]
Measured ==
  <<[to |-> 12, points |-> {Point(0, "CU", "a", 2, 3, 0, 50), Point(0, "CU", "a", 6, 2, 1, 170),
                            Point(0, "CU", "a", 12, 2, 2, 0), Point(0, "CT", "a", 12, 3, 0, 70),
                            Point(0, "CU", "b", 5, 1, 0, 10), Point(1, "x", "a", 8, 1, 0, 300)}],
    [to |-> 14, points |-> {Point(0, "CU", "a", 2, 3, 0, 50), Point(0, "CU", "a", 6, 2, 1, 170),
                            Point(0, "CU", "a", 14, 1, 0, 90), Point(0, "CT", "a", 13, 3, 0, 70),
                            Point(0, "CU", "c", 10, 4, 1, 120), Point(0, "CU", "b", 11, 1, 1, 0),
                            Point(1, "x", "a", 10, 1, 0, 300)}]>>

-----------------------------------------------------------------------------
\* A part that rests has one initial state: the status page is closed, its
\* tabs agree, ping is off and the hooks have seen that.
FeedRests ==
  /\ published = [at |-> 1, order |-> <<>>, shape |-> "plain", refusing |-> FALSE]
  /\ page = "closed" /\ snap = NoSnapshot /\ nodeList = <<>> /\ poll = NoPoll
  /\ feedTimers = {} /\ handle = 0 /\ broken = FALSE /\ retried = 0 /\ breaks = 0

ChoicesRest ==
  /\ localStorage = [theme |-> "auto", favourites |-> {}, view |-> CHOOSE v \in ViewModes : TRUE]
  /\ tabCopy = [t \in ProbeTabs |-> localStorage]
  /\ storageEvents = [t \in ProbeTabs |-> {}] /\ settingsRead = [t \in ProbeTabs |-> TRUE]
  /\ choices = 0 /\ foreignWrites = 0 /\ refusedWrites = 0

BarsRest ==
  /\ setup = Setup(FALSE, TRUE, OverIPv4, {})
  /\ hooks = [place \in Places |-> [NoHook EXCEPT !.of = ResolvedSetup(place, setup)]]
  /\ histories = [r \in ReadIds |-> 0] /\ keptRead = [read |-> 0, fresh |-> FALSE]
  /\ measured = 1 /\ setupsSeen = 0 /\ readFaults = 0

BrowserInit ==
  /\ moving \in Parts
  /\ moving # "panel" => panel = CHOOSE p \in PanelProfiles : p.kind = "none"
  /\ moving # "signin" => cookie = "" /\ authPage = FreshPage(1, "login", "")
  /\ moving # "view" => viewer = CHOOSE v \in ViewProfiles : TRUE
  /\ moving # "home" => storedGroup = "all" /\ starred = {} /\ viewMode = "card"
  /\ moving # "transition" => stage = (CHOOSE s \in Stages : TRUE) /\ wanted = {}
  /\ moving # "lazy" => near = TRUE /\ part = [enabled |-> FALSE, seen |-> FALSE, rendered |-> TRUE,
                          observer |-> FALSE, idle |-> FALSE, micro |-> 0, delays |-> FALSE]
  /\ moving # "top" => scrollY = "top" /\ button = [show |-> FALSE, effect |-> "none", display |-> FALSE,
                                                    classes |-> {}, animated |-> FALSE]
  /\ PanelInit /\ DiagnosticInit /\ ReferralInit /\ RemovalInit /\ RequestInit
  /\ ViewInit /\ HomeInit /\ TransitionInit /\ DialogInit /\ LazyInit /\ TopInit
  /\ IF moving = "feed" THEN FeedInit ELSE FeedRests
  /\ IF moving = "choices" THEN ChoiceInit ELSE ChoicesRest
  /\ IF moving = "bars" THEN BarInit ELSE BarsRest
  /\ UpdateInit /\ (moving # "update" => ~panelHost.inContainer /\ hostJob.phase = "none")

Only(p) ==
  /\ UNCHANGED moving
  /\ p # "panel" => UNCHANGED panelVars
  /\ p # "diagnostic" => UNCHANGED diagnosticVars
  /\ p # "signin" => UNCHANGED referralVars
  /\ p # "removal" => UNCHANGED removalVars
  /\ p # "feed" => UNCHANGED feedVars
  /\ p # "choices" => UNCHANGED choiceVars
  /\ p # "requests" => UNCHANGED requestVars
  /\ p # "view" => UNCHANGED viewVars
  /\ p # "home" => UNCHANGED homeVars
  /\ p # "bars" => UNCHANGED barVars
  /\ p # "transition" => UNCHANGED transitionVars
  /\ p # "dialogs" => UNCHANGED dialogVars
  /\ p # "lazy" => UNCHANGED lazyVars
  /\ p # "top" => UNCHANGED topVars
  /\ p # "update" => UNCHANGED updateVars

BrowserNext ==
  \/ moving = "panel"      /\ PanelNext      /\ Only("panel")
  \/ moving = "diagnostic" /\ DiagnosticNext /\ Only("diagnostic")
  \/ moving = "signin"     /\ ReferralNext   /\ Only("signin")
  \/ moving = "removal"    /\ RemovalNext    /\ Only("removal")
  \/ moving = "feed"       /\ FeedNext       /\ Only("feed")
  \/ moving = "choices"    /\ ChoiceNext     /\ Only("choices")
  \/ moving = "requests"   /\ RequestNext    /\ Only("requests")
  \/ moving = "view"       /\ ViewNext       /\ Only("view")
  \/ moving = "home"       /\ HomeNext       /\ Only("home")
  \/ moving = "bars"       /\ BarNext        /\ Only("bars")
  \/ moving = "transition" /\ TransitionNext /\ Only("transition")
  \/ moving = "dialogs"    /\ DialogNext     /\ Only("dialogs")
  \/ moving = "lazy"       /\ LazyNext       /\ Only("lazy")
  \/ moving = "top"        /\ TopNext        /\ Only("top")
  \/ moving = "update"     /\ UpdateNext     /\ Only("update")

\* What each part's own fairness (PanelFairness and so on) asks for, of the part
\* that moves.
BrowserFairness ==
  /\ WF_panelVars(moving = "panel" /\ IntervalRead)
  /\ WF_panelVars(moving = "panel" /\ ServeRead)
  /\ WF_panelVars(moving = "panel" /\ FinishRead)
  /\ WF_panelVars(moving = "panel" /\ ServeSave)
  /\ WF_panelVars(moving = "panel" /\ SaveSucceeds)
  /\ WF_panelVars(moving = "panel" /\ SaveFails)
  /\ WF_panelVars(moving = "panel" /\ AwaitRefetch)
  /\ WF_panelVars(moving = "panel" /\ Settle)
  /\ WF_diagnosticVars(moving = "diagnostic" /\ Due("read"))
  /\ WF_diagnosticVars(moving = "diagnostic" /\ \E c \in calls : Answered(c))
  /\ WF_diagnosticVars(moving = "diagnostic" /\ \E c \in calls : c.at \in {"refused", "lost"} /\ Rejected(c))
  /\ \A id \in 1..MaxLeases : WF_diagnosticVars(moving = "diagnostic" /\ \E c \in calls : c.id = id /\ c.kind \in {"create", "read", "release"} /\ Serve(c))
  /\ WF_referralVars(moving = "signin" /\ \E i \in DOMAIN writer.writes : WriteLands(i) \/ WriteFails(i))
  /\ WF_referralVars(moving = "signin" /\ \E p \in presses : PressGoes(p) \/ PressFails(p))
  /\ \A j \in 1..MaxJobs :
       /\ WF_removalVars(moving = "removal" /\ j \in Jobs /\ LaunchWorker(j))
       /\ WF_removalVars(moving = "removal" /\ j \in Jobs /\ ClaimNodeRemoval(j) /\ worker' # worker)
       /\ WF_removalVars(moving = "removal" /\ j \in Jobs /\ Act(j))
       /\ WF_removalVars(moving = "removal" /\ j \in Jobs /\ ReportResult(j) /\ worker' # worker)
  /\ WF_feedVars(moving = "feed" /\ ServePoll)
  /\ WF_feedVars(moving = "feed" /\ (LandStopped \/ LandAnswer \/ LandReload \/ LandFailure))
  /\ WF_feedVars(moving = "feed" /\ Fire)
  /\ \A t \in ProbeTabs :
       /\ WF_choiceVars(moving = "choices" /\ HearOfChange(t))
       /\ WF_choiceVars(moving = "choices" /\ SetPublicSettings(t))
  /\ \A i \in 1..MaxRequests : WF_requestVars(moving = "requests" /\ i \in DOMAIN requests /\ Answer(i))
  /\ WF_viewVars(moving = "view" /\ Poll)
  /\ WF_viewVars(moving = "view" /\ ServeSome)
  /\ WF_viewVars(moving = "view" /\ LandSome)
  /\ WF_homeVars(moving = "home" /\ DebounceFires)
  /\ WF_barVars(moving = "bars" /\ RunEffects)
  /\ WF_barVars(moving = "bars" /\ MinutePasses)
  /\ WF_barVars(moving = "bars" /\ RefreshTimers)
  /\ \A r \in ReadIds :
       /\ WF_barVars(moving = "bars" /\ ServeHistory(r))
       /\ WF_barVars(moving = "bars" /\ LandHistory(r))
  /\ \A k \in TransitionKeys :
    /\ WF_transitionVars(moving = "transition" /\ EnterFrame(k))
    /\ WF_transitionVars(moving = "transition" /\ LeaveFrame(k))
    /\ WF_transitionVars(moving = "transition" /\ EnterEnds(k))
    /\ WF_transitionVars(moving = "transition" /\ LeaveEnds(k))
  /\ WF_dialogVars(moving = "dialogs" /\ ScrollMicrotask)
  /\ \A d \in Dialogs :
       /\ WF_dialogVars(moving = "dialogs" /\ ExitEnds(d))
       /\ WF_dialogVars(moving = "dialogs" /\ FocusBack(d))
  /\ WF_lazyVars(moving = "lazy" /\ Intersects)
  /\ WF_lazyVars(moving = "lazy" /\ Microtask)
  /\ WF_lazyVars(moving = "lazy" /\ ChartMicrotask)
  /\ WF_lazyVars(moving = "lazy" /\ LazyLeaveEnds)
  /\ WF_lazyVars(moving = "lazy" /\ ShowAgain)
  /\ WF_topVars(moving = "top" /\ MountButton)
  /\ WF_topVars(moving = "top" /\ RenderButton)
  /\ WF_topVars(moving = "top" /\ \E c \in callbacks : FirstFrame(c) \/ SecondFrame(c) \/ TransitionEnds(c))
  /\ WF_updateVars(moving = "update" /\ Tick)
  /\ WF_updateVars(moving = "update" /\ ServeTick)
  /\ WF_updateVars(moving = "update" /\ TickAnswered)
  /\ WF_updateVars(moving = "update" /\ TickBroken)
  /\ \A k \in UpdateOrders :
       /\ WF_updateVars(moving = "update" /\ (ServeOrder(k) \/ RefuseOrder(k)))
       /\ WF_updateVars(moving = "update" /\ (OrderDone(k) \/ OrderFailed(k)))

BrowserSpec == BrowserInit /\ [][BrowserNext]_browserVars /\ BrowserFairness
-----------------------------------------------------------------------------
(* What each part promises; the conjuncts are stated in the part's module.  *)

\* A diagnostic tab shows what was read under the lease it holds, leaves no lease
\* alive that it has given up, and catches up with the newest sample while it
\* stays, whatever answers came late (NodeProbe's network diagnostics).
LeaseIsAccountedFor ==
  /\ [](moving = "diagnostic" => ShownUnderTheLease /\ NoLeaseForgotten)
  /\ CatchesUp

\* A host is removed by one worker, the row goes only after its host, and a
\* claimed removal ends, although jobs expire, dialogs of two members of staff
\* race and reports are lost (node_removal.go, DeleteNodeModal).
RemovalIsOneAndEnds ==
  /\ [](moving = "removal" => OneRemovalActs)
  /\ RowGoesAfterTheHost
  /\ ClaimedJobsEnd

\* The status page draws the snapshot it has, never goes back to an older one,
\* and comes to the published one, through aborts, retries and failures (init.ts,
\* nodes.ts).
FeedIsTheSnapshot ==
  /\ [](moving = "feed" => StoreIsTheSnapshot)
  /\ FeedNeverGoesBack
  /\ FeedCatchesUp

\* What a visitor chose holds: tabs agree with the storage once they have heard of
\* it, a star changes nothing else, and the home view never filters, counts or
\* sorts by something its visitor cannot see (app.ts, HomeView.tsx).
ChoicesAreHonoured ==
  /\ [](moving = "choices" => TabsAgreeWithStorage)
  /\ OnlyTheStarredChanges
  /\ TabsSettle
  /\ [](moving = "home" => NoInvisibleFilter /\ CountIsTheList /\ SortIsOfThisList /\ ToolHasItsButton)
  /\ GroupIsKept
  /\ SearchIsApplied

\* The history is asked for once for all that draw it, within the pool; every card
\* hears of its end; and a bar is of its own target, coloured as measured and at
\* last up to date (request.service.ts, loadRecords.ts, usePingOverview.ts).
HistoryReachesItsCards ==
  /\ [](moving = "requests" => PoolIsUsed /\ SharedLoadIsShared)
  /\ CardsHear
  /\ [](moving = "bars" => BarsAreOfTheTarget /\ ToneIsOfTheSpan)
  /\ BarsCatchUp

\* A page that shows what was selected never draws an answer for something else,
\* never goes back to older data, and settles (the pages of ViewSession).
PageShowsItsSelection ==
  /\ [](moving = "view" => ShownIsSelected)
  /\ NeverOlder
  /\ ViewSettles

\* Animated elements, stacked dialogs and parts rendered late end as they are
\* asked to be and leave nothing behind: no class of an entry or a leave, no lock on
\* the page, no observer, however their steps were cut off (Transition.tsx,
\* TransitionGroup.tsx, AppDialog.tsx, DeferredRender.tsx, BackTop.tsx). The class of
\* a move is not among them: it goes only with the end of its transition.
MotionLeavesNothing ==
  /\ [](moving = "transition" => OneViewAtATime /\ ClassesAreCleared)
  /\ WantedIsShown
  /\ [](moving = "dialogs" => BodyIsRestored /\ PageStaysLocked)
  /\ PageComesBack
  /\ [](moving = "lazy" => NothingLeftWatching /\ DrawnIsLatest)
  /\ NearIsRendered
  /\ [](moving = "top" => RestsAsShown /\ OneEndAtATime)
  /\ ButtonAppears

\* Two errands that leave the page end, and as the person meant: an invited person
\* reaches the provider pressed, with that invitation (AuthPage.tsx), and the
\* update's dialog goes, fails or reloads a page that is really updated
\* (UpdateCard.tsx).
ErrandsEnd ==
  /\ [](moving = "signin" => InviteGoesAlong)
  /\ LeavesWherePressed
  /\ SignInEnds
  /\ [](moving = "update" => ReloadedIsDone /\ ToastsAreHeard)
  /\ OverlayEnds
=============================================================================
