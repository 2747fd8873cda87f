----------------------------- MODULE ProbeHome -----------------------------
(***************************************************************************)
(* The home view of the status page: groups, search, quick controls, the   *)
(* compare tool and the sorted list, over the snapshots of the feed        *)
(* (web/probe/glass/src/views/HomeView.tsx, components/NodeList.tsx).      *)
(*                                                                         *)
(* The view stays mounted while a server's page is shown: it goes on       *)
(* rendering, its effects stop and run again on return.  The group and the *)
(* favourites are shared with other tabs.  One action is one event with the*)
(* renders and effects it causes: React has them done before the next one. *)
(***************************************************************************)
EXTENDS Naturals, FiniteSets

CONSTANTS
  Snapshots,     \* snapshots of the feed: [uuid -> [group, online]]
  Searches,      \* texts a visitor types: sets of words
  MaxHomeEvents, \* events of visitors and tabs
  MaxFeeds       \* answers of the feed

HomeServers == UNION {DOMAIN s : s \in Snapshots}
HomeGroups == UNION {{s[n].group : n \in DOMAIN s} : s \in Snapshots}
QuickKeys == {"favorite", "offline", "upload"}
NoFeed == <<>>
NoControl == "none"

ASSUME HomeAssumption ==
  /\ IsFiniteSet(HomeServers) /\ {} \in Searches /\ NoFeed \notin Snapshots
  /\ "all" \notin HomeGroups /\ MaxHomeEvents \in Nat /\ MaxFeeds \in Nat

VARIABLES
  feed,          \* the snapshot of the stores; NoFeed before one and after a refusal
  storedGroup,   \* nodeSelectedGroup, in local storage and in every tab's store
  starred,       \* favoriteNodeIds
  advanced,      \* homeAdvancedToolsVisible
  viewMode,
  home,          \* HomeView's and NodeList's state; NotMounted without a snapshot
  away,          \* whether a server's page is shown instead
  homeEvents, feeds

homeVars == <<feed, storedGroup, starred, advanced, viewMode, home, away, homeEvents, feeds>>

NotMounted == [on |-> FALSE]
Mounted0 == [on |-> TRUE, search |-> {}, debounced |-> {}, timer |-> ~away, control |-> NoControl,
             tool |-> "nodes", advancedSeen |-> advanced, sorted |-> FALSE, sortedUnder |-> <<>>]

HomeTypeOK ==
  /\ feed \in Snapshots \cup {NoFeed}
  /\ storedGroup \in HomeGroups \cup {"all"} /\ starred \subseteq HomeServers
  /\ advanced \in BOOLEAN /\ away \in BOOLEAN /\ viewMode \in {"card", "list"}
  /\ home.on => /\ {home.search, home.debounced} \subseteq Searches
                /\ home.control \in QuickKeys \cup {NoControl}
                /\ home.tool \in {"nodes", "nodeCompare"}

-----------------------------------------------------------------------------
(* What a render derives.                                                   *)
GroupsOf(f) == {f[n].group : n \in DOMAIN f}
GroupNodeList(f, g) == {n \in DOMAIN f : g = "all" \/ f[n].group = g}
\* isNodeMatchSearch: every word is found in the name, the group or another text.
IsNodeMatchSearch(f, n, words) == words \subseteq {n, f[n].group}
SearchedList(f, g, words) ==
  {n \in GroupNodeList(f, g) : words = {} \/ IsNodeMatchSearch(f, n, words)}

\* nodeList: the sorting controls keep every node.
NodeListFor(f, g, h, fav) ==
  LET filtered == SearchedList(f, g, h.debounced)
  IN CASE h.control = "favorite" -> filtered \cap fav
       [] h.control = "offline" -> {n \in filtered : ~f[n].online}
       [] OTHER -> filtered

QuickControlCounts(f, g, h, fav) ==
  LET base == SearchedList(f, g, h.debounced)
  IN [favorite |-> Cardinality(base \cap fav), offline |-> Cardinality({n \in base : ~f[n].online}),
      upload |-> Cardinality(base)]

QuickControls(f, g, h, fav) ==
  {key \in QuickKeys : key # "favorite" \/ QuickControlCounts(f, g, h, fav).favorite > 0}

\* The row of controls belongs to the list of nodes; the tools have a row of
\* their own, opened from the header.
ShownControls(f, g, h, fav) == IF h.tool = "nodes" THEN QuickControls(f, g, h, fav) ELSE {}
ShownTools(visible) == IF visible THEN {"nodeCompare"} ELSE {}

ResetKey(g, h) == <<g, h.debounced, h.control>>

\* NodeList is mounted in the tab of the group, for a list that is not empty.
ListMounted(f, g, h, fav, mode) ==
  /\ h.on /\ h.tool = "nodes" /\ mode = "list"
  /\ g \in GroupsOf(f) \cup {"all"} /\ NodeListFor(f, g, h, fav) # {}

-----------------------------------------------------------------------------
(* A render with the clamps it makes, and the effects after it.             *)

\* Removing the last favourite of the list drops the control.
ClampControl(f, g, h, fav) ==
  IF h.control = "favorite" /\ ~(QuickControlCounts(f, g, h, fav).favorite > 0)
  THEN [h EXCEPT !.control = NoControl] ELSE h

\* NodeList: a list that is gone loses its order, another reset key drops it.
SortReset(before, g0, f, g, h, fav, mode) ==
  IF ListMounted(f, g, h, fav, mode) /\ ResetKey(g0, before) = ResetKey(g, h) THEN h
  ELSE [h EXCEPT !.sorted = FALSE, !.sortedUnder = <<>>]

RenderHome(before, g0, f, g, h, fav, mode) ==
  IF ~h.on THEN h ELSE SortReset(before, g0, f, g, ClampControl(f, g, h, fav), fav, mode)

\* The watcher of the groups: it runs when their list changes, at a mount and on return.
GroupAfter(f, g) == IF g = "all" \/ g \in GroupsOf(f) THEN g ELSE "all"

\* The watcher of the advanced tools.
ToolAfter(h, visible) ==
  [h EXCEPT !.tool = IF h.advancedSeen # visible /\ ~visible THEN "nodes" ELSE @, !.advancedSeen = visible]

HomeEvent == homeEvents < MaxHomeEvents /\ homeEvents' = homeEvents + 1
OnHome == HomeEvent /\ home.on /\ ~away

\* An event that leaves the stores alone.
HomeSets(h) ==
  /\ home' = RenderHome(home, storedGroup, feed, storedGroup, h, starred, viewMode)
  /\ UNCHANGED <<feed, storedGroup, starred, advanced, viewMode, away, feeds>>

-----------------------------------------------------------------------------
(* The feed.                                                                *)
\* refresh: the stores are filled before React renders; the first snapshot
\* mounts the view.
Snapshot(s) ==
  /\ feeds < MaxFeeds /\ feeds' = feeds + 1
  /\ feed' = s
  /\ LET regroup == (~home.on \/ GroupsOf(s) # GroupsOf(feed)) /\ ~away
         g == IF regroup THEN GroupAfter(s, storedGroup) ELSE storedGroup
         h == IF home.on THEN home ELSE Mounted0
     IN /\ storedGroup' = g
        /\ home' = RenderHome(h, storedGroup, s, g, h, starred, viewMode)
  /\ UNCHANGED <<starred, advanced, viewMode, away, homeEvents>>

\* 401, 403 or 404: the snapshot and the servers go in one task, the view with them.
Refused ==
  /\ feeds < MaxFeeds /\ feeds' = feeds + 1
  /\ feed # NoFeed /\ feed' = NoFeed /\ home' = NotMounted
  /\ UNCHANGED <<storedGroup, starred, advanced, viewMode, away, homeEvents>>

-----------------------------------------------------------------------------
(* The visitor.                                                             *)
ClearSearch ==
  /\ OnHome /\ home.search # {}
  /\ HomeSets([home EXCEPT !.search = {}, !.debounced = {}, !.timer = TRUE])

TypeSearch(words) ==
  /\ OnHome /\ words # home.search
  /\ HomeSets([home EXCEPT !.search = words, !.timer = TRUE])

DebounceFires ==
  /\ home.on /\ home.timer /\ ~away
  /\ HomeSets([home EXCEPT !.debounced = home.search, !.timer = FALSE])
  /\ UNCHANGED homeEvents

SetQuickControl(key) ==
  /\ OnHome /\ key \in ShownControls(feed, storedGroup, home, starred)
  /\ HomeSets([home EXCEPT !.control = IF home.control = key THEN NoControl ELSE key])

ToggleHomeTool(key) ==
  /\ OnHome /\ key \in ShownTools(advanced)
  /\ HomeSets([home EXCEPT !.tool = IF home.tool = key THEN "nodes" ELSE key])

HandleSort ==
  /\ OnHome /\ ListMounted(feed, storedGroup, home, starred, viewMode)
  /\ HomeSets([home EXCEPT !.sorted = TRUE, !.sortedUnder = ResetKey(storedGroup, home)])

SetViewMode ==
  /\ OnHome /\ viewMode' = IF viewMode = "card" THEN "list" ELSE "card"
  /\ home' = RenderHome(home, storedGroup, feed, storedGroup, home, starred, viewMode')
  /\ UNCHANGED <<feed, storedGroup, starred, advanced, away, feeds>>

\* The header's button, on every page.
ToggleAdvanced ==
  /\ HomeEvent /\ feed # NoFeed /\ advanced' = ~advanced
  /\ home' = IF away THEN home
             ELSE RenderHome(home, storedGroup, feed, storedGroup, ToolAfter(home, advanced'), starred, viewMode)
  /\ UNCHANGED <<feed, storedGroup, starred, viewMode, away, feeds>>

\* A tab of this view, or another browser tab with another snapshot.
GroupWritten(g) ==
  /\ HomeEvent /\ g # storedGroup /\ storedGroup' = g
  /\ home' = RenderHome(home, storedGroup, feed, g, home, starred, viewMode)
  /\ UNCHANGED <<feed, starred, advanced, viewMode, away, feeds>>

SelectGroup(g) == home.on /\ ~away /\ g \in GroupsOf(feed) \cup {"all"} /\ GroupWritten(g)
ForeignGroup(g) == GroupWritten(g)

\* On the server's page, or in another tab.
ToggleFavorite(n) ==
  /\ HomeEvent /\ starred' = IF n \in starred THEN starred \ {n} ELSE starred \cup {n}
  /\ home' = RenderHome(home, storedGroup, feed, storedGroup, home, starred', viewMode)
  /\ UNCHANGED <<feed, storedGroup, advanced, viewMode, away, feeds>>

\* The effects are cleaned up: the timer with them.
LeaveHome ==
  /\ OnHome /\ away' = TRUE /\ home' = [home EXCEPT !.timer = FALSE]
  /\ UNCHANGED <<feed, storedGroup, starred, advanced, viewMode, feeds>>

\* The effects run again with what was kept.
ReturnHome ==
  /\ away /\ home.on /\ away' = FALSE
  /\ storedGroup' = GroupAfter(feed, storedGroup)
  /\ home' = RenderHome(home, storedGroup, feed, storedGroup',
                        ToolAfter([home EXCEPT !.timer = TRUE], advanced), starred, viewMode)
  /\ UNCHANGED <<feed, starred, advanced, viewMode, homeEvents, feeds>>

-----------------------------------------------------------------------------
HomeInit ==
  /\ feed = NoFeed /\ home = NotMounted /\ away = FALSE /\ advanced = FALSE
  /\ storedGroup \in HomeGroups \cup {"all"} /\ starred \in SUBSET HomeServers
  /\ viewMode \in {"card", "list"} /\ homeEvents = 0 /\ feeds = 0

HomeNext ==
  \/ \E s \in Snapshots : Snapshot(s)
  \/ Refused
  \/ \E w \in Searches : TypeSearch(w)
  \/ ClearSearch \/ DebounceFires
  \/ \E key \in QuickKeys : SetQuickControl(key)
  \/ ToggleHomeTool("nodeCompare") \/ HandleSort \/ SetViewMode \/ ToggleAdvanced
  \/ \E g \in HomeGroups \cup {"all"} : SelectGroup(g) \/ ForeignGroup(g)
  \/ \E n \in HomeServers : ToggleFavorite(n)
  \/ LeaveHome \/ ReturnHome

\* A timer fires while the page is open.
HomeFairness == WF_homeVars(DebounceFires)
HomeSpec == HomeInit /\ [][HomeNext]_homeVars /\ HomeFairness

-----------------------------------------------------------------------------
HomeShown == home.on /\ ~away

(* A filter in force has its button on the page, pressed: the visitor can
   see why servers are missing and undo it, whatever tabs, favourites and
   snapshots did while the view was away (HomeView.tsx:300-303). *)
NoInvisibleFilter ==
  HomeShown /\ home.tool = "nodes" /\ home.control # NoControl =>
    home.control \in ShownControls(feed, storedGroup, home, starred)

(* The number on a pressed control is the number of servers listed: the
   counts (269-293) and the list (211-261) are two pieces of code over the
   same group and search. *)
CountIsTheList ==
  home.on /\ home.control # NoControl =>
    QuickControlCounts(feed, storedGroup, home, starred)[home.control]
      = Cardinality(NodeListFor(feed, storedGroup, home, starred))

(* A column order belongs to the group, search and control it was chosen
   under (NodeList.tsx:124-133). *)
SortIsOfThisList == home.on /\ home.sorted => home.sortedUnder = ResetKey(storedGroup, home)

(* A tool that fills the page has its button in the row of tools, also when
   the row was closed on a server's page (HomeView.tsx:377-382). *)
ToolHasItsButton == HomeShown /\ home.tool # "nodes" => home.tool \in ShownTools(advanced)

(* The group a visitor chose is given up only for a snapshot without it, or
   for another choice: never for a page still loading or refused
   (HomeView.tsx:198-202, App.tsx:97-101). *)
GroupIsKept ==
  [][ storedGroup' = "all" /\ storedGroup # "all" =>
        \/ \E g \in HomeGroups \cup {"all"} : GroupWritten(g)
        \/ feed' \in Snapshots /\ storedGroup \notin GroupsOf(feed') ]_homeVars

(* What is typed is applied, or the view is left or gone: also after a
   return, when the timer of before is lost (HomeView.tsx:155-159). *)
SearchIsApplied == []<>(HomeShown => home.debounced = home.search)
=============================================================================
