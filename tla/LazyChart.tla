----------------------------- MODULE LazyChart -----------------------------
(***************************************************************************)
(* A part of the probe's home view that is rendered when it comes near the *)
(* viewport (DeferredRender) and the chart inside it (EChart), while the   *)
(* router leaves the view, hides it and comes back: React runs the effects *)
(* of a hidden view's parts again when it is shown, with what they kept.   *)
(***************************************************************************)
EXTENDS Integers

CONSTANTS
  MaxMoves,      \* scrolls, switches of `enabled` and routes
  MaxOptions     \* options the parent passes to the chart

ASSUME LazyBounds == MaxMoves \in Nat /\ MaxOptions \in Nat

VARIABLES
  route,         \* whether the route is this view's
  scene,         \* the view: "shown", "leaving" or "hidden"
  near,          \* whether the part is near the viewport
  part,          \* DeferredRender: props, rendered, handles and microtasks
  chart,         \* EChart: instance, initDeferred, the option it draws
  option,        \* the option of the parent's last render
  moves

lazyVars == <<route, scene, near, part, chart, option, moves>>

-----------------------------------------------------------------------------
(* DeferredRender.                                                          *)

StopObserving(p) == [p EXCEPT !.observer = FALSE, !.idle = FALSE]

Reveal(p) == [p EXCEPT !.rendered = TRUE]

\* An IntersectionObserver or, without one, the scroll and resize listeners, whose
\* frame looks again (revealWhenNear): both reveal a part that has come near.
StartObserving(p) ==
  LET q == StopObserving(p)
  IN IF q.rendered \/ ~q.enabled THEN q
     ELSE IF near THEN Reveal(q)
     ELSE [q EXCEPT !.observer = TRUE, !.idle = q.delays]

\* The effect that watches `enabled`: it looks again in a microtask.
WatchEnabled(p) ==
  IF p.seen = p.enabled THEN p
  ELSE LET q == [StopObserving(p) EXCEPT !.seen = p.enabled]
       IN IF p.enabled THEN [q EXCEPT !.micro = 1] ELSE [Reveal(q) EXCEPT !.micro = 0]

(* EChart: mounted with the rendered part of a view that is not hidden.     *)
NoChart == [on |-> FALSE, deferred |-> FALSE, drawn |-> 0]
ChartFor(p, s) ==
  IF ~p.rendered \/ s = "hidden" THEN NoChart
  ELSE IF chart.on THEN chart ELSE [on |-> TRUE, deferred |-> TRUE, drawn |-> 0]

-----------------------------------------------------------------------------
ElementMoved == moves < MaxMoves /\ moves' = moves + 1
LazySettled == part.micro = 0 /\ ~chart.deferred   \* microtasks come before other tasks

Scroll ==
  /\ ElementMoved /\ LazySettled /\ near' = ~near
  /\ UNCHANGED <<route, scene, part, chart, option>>

\* observer callback, or the frame of the fallback: the element is near.
Intersects ==
  /\ part.observer /\ near /\ LazySettled
  /\ part' = StopObserving(Reveal(part)) /\ chart' = ChartFor(part', scene)
  /\ UNCHANGED <<route, scene, near, option, moves>>

\* revealDeferred: the idle timer.
IdleFires ==
  /\ part.idle /\ LazySettled
  /\ part' = IF part.enabled /\ ~part.rendered THEN StopObserving(Reveal(part)) ELSE [part EXCEPT !.idle = FALSE]
  /\ chart' = ChartFor(part', scene)
  /\ UNCHANGED <<route, scene, near, option, moves>>

\* A hidden view renders with the new props; its effects wait until it is shown.
SetEnabled ==
  /\ ElementMoved /\ LazySettled
  /\ LET p == [part EXCEPT !.enabled = ~@] IN part' = IF scene = "hidden" THEN p ELSE WatchEnabled(p)
  /\ chart' = ChartFor(part', scene)
  /\ UNCHANGED <<route, scene, near, option>>

\* The first microtask decides, the second one observes.
Microtask ==
  /\ part.micro > 0
  /\ part' = IF part.micro = 1 THEN [part EXCEPT !.rendered = near, !.micro = 2]
             ELSE StartObserving([part EXCEPT !.micro = 0])
  /\ chart' = ChartFor(part', scene)
  /\ UNCHANGED <<route, scene, near, option, moves>>

\* The microtask of the mount resizes and draws the option there is by then.
ChartMicrotask ==
  /\ chart.deferred
  /\ chart' = [chart EXCEPT !.deferred = FALSE, !.drawn = option]
  /\ UNCHANGED <<route, scene, near, part, option, moves>>

\* The parent renders another option, in the same flush as the mount too.
SetOption ==
  /\ option < MaxOptions /\ option' = option + 1
  /\ chart' = IF chart.on /\ ~chart.deferred /\ scene # "hidden" THEN [chart EXCEPT !.drawn = option'] ELSE chart
  /\ UNCHANGED <<route, scene, near, part, moves>>

-----------------------------------------------------------------------------
(* RouterView and the router.                                               *)
\* push or popstate; the view is deactivated when it starts to leave.
RouteAway ==
  /\ ElementMoved /\ LazySettled /\ route /\ route' = FALSE
  /\ scene' = IF scene = "shown" THEN "leaving" ELSE scene
  /\ part' = IF scene = "shown" THEN StopObserving(part) ELSE part
  /\ UNCHANGED <<near, chart, option>>

RouteHere ==
  /\ ElementMoved /\ ~route /\ route' = TRUE
  /\ UNCHANGED <<scene, near, part, chart, option>>

\* The leave ends: the route of now decides whether the view is hidden (its
\* effects are cleaned up) or active again.
LazyLeaveEnds ==
  /\ scene = "leaving" /\ LazySettled
  /\ scene' = IF route THEN "shown" ELSE "hidden"
  /\ part' = IF route THEN StartObserving(part) ELSE [StopObserving(part) EXCEPT !.micro = 0]
  /\ chart' = ChartFor(part', scene')
  /\ UNCHANGED <<route, near, option, moves>>

\* The other view has left: the layout effects, the activation and the watch
\* of `enabled` run again.
ShowAgain ==
  /\ scene = "hidden" /\ route
  /\ scene' = "shown"
  /\ part' = WatchEnabled(StartObserving(part))
  /\ chart' = ChartFor(part', scene')
  /\ UNCHANGED <<route, near, option, moves>>

LazyInit ==
  /\ route = TRUE /\ scene = "shown" /\ near \in BOOLEAN /\ option = 1 /\ moves = 0
  /\ part \in {[enabled |-> e, seen |-> e, rendered |-> ~e \/ near, observer |-> e /\ ~near,
                idle |-> e /\ ~near /\ d, micro |-> 0, delays |-> d] : e, d \in BOOLEAN}
  /\ chart = IF part.rendered THEN [on |-> TRUE, deferred |-> TRUE, drawn |-> 0] ELSE NoChart

LazyNext ==
  \/ Scroll \/ Intersects \/ IdleFires \/ SetEnabled \/ Microtask \/ ChartMicrotask \/ SetOption
  \/ RouteAway \/ RouteHere \/ LazyLeaveEnds \/ ShowAgain

\* The browser runs microtasks and observers; a leave has a timeout.
LazyFairness ==
  /\ WF_lazyVars(Intersects) /\ WF_lazyVars(Microtask) /\ WF_lazyVars(ChartMicrotask)
  /\ WF_lazyVars(LazyLeaveEnds) /\ WF_lazyVars(ShowAgain)

-----------------------------------------------------------------------------
\* A part that is rendered, or whose view is hidden, leaves no observer and no
\* timer behind, whatever route and `enabled` did meanwhile.
NothingLeftWatching ==
  (part.rendered /\ part.micro = 0) \/ scene = "hidden" => ~part.observer /\ ~part.idle

\* A chart draws the option of the parent's last render, although options come
\* before its first drawing and while its view is hidden.
DrawnIsLatest == chart.on /\ ~chart.deferred => chart.drawn = option

\* A part that stays near the viewport of the shown view is rendered.
NearIsRendered == []<>(scene = "shown" /\ near => part.rendered)
=============================================================================
