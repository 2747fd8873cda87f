----------------------------- MODULE Transitions -----------------------------
(***************************************************************************)
(* The animated lists and switches of the probe page: the child a parent   *)
(* asks for, the elements on the page with the ones still leaving, and the *)
(* hooks that add and take away the transition classes two frames later    *)
(* and when the browser reports the end.  Parents render again at any of   *)
(* these points, and a key comes back while its element is on its way out. *)
(* A group also lets its elements glide to their new places (FLIP): the    *)
(* move class has no timeout, only the end of the glide or the next render *)
(* takes it away, and with reduced motion or in a hidden view no end comes.*)
(*                                                                         *)
(*   group  TransitionGroup: any number of keyed children                  *)
(*   outIn  the next child waits until the last one has left               *)
(*   css    FALSE: no classes, an element leaves in the next microtask     *)
(*   keeps  the element of a key is kept and shown again (RouterView)      *)
(***************************************************************************)
EXTENDS Integers, FiniteSets

CONSTANTS
  TransitionKeys,   \* keys of the children
  MaxRenders        \* renders of the parent with other children

ASSUME TransitionBounds == MaxRenders \in Nat

VARIABLES
  stage,      \* the profile of the component
  wanted,     \* the keys the parent renders now
  els,        \* per key: its element
  renders     \* renders so far

transitionVars == <<stage, wanted, els, renders>>

CardGroup == [group |-> TRUE, outIn |-> FALSE, css |-> TRUE, keeps |-> FALSE]
PlainGroup == [CardGroup EXCEPT !.css = FALSE]
Fade == [CardGroup EXCEPT !.group = FALSE]
MetricSwitch == [Fade EXCEPT !.outIn = TRUE]
PlainSwitch == [MetricSwitch EXCEPT !.css = FALSE]
RouteSwitch == [MetricSwitch EXCEPT !.keeps = TRUE]
Stages == {CardGroup, PlainGroup, Fade, MetricSwitch, PlainSwitch, RouteSwitch}

Gone == [on |-> FALSE, leaving |-> FALSE, phase |-> "idle", enterCb |-> FALSE, isLeaving |-> FALSE,
         classes |-> {}, enterFrame |-> FALSE, leaveFrame |-> FALSE, wait |-> "none", back |-> FALSE]
Settled0 == [Gone EXCEPT !.on = TRUE]

OnStage == {k \in TransitionKeys : els[k].on}
Staying == {k \in OnStage : ~els[k].leaving}

-----------------------------------------------------------------------------
(* The hooks on one element.                                                *)
\* attach, beforeEnter and enter; a kept element brings its classes along.
Entered(e) ==
  IF ~stage.css THEN Settled0
  ELSE [Settled0 EXCEPT !.classes = (IF stage.keeps THEN e.classes ELSE {}) \union {"enterFrom", "enterActive"},
                     !.enterCb = TRUE, !.enterFrame = TRUE]

\* leave: an enter that is under way is cancelled first.  An element whose
\* phase says that it is leaving is left alone.
Leaving(e) ==
  IF e.phase = "leaving" THEN [e EXCEPT !.leaving = TRUE]
  ELSE IF ~stage.css THEN [e EXCEPT !.leaving = TRUE, !.phase = "leaving", !.wait = "leave"]
  ELSE [e EXCEPT !.leaving = TRUE, !.phase = "leaving", !.isLeaving = TRUE, !.enterCb = FALSE,
                 !.leaveFrame = TRUE,
                 !.classes = (IF e.enterCb THEN @ \ {"enterTo", "enterActive"} ELSE @)
                               \union {"leaveFrom", "leaveActive"}]

\* The element after its leave: out of the page, hidden with its classes, or,
\* in a group that wants it again, left where it is.
Left(e) ==
  LET cleared == [e EXCEPT !.isLeaving = FALSE, !.wait = "none",
                           !.classes = @ \ {"leaveFrom", "leaveTo", "leaveActive"}]
  IN IF stage.group /\ ~e.leaving THEN cleared
     ELSE IF stage.keeps THEN [Gone EXCEPT !.classes = cleared.classes] ELSE Gone

-----------------------------------------------------------------------------
(* The parent renders with other children.                                  *)
\* FLIP: the callbacks of an earlier move and of an enter are settled on every
\* element that was there, and an element that is elsewhere now gets the class.
Flipped(e, moved) ==
  IF ~stage.css THEN e
  ELSE [e EXCEPT !.enterCb = FALSE, !.classes = (@ \ {"move"}) \union IF moved THEN {"move"} ELSE {}]

\* reconcile: a key that is wanted again keeps its element.
RenderGroup(S, moved) ==
  [k \in TransitionKeys |->
     CASE k \in S /\ els[k].on -> Flipped([els[k] EXCEPT !.leaving = FALSE, !.back = @ \/ els[k].leaving], k \in moved)
       [] k \in S /\ ~els[k].on -> Entered(els[k])
       [] k \in OnStage \ S -> Flipped(Leaving(els[k]), k \in moved)
       [] OTHER -> els[k]]

\* holdForOutIn: whether the wanted child may enter in this render.
MayEnter(S) == stage.outIn /\ stage.css => \A k \in OnStage : k \in Staying /\ k \in S

\* One child: a key that comes back gets a new element, the leaving one is
\* removed at once.
RenderSingle(S) ==
  LET leaves == Staying \ S
      enters == IF MayEnter(S) THEN S \ Staying ELSE {}
  IN [k \in TransitionKeys |->
        IF k \in enters THEN Entered(els[k]) ELSE IF k \in leaves THEN Leaving(els[k]) ELSE els[k]]

\* A group is also rendered with the same children in another order.
Render(S) ==
  /\ S # wanted \/ stage.group
  /\ renders < MaxRenders
  /\ stage.group \/ Cardinality(S) <= 1
  /\ stage.css \/ \A k \in TransitionKeys : els[k].wait = "none"
  /\ wanted' = S
  /\ IF stage.group THEN \E moved \in SUBSET OnStage : els' = RenderGroup(S, moved)
     ELSE els' = RenderSingle(S)
  /\ renders' = renders + 1
  /\ UNCHANGED stage

-----------------------------------------------------------------------------
(* The browser: frames in the order they were asked for, and the end.       *)
EnterFrame(k) ==
  /\ els[k].on /\ els[k].enterFrame
  /\ els' = [els EXCEPT ![k].enterFrame = FALSE, ![k].wait = "enter",
                        ![k].classes = (@ \ {"enterFrom"}) \union {"enterTo"}]
  /\ UNCHANGED <<stage, wanted, renders>>

LeaveFrame(k) ==
  /\ els[k].on /\ els[k].leaveFrame /\ ~els[k].enterFrame
  /\ els' = [els EXCEPT ![k] = IF ~@.isLeaving THEN [@ EXCEPT !.leaveFrame = FALSE]
       ELSE [@ EXCEPT !.leaveFrame = FALSE, !.wait = "leave",
                      !.classes = (@ \ {"leaveFrom"}) \union {"leaveTo"}]]
  /\ UNCHANGED <<stage, wanted, renders>>

\* The end of the last property, or the timeout; a newer wait makes it stale.
EnterEnds(k) ==
  /\ els[k].on /\ els[k].wait = "enter"
  /\ els' = [els EXCEPT ![k].wait = "none", ![k].enterCb = FALSE,
                        ![k].classes = @ \ {"enterTo", "enterActive"}]
  /\ UNCHANGED <<stage, wanted, renders>>

\* transitionend of the transform; nothing else ends a move.
MoveEnds(k) ==
  /\ els[k].on /\ "move" \in els[k].classes
  /\ els' = [els EXCEPT ![k].classes = @ \ {"move"}]
  /\ UNCHANGED <<stage, wanted, renders>>

\* finishLeave: the child that is wanted by now enters, unless one is there.
LeaveEnds(k) ==
  /\ els[k].on /\ els[k].wait = "leave"
  /\ LET next == [els EXCEPT ![k] = Left(@)]
         free == \A j \in TransitionKeys : next[j].on => next[j].leaving
     IN els' = IF stage.group \/ ~free \/ wanted = {} THEN next
               ELSE [next EXCEPT ![CHOOSE j \in wanted : TRUE] =
                       Entered(next[CHOOSE j \in wanted : TRUE])]
  /\ UNCHANGED <<stage, wanted, renders>>

-----------------------------------------------------------------------------
TransitionInit ==
  /\ stage \in Stages
  /\ wanted \in {S \in SUBSET TransitionKeys : stage.group \/ Cardinality(S) <= 1}
  /\ els = [k \in TransitionKeys |-> IF k \in wanted THEN Settled0 ELSE Gone]
  /\ renders = 0

TransitionNext ==
  \/ \E S \in SUBSET TransitionKeys : Render(S)
  \/ \E k \in TransitionKeys : EnterFrame(k) \/ LeaveFrame(k) \/ EnterEnds(k) \/ MoveEnds(k) \/ LeaveEnds(k)

\* Frames come and every wait has its timeout; a move has none.
TransitionFairness ==
  \A k \in TransitionKeys :
    /\ WF_transitionVars(EnterFrame(k)) /\ WF_transitionVars(LeaveFrame(k))
    /\ WF_transitionVars(EnterEnds(k)) /\ WF_transitionVars(LeaveEnds(k))

-----------------------------------------------------------------------------
AtRest(e) == ~e.leaving /\ ~e.enterFrame /\ ~e.leaveFrame /\ e.wait = "none"

\* With mode out-in two views are never on the page together, whatever is asked
\* for while one of them is leaving.
OneViewAtATime == stage.outIn /\ stage.css => Cardinality(OnStage) <= 1

\* An element that stays has lost its enter and leave classes once nothing is
\* under way, although its enter was cut off by a leave and by other renders -
\* unless a group took it back while it was leaving.  The class of a move is not
\* among them: it stays until the end of the move, which need not come.
ClassesAreCleared ==
  \A k \in OnStage : AtRest(els[k]) /\ ~els[k].back => els[k].classes \subseteq {"move"}

\* What the parent wants in the end is what is on the page: children that were
\* held back enter, and children that left are gone.  An element a group took
\* back while it was leaving is the exception: it may never be removed again.
WantedIsShown ==
  \A S \in SUBSET TransitionKeys :
    []<>(wanted = S => Staying = S /\ \A k \in OnStage : k \in S \/ els[k].back)
=============================================================================
