------------------------------ MODULE BackTop ------------------------------
(***************************************************************************)
(* The probe's back-to-top button. React renders it once; what appears and *)
(* disappears is its display and a few transition classes, which a layout  *)
(* effect changes over two animation frames and the end of a transition.   *)
(* A scroll back before that interrupts the effect, and its cleanup has to *)
(* take back everything the interrupted one has done or still will do.     *)
(*                                                                         *)
(* ENTER_FROM and LEAVE_TO are the same classes ("clear"), ENTER_TO and    *)
(* LEAVE_FROM too ("solid"), and both ACTIVE ones ("moving").              *)
(***************************************************************************)
EXTENDS Integers

CONSTANT MaxScrolls       \* scrolls past a threshold
ASSUME ScrollBound == MaxScrolls \in Nat

VARIABLES
  scrollY,     \* where the window is: "top", "scrolled" or "beyond" visibilityHeight
  buttonWanted, \* the state set by the last scroll handler, not rendered yet
  button,      \* show, effect (the one to clean up), display, classes, animated
  callbacks,   \* what the browser still will call: an effect and its step
  header,      \* onScrolled's argument, the header's isScrolled
  listening,   \* whether the effect of the mount has run
  scrolls

topVars == <<scrollY, buttonWanted, button, callbacks, header, listening, scrolls>>

-----------------------------------------------------------------------------
Callback(effect, step) == [effect |-> effect, step |-> step]

\* nextFrame and whenTransitionEnds: the closure cancels whichever is pending.
Cancelled(cs) == {}

\* What the effect's cleanup does to the element; the first effect of a hidden
\* button returns before it registers one.
ButtonCleaned(b) ==
  IF b.effect = "none" THEN b
  ELSE [b EXCEPT !.classes = {}, !.display = IF b.effect = "leave" THEN FALSE ELSE @]

Entering(b) == [b EXCEPT !.effect = "enter", !.show = TRUE, !.display = TRUE, !.classes = @ \cup {"clear", "moving"}]
ButtonLeaving(b) == [b EXCEPT !.effect = "leave", !.show = FALSE, !.classes = @ \cup {"solid", "moving"}]

\* The render of a changed `show`: the old effect's cleanup, then the new effect.
RenderButton ==
  /\ buttonWanted # button.show
  /\ button' = IF buttonWanted THEN Entering(ButtonCleaned(button)) ELSE ButtonLeaving(ButtonCleaned(button))
  /\ callbacks' = (IF button.effect = "none" THEN callbacks ELSE Cancelled(callbacks))
                    \cup {Callback(IF buttonWanted THEN "enter" ELSE "leave", "frame1")}
  /\ UNCHANGED <<scrollY, buttonWanted, header, listening, scrolls>>

-----------------------------------------------------------------------------
\* The frame before the last: requestAnimationFrame inside requestAnimationFrame.
FirstFrame(c) ==
  /\ c \in callbacks /\ c.step = "frame1"
  /\ callbacks' = (callbacks \ {c}) \cup {Callback(c.effect, "frame2")}
  /\ UNCHANGED <<scrollY, buttonWanted, button, header, listening, scrolls>>

EndOf(effect, b) ==
  IF effect = "enter" THEN [b EXCEPT !.classes = @ \ {"solid", "moving"}]
  ELSE [b EXCEPT !.display = FALSE, !.classes = {}]

\* The classes turn over; a transition without duration ends at once.
SecondFrame(c) ==
  /\ c \in callbacks /\ c.step = "frame2"
  /\ LET over == IF c.effect = "enter" THEN [button EXCEPT !.classes = (@ \ {"clear"}) \cup {"solid"}]
                                       ELSE [button EXCEPT !.classes = (@ \ {"solid"}) \cup {"clear"}]
     IN IF button.animated
        THEN button' = over /\ callbacks' = (callbacks \ {c}) \cup {Callback(c.effect, "end")}
        ELSE button' = EndOf(c.effect, over) /\ callbacks' = callbacks \ {c}
  /\ UNCHANGED <<scrollY, buttonWanted, header, listening, scrolls>>

\* transitionend, or the timer that stands in for it.
TransitionEnds(c) ==
  /\ c \in callbacks /\ c.step = "end"
  /\ button' = EndOf(c.effect, button) /\ callbacks' = callbacks \ {c}
  /\ UNCHANGED <<scrollY, buttonWanted, header, listening, scrolls>>

-----------------------------------------------------------------------------
\* handleScroll: both states follow the position of now.
HandleScroll(y) == buttonWanted' = (y = "beyond") /\ header' = (y # "top")

\* The effect of the mount listens and looks once: the browser may have
\* restored a position before.
MountButton ==
  /\ ~listening /\ listening' = TRUE /\ HandleScroll(scrollY)
  /\ UNCHANGED <<scrollY, button, callbacks, scrolls>>

ScrollTo(y) ==
  /\ y # scrollY /\ scrolls < MaxScrolls /\ scrolls' = scrolls + 1
  /\ scrollY' = y
  /\ IF listening THEN HandleScroll(y) ELSE UNCHANGED <<buttonWanted, header>>
  /\ UNCHANGED <<button, callbacks, listening>>

\* scrollToTop, which a click of the displayed button asks for.
ScrollToTop == button.display /\ ScrollTo("top")

TopInit ==
  /\ scrollY \in {"top", "scrolled", "beyond"} /\ buttonWanted = FALSE /\ header = FALSE
  /\ listening = FALSE /\ scrolls = 0 /\ callbacks = {}
  /\ button \in [show : {FALSE}, effect : {"none"}, display : {FALSE}, classes : {{}}, animated : BOOLEAN]

TopNext ==
  \/ MountButton \/ RenderButton \/ ScrollToTop
  \/ \E y \in {"top", "scrolled", "beyond"} : ScrollTo(y)
  \/ \E c \in callbacks : FirstFrame(c) \/ SecondFrame(c) \/ TransitionEnds(c)

\* React renders, and the browser runs frames and timers.
TopFairness ==
  /\ WF_topVars(MountButton) /\ WF_topVars(RenderButton)
  /\ WF_topVars(\E c \in callbacks : FirstFrame(c) \/ SecondFrame(c) \/ TransitionEnds(c))

-----------------------------------------------------------------------------
\* Once the browser owes the button nothing it is displayed exactly when it is
\* shown and carries no transition class, wherever its transitions were cut off.
RestsAsShown == callbacks = {} => button.display = button.show /\ button.classes = {}

\* The two ends of a transition are never both on the element, so that the
\* order of the stylesheet never decides which one is seen.
OneEndAtATime == ~({"clear", "solid"} \subseteq button.classes)

\* A page that stays beyond the height shows the button, although the browser
\* may have put it there before the button listened.
ButtonAppears == []<>(scrollY # "beyond" \/ button.display)
=============================================================================
