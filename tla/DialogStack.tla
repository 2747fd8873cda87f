----------------------------- MODULE DialogStack -----------------------------
(***************************************************************************)
(* The modal dialogs of the probe page (AppDialog, dialog-utils): the      *)
(* locks on the body they share, the elements they hide from assistive     *)
(* technology, and the focus they take and give back.  A closed dialog     *)
(* keeps its overlay and its scroll lock until the exit animation ends;    *)
(* meanwhile it is opened again, another one is, or its card is unmounted. *)
(***************************************************************************)
EXTENDS Integers, FiniteSets, Sequences

CONSTANTS
  Dialogs,       \* AppDialog instances with their openers on the page
  MaxOpens       \* presses of an opener

ASSUME DialogBounds == MaxOpens \in Nat

VARIABLES
  dialogs,       \* per dialog: open, overlay mounted, opener mounted, lastFocused set
  pointerLock,   \* pointerLocks of the document: owners and the value to put back
  scrollLock,    \* scrollLockCount and initialOverflow
  body,          \* the styles of the body and the page's aria-hidden counter
  layers,        \* layerStack
  focused,       \* where the focus is: "page", "body" or a dialog
  tasks,         \* queued: microtasks of lockBodyScroll, timers that give the focus back
  opens

dialogVars == <<dialogs, pointerLock, scrollLock, body, layers, focused, tasks, opens>>

BodyBefore == [pointer |-> "auto", overflow |-> "visible", hidden |-> 0]
NoLock == [owners |-> {}, original |-> "auto"]
OpenDialogs == {d \in Dialogs : dialogs[d].open}
Overlays == {d \in Dialogs : dialogs[d].overlay}

-----------------------------------------------------------------------------
(* dialog-utils: the locks.                                                 *)
AcquirePointer(lock, b, owner) ==
  [lock |-> [owners |-> lock.owners \union {owner},
             original |-> IF lock.owners = {} THEN b.pointer ELSE lock.original],
   body |-> [b EXCEPT !.pointer = "none"]]

ReleasePointer(lock, b, owner) ==
  LET rest == lock.owners \ {owner}
  IN [lock |-> IF rest = {} THEN NoLock ELSE [lock EXCEPT !.owners = rest],
      body |-> IF owner \in lock.owners /\ rest = {} THEN [b EXCEPT !.pointer = lock.original] ELSE b]

\* The count of the overlays; the first one remembers the style and queues
\* the microtask that sets it.
LockScroll(s, b) ==
  IF s.count = 0
  THEN [scroll |-> [count |-> 1, initial |-> IF s.initial = "unset" THEN b.overflow ELSE s.initial], queued |-> 1]
  ELSE [scroll |-> [s EXCEPT !.count = @ + 1], queued |-> 0]

\* The last overlay gives the pointer and the scrolling back.
UnlockScroll(s, lock, b) ==
  IF s.count > 1 THEN [scroll |-> [s EXCEPT !.count = @ - 1], lock |-> lock, body |-> b]
  ELSE LET r == ReleasePointer(lock, b, "scroll")
       IN [scroll |-> [count |-> 0, initial |-> "unset"], lock |-> r.lock,
           body |-> [r.body EXCEPT !.overflow = IF s.initial = "unset" THEN "visible" ELSE s.initial]]

-----------------------------------------------------------------------------
(* AppDialog: the layout effects of a commit that changes `open`.            *)
\* The page is hidden from assistive technology once per open content.
Mounted(d, lock, b) ==
  LET r == AcquirePointer(lock, b, d) IN [r EXCEPT !.body.hidden = @ + 1]

Cleaned(d, lock, b) ==
  LET r == ReleasePointer(lock, b, d) IN [r EXCEPT !.body.hidden = @ - 1]

\* The opener is reached with a pointer while the body takes events, or with
\* the keyboard while the focus is on the page.
OpenerReached == focused = "page" \/ (body.pointer = "auto" /\ Overlays = {})

Open(d) ==
  /\ opens < MaxOpens /\ dialogs[d].opener /\ ~dialogs[d].open /\ tasks.micro = 0 /\ OpenerReached
  /\ LET s == IF dialogs[d].overlay THEN [scroll |-> scrollLock, queued |-> 0] ELSE LockScroll(scrollLock, body)
         r == Mounted(d, pointerLock, body)
     IN /\ scrollLock' = s.scroll /\ pointerLock' = r.lock /\ body' = r.body
        /\ tasks' = [tasks EXCEPT !.micro = @ + s.queued]
  /\ dialogs' = [dialogs EXCEPT ![d].open = TRUE, ![d].overlay = TRUE, ![d].seen = FALSE]
  /\ layers' = Append(layers, d)
  /\ focused' = d
  /\ opens' = opens + 1

\* The cleanup of the content: its layer, its lock, the hidden page, and a
\* timer that gives the focus back to the opener.
CleanContent(d) == Cleaned(d, pointerLock, body)

\* Escape (the top layer only), the button, or a press outside: the overlay
\* stays for its exit animation, if it has one.
Close(d, animated) ==
  /\ dialogs[d].open /\ tasks.micro = 0
  /\ LET r == CleanContent(d)
         u == IF animated THEN [scroll |-> scrollLock, lock |-> r.lock, body |-> r.body]
              ELSE UnlockScroll(scrollLock, r.lock, r.body)
     IN scrollLock' = u.scroll /\ pointerLock' = u.lock /\ body' = u.body
  /\ dialogs' = [dialogs EXCEPT ![d].open = FALSE, ![d].overlay = animated]
  /\ layers' = SelectSeq(layers, LAMBDA e : e # d)
  /\ focused' = IF focused = d THEN "body" ELSE focused
  /\ tasks' = [tasks EXCEPT !.focus = @ \union {d}]
  /\ UNCHANGED opens

EscapePressed == layers # << >> /\ \E animated \in BOOLEAN : Close(layers[Len(layers)], animated)

\* pointerdown outside the content: every open dialog hears it, top or not.
PressedOutside(d) == layers # << >> /\ d # layers[Len(layers)] /\ \E animated \in BOOLEAN : Close(d, animated)

\* usePresence: the end of the exit animation; opening again took the
\* listener away.
ExitEnds(d) ==
  /\ dialogs[d].overlay /\ ~dialogs[d].open /\ tasks.micro = 0
  /\ LET u == UnlockScroll(scrollLock, pointerLock, body)
     IN scrollLock' = u.scroll /\ pointerLock' = u.lock /\ body' = u.body
  /\ dialogs' = [dialogs EXCEPT ![d].overlay = FALSE]
  /\ UNCHANGED <<layers, focused, tasks, opens>>

\* The card is unmounted with its dialog, in the same task as the opening too.
UnmountDialog(d) ==
  /\ dialogs[d].opener
  /\ LET r == IF dialogs[d].open THEN CleanContent(d) ELSE [lock |-> pointerLock, body |-> body]
         u == IF dialogs[d].overlay THEN UnlockScroll(scrollLock, r.lock, r.body)
              ELSE [scroll |-> scrollLock, lock |-> r.lock, body |-> r.body]
     IN scrollLock' = u.scroll /\ pointerLock' = u.lock /\ body' = u.body
  /\ tasks' = IF dialogs[d].open THEN [tasks EXCEPT !.focus = @ \union {d}] ELSE tasks
  /\ dialogs' = [dialogs EXCEPT ![d].open = FALSE, ![d].overlay = FALSE, ![d].opener = FALSE]
  /\ layers' = SelectSeq(layers, LAMBDA e : e # d)
  /\ focused' = IF focused = d THEN "body" ELSE focused
  /\ UNCHANGED opens

-----------------------------------------------------------------------------
(* The browser's queues.                                                     *)
\* Mutant: the microtask locks the page although every overlay is gone.
ScrollMicrotaskAnyway ==
  /\ tasks.micro > 0
  /\ LET r == AcquirePointer(pointerLock, body, "scroll")
     IN pointerLock' = r.lock /\ body' = [r.body EXCEPT !.overflow = "hidden"]
  /\ tasks' = [tasks EXCEPT !.micro = @ - 1]
  /\ UNCHANGED <<dialogs, scrollLock, layers, focused, opens>>

ScrollMicrotask ==
  /\ tasks.micro > 0
  /\ IF scrollLock.count = 0 THEN UNCHANGED <<pointerLock, body>>
     ELSE LET r == AcquirePointer(pointerLock, body, "scroll")
          IN pointerLock' = r.lock /\ body' = [r.body EXCEPT !.overflow = "hidden"]
  /\ tasks' = [tasks EXCEPT !.micro = @ - 1]
  /\ UNCHANGED <<dialogs, scrollLock, layers, focused, opens>>

\* The focus goes back to the opener; an open dialog takes it back to where
\* it was last seen inside it.
FocusBack(d) ==
  /\ d \in tasks.focus /\ tasks.micro = 0
  /\ tasks' = [tasks EXCEPT !.focus = @ \ {d}]
  /\ focused' = IF ~dialogs[d].opener THEN focused
                ELSE IF \E e \in OpenDialogs : dialogs[e].seen
                     THEN CHOOSE e \in OpenDialogs : dialogs[e].seen ELSE "page"
  /\ UNCHANGED <<dialogs, pointerLock, scrollLock, body, layers, opens>>

\* Tab or a press inside the dialog: focusin remembers the element.
MoveInside(d) ==
  /\ focused = d /\ ~dialogs[d].seen /\ tasks.micro = 0
  /\ dialogs' = [dialogs EXCEPT ![d].seen = TRUE]
  /\ UNCHANGED <<pointerLock, scrollLock, body, layers, focused, tasks, opens>>

DialogInit ==
  /\ dialogs = [d \in Dialogs |-> [open |-> FALSE, overlay |-> FALSE, opener |-> TRUE, seen |-> FALSE]]
  /\ pointerLock = NoLock /\ scrollLock = [count |-> 0, initial |-> "unset"]
  /\ body = BodyBefore /\ layers = << >> /\ focused = "page"
  /\ tasks = [micro |-> 0, focus |-> {}] /\ opens = 0

DialogNext ==
  \/ ScrollMicrotask \/ EscapePressed
  \/ \E d \in Dialogs : Open(d) \/ PressedOutside(d) \/ ExitEnds(d) \/ UnmountDialog(d) \/ FocusBack(d) \/ MoveInside(d)

\* Microtasks and timers run, and an animation that nothing interrupts ends.
DialogFairness ==
  /\ WF_dialogVars(ScrollMicrotask)
  /\ \A d \in Dialogs : WF_dialogVars(ExitEnds(d)) /\ WF_dialogVars(FocusBack(d))

-----------------------------------------------------------------------------
\* Once no dialog is on the page the body scrolls, takes events and is visible
\* again, in whatever order the dialogs closed, finished their animation or
\* were unmounted.
BodyIsRestored == Overlays = {} /\ tasks.micro = 0 => body = BodyBefore /\ pointerLock = NoLock

\* Behind an open dialog the page neither scrolls nor takes events, also while
\* another dialog's exit animation ends.
PageStaysLocked ==
  OpenDialogs # {} /\ tasks.micro = 0 =>
    body.pointer = "none" /\ body.overflow = "hidden" /\ body.hidden = Cardinality(OpenDialogs)

\* A page whose dialogs are closed is usable in the end.
PageComesBack == []<>(OpenDialogs # {} \/ body = BodyBefore)
=============================================================================
