--------------------------- MODULE ReferralSignIn ---------------------------
(***************************************************************************)
(* A customer who came with an invitation and signs in at another provider.*)
(* The invitation travels in a cookie the server sets: one write when the  *)
(* portal opens, others when the customer has edited the invitation and    *)
(* presses a provider. The page leaves for the provider once the write has *)
(* ended, unless the customer has gone to another page by then.            *)
(***************************************************************************)
EXTENDS Integers, Sequences

CONSTANTS
  Invites,       \* the codes a customer may come with or type
  KnownInvites,  \* those that belong to an account
  MaxLinks,      \* pages the customer goes to
  MaxTyped,      \* edits of the invitation
  MaxWriteFaults \* writes that fail

ASSUME InviteAssumption == KnownInvites \subseteq Invites /\ "" \notin Invites
ASSUME InviteBounds == MaxLinks \in Nat /\ MaxTyped \in Nat /\ MaxWriteFaults \in Nat

VARIABLES
  writer,    \* createReferralWriter: the writes so far, and the latest one
  cookie,    \* the code of the browser's cookie, or ""
  authPage,  \* the page's instance, mode, the invitation of its address and its own, oauthAttempt, busy flags
             \* and whether the address changed since the press
  presses,   \* the calls of startOAuth that wait for a write
  gone,      \* the press whose provider the browser was sent to, or NotGone
  spentOn    \* links, typing and faults so far

referralVars == <<writer, cookie, authPage, presses, gone, spentOn>>

NotGone == [attempt |-> 0]
Spend(what, max) == spentOn[what] < max /\ spentOn' = [spentOn EXCEPT ![what] = @ + 1]

-----------------------------------------------------------------------------
(* createReferralWriter. Write 0 is a promise that has resolved.            *)
WriteOk(i) == i \in DOMAIN writer.writes => writer.writes[i].state = "ok"
WriteFailed(i) == i \in DOMAIN writer.writes /\ writer.writes[i].state = "failed"

\* The promise a call returns, and the writer after it.
Promised(w, code) == IF code = "" \/ (w.latest # 0 /\ w.writes[w.latest].code = code) THEN w.latest ELSE Len(w.writes) + 1
Remember(w, code) ==
  IF Promised(w, code) = w.latest THEN w
  ELSE [writes |-> Append(w.writes, [code |-> code, state |-> "open"]), latest |-> Len(w.writes) + 1]

\* Mutant: a write does not wait for the one before it.
MaySendAtOnce(i) == TRUE

\* A write is sent when the one before it has ended, in whichever way.
MaySend(i) == \A j \in 1..(i - 1) : writer.writes[j].state # "open"

\* The server knows the code and sets the cookie, or answers 404, which counts.
WriteLands(i) ==
  /\ writer.writes[i].state = "open" /\ MaySend(i)
  /\ writer' = [writer EXCEPT !.writes[i].state = "ok"]
  /\ cookie' = IF writer.writes[i].code \in KnownInvites THEN writer.writes[i].code ELSE cookie
  /\ UNCHANGED <<authPage, presses, gone, spentOn>>

\* The write times out or is refused: the latest one is forgotten, to be tried again.
WriteFails(i) ==
  /\ writer.writes[i].state = "open" /\ MaySend(i) /\ Spend("faults", MaxWriteFaults)
  /\ writer' = [writer EXCEPT !.writes[i].state = "failed", !.latest = IF @ = i THEN 0 ELSE @]
  /\ UNCHANGED <<cookie, authPage, presses, gone>>

-----------------------------------------------------------------------------
(* AuthPage: an instance for every route, by its key.                       *)
FreshPage(instance, mode, invite) ==
  [instance |-> instance, mode |-> mode, ref |-> invite, moved |-> FALSE, invite |-> invite, attempt |-> 0,
   oauthBusy |-> FALSE, busy |-> FALSE, error |-> FALSE]

EditInvite(c) ==
  /\ gone = NotGone /\ authPage.mode = "register" /\ c # authPage.invite /\ Spend("typed", MaxTyped)
  /\ authPage' = [authPage EXCEPT !.invite = c]
  /\ UNCHANGED <<writer, cookie, presses, gone>>

\* The link to the other page takes the invitation along; the cleanup of the
\* old instance counts its attempt on.
FollowLink ==
  /\ gone = NotGone /\ Spend("links", MaxLinks)
  /\ authPage' = FreshPage(authPage.instance + 1, IF authPage.mode = "login" THEN "register" ELSE "login", authPage.invite)
  /\ UNCHANGED <<writer, cookie, presses, gone>>

\* Back or forward to another entry of the same page, with another invitation
\* in its address: the instance stays, and the sign-in page reads the address.
JumpTo(c) ==
  /\ gone = NotGone /\ c # authPage.ref /\ Spend("links", MaxLinks)
  /\ authPage' = [authPage EXCEPT !.ref = c, !.moved = authPage.oauthBusy, !.invite = IF authPage.mode = "login" THEN c ELSE @]
  /\ UNCHANGED <<writer, cookie, presses, gone>>

StartOAuth ==
  /\ gone = NotGone /\ ~authPage.busy /\ ~authPage.oauthBusy
  /\ authPage' = [authPage EXCEPT !.attempt = @ + 1, !.moved = FALSE, !.oauthBusy = TRUE, !.error = FALSE]
  /\ writer' = Remember(writer, authPage.invite)
  /\ presses' = presses \cup {[instance |-> authPage.instance, attempt |-> authPage.attempt + 1, fromURL |-> authPage.ref,
                               code |-> authPage.invite, waits |-> Promised(writer, authPage.invite)]}
  /\ UNCHANGED <<cookie, gone, spentOn>>

\* oauthAttempt is that of the press.
StillThere(p) == p.instance = authPage.instance /\ p.attempt = authPage.attempt

\* At another address than the press's, the page stays, and stays busy.
PressGoes(p) ==
  /\ gone = NotGone /\ WriteOk(p.waits)
  /\ presses' = presses \ {p} /\ gone' = IF StillThere(p) /\ authPage.ref = p.fromURL THEN p ELSE NotGone
  /\ UNCHANGED <<writer, cookie, authPage, spentOn>>

PressFails(p) ==
  /\ gone = NotGone /\ WriteFailed(p.waits) /\ presses' = presses \ {p}
  /\ authPage' = IF StillThere(p) THEN [authPage EXCEPT !.error = TRUE, !.oauthBusy = FALSE] ELSE authPage
  /\ UNCHANGED <<writer, cookie, gone, spentOn>>

\* The form: the invitation goes in the request itself.
SubmitForm ==
  /\ gone = NotGone /\ ~authPage.busy /\ ~authPage.oauthBusy
  /\ authPage' = [authPage EXCEPT !.busy = TRUE, !.error = FALSE]
  /\ UNCHANGED <<writer, cookie, presses, gone, spentOn>>
SubmitFails ==
  /\ gone = NotGone /\ authPage.busy
  /\ authPage' = [authPage EXCEPT !.busy = FALSE, !.error = TRUE]
  /\ UNCHANGED <<writer, cookie, presses, gone, spentOn>>

ReferralInit ==
  /\ cookie \in {""} \cup KnownInvites /\ presses = {} /\ gone = NotGone
  /\ spentOn = [links |-> 0, typed |-> 0, faults |-> 0]
  /\ \E mode \in {"login", "register"}, ref \in Invites \cup {""} :
       /\ authPage = FreshPage(1, mode, ref)
       /\ writer = Remember([writes |-> <<>>, latest |-> 0], ref)

ReferralNext ==
  \/ FollowLink \/ StartOAuth \/ SubmitForm \/ SubmitFails
  \/ \E c \in Invites \cup {""} : EditInvite(c)
  \/ \E c \in KnownInvites : JumpTo(c)
  \/ \E i \in DOMAIN writer.writes : WriteLands(i) \/ WriteFails(i)
  \/ \E p \in presses : PressGoes(p) \/ PressFails(p)

\* A write has a time limit, and a promise's continuation runs.
ReferralFairness ==
  /\ WF_referralVars(\E i \in DOMAIN writer.writes : WriteLands(i) \/ WriteFails(i))
  /\ WF_referralVars(\E p \in presses : PressGoes(p) \/ PressFails(p))

-----------------------------------------------------------------------------
\* Whoever is sent to a provider with an invitation that exists comes back
\* with that invitation in the cookie, not with an earlier one whose write was
\* still under way.
InviteGoesAlong == gone # NotGone /\ gone.code \in KnownInvites => cookie = gone.code

\* Nobody is taken from a page to the provider pressed on another page, or at
\* another address of the same page.
LeavesWherePressed ==
  [][gone' # gone => /\ gone'.instance = authPage.instance /\ authPage.oauthBusy
                     /\ gone'.fromURL = authPage.ref]_referralVars

\* A pressed provider is reached, or the page can be used again; a page whose
\* address has changed since the press may stay busy.
SignInEnds == []<>(authPage.oauthBusy /\ ~authPage.moved => gone # NotGone)
=============================================================================
