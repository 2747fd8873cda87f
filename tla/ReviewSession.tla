---------------------------- MODULE ReviewSession ----------------------------
(***************************************************************************)
(* A change that is first worked out by the server, shown to a person, and *)
(* only then made: the effect of a line, a route or a staged plan, the     *)
(* commit of a changeset, the records a DNS sync would write, an action on *)
(* a running plan, the price of an order.  The world it was worked out in  *)
(* may move between the two requests, and the person may change the        *)
(* proposal while an answer is on its way.  What one of them does          *)
(* differently from the next is its profile (below):                       *)
(*                                                                         *)
(*   tied     how the page knows that a review is of what it would send:   *)
(*            "source" the review keeps the proposal it was made of        *)
(*            "newest" an answer counts unless a newer one was asked for   *)
(*            "plan"   there is no proposal, the review is the plan        *)
(*   sends    the content that is committed: of the "review", as it was    *)
(*            when the confirmation opened (as "captured"), or what the    *)
(*            page holds now (the "proposal")                              *)
(*   live     the proposal may be edited while a review is asked for       *)
(*   drops    a commit that fails ends the review it was made from         *)
(*   once     a second commit needs a review asked for after the first     *)
(*   checked  the server compares the revision of the review               *)
(*   atomic   it compares and writes in one transaction; the DNS sync reads *)
(*            the provider, compares, and writes its records one by one     *)
(***************************************************************************)
EXTENDS Integers

CONSTANTS
  ReviewProfiles,  \* the profiles of the pages
  MaxProposals,    \* versions of the proposal
  MaxWorlds,       \* changes somebody else makes to the world
  MaxReviews,      \* reviews asked for
  MaxLostCommits,  \* commits whose answer, or whose request, is lost
  MaxRecords       \* records of a DNS sync (A and AAAA)

\* A page whose revision is compared sends what was reviewed, not what it holds.
ASSUME ReviewPages ==
  /\ ReviewProfiles \subseteq
       [tied : {"source", "newest", "plan"}, sends : {"review", "captured", "proposal"},
        live : BOOLEAN, drops : BOOLEAN, once : BOOLEAN, checked : BOOLEAN, atomic : BOOLEAN]
  /\ \A d \in ReviewProfiles : d.checked => d.sends # "proposal"

ASSUME ReviewBounds == {MaxProposals, MaxWorlds, MaxReviews, MaxLostCommits, MaxRecords} \subseteq Nat

VARIABLES
  desk,      \* the profile of the page
  proposal,  \* what the page would ask for, by number
  world,     \* the state the effects depend on, by number
  config,    \* the part of it the panel itself keeps, by number
  asked,     \* the reviews on the wire
  review,    \* the review on the page
  confirm,   \* the open confirmation, with what it captured
  commit,    \* the commit on the wire
  made,      \* the reviews that were carried out
  tally      \* proposals, worlds, reviews and lost commits so far, and whether a commit was sent since the review

reviewVars == <<desk, proposal, world, config, asked, review, confirm, commit, made, tally>>

NoReview == [n |-> 0, of |-> 0, seen |-> 0]
NoCommit == [at |-> "no", of |-> 0, seen |-> 0, shown |-> NoReview, read |-> 0, config |-> 0, left |-> 0]

-----------------------------------------------------------------------------
\* currentLineReview, rolloutReviewKey, the version and the source of a changeset.
ReviewCurrent ==
  /\ review # NoReview
  /\ desk.tied = "source" => review.of = proposal

Asking == asked # {}

\* The request for a review of a proposal.  A page of the "newest" kind asks by
\* itself and lets the answers to older questions count for nothing.
Ask(p) ==
  /\ tally.reviews < MaxReviews
  /\ asked' = {[q EXCEPT !.counts = FALSE] : q \in asked}
                \cup {[at |-> "sent", counts |-> TRUE, review |-> [n |-> tally.reviews + 1, of |-> p, seen |-> 0]]}
  /\ tally' = [tally EXCEPT !.reviews = @ + 1]

\* Edits are taken while nothing is being committed.
EditProposal ==
  /\ desk.tied # "plan" /\ proposal < MaxProposals
  /\ commit.at = "no" /\ (desk.live \/ ~Asking)
  /\ proposal' = proposal + 1
  /\ IF desk.tied = "newest" THEN Ask(proposal + 1) ELSE UNCHANGED <<asked, tally>>
  /\ UNCHANGED <<desk, world, config, review, confirm, commit, made>>

\* The preview button, the poll of a plan, the reload of a sync, the first quote.
AskReview ==
  /\ commit.at = "no" /\ ~Asking
  /\ Ask(proposal)
  /\ UNCHANGED <<desk, proposal, world, config, review, confirm, commit, made>>

ServeReview(q) ==
  /\ q.at = "sent"
  /\ asked' = (asked \ {q}) \cup {[q EXCEPT !.at = "served", !.review.seen = world]}
  /\ UNCHANGED <<desk, proposal, world, config, review, confirm, commit, made, tally>>

ReviewArrives(q) ==
  /\ q.at = "served"
  /\ IF q.counts THEN review' = q.review /\ tally' = [tally EXCEPT !.sent = FALSE]
     ELSE UNCHANGED <<review, tally>>
  /\ asked' = asked \ {q}
  /\ UNCHANGED <<desk, proposal, world, config, confirm, commit, made>>

\* A failed preview leaves the review that was there; a plan that cannot be loaded
\* and a quote that is refused do not.
ReviewFails(q) ==
  /\ q.at = "sent"
  /\ review' = IF desk.tied = "source" \/ ~q.counts THEN review ELSE NoReview
  /\ asked' = asked \ {q}
  /\ UNCHANGED <<desk, proposal, world, config, confirm, commit, made, tally>>

\* Somebody else changes what the effects depend on: in the panel, which is locked
\* while a sync writes, or in the console of the DNS provider.
WorldMoves(inside) ==
  /\ tally.worlds < MaxWorlds
  /\ IF inside THEN commit.at # "writing" ELSE ~desk.atomic
  /\ world' = world + 1 /\ config' = config + IF inside THEN 1 ELSE 0
  /\ tally' = [tally EXCEPT !.worlds = @ + 1]
  /\ UNCHANGED <<desk, proposal, asked, review, confirm, commit, made>>

-----------------------------------------------------------------------------
\* rolloutActionRequest: the plan and version are captured when the confirmation
\* opens, while polling goes on replacing the one on the page.
OpenConfirm ==
  /\ desk.sends = "captured" /\ ReviewCurrent /\ confirm = NoReview /\ commit.at = "no"
  /\ confirm' = review
  /\ UNCHANGED <<desk, proposal, world, config, asked, review, commit, made, tally>>

Approved == IF desk.sends = "captured" THEN confirm ELSE review

\* Mutant: the version on the page now, not the one captured.
SentBorrowed ==
  [NoCommit EXCEPT !.at = "sent", !.shown = Approved, !.seen = review.seen,
                   !.of = IF desk.sends = "proposal" THEN proposal ELSE Approved.of]

\* What the request carries.
Sent ==
  [NoCommit EXCEPT !.at = "sent", !.shown = Approved, !.seen = Approved.seen,
                   !.of = IF desk.sends = "proposal" THEN proposal ELSE Approved.of]

Commit ==
  /\ commit.at = "no"
  /\ IF desk.sends = "captured" THEN confirm # NoReview ELSE ReviewCurrent
  /\ desk.once => ~tally.sent /\ ~Asking
  /\ commit' = Sent
  /\ confirm' = NoReview
  /\ tally' = [tally EXCEPT !.sent = TRUE]
  /\ UNCHANGED <<desk, proposal, world, config, asked, review, made>>

\* The transaction works the effects out again and compares the revision.
Accepts == desk.checked => commit.seen = world

ServeCommit ==
  /\ commit.at = "sent" /\ desk.atomic
  /\ IF Accepts
     THEN world' = world + 1 /\ made' = made \cup {commit.shown.n} /\ commit' = [commit EXCEPT !.at = "done"]
     ELSE commit' = [commit EXCEPT !.at = "refused"] /\ UNCHANGED <<world, made>>
  /\ UNCHANGED <<desk, proposal, config, asked, review, confirm, tally>>

\* PrepareNodeSync and ReadNodeSyncPlan: the configuration, and the provider's records
\* without a lock.
ReadPlan ==
  /\ commit.at = "sent" /\ ~desk.atomic
  /\ commit' = [commit EXCEPT !.at = "read", !.read = world, !.config = config]
  /\ UNCHANGED <<desk, proposal, world, config, asked, review, confirm, made, tally>>

\* ApplyNodeSync, under the lock: the configuration is that of the plan, and the plan
\* the one reviewed; the provider is not asked again.
ApplyPlan(records) ==
  /\ commit.at = "read"
  /\ commit' = IF commit.config = config /\ commit.read = commit.seen
               THEN [commit EXCEPT !.at = "writing", !.left = records] ELSE [commit EXCEPT !.at = "refused"]
  /\ UNCHANGED <<desk, proposal, world, config, asked, review, confirm, made, tally>>

\* applyPlan: a record is written, or its write is rejected or not known to have
\* arrived; the others go on.
WriteRecord(written) ==
  /\ commit.at = "writing"
  /\ commit' = [commit EXCEPT !.left = @ - 1, !.at = IF commit.left = 1 THEN "done" ELSE "writing"]
  /\ IF written THEN world' = world + 1 /\ made' = made \cup {commit.shown.n} ELSE UNCHANGED <<world, made>>
  /\ UNCHANGED <<desk, proposal, config, asked, review, confirm, tally>>

\* Success closes the page, but for the sync, which shows the outcome of every
\* record; an error leaves it open.
CommitSucceeds ==
  /\ commit.at = "done"
  /\ commit' = IF desk.atomic THEN [commit EXCEPT !.at = "closed"] ELSE NoCommit
  /\ UNCHANGED <<desk, proposal, world, config, asked, review, confirm, made, tally>>

CommitFails ==
  /\ commit.at = "refused" \/ (commit.at \in {"sent", "done"} /\ tally.lost < MaxLostCommits)
  /\ commit' = NoCommit
  /\ review' = IF desk.drops THEN NoReview ELSE review
  /\ tally' = [tally EXCEPT !.lost = @ + IF commit.at = "refused" THEN 0 ELSE 1]
  /\ UNCHANGED <<desk, proposal, world, config, asked, confirm, made>>

-----------------------------------------------------------------------------
ReviewInit ==
  /\ desk \in ReviewProfiles
  /\ proposal = 1 /\ world = 1 /\ config = 1
  /\ asked = {} /\ review = NoReview /\ confirm = NoReview /\ commit = NoCommit
  /\ made = {}
  /\ tally = [worlds |-> 0, reviews |-> 0, lost |-> 0, sent |-> FALSE]

ReviewNext ==
  \/ EditProposal \/ AskReview \/ \E inside \in BOOLEAN : WorldMoves(inside)
  \/ \E q \in asked : ServeReview(q) \/ ReviewArrives(q) \/ ReviewFails(q)
  \/ OpenConfirm \/ Commit \/ ServeCommit \/ CommitSucceeds \/ CommitFails
  \/ ReadPlan \/ (\E records \in 1..MaxRecords : ApplyPlan(records)) \/ \E written \in BOOLEAN : WriteRecord(written)

ReviewSpec == ReviewInit /\ [][ReviewNext]_reviewVars

-----------------------------------------------------------------------------
(* The pages that show a change before it is made, one profile each.        *)
LineReview ==
  [tied |-> "source", sends |-> "review", live |-> TRUE, drops |-> TRUE, once |-> FALSE, checked |-> TRUE,
   atomic |-> TRUE]
RouteReview == LineReview
LineRolloutPlanner == [LineReview EXCEPT !.live = FALSE]
ChangesetReview == [LineRolloutPlanner EXCEPT !.drops = FALSE]
LineRolloutActions == [LineReview EXCEPT !.tied = "plan", !.sends = "captured", !.drops = FALSE]
DNSSyncModal == [LineReview EXCEPT !.tied = "plan", !.drops = FALSE, !.once = TRUE, !.atomic = FALSE]
OrderQuote == [LineReview EXCEPT !.tied = "newest", !.sends = "proposal", !.drops = FALSE, !.checked = FALSE]

ReviewPageProfiles ==
  {LineReview, RouteReview, LineRolloutPlanner, ChangesetReview, LineRolloutActions, DNSSyncModal, OrderQuote}

-----------------------------------------------------------------------------
(* Properties.                                                              *)

\* What is carried out is what the person had on the screen when approving it:
\* the same proposal, with the effects it had then, whatever was edited, polled
\* or changed by others while the requests were out.  A price is only an estimate.
\* A DNS sync writes the records of a plan that, when it was read, was the one
\* reviewed, and nothing in the panel changed since; an edit in the provider's
\* console after that reading is not seen.
CommittedAsReviewed ==
  [][/\ ServeCommit /\ Accepts =>
          ~desk.checked \/ (commit.of = commit.shown.of /\ world = commit.shown.seen)
     /\ (\E written \in BOOLEAN : WriteRecord(written)) =>
          /\ desk.checked => commit.of = commit.shown.of
          /\ commit.read = commit.shown.seen /\ config = commit.config]_reviewVars

\* One review is carried out once, although the answer to the first try was lost
\* or some of its records were refused, and the person tries again.
CarriedOutOnce ==
  [][/\ ServeCommit /\ Accepts => (commit.shown.n \notin made \/ ~desk.checked)
     /\ (\E records \in 1..MaxRecords : ApplyPlan(records)) /\ commit'.at = "writing" => commit.shown.n \notin made]_reviewVars

\* Once every answer is in, the price on the order button is that of the period
\* and the coupon chosen last, in whatever order the answers came.
QuoteIsOfTheChoice ==
  desk.tied = "newest" /\ review # NoReview /\ ~Asking => review.of = proposal
=============================================================================
