# Captain: TLA+ models, model checking and proofs

Captain is a panel for a fleet of proxy servers. The panel (Go, `src/internal/`)
keeps everything in one SQLite database; on each server an agent, *bosun* (not in
this repository), polls the panel for the state the server should run, installs
it, and reports back. Customers buy plans in a portal; the traffic their servers
report is charged to their subscriptions. The web clients (TypeScript,
`src/web/`) are a staff console (`admin`), a customer portal (`portal`), a public
site (`site`) and a public status page (`probe`).

This directory models the parts whose correctness depends on the order of things:
requests that overlap, answers that come late or twice, agents that restart or are
paired again, jobs that run between two clicks, pages that are left and come back
to. TLC checks the models on small instances (`*.cfg`), and TLAPS proves the
central results for instances of any size (`*Proofs.tla`). `PROJECT.json` relates
every definition to the lines it models, every property to a mutation of the code
that breaks it, and every hazard to the properties that cover it.

    tlc -workers 2 -config ConfigEvidence.cfg ConfigEvidence
    tlapm ConfigEvidenceProofs.tla

## 1. Inventory

All writers of the database take turns: a transaction is atomic, and what lies
between two transactions of a handler is not. The hard behaviours are therefore
between transactions (a state is built, then delivered; a quote is computed, then
paid), between the panel and an agent (requests and receipts lost, delayed,
repeated, of an older token), and over time (a plan that waits for receipts).

| Part | State it keeps | Operations | Talks to | What is hard | Correct when |
|---|---|---|---|---|---|
| Configuration evidence | sessions, deliveries, one head per server | prepare a delivery, activate, retire, prune, record a receipt, judge freshness | long poll and report handler; read by releases, path health, admin pages | overlapping agent processes, delayed polls and receipts, re-pairing, retention | one process speaks for a server, never one that was superseded; "applied" and "fresh" are true |
| Staged line releases | a plan with servers and steps, the saved line, entries | plan, advance, publish, pause, retry, compensate; bind deliveries; record receipts | evidence, state builder, entries | agents that fail, fall silent or are paired again in the middle; late answers of an earlier attempt | no hop forwards to nowhere; entries are served; compensation leaves nothing behind; plans stop by themselves |
| Release scheduler | the running plans | tick over a batch | releases | one plan's error in a shared transaction | every overdue plan pauses |
| Release reservations | what active plans have captured | guards of other edits | lines, members, inbounds | two plans or a plan and an edit | captured things do not change |
| Orders and subscriptions | orders, subscriptions, balances, commissions, coupon uses | checkout, balance and gateway payment, settlement, renewal, stacking, replacing, queueing, cancelling, housekeeping | gateways, jobs, portal | repeated and late callbacks, refunds, jobs between two statements | periods, money and hooks follow the orders; queued plans start |
| Traffic accounting | cursor per journal generation, charges, bounded history | accept a report, record it, expire history | agent, subscriptions | copies in flight, failures after the commit, re-installation | each batch is charged once, in order, and acknowledged in the end |
| Agent protocol handlers | none of their own | pairing, long poll, report, logs, audits | everything above | order of the steps of a report, one of which may fail | a repeated report is harmless |
| State builder and cache | cached states | build, invalidate | long poll | a stale build stored after the invalidation | stale states do not last |
| Path rollouts and health gate | plans over branching paths, health samples | plan, gate, publish | scheduler, evidence | samples of another process or configuration | nothing is published on old evidence |
| Line compiler, routes, transports | lines, routes, rules | compile, preview, save | releases | ports and targets shared by lines | rules match the saved intent |
| Topology changesets | drafts, versions, previews | edit, preview, commit | compiler, releases | edits between preview and commit | what is committed is what was approved |
| Pairing and server records | token, mode, host settings | redeem, reset, remove, change mode | every request of an agent | requests of a revoked token | a revoked token has no effect |
| Server jobs | one-off jobs, upgrades, removals | queue, claim, report, expire | agent state | late reports, repeated delivery | one outcome per job |
| Service control | mode, revision, period, exemptions | pause, limit, resume, roll over | traffic, agent state | manual and automatic changes in any order | the mode shown is the mode in force |
| Gift codes, commissions, withdrawals | codes, accounts | redeem, credit, withdraw | orders | double redemption | money adds up |
| Monitoring | incidents, availability, schedules | evaluate, notify | probes, notifications | marked as notified before it is sent | no incident is lost or reopened |
| DNS, certificates, agent HTTPS | records, revisions, listeners | plan, apply, renew, switch | external providers | checked, then changed elsewhere | the provider ends up as planned |
| Probe data, renewals of servers, dynamic limits, devices | time series, bills | record, average, expire | pages | arithmetic | covered by unit tests |
| Entries, inbounds, access, external servers, WireGuard | configuration tables | edit, validate | compiler, subscriptions | little: single transactions | |
| Accounts, login, tokens, HTTP servers, mail, backup | records and presentation | requests | people | little: single transactions | |
| Consoles: editors | a query's data, a draft, a save on the wire | read, edit, save, reload, commands | the store's handlers, other people | reads that land during a save, conflicts, lost answers, somebody else's change | no edit is lost in silence, no blind overwrite, what is saved is shown |
| Consoles: reviewed changes | a proposal, a review, a confirmation | preview, edit, confirm, commit | lines, routes, releases, changesets, DNS, orders | the world or the proposal moves between review and commit | what is done is what was reviewed, once |
| Consoles: evidence and selections | evidence with a lifetime, a selection, a lease | ask, receive, tick, select, renew, release | evidence, probe, diagnostics handlers | sleep, clocks set back, late answers of a former selection | what is called current is current; what is shown is selected |
| Consoles: update, removal, sign-in | an order, a job, an invitation | order, poll, claim, act, report | the process or server that goes away | the process that answers is the one replaced; two people at once | one worker acts; the page finds its way back |
| Status page: feed and choices | snapshot, node list, timers, local storage | poll, land, retry, choose, hear | probe API, other tabs | aborted requests, a second chain of timers, events of other tabs | the store is the snapshot; tabs agree |
| Status page: requests and caches | a pool, shared entries, bars | subscribe, queue, abort, retry, sweep | probe API | the last subscriber goes while a new one comes | one request for all, every card hears of its end |
| Status page: cards and charts | what was published | convert, sum, group, draw | rates job, histories | missing measures, several currencies, ends of months | nothing is drawn that was not measured |
| Status page: motion and dialogs | classes, locks, observers, focus | enter, leave, open, close, hide | React, the browser | each step may be interrupted by the next | nothing is left behind |

The components of `PROJECT.json` are these, in more detail, with sources and
status.

## 2. Modules

    ConfigHead         what the evidence of a server promises (abstract)
      ^ implemented by
    ConfigEvidence     deliveries, sessions, receipts, head of one server
      ConfigEvidenceProofs

    LinePlan           operators: paths, rules, the steps of a release and their order
      LinePlanProofs
      LineOrder        the order of the steps, for every pair of paths
      LineRollout      one release with scheduler, operator and agents
        MCLineRollout, LineRolloutProofs
    RolloutBatch       the scheduler's tick over several plans

    Billing            orders, payments, subscriptions of one customer

    TrafficLedger      what traffic accounting promises (abstract)
      ^ implemented by
    TrafficReceipts    reports, receipts, history of one server

    NodeRemoval        the removal of a server; NodeRemovalProofs
    PanelSession       one editor of the consoles
      PanelSessionProofs (with SubDesign and ChangesetDraft, the structured drafts)
    ProofFacts         facts about finite sets and sequences the proofs share

    MCAccounts         Billing and TrafficReceipts side by side
      MCAccountsProofs (both, and the composition)
    MCPages            LineOrder and ten parts with safety properties
      MCPagesProofs    (LineOrder, EvidenceView, LoadSeries, ReviewSession,
                        ServerRenewal, ProviderCache, ProbeCards, the composition)
    MCBrowser          fifteen parts with liveness properties as well

| Module | Models |
|---|---|
| `PanelSession`, `AdminPanels` | one editor with its query, draft, save and commands; every editor of console and portal is a profile |
| `EvidenceView` | pages that call something current: five ways to judge age, clocks that stand still or go back |
| `ViewSession` | pages that show a selection: which answers are taken, what a new selection empties |
| `DiagnosticView` | live diagnostics: a lease, its renewals, samples and release |
| `ReviewSession` | a change worked out, shown, confirmed and committed, in one transaction or, for a DNS sync, record by record; each review dialog is a profile |
| `ChangesetDraft` | the editor of a topology draft and the answers of its saves |
| `SubDesign` | the subscription design: groups by name, presets, versions of the rules |
| `UpdateSession` | updating or restarting the panel from its own page |
| `NodeRemoval` | the removal of a server: dialogs, jobs, agent, worker |
| `ReferralSignIn` | an invitation that travels with a sign-in at another provider |
| `ServerRenewal` | expiry dates, automatic renewal, the linked bill, traffic periods, payments (Go and web) |
| `ProbeFeed` | the polling loop of the status page and its store |
| `ProbeChoices`, `ProbeHome` | choices shared by tabs; groups, search, compare and list of the home view |
| `ProbeRequests`, `ProviderCache` | the request pool and shared histories; the cache of provider badges |
| `CarrierBars`, `PingSeries`, `LoadSeries` | from measurements to bars, ping lines and load lines |
| `ProbeCards` | overview cards and exchange rates (Go and web) |
| `Transitions`, `DialogStack`, `LazyChart`, `BackTop` | animated lists, modal dialogs, deferred parts, the back-to-top button |

A *profile* is a record of the ways in which one page differs from the next; the
session module says what each field means, and a run starts from every profile. In
the map of `PROJECT.json` a profile is read off the whole component, from its head to
its last control (an input, a button's `disabled`, an `onClick`, a mutation); for
`EvidenceView` and `ViewSession`, whose fields say what the rendering shows, to the
end of the rendering. A range has one beginning and one end, so the layout between
two controls lies inside it, and a profile of one line stands for many lines of
which it keeps the control alone. Half of the mapped lines of `src/web` are of this
kind: what the map says of them is that their control was read and put into a record,
not that they were translated line by line.
A field `gaps` (or `late`) names an order of events the source leaves open; the
properties do not speak of that order for that page, and section 5 lists them.

Parts that share no state are checked side by side in one run: a variable `moving`
says which part moves, the others rest in one initial state, and fairness is asked
of the part that moves (`WF_xVars(moving = "x" /\ A)`). A property of such a run
is the conjunction of the part's named promises, each stated and explained in the
part's own module.

No module has a RECURSIVE operator. Operators whose comment begins with "Mutant" say what a wrong
version of the code would do, stand before the definition they deviate from and are
used by the mutants only.

### PanelSession (the editors of `web/admin` and `web/portal`)

`row` is the server's row, a revision and the set of changes in it; `shown` the data
of the query, `read` the read on the wire, `draft` what the person types over, with
its baseline and base revision, `save` and `command` what is on the wire. Edits are
numbered as they are made and changes of other people count down from -1, so that a
set of numbers says whose changes a row, a draft or a save holds. The profiles of
`AdminPanels` are the editors of the source. `PanelRules` is the assumption under
which the editors are correct, and TLC evaluates it on all of them: a panel whose
inputs stay open during a save must rebase its draft or own up to the gap "typed"; a
dialog that can be closed during its save, to "other"; one that sets the query's
data without cancelling the reads on the wire, to "late", unless nothing else reads;
one whose next draft may be made from a row older than its own last save, to "stale",
unless the server compares revisions (`Follows` says what else is enough); a creation
that can be sent again after a lost answer, to "twice"; a draft bound to a text that
may move below it, to "moved"; a command that closes an open dialog, to "swept".

### ConfigEvidence (`store/node_config_evidence.go`)

Every statement of that file is keyed by the server, so one server is the whole
protocol. `sess`, `deliv` and `head` are the three tables; `token` and `paired`
are the pairing; `gets` are the long polls being served, each with the snapshot of
the state it was built from; `receipts` holds every receipt ever sent, so a
receipt may arrive late, twice or never; `procs` are the agent processes.

| Action | Code |
|---|---|
| `RedeemPairCode`, `ResetPairCode` | `store/nodes.go` |
| `Snapshot`, `Reply`, `Hold`, `Drop` | the loop of `handlers.state` in `http/agent/agent.go`: build, answer, wait, give up |
| `PrepareUnauthorized`, `PrepareRetired`, `PrepareUnchanged`, `PrepareCandidate` | the four ways through `prepareNodeConfigDelivery`, with `Reusable` (a challenge that may be offered again), `Activates`, `Activated`, `Retire`, `Kept` for what the transaction writes |
| `HandleReceipt` | `RecordNodeReport` and `recordNodeConfigReceiptTx`: `Plausible`, `Answers`, `InOrder`, `Applied` are its conditions |
| `Start`, `Stop`, `Poll`, `Install`, `Report` | bosun, as the protocol shows it (external) |

Between `Snapshot` and `Prepare`, and between a handler's reading of the clock and
its commit (`Lag`), anything may happen. Delivery ids are random in the code and
ordinals here; the order in which they are issued is what the properties speak of.
A revision stands for the pair (configuration revision, state revision).

### LinePlan, LineOrder, LineRollout, RolloutBatch

A path is a sequence of groups of listeners (server and port); `RulesOn(path, n)`
is what the compiler gives server `n`: each of its listeners forwards to the next
group. `OrderedTargets` is the list of steps of `prepareLineRolloutTx` with its
sort: expand from downstream to entry, then clean up from entry to downstream.

`LineOrder` runs these lists, one step after the other, over every creation, edit
and removal, each of which may be given up after any step and compensated. It
abstracts from how a step is confirmed.

`LineRollout` has the rest: the plan row with its steps (`plan`), the saved line
(`line`) and the servers entries are bound to (`entries`), per server the head of
its evidence, the states built for polls not yet answered, what the agent fetched
and installed, and the receipt under way.

| Action | Code |
|---|---|
| `Plan`, `Compensate` | `PlanLineRollout`, `CompensateLineRollout` with `createLineRolloutTx` (`Drawn`, `NewSteps`, `Held`) |
| `Advance` | `AdvanceLineRollouts`, `advanceLineRolloutTx`: validate, pause, release, publish, complete, delete (`Valid`, `Blocking`, `Unconfirmed`, `Overdue`, `AdvanceStage`, `Advanced`) |
| `Pause`, `Retry` | `PauseLineRollout`, `RetryLineRollout` |
| `BindEntry`, `DropEntry` | `ResolveLineEntry` and the entries' own editing |
| `BuildState`, `Deliver` | `handlers.state` with `ApplyLineRolloutForwards` (`Desired`), then `prepareNodeConfigDelivery` with `matchingLineRolloutStepsTx` and `bindLineRolloutDeliveryTx` (`Matching`, `Bound`) |
| `ReceiveReceipt` | `recordNodeConfigReceiptTx` and `recordLineRolloutReceiptTx` (`StepOf`, `Recorded`) |
| `DeadlinePasses`, `GoStale`, `ChangeElse`, `Repair` | time, silence, any other change of a server's state, re-pairing |
| `Install`, `SendReceipt`, `LoseReceipt` | bosun and the network (external) |

Abstractions: a server runs one agent process (hand-over between processes is
`ConfigEvidence`); a member of a line is identified with its server; the compiled
topology does not change under a plan except through the plan; lines are changed
by plans only, not by unstaged saves; the plan kept is the line's latest, and an
older completed plan is not compensated; an edit to the same path, the removal of
a server and the monitor mode are left out; the state a poll is given is current
when it is built. `since` in a step is history: it records the last delivery
issued before the attempt, for `AttemptsAnswerThemselves`.

`RolloutBatch` reduces a plan to running, paused or completed and keeps what
`AdvanceLineRollouts` does with several: one batch, one transaction.

### Billing (`service/orders.go`, `store/orders.go`, `plans.go`, `multiplan.go`, `coupons.go`, `jobs.go`)

One customer with a subscription of one plan at the start, one coupon, one
inviter. `Quote` and `Place` are the two parts of a checkout, between which
anything may happen; `PayWithBalance` and `Discard` its two ends without a
gateway; `PayAtGateway` and `Notify` payment and `MarkPaid`, as often as the
gateway likes; `CancelQueued` the refund. The job is a loop of `CancelStale`,
`ExpireSubscriptions`, `PromoteQueued` with `StartSubscription` for each due
subscription in a statement of its own, and `ResetQuotas`. Periods are counted,
not dated: whether a subscription is usable, spent or past its end is left to
`Lapse`. Every plan has one price; the surplus setting is off; the coupon has a
limited number of uses (zero, no limit, is not modelled).

### TrafficReceipts (`http/agent/agent.go` report, `store/traffic_receipts.go`, `traffic_history.go`)

`report` holds the copies in flight, each at a stage of the handler: `RequireNode`
(or `Refuse`), `AcceptNodeTraffic` (or `AcceptFails`), `RecordNodeReport` (or
`RecordFails`), `Receive` (or `Lose`). `cursor` is `node_traffic_receipts.seq` of a
journal generation and `nodes.traffic_seq` for an agent without a journal
(`Legacy`). Everything `AcceptNodeTraffic` writes commits with the cursor, so one
count per batch stands for the charges and the daily totals. `Repair` changes the
token, `Reinstall` the generation; `Expire` drops history.

For `Legacy` the code takes a sequence number that is more than `seqRestartGap`
behind for a restart. `NotOutrun` is an assumption about the agent and the
timeouts of requests: no report is still under way when `Gap` newer batches have
been collected. Restarts of such agents, and sequence number 0, are not modelled.

## 3. Runs

| Run | Instance | Checks | Shows |
|---|---|---|---|
| `evidence_takeover` | 2 processes, 2 revisions, 3 deliveries of which 2 are kept, 2 open polls; 389 219 states | `HeadServes`, `AppliedIsTrue`, `SupersededIsSilent`, `TakeoverIsProven`, `HeadOnlyHandsOver` | however polls and receipts overlap, the head goes forward only, to a process that proved it is there; its row is never pruned; a superseded process changes nothing |
| `evidence_repair` | 1 process, 2 pairings, clock up to 5, skew 1, lag 1, forced deliveries; 716 720 states | `FreshIsRecent`, `RevokedIsPowerless` | a request authenticated before a re-pairing has no effect after it; what is shown as fresh was said within the window |
| `evidence_liveness` | 2 processes of which one dies, 2 pairings, 1 edit; 97 936 states | `SurvivorTakesOver` | a restart does not leave a server with a dead head |
| `line_edit` | a two-hop line moved; one failed and one lost receipt, one other change, two polls at once, a retry; 382 636 states | `NeverDangling`, `AttemptsAnswerThemselves`, `ConfirmedIsInstalled` | a step is confirmed by its own attempt's delivery with its own rules, and no hop dangles meanwhile |
| `line_back` | the move compensated anywhere; an entry, a silent and a re-paired server; 400 506 states | `EntriesServed`, `CompletedIsClean`, `RepairedInheritsNothing` | the way back starts from what each server really holds |
| `line_life` | a line created and removed, paused and resumed, all deadlines may pass; 51 366 states | `StopsByItself` | a running plan completes or pauses though agents owe nothing |
| `accounts` | 2 orders in any of 5 ways, 2 plans of which one ends with its quota, one coupon use; 2 generations, 3 batches, gap 1, history of 1 row, 2 tokens, 2 copies in flight; 269 000 states | `PeriodsArePaidFor`, `MoneyAddsUp`, `HooksFollowOrders`, `QueueMoves`; `BilledOnce`, `HistoryIsFirstReception`, `BatchGetsThrough` | periods, balance, commissions and coupon uses follow the orders through late and repeated callbacks, refunds and jobs; a batch is charged once and in order whatever fails, and gets through |
| `pages` | eleven parts; 1.4 million states | `StepsKeepTheLine`, `EditsSurvive`, `CurrentIsCurrent`, `DrawnIsMeasured`, `SavesAreSafe`, `ReviewedIsDone`, `RenewalsKeepTheCalendar`, `DraftsKeepTheirMeaning`, `CardsTellTheTruth` | the order of a release's steps is right for every shape of path; editors, reviews, evidence, dates, cards and charts keep their promises through all orders of reads, answers, failures and edits |
| `browser` | fifteen parts; 325 000 states | `SavesAreShown`, `LeaseIsAccountedFor`, `RemovalIsOneAndEnds`, `FeedIsTheSnapshot`, `ChoicesAreHonoured`, `HistoryReachesItsCards`, `PageShowsItsSelection`, `MotionLeavesNothing`, `ErrandsEnd` | what is saved is shown, leases and removals end, views settle, animations leave nothing behind |
| `line_order_claim` | every pair of paths over 3 servers with 2 ports, groups of 1 or 2, given up after any step | `NeverDangling`, violated | finding 1 |
| `rollout_batch_claim` | 2 plans in one tick | `OverduePauses`, violated | finding 2 |
| `billing_claim` | as `accounts`, with callbacks repeated after a refund | `SettlesOnce`, violated | finding 3 |

Why the bounds are enough to be interesting. Two processes are what an overlapping
restart has, and with three deliveries a challenge issued against one head meets a
later one and the retention limit (2) is exceeded. For the order of steps three
servers allow an entry, a middle and an end, groups of two allow branches that
join, and two ports allow a server to hold both paths at once. The paths of
`LineRollout` run against the order of the server ids, so that an order by id alone
is wrong; budgets say how often each disturbance happens, and each of the three
runs spends them on the disturbances its properties are about. Two orders are
enough for a queued plan behind an active one, for the coupon's last use to be
contested and for a late payment of a stale order. Three batches with a gap of one
reach both sides of the gap; a history of one row is at its limit from the second
batch on. On the pages two edits tell an edit made before a save from one made
while it is out; one foreign change, one fault and one command put each of the
disturbances before, between and after the steps of a save. Two minutes of load
history and one that passes, read for at most one minute (`MaxSpan`), have a minute
that a range may name and the query does not return; two calls and two servers are
enough for the answer of the former view to land on the present one. Of a DNS sync
at most two records are written (`MaxRecords`, A and AAAA), so that one may fail and
the other not, with somebody else's change between them. `PingWindows` has a range
on which both clocks agree and ranges whose ends they see differently. A stamp may be
one unit ahead (`MaxAhead`), a half of its lifetime. The restart dialog gives up after
two polls (`WaitLimit`), so that the panel may come back before and after. Two tabs,
cards, dialogs, subjects or keys are what an overtaking needs. One choice is made
(`MaxChoices`), with writes of an older bundle and quota failures beside it: two tabs
that both choose are not in this run. The calendar starts at the
end of a short and of a long month, with a billing day that the next month lacks.

Deadlock is not checked: every bounded counter can be used up, and a system whose
orders are settled, whose plans are complete and whose pages are at rest has
nothing to do.

Exemptions, each where the code promises nothing: `EntriesServed` and
`CompletedIsClean` do not speak of a server paired again, whose new agent starts
empty; `StopsByItself` not of a plan whose publication is refused (finding 2);
`PathStaysConnected` and `PublishedIsInstalled` not of a plan that takes back an
unpublished change or a half-done deletion (finding 1 and section 5); `accounts`
does not repeat a callback after a refund (finding 3, `LateRepeats`); the pages'
properties not of the orders their profile lists under `gaps`. In `DrawnIsMeasured`,
`LoadIsMeasured` says nothing of the times at which a network line has no
measurement (the code draws zero there), and `LatestCallIsDrawn` nothing once an
answer to an earlier call has landed after the latest one (`strayed`). In
`SavesAreSafe`, `NoBlindOverwrite` speaks of editors whose server compares a revision;
of the node information card these are the finance fields (`NodeFinance`), while its
other fields (`NodeInformation`) are written as they were sent. In `ReviewedIsDone`
a DNS sync is compared with the records as they were when it read them. The table
under a ping line is compared with it where the browser's clock took no answered
bucket off the line. `SharedLoadIsShared` allows the load of a card that went before
it subscribed; `ClassesAreCleared` the class of a move; `SignInEnds` a page whose
address changed after the press; `ClaimedJobsEnd` a removal job whose claim was
answered in vain and then expired, which leaves no worker. Tombstones of diagnostic
leases, which the panel keeps for five minutes (`store/diagnostics.go:331`), do not
expire in `DiagnosticView`: a create is taken to arrive within that time.

### Fairness

- `ConfigEvidence`: an agent that runs keeps polling (WF `Poll`), a poll ends when
  its wait window does (WF `Ended`), and of the requests it repeats some are served
  and some of the answers that carry news arrive (SF): a link that is lossy but not
  dead. Nothing is assumed of receipts; a take-over needs the echo of the next poll
  only.
- `LineRollout`: the scheduler ticks every five seconds and deadlines pass. Nothing
  is assumed of agents or of the operator.
- `RolloutBatch`: the scheduler ticks.
- `Billing`: the housekeeping job runs and subscriptions end (by date, or by quota
  where the plan has no date). Nothing is assumed of customers or gateways.
- `TrafficReceipts`: the agent repeats its report until it is answered (WF `Send`);
  of the repetitions some get through each step and some answers arrive (SF): the
  database and the network do not fail every time.
- The web parts: timers, animation frames, microtasks and effects that are due run
  (WF), and a request is answered or fails (WF), since faults are bounded and every
  client has a timeout. Nothing is assumed of people: no edit, press, choice or
  visit is fair. In `UpdateSession` nothing is assumed of the panel's return or of the
  host's updater either: the dialog ends by its own cap of thirty minutes. In `NodeRemoval` the agent of a running server keeps polling and a
  worker that was started goes on.

## 4. Theorems

Eight modules, 14 854 obligations. Each theorem is about the specification its runs
check, without fairness and without the bounds' values: the bounds are constants,
any natural numbers. Inductive invariants were invariants of a TLC run before they
were proved, as far as TLC can evaluate them.

`ConfigEvidenceProofs` (1440 obligations), for any numbers of sessions, revisions,
pairings, deliveries and requests, from `EvidenceConstants` (among them that at
least two deliveries are retained):

| Theorem | States |
|---|---|
| `TypeCorrect` | `Spec => []TypeOK` |
| `HeadImplementsHandover` | `Spec => HeadOnlyHandsOver`: the evidence implements `ConfigHead` with the head's process as `live`, the ordinal of its delivery as `cur` and the retired sessions as `dead` |
| `HeadIsServed` | `[]HeadServes`: the head's delivery is kept and of its own session |
| `SupersededStaysSilent` | `SupersededIsSilent` |
| `RevokedStaysPowerless` | `RevokedIsPowerless` |
| `TakeoverNeedsProof` | `TakeoverIsProven` |
| `AppliedWasInstalled` | `[]AppliedIsTrue` |
| `FreshWasRecent` | `[]FreshIsRecent` |

`HandoverInv` is the core: the types, `ChallengeNewer` (a stored challenge is newer
than the head it was issued against), `HeadIssued` (the head's delivery was issued,
so a new one is newer) and `HeadNotRetired`. It is needed because a take-over
happens long after the challenge was stored: that the challenge still beats the
head follows from its parent being the head, which `Reusable` and `Answers` test,
and from `ChallengeNewer`. Only `PrepareCandidate` and `RecordReceipt` move the head
(`CandidateStep`, `ReceiptStep`, both by `HeadMoves`); every other action leaves
sessions, head and ordinals alone (`QuietStep`). `TakeoverIsProven` needs in addition
what processes have heard (`HearingInv`): while a session is not superseded, what a
poll echoes or a receipt names is at most what its process holds, and that at most
the session's latest challenge; so the echo of a challenge was said by a process
that got it. `AppliedIsTrue` rests on `InstalledInv` (a receipt names what its
process has installed) and `FreshIsRecent` on `SpokenInv` (a time written to a row
is at most the skew ahead of the last thing its process said).

`LinePlanProofs` (247 obligations), for any finite set of servers and any ports and
paths, from `LinePlanConstants`: `PlanIsOrdered`, the list of steps for any two
intents has every target once, expansions from downstream to entry, then cleanups
from entry to downstream, by the depths the plan was given. `OrderedTargets` gives
each target its place by counting the targets before it, so that no recursion is
needed.

`LineRolloutProofs` (1443 obligations), for any servers, ports, intents and budgets,
from `LinePlanConstants` and `LineRolloutConstants`:

| Theorem | States |
|---|---|
| `ReleaseIsTyped` | `Spec => []LineRolloutTypeOK` |
| `AttemptsStayAnswered` | `AttemptsAnswerThemselves`: a step is confirmed or failed only by a delivery issued after its attempt began |
| `ConfirmedStaysInstalled` | `ConfirmedIsInstalled`: what a step calls applied, its server runs |
| `RepairedStaysBare` | `RepairedInheritsNothing`: nothing of a plan reaches a server paired again since |

`ReleaseInv` has a part per server and one per step. `HeadInv` relates the panel's
head, the agent and the receipt under way: same delivery, same rules; a receipt that
says applied is of an agent that installed. `StepInv` relates a step to its server's
head: the head is mapped to at most the present attempt of a released step, came
after that attempt began, and carries the step's rules. It is needed because a
receipt names a delivery and not an attempt: that it answers the present attempt
follows from the mapping of the head, which survives retries, pauses and
compensations. `RepairInv` says that no state with the plan's rules is on its way to
a server paired again.

`MCAccountsProofs` (2063 obligations) has both halves of the accounts and their
composition. Orders, for any numbers of orders, coupon uses and money
and any plans and ways of buying, from `BillingConstants` and the hypothesis
`LateRepeats = FALSE`: `BillingIsTyped`, `PeriodsStayPaidFor` (`PeriodsArePaidFor`),
`MoneyStaysAccounted` (`MoneyAddsUp`), `HooksStayWithOrders` (`HooksFollowOrders`).
The hypothesis is that no gateway repeats a callback after the plan it paid for was
refunded; without it the three are false, which is finding 3. `BillingInv` adds to
them `InSequence` (ids are handed out in order), `SentWasPlaced` (what a gateway was
paid for was placed) and `Linked` (a subscription that names an order was granted by
it, no other names it, and while it waits it holds the one period paid for): a
refund takes back exactly what the order gave because of `Linked`. Sums are
cardinalities (`Total`), so that a step changes them by one element.

Traffic, for any numbers of generations, batches,
tokens, history rows and copies in flight and any gap, from `TrafficConstants`:

- `TypeCorrect`: types, and the history stays within its limit.
- `ImplementsLedger`: `Spec => BilledOnce`, that is, traffic accounting implements
  `TrafficLedger`: batches are billed at most once and in order, and the agent lets
  go of billed ones only. The inductive invariant is `Books`: the agent's last
  acknowledged batch, the cursor and the last collected batch are at most one apart
  in that order; a batch is charged exactly when the cursor has passed it; a report
  in flight is of a collected batch whose predecessors are charged, of a charged
  one once it was accepted, and for `Legacy` not outrun by more than the gap. The
  last part is what keeps an old copy from being taken for a restart (`NewIsNext`),
  and is where `NotOutrun` enters.
- `FirstReception`: `Spec => HistoryIsFirstReception`, by `RecordedRows` (a new
  history is the old one shifted, and one row more) and `Books`.

`AccountsStayBalanced` states all five promises of `AccountSpec`, the specification
of the run `accounts`, under the same hypothesis.

`NodeRemovalProofs` (514 obligations), for any dialogs, modes, jobs and faults:
`RemovalIsTyped` (`RemovalTypeOK`), `OneRemovalAtATime` (`OneRemovalActs`) and
`RowGoesLast` (`RowGoesAfterTheHost`), the safe part of the run property
`RemovalIsOneAndEnds`. `RemovalInv` says of each job that it is done when complete
and not while it runs, that all but the newest are closed with an error, that a
worker acts only on a job it claimed, and that the outcome of a job is what its
worker did to the host. Whoever acts or has changed the host therefore belongs to
the newest job, and `QueueNodeRemoval` makes no newer one.

`PanelSessionProofs` (4492 obligations), for any set of editors that satisfies
`PanelRules` and any numbers of edits, reads, foreign changes, faults and commands:

| Theorem | States |
|---|---|
| `EditsStayKept` | `[]EditsAreKept`: an edit is in a dirty draft, in a save on the wire or on the server until it is given up |
| `NothingOverwrittenUnseen` | `NoBlindOverwrite`: a save with a revision overwrites only what its draft was made from or reloaded over |
| `OldReadsAreDropped` | `LateReadsAreDropped`: no read from before a handled success lands |
| `SavedStays` | `OwnSavesStand`: no saved edit of the person is undone by the next save |
| `NothingCreatedTwice` | `CreatedOnce`: a creation tried again creates nothing |

`PanelInv` is built in layers, each proved from those before it. `PanelTyped` and
`PanelShaped` are types and shapes. `StillInv` says what a save on the wire may rely
on: a frozen editor keeps the draft it sent, a held dialog stays open for its own
answer. `KeptInv` says that no row, read, answer or baseline has an edit of the
person that no save put on the server; without it an edit could be missing from a
draft because the baseline claims it. `LateInv` (what a dropped draft drops was
sent), `KeyInv` (a bound draft sits on the text it was bound to) and `BackInv` (a
save that fails has its edits in the draft still) are what `EditsAreKept` needs for a
success, a read and a failure. `RevInv` says that a revision names one content, in
every copy of the row: a save whose revision is that of the row has seen all of it.
`ReadInv` bounds a served read by the last handled success. `OwnInv` follows the
person's saved edits from the row through reads and baselines to the next draft;
`Base` leaves out those that came after the baseline of an open draft. `OnceInv` says
that what was created is in no draft that may be sent again, unless its key is on the
server. The effect lemmas (`EditEffect`, `ServeEffect`, `LandEffect`, ...) say once
for each action what it does to these, so that the layers do not open the actions.

The same module has the two structured drafts, for `DraftsStayMeant` below.

- `DesignInv`: types, and a review of the draft's rules knows the version they had
  when it was opened. That `designPolicyCanDirect` offers exactly the policies from
  which no chain of groups leads to DIRECT relates two recursions over designs of any
  length, the walk by levels (`Walked`) and chains of groups. `WalkExists` shows that
  the recursive function is one, `ChainIsWalked` and `WalkIsChained` the two
  directions, each from the least level at which it would fail. `RenameKeepsReferences`
  needs that a name finds one group (`OwnNames`, a cardinality).
- `DraftInv`: the key of an inbound is the number of the edit that added it
  (`KeysIssued`), so an answer can tell the inbound it was sent with from one added
  since. `FrozenAsSaved` and `KeptIsStored` tie the form to the server while the form
  goes on from the stored version: fixed settings are frozen as stored, and what the
  form leaves to the server the server has. `SaveHolds` says what a save on the wire
  has (`OutHolds`), what its answer has (`AnsweredHolds`), and how the form may differ
  from what was sent (`BesideSave`): `reconcileChangesetSave` re-establishes the
  former two out of the last.

`MCPagesProofs` (4583 obligations) proves the other parts and combines them:

| Theorem | States |
|---|---|
| `CurrentStaysTrue` | `PageSpec => []CurrentIsCurrent`, from `EvidenceBounds` and `EvidencePages` |
| `DrawnStaysMeasured` | `PageSpec => []DrawnIsMeasured`, from `LoadAssumption`: reads that land in any order, or of the server open before; an unmeasured minute of the network card is not spoken of |
| `ApprovedIsCarriedOut`, `ReviewRunsOnce`, `QuoteFollowsTheChoice` | the three parts of a review, of `ReviewSpec`, from `ReviewPages` (a page whose revision is compared sends what was reviewed, true of all seven); a DNS sync reads, compares and writes in separate steps, and is compared with what it read |
| `ReviewedStaysDone` | `PageSpec => ReviewedIsDone` |
| `EditsAlwaysSurvive`, `SavesStaySafe` | `PageSpec => []EditsSurvive`, `PageSpec => SavesAreSafe` |
| `DraftsStayMeant` | `PageSpec => DraftsKeepTheirMeaning`, from `DesignBounds` |
| `LineStaysConnected` | `PageSpec => []StepsKeepTheLine`, from `LinePlanConstants` |
| `CalendarIsKept` | `PageSpec => RenewalsKeepTheCalendar`, from `RenewalAssumption` |
| `CacheKeepsItsPromises` | the parts `CacheIsBounded`, `SharedByFingerprint` and `UsedStaysCached` of the provider cache, from `CacheAssumption` |
| `CardsStayHonest` | the parts `HiddenHasNoCard` and `RatesNeverGoBack` of the overview cards, from `CardAssumption` |

- `LineInv`: there are rules `old` the plan began with, such that what is installed is
  `old` with the steps done so far. `old` is connected, and lies between the rules of
  the two paths unless the plan restores a half-installed line (`Restores`, finding 1,
  which the property exempts too). With `PlanIsOrdered` it follows for each rule that
  forwards where the step of its next server lies in the list; no induction over the
  list is needed, because which steps are done is known from those that remain.
- `RenewalInv`: the bill has the server's date, period and day (`BillFollowsServer`);
  the date lies a whole number of cycles after the one the billing day was taken from
  (`Anchored`), which is what keeps the 31st through short months; an open payment
  whose revision is the bill's shows the bill's dates (`ShownAsIs`). The calendar is
  months of 28 to 31 days with leap years, and `RenewalDays` any set of its dates.
- `CacheInv`: types, the bound itself, and while nothing overflowed each view holds
  the entry its fingerprint names. A sweep removes idle entries with fewer than
  `excess` idle ones before them; that these are at least `excess` is `FirstOnesGo`,
  a lemma about any finite set with a strict order given by its initial segments.
- `CardInv`: claims are numbered, the snapshot is of an older claim than the attempt
  that counts and was fetched no later (`RatesHold`), and the cards on the page are
  those of the sections of its snapshot (`CardsHold`).
- `EvidenceInv`. Real time is on no clock of the browser, so the invariant says how
  the clocks noted with a request and with the evidence bound it: the monotonic clock
  runs with real time unless the machine slept, the wall clock unless it was set back
  (`ClocksHold`). A request that left before its evidence was made can only
  overestimate the age. `TooOldHolds` says that what was found too old stays so,
  which for counted generations needs the reading of the clock to be no older than
  the evidence; for that reason `EvidencePages` asks that such a page reads the clock
  whenever it renders.
- `LoadInv`: a read on the wire is of a call that was made, and its records are read only
  when the query failed or had no CPU (`ReadsHold`); every answer the chart holds, the
  one it shows and the one below it, has in each row what its server measured then, or
  void, or a published capacity, and its times are those of its range as far back as
  the history was read (`ShownHolds`); an answer to the latest call is of the server
  that is open and the range chosen, and unless an older one strayed in after it, it is
  the one shown (`LatestHolds`). Minutes that are over do not change (`PastStays`), so
  an answer stays true while it waits.
- `ReviewInv` follows the reviews by number: one on the wire is nowhere else and was
  not carried out; one that was carried out is older than the world, so the comparison
  refuses it; on an order page the answer that counts is of the present choice. A DNS
  sync that has read a world later than its review is refused, and while it writes, the
  plan it read is the reviewed one and the panel's configuration stands still
  (`CommitHolds`).
- The parts share no state: `PageImpliesEvidence` and its like say that a behaviour
  of the composition is one of each part.

Trying to prove `PanelSession` showed that two definitions (`EditedDraft`, `Settled`)
were CASE expressions whose arms overlapped: TLC takes the first arm, TLA+ leaves the
choice open. They are IFs now; every other CASE of the project was checked to have
exclusive arms.

`ProofFacts` (72 obligations) has what several proofs need: the least and greatest
member of a set of numbers, the type of a list of rows, and of a list less one.

Only model-checked:

- liveness (`SurvivorTakesOver`, `StopsByItself`, `QueueMoves`, `BatchGetsThrough`,
  and the liveness in the properties of `browser`): the prover does neither fairness
  nor ENABLED;
- three properties of releases that hold on the instances of `line_edit` and
  `line_back` and not for every value of the constants. `NeverDangling` fails for a
  compensation of an unpublished expansion (finding 1). `CompletedIsClean` does not
  hold when a compensation is itself compensated while one of its steps is released
  and not yet delivered, and `EntriesServed` when the removal of a line is undone,
  which is a plan of the kind "edit"; `line_back` has one compensation and no removal;
- `RolloutBatch`, `billing_claim` and `line_order_claim`, whose claims are false
  (findings 1 to 3);
- in `CardsTellTheTruth` the sums of the cards (`UnmeasuredIsNotZero`,
  `TotalIsComplete`, `StaleIsSaid`) and the rows of the ping charts. Both are folds of
  the community modules, which take an operator as a parameter, and what such a fold
  computes for every set needs an induction the provers cannot instantiate. A
  recursion written out for one purpose can be proved about, by the least
  counterexample, as `Walked` is. `TotalIsComplete` moreover compares a sum converted
  as a whole with amounts converted one by one, which holds for the rates of the
  instance and not for every rounding;
- in `browser` the properties are conjunctions with liveness parts; their safety
  parts are checked and not yet proved, except those of `NodeRemoval`.

## 5. Findings

1. `line_order_claim`. When an unpublished expansion is compensated, cleanup steps
   take their depth from a path their servers are not on, so they run in order of
   server ids, and a downstream listener may go before the hop that forwards to it
   (`store/line_rollouts.go:426`); `docs/LINE_RELEASES.md:31` says from entry to
   downstream. The path is not published, so entries are not affected.
2. `rollout_batch_claim`. The whole tick is one transaction; a plan that cannot be
   published, because an entry was bound to a member it removes, rolls it back each
   time, and no other plan is paused, released or published
   (`store/line_rollout_scheduler.go:383`; `docs/LINE_RELEASES.md:42`).
3. `billing_claim`. A callback repeated after the queued plan was cancelled and
   refunded grants the plan again, and counts coupon and commission again
   (`store/orders.go:86`; `docs/BILLING.md:105`, `service/orders.go:164`).

Seen while modelling, without a run of their own. Each is an order of events the
source leaves open; the model has it, and the property concerned exempts it.

Panel:

- Compensating a half-done deletion lets entries bind before the line is installed
  again (`store/lines.go:607`; `docs/LINE_RELEASES.md:28-29`).
- A running removal whose worker died blocks other removals; the comment at
  `store/node_removal.go:96` and `agentstate.go:397` disagree on which jobs an agent
  is given.
- A payment recorded with a lost answer stays in conflict for the page
  (`store/infra_assets.go:376-382`).

Consoles (`web/admin`, `web/portal`):

- An automatic inspection closes a dialog that is open
  (`pages/HostManagementPage.tsx:37-42`); late successes close a dialog opened since.
- Of the node information card only `expires_at` and the finance revision are
  compared (`store/probe.go:347-352`); note, location, limits, reset day, resources and
  storage of another member's save are overwritten unseen (`store/probe.go:415`).
- A DNS sync reads the provider's records and writes them later, one by one: a change
  in the provider's console in between is overwritten, as the comment at
  `service/dns_sync.go:217` says, and a record may fail after another was written.
- Inline toggles send the row of the last read (`UserEntries`, `ExternalPage`);
  creations are sent again after a lost answer.
- `ForwardsCard`, `EgressUpstreams` and `NodeProbePlanCard` set the query's data
  without cancelling reads on the wire; `ResponseRules` drops edits made while saving;
  the draft of `TextTemplateEditor` goes when its baseline moves.
- The first save of a changeset whose answer is lost creates a second draft;
  "keep saved" does not derive the protocol again (`TopologyChangesetsPanel.tsx:85`).
- A sleep together with a wall clock set back keeps evidence current; after a sleep
  an answer is judged by the last tick before it on pages that keep the clock in state.
- `DeleteNodeModal` goes on with the job of another tab that has another mode (31-42).
- A lost answer removes the overlay of `UpdateCard` (95); an old failed job is taken
  for the new one (47).
- Going back to another address of the sign-in page while a provider's request is out
  leaves the page busy (`AuthPage.tsx:48`).
- An unknown invitation leaves the cookie of an earlier one (`referral.ts:37`); the
  captcha token is not reset after a failed sign-in.
- `renameDesignGroup` renames with every key typed (`sub-design.ts:132-143`).
- `PlansPage` shows the former price while the new one is on its way.

Status page (`web/probe`):

- A retry during a refresh leaves a second chain of timers (`init.ts`);
  `historyFor` deletes the entry of the URL whichever read it holds (`captain.ts:97`).
- `RequestManager` deletes a pending request by key, not by identity
  (`request.service.ts:68-70`); a new subscriber may join the aborted promise
  (`loadRecords.ts:188-204`).
- Favourites of two tabs overwrite each other (`app.ts:250-260`).
- Late answers of `LoadChart`'s own fetches are taken, of the view or the server before
  (208-295, no generation); `PingChart` keeps the data of the view before; a custom
  range without CPU falls back to the recent data.
- A card of the load history that goes between its permission and its subscription
  leaves the load running for nobody (`useNodeLoadStats.ts:55-113`). On a stock panel
  the path is not reached: `captain.ts:193` answers that nobody is logged in.
- The ping line is cut once more by the browser's clock, the table under it is not
  (`captain.ts:197-206`); with a clock that is off the table counts pings that are not
  drawn.
- The network chart draws an unmeasured minute as zero (`charts/load.ts:460,468`),
  unlike `docs/MONITORING.md:637-638,674`; `cutPeakValues` fills outages (`recordHelper.ts:368-370`).
- The move class of `TransitionGroup` is taken off by `transitionend` alone (178-186):
  with reduced motion, or in a view hidden meanwhile, it stays until the next render.
- `TransitionGroup` may keep an element that is not wanted any more (131-133);
  the focus trap of a dialog has a gap (`AppDialog.tsx:118-124`); a hidden part of a
  page goes on observing (`DeferredRender.tsx:135-146`).

## 6. Not modelled, and the plan

Not modelled for good: formats and signatures, rendering of client configurations,
time series and averages on the server, mail and backup; on the web side layout,
translations, maps and flags, theme presets, colours, GPU charts, the charts' resize
observers, totals of the finance page, the geographic look-up for signed-in visitors, and the websocket
client (`rpc.ts`, `api.ts`), which the panel's own page does not use.

Next, in this order:

1. Service control: manual mode, automatic protection, exemptions, period rollover,
   revisions; an abstract specification of the mode in force.
2. Path rollouts and the health gate over `LineRollout`'s scheduler: no publication
   on a sample of another process, configuration or time.
3. Release reservations and the server's side of topology changesets.
4. `Billing` with two customers (an over-issued coupon, `store/coupons.go:41`), the
   surplus setting, gift codes and withdrawals.
5. Upgrade jobs, the state cache, monitor incidents (`store/monitor_incidents.go:85`:
   marked before it is sent), health and families of DNS records, agent HTTPS; restarts of agents
   without a journal (`store/nodes.go:592`).

To prove next: the sums of the overview cards, with the sum of a finite set as a
recursive function of an enumeration; the rows of the ping charts in the same way;
and the safety parts of the browser run, beginning with the leases of
`DiagnosticView`, the polling loop of `ProbeFeed` and the request pool.
