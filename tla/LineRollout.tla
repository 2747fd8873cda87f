---------------------------- MODULE LineRollout ----------------------------
(***************************************************************************)
(* A staged release of one forwarding line                                 *)
(* (internal/store/line_rollouts.go, line_rollout_scheduler.go,            *)
(* line_rollout_receipts.go): the plan, the scheduler that advances it,    *)
(* the operator who pauses, retries and compensates it, and the servers    *)
(* that poll for their state, install it and send receipts.                *)
(*                                                                         *)
(* A server runs one agent process here, whose deliveries become the       *)
(* node's head at once; hand-over between processes is ConfigEvidence.     *)
(* Receipts are fresh until GoStale.  The plan kept is the line's latest:  *)
(* the unique index line_rollouts_active allows one active plan, and an    *)
(* older one only answers with a version conflict.                         *)
(***************************************************************************)
EXTENDS LinePlan

CONSTANTS Landing,        \* the server of the landing inbound
          Intents,        \* paths the operator plans (NoLine: removal)
          Start,          \* the path saved and installed at the start, or NoLine
          MaxPlans,       \* bound: plans
          MaxDeliveries,  \* bound: deliveries per server
          MaxGets,        \* bound: polls of one server the panel still serves
          MaxAttempts,    \* bound: attempts of a step
          Budget          \* bound: how often each kind of disturbance happens

ASSUME LineRolloutConstants ==
  /\ Landing \in Nodes
  /\ {Start} \cup Intents \subseteq Seq(SUBSET Listeners)
  /\ Start = NoLine \/ IsPath(Start)
  /\ \A p \in Intents \ {NoLine} : IsPath(p)
  /\ \A v \in {MaxPlans, MaxDeliveries, MaxGets, MaxAttempts} : v \in Nat
  /\ Budget \in [{"pause", "stale", "misc", "fail", "entry", "due", "repair", "lose", "compensate"} -> Nat]

VARIABLES
  line,     \* forward_lines: path and version, NoLine when there is none
  entries,  \* servers of the members that subscription entries are bound to
  plan,     \* the latest line_rollouts row with its nodes and steps
  head,     \* per server, the delivery node_config_heads names
  issued,   \* per server, deliveries issued
  gen,      \* per server, the pairing generation (token identity)
  misc,     \* per server, everything else its state contains
  gets,     \* per server, the states built for polls not yet answered
  agent,    \* per server, what the agent fetched and what it has installed
  mail,     \* per server, the receipt under way
  spent     \* disturbances so far

vars == <<line, entries, plan, head, issued, gen, misc, gets, agent, mail, spent>>

NoPlan == [no |-> 0, status |-> "none"]
NoMap == <<0, 0, 0>>
NoMail == [id |-> 0, applied |-> FALSE]

Can(what) == spent[what] < Budget[what]
Spend(what) == spent' = [spent EXCEPT ![what] = @ + 1]

Active == plan.status \in {"running", "paused"}
-----------------------------------------------------------------------------
(* Reading a plan.                                                         *)

\* The last step of server n that was ever released, 0 if there is none
\* (currentRolloutTargets).
Latest(p, n) ==
  LET mine == {i \in 1..Len(p.steps) : p.steps[i].node = n /\ p.steps[i].status # "pending"}
  IN  IF mine = {} THEN 0 ELSE Max(mine)

\* lineRolloutCurrent: the rules a server of an active plan should run.
CurrentRules(p, n) == IF Latest(p, n) = 0 THEN p.held[n] ELSE p.steps[Latest(p, n)].expect

SavedRules(l, n) == RulesOn(l.path, n)

\* Mutant: the plan's rules go to whoever holds the server's id.
DesiredAnyToken(n) ==
  IF Active /\ n \in plan.nodes THEN CurrentRules(plan, n) ELSE SavedRules(line, n)

\* ApplyLineRolloutForwards on the state the node would otherwise get.
Desired(n) ==
  IF Active /\ n \in plan.nodes
  THEN IF plan.gen[n] = gen[n] THEN CurrentRules(plan, n) ELSE {}
  ELSE SavedRules(line, n)

\* readLineRolloutTx: a step's receipt counts as fresh only while its delivery
\* is the server's head, under the token the plan was made for.
StepFresh(p, i) ==
  LET s == p.steps[i]
  IN  /\ s.delivery # 0
      /\ s.delivery = head[s.node].id
      /\ head[s.node].gen = gen[s.node]
      /\ p.gen[s.node] = gen[s.node]
      /\ s.receipt # "none"
      /\ head[s.node].fresh

Confirmed(p, i) == p.steps[i].status = "applied" /\ StepFresh(p, i) /\ p.steps[i].receipt = "applied"

\* freshRolloutNodeTx: the head of the current token has a fresh, successful receipt.
FreshNode(n) == head[n].gen = gen[n] /\ head[n].fresh /\ head[n].applied

\* lineRolloutValidationTx without requireFresh.
Valid(p, l) ==
  /\ l.version = p.base
  /\ \A n \in p.deps :
       /\ gen[n] = p.gen[n]
       /\ (\E i \in 1..Len(p.steps) : p.steps[i].node = n) \/ FreshNode(n)
-----------------------------------------------------------------------------
(* The scheduler.                                                          *)

Paused(p) == [p EXCEPT !.status = "paused"]

\* A step is released; since records the deliveries its attempt came after.
Released(p, i) ==
  [p EXCEPT !.steps[i] = [@ EXCEPT !.status = "released", !.due = FALSE, !.since = issued[p.steps[i].node]]]

\* publishLineRolloutTx and deleteLineRolloutTx fail on these entries.
CanPublish(p) == p.kind = "create" \/ entries \subseteq ServersOf(p.after[1])
CanDelete == entries = {}

Published(p, l) ==
  IF p.kind = "create" THEN l ELSE [path |-> p.after, version |-> l.version + 1]

\* Mutants: released steps are not waited for; the entry's own are not.
BlockingPending(p) ==
  {i \in 1..Len(p.steps) : p.steps[i].phase = p.stage /\ p.steps[i].status = "pending"}
BlockingButEntry(p) ==
  {i \in 1..Len(p.steps) :
     /\ p.steps[i].phase = p.stage
     /\ p.steps[i].status = "pending" \/ p.steps[i].node \notin ServersOf(p.after[1])
     /\ \/ p.steps[i].status # "applied"
        \/ Latest(p, p.steps[i].node) = i /\ ~Confirmed(p, i)}

\* Steps of the stage that keep it from ending.
Blocking(p) ==
  {i \in 1..Len(p.steps) :
     /\ p.steps[i].phase = p.stage
     /\ \/ p.steps[i].status # "applied"
        \/ Latest(p, p.steps[i].node) = i /\ ~Confirmed(p, i)}

\* A server whose latest step belongs to the other stage is still a prerequisite.
Unconfirmed(p) ==
  \E n \in p.nodes :
    /\ Latest(p, n) # 0
    /\ p.steps[Latest(p, n)].phase # p.stage
    /\ ~Confirmed(p, Latest(p, n))

\* Mutant: a deadline that ends with the delivery instead of the receipt.
OverdueUndelivered(p, i) == p.steps[i].due /\ p.steps[i].delivery = 0

Overdue(p, i) == p.steps[i].due

\* advanceLineRolloutTx up to its recursive call.
AdvanceStage(p, l) ==
  LET same == [ok |-> TRUE, plan |-> p, line |-> l]
      first == Min(Blocking(p))
  IN  IF p.status # "running" THEN same
      ELSE IF ~Valid(p, l) \/ Unconfirmed(p) THEN [same EXCEPT !.plan = Paused(p)]
      ELSE IF Blocking(p) # {}
      THEN CASE p.steps[first].status = "pending"  -> [same EXCEPT !.plan = Released(p, first)]
             [] p.steps[first].status = "released" -> IF Overdue(p, first)
                                                      THEN [same EXCEPT !.plan = Paused(p)] ELSE same
             [] p.steps[first].status = "applied"  -> [same EXCEPT !.plan = Paused(p)]
      ELSE IF p.stage = "expand"
      THEN [ok |-> CanPublish(p), line |-> Published(p, l),
            plan |-> [p EXCEPT !.stage = "cleanup", !.base = Published(p, l).version]]
      ELSE [ok |-> p.kind = "delete" => CanDelete,
            line |-> IF p.kind = "delete" THEN [path |-> NoLine, version |-> 0] ELSE l,
            plan |-> [p EXCEPT !.status = "completed"]]

\* advanceLineRolloutTx: publication goes on to the first cleanup.
Advanced(p, l) ==
  LET r == AdvanceStage(p, l)
  IN  IF r.ok /\ r.plan.stage # p.stage THEN AdvanceStage(r.plan, r.line) ELSE r

\* AdvanceLineRollouts; an error rolls the transaction back.
Advance ==
  /\ plan.status = "running"
  /\ Advanced(plan, line).ok
  /\ plan' = Advanced(plan, line).plan
  /\ line' = Advanced(plan, line).line
  /\ UNCHANGED <<entries, head, issued, gen, misc, gets, agent, mail, spent>>
-----------------------------------------------------------------------------
(* The operator.                                                           *)

NewSteps(held, new, before, after) ==
  LET t == OrderedTargets(held, new, before, after)
  IN  [i \in 1..Len(t) |->
         [node |-> t[i].node, phase |-> t[i].phase, expect |-> t[i].expect, status |-> "pending",
          attempt |-> 1, delivery |-> 0, receipt |-> "none", due |-> FALSE, since |-> 0]]

\* createLineRolloutTx: old are the rules servers hold, to is the new intent
\* (NoLine: remove), l the line as saved now.  A new line is saved at once.
Drawn(old, to, l) ==
  LET new == [n \in Nodes |-> RulesOn(to, n)]
      ids == {n \in Nodes : old[n] # {} \/ new[n] # {}}
      row == IF l.path = NoLine THEN [path |-> to, version |-> 1] ELSE l
  IN  Advanced(
        [no |-> plan.no + 1, status |-> "running",
         kind |-> IF l.path = NoLine THEN "create" ELSE IF to = NoLine THEN "delete" ELSE "edit",
         stage |-> IF to = NoLine THEN "cleanup" ELSE "expand",
         base |-> row.version, before |-> l.path, after |-> to, held |-> old,
         nodes |-> ids, deps |-> ids \cup {Landing}, gen |-> gen,
         steps |-> NewSteps(old, new, l.path, to)],
        row)

\* What prepareLineRolloutTx demands of any plan.
Plannable(old, to) ==
  /\ plan.no < MaxPlans
  /\ \A n \in Nodes : Coexist(old[n] \cup RulesOn(to, n))
  /\ to = NoLine => entries = {}
  /\ to # NoLine /\ line.path # NoLine => entries \subseteq ServersOf(to[1])

\* PlanLineRollout
Plan(to) ==
  LET old == [n \in Nodes |-> SavedRules(line, n)]
      ids == {n \in Nodes : old[n] # {} \/ RulesOn(to, n) # {}} \cup {Landing}
  IN  /\ ~Active
      /\ to # line.path
      /\ Plannable(old, to)
      /\ \A n \in ids : FreshNode(n)
      /\ Drawn(old, to, line).ok
      /\ plan' = Drawn(old, to, line).plan
      /\ line' = Drawn(old, to, line).line
      /\ UNCHANGED <<entries, head, issued, gen, misc, gets, agent, mail, spent>>

\* PauseLineRollout
Pause ==
  /\ Can("pause") /\ Spend("pause")
  /\ plan.status = "running"
  /\ plan' = Paused(plan)
  /\ UNCHANGED <<line, entries, head, issued, gen, misc, gets, agent, mail>>

\* Mutant: the delivery of the earlier attempt is kept.
RetryInPlace ==
  /\ plan.status = "paused"
  /\ Valid(plan, line)
  /\ \A i \in 1..Len(plan.steps) : plan.steps[i].attempt < MaxAttempts
  /\ plan' = [plan EXCEPT
       !.status = "running",
       !.steps = [i \in DOMAIN @ |->
          IF @[i].phase # plan.stage \/ @[i].status = "pending" \/ Latest(plan, @[i].node) # i
          THEN @[i]
          ELSE [@[i] EXCEPT !.due = FALSE, !.since = issued[plan.steps[i].node]]]]
  /\ UNCHANGED <<line, entries, head, issued, gen, misc, gets, agent, mail, spent>>

\* A step's next attempt.
Again(s) ==
  [s EXCEPT !.attempt = s.attempt + 1, !.status = "released", !.due = FALSE,
            !.delivery = 0, !.receipt = "none", !.since = issued[s.node]]

\* RetryLineRollout: released steps of the stage begin a new attempt.
Retry ==
  /\ plan.status = "paused"
  /\ Valid(plan, line)
  /\ \A i \in 1..Len(plan.steps) : plan.steps[i].attempt < MaxAttempts
  /\ plan' = [plan EXCEPT
       !.status = "running",
       !.steps = [i \in DOMAIN plan.steps |->
          LET s == plan.steps[i]
          IN  IF s.phase # plan.stage \/ s.status = "pending" \/ Latest(plan, s.node) # i
              THEN s ELSE Again(s)]]
  /\ UNCHANGED <<line, entries, head, issued, gen, misc, gets, agent, mail, spent>>

\* Mutant: the saved rules are taken for what servers hold.
HeldAsSaved(n) == IF n \in plan.deps /\ gen[n] # plan.gen[n] THEN head[n].rules ELSE SavedRules(line, n)

\* What a compensation takes a server to hold: a re-paired one what its new
\* process confirmed under the plan, the others what the plan released, or the
\* saved rules once the plan is complete.
Held(n) ==
  IF n \in plan.deps /\ gen[n] # plan.gen[n] THEN head[n].rules
  ELSE IF line.path = NoLine THEN {}
  ELSE IF plan.status = "completed" THEN SavedRules(line, n)
  ELSE IF n \in plan.nodes THEN CurrentRules(plan, n) ELSE {}

\* CompensateLineRollout: the old plan is closed, a plan back to its earlier
\* intent is drawn.  A current receipt is enough, a successful one is not needed.
Compensate ==
  LET held == [n \in Nodes |-> Held(n)]
      ids == {n \in Nodes : held[n] # {} \/ RulesOn(plan.before, n) # {}} \cup {Landing}
  IN  /\ Can("compensate") /\ Spend("compensate")
      /\ plan.status \in {"running", "paused", "completed"}
      /\ \A n \in plan.deps : gen[n] # plan.gen[n] => FreshNode(n) /\ head[n].seen = plan.no
      /\ line.path # NoLine => line.version = plan.base
      /\ ~(line.path = NoLine /\ plan.before = NoLine)
      /\ Plannable(held, plan.before)
      /\ \A n \in ids : head[n].gen = gen[n] /\ head[n].fresh
      /\ Drawn(held, plan.before, line).ok
      /\ plan' = Drawn(held, plan.before, line).plan
      /\ line' = Drawn(held, plan.before, line).line
      /\ UNCHANGED <<entries, head, issued, gen, misc, gets, agent, mail>>

\* ResolveLineEntry and the deletion of entries.
Bindable ==
  /\ line.path # NoLine
  /\ ~(Active /\ (plan.kind = "delete" \/ (plan.kind = "create" /\ plan.stage = "expand")))

BindEntry(n) ==
  /\ Can("entry") /\ Spend("entry")
  /\ Bindable
  /\ n \in ServersOf(line.path[1]) \ entries
  /\ entries' = entries \cup {n}
  /\ UNCHANGED <<line, plan, head, issued, gen, misc, gets, agent, mail>>

DropEntry(n) ==
  /\ n \in entries
  /\ entries' = entries \ {n}
  /\ UNCHANGED <<line, plan, head, issued, gen, misc, gets, agent, mail, spent>>
-----------------------------------------------------------------------------
(* Time.                                                                   *)

\* A released step's deadline passes.  It is an instant, so it passes for a
\* step that was confirmed too, and matters if that step is delivered again.
DeadlinePasses(i) ==
  /\ Can("due") /\ Spend("due")
  /\ Active
  /\ i \in 1..Len(plan.steps)
  /\ plan.steps[i].status # "pending" /\ ~plan.steps[i].due
  /\ plan' = [plan EXCEPT !.steps[i].due = TRUE]
  /\ UNCHANGED <<line, entries, head, issued, gen, misc, gets, agent, mail>>

\* No receipt for three minutes.
GoStale(n) ==
  /\ Can("stale") /\ Spend("stale")
  /\ head[n].fresh
  /\ head' = [head EXCEPT ![n].fresh = FALSE]
  /\ UNCHANGED <<line, entries, plan, issued, gen, misc, gets, agent, mail>>
-----------------------------------------------------------------------------
(* Deliveries and receipts.                                                *)

\* Users, certificates, limits: whatever else the server's state depends on.
ChangeElse(n) ==
  /\ Can("misc") /\ Spend("misc")
  /\ misc' = [misc EXCEPT ![n] = @ + 1]
  /\ UNCHANGED <<line, entries, plan, head, issued, gen, gets, agent, mail>>

\* A re-paired server is another agent under another token.
Repair(n) ==
  /\ Can("repair") /\ Spend("repair")
  /\ gen' = [gen EXCEPT ![n] = @ + 1]
  /\ gets' = [gets EXCEPT ![n] = << >>]
  /\ agent' = [agent EXCEPT ![n] = [id |-> 0, want |-> {}, has |-> {}, done |-> FALSE]]
  /\ mail' = [mail EXCEPT ![n] = NoMail]
  /\ UNCHANGED <<line, entries, plan, head, issued, misc>>

\* Mutant: any delivery of the server answers the step.
MatchingAnyRules(n, f) ==
  IF Active /\ n \in plan.nodes /\ plan.gen[n] = gen[n] /\ Latest(plan, n) # 0
  THEN LET i == Latest(plan, n) IN <<plan.no, i, plan.steps[i].attempt>>
  ELSE NoMap

\* matchingLineRolloutStepsTx: the step the rules f of a delivery would serve.
Matching(n, f) ==
  IF /\ Active /\ n \in plan.nodes /\ plan.gen[n] = gen[n]
     /\ Latest(plan, n) # 0
     /\ plan.steps[Latest(plan, n)].expect = f
  THEN LET i == Latest(plan, n) IN <<plan.no, i, plan.steps[i].attempt>>
  ELSE NoMap

\* The head answers a poll only if it carries the same state and, for a step
\* being released, was issued for its current attempt.
Answered(n, f) ==
  /\ head[n].gen = gen[n] /\ head[n].rules = f.rules /\ head[n].misc = f.misc
  /\ Matching(n, f.rules) \in {NoMap, head[n].map}

\* The panel builds the state a poll of server n will be answered with.  A poll
\* answered with the head it already holds changes nothing and is left out.  An
\* agent polls again only when it gave the previous poll up.
BuildState(n) ==
  LET f == [rules |-> Desired(n), misc |-> misc[n], live |-> TRUE]
      givenUp == [i \in DOMAIN gets[n] |-> [gets[n][i] EXCEPT !.live = FALSE]]
  IN  /\ Len(gets[n]) < MaxGets
      /\ ~Answered(n, f)
      /\ gets' = [gets EXCEPT ![n] = Append(givenUp, f)]
      /\ UNCHANGED <<line, entries, plan, head, issued, gen, misc, agent, mail, spent>>

\* mapLineRolloutDeliveryTx and bindLineRolloutDeliveryTx: the step waits for
\* the new delivery, under the deadline it had.
Bound(p, map, id) ==
  IF map = NoMap THEN p
  ELSE [p EXCEPT !.steps[map[2]] = [@ EXCEPT !.status = "released", !.delivery = id, !.receipt = "none"]]

\* PrepareNodeConfigDelivery for poll i of server n, and the answer, which
\* reaches nobody if the poll was given up.
Deliver(n, i) ==
  LET f == gets[n][i]
      id == issued[n] + 1
      map == Matching(n, f.rules)
  IN  /\ issued[n] < MaxDeliveries
      /\ gets' = [gets EXCEPT ![n] = RemoveAt(@, i)]
      /\ IF Answered(n, f)
         THEN UNCHANGED <<plan, head, issued, agent>>
         ELSE /\ issued' = [issued EXCEPT ![n] = id]
              /\ head' = [head EXCEPT ![n] =
                    [id |-> id, rules |-> f.rules, misc |-> f.misc, gen |-> gen[n],
                     applied |-> FALSE, fresh |-> FALSE, map |-> map,
                     seen |-> IF Active /\ n \in plan.nodes THEN plan.no ELSE 0]]
              /\ plan' = Bound(plan, map, id)
              /\ agent' = IF ~f.live THEN agent
                          ELSE [agent EXCEPT ![n] = [@ EXCEPT !.id = id, !.want = f.rules, !.done = FALSE]]
      /\ UNCHANGED <<line, entries, gen, misc, mail, spent>>

Install(n) ==
  /\ ~agent[n].done
  /\ agent[n].id # 0
  /\ agent' = [agent EXCEPT ![n] = [@ EXCEPT !.has = agent[n].want, !.done = TRUE]]
  /\ UNCHANGED <<line, entries, plan, head, issued, gen, misc, gets, mail, spent>>

\* The agent reports on the delivery it holds.  It reports success only when it
\* has installed it.  A receipt that would tell the panel nothing is left out.
SendReceipt(n) ==
  /\ mail[n] = NoMail
  /\ agent[n].id # 0
  /\ \/ agent[n].done /\ UNCHANGED spent
     \/ ~agent[n].done /\ Can("fail") /\ Spend("fail")
  /\ ~(agent[n].id = head[n].id /\ head[n].fresh /\ head[n].applied = agent[n].done)
  /\ mail' = [mail EXCEPT ![n] = [id |-> agent[n].id, applied |-> agent[n].done]]
  /\ UNCHANGED <<line, entries, plan, head, issued, gen, misc, gets, agent>>

LoseReceipt(n) ==
  /\ Can("lose") /\ Spend("lose")
  /\ mail[n] # NoMail
  /\ mail' = [mail EXCEPT ![n] = NoMail]
  /\ UNCHANGED <<line, entries, plan, head, issued, gen, misc, gets, agent>>

\* The step a receipt of head h of server n is about: the latest one, if the
\* delivery was mapped to its current attempt; 0 otherwise.
StepOf(n, h) ==
  IF /\ Active /\ n \in plan.nodes /\ plan.gen[n] = gen[n]
     /\ Latest(plan, n) # 0
     /\ h.map = <<plan.no, Latest(plan, n), plan.steps[Latest(plan, n)].attempt>>
  THEN Latest(plan, n) ELSE 0

\* recordLineRolloutReceiptTx for one step: a failure pauses a running plan.
Recorded(p, i, ok) ==
  LET q == [p EXCEPT !.steps[i] = [@ EXCEPT !.status = IF ok THEN "applied" ELSE "released",
                                            !.receipt = IF ok THEN "applied" ELSE "failed"]]
  IN  IF ~ok /\ p.status = "running" THEN Paused(q) ELSE q

\* recordNodeConfigReceiptTx: only a receipt for the head counts.
ReceiveReceipt(n) ==
  LET r == mail[n]
      i == StepOf(n, head[n])
  IN  /\ r # NoMail
      /\ mail' = [mail EXCEPT ![n] = NoMail]
      /\ IF r.id = head[n].id /\ head[n].gen = gen[n]
         THEN /\ head' = [head EXCEPT ![n] = [@ EXCEPT !.applied = r.applied, !.fresh = TRUE]]
              /\ plan' = IF i = 0 THEN plan ELSE Recorded(plan, i, r.applied)
         ELSE UNCHANGED <<head, plan>>
      /\ UNCHANGED <<line, entries, issued, gen, misc, gets, agent, spent>>
-----------------------------------------------------------------------------
Init ==
  /\ line = [path |-> Start, version |-> IF Start = NoLine THEN 0 ELSE 1]
  /\ entries = {}
  /\ plan = NoPlan
  /\ head = [n \in Nodes |-> [id |-> 1, rules |-> RulesOn(Start, n), misc |-> 0, gen |-> 1,
                              applied |-> TRUE, fresh |-> TRUE, map |-> NoMap, seen |-> 0]]
  /\ issued = [n \in Nodes |-> 1]
  /\ gen = [n \in Nodes |-> 1]
  /\ misc = [n \in Nodes |-> 0]
  /\ gets = [n \in Nodes |-> << >>]
  /\ agent = [n \in Nodes |-> [id |-> 1, want |-> RulesOn(Start, n), has |-> RulesOn(Start, n), done |-> TRUE]]
  /\ mail = [n \in Nodes |-> NoMail]
  /\ spent = [b \in DOMAIN Budget |-> 0]

Next ==
  \/ Advance \/ Pause \/ Retry \/ Compensate
  \/ \E to \in Intents : Plan(to)
  \/ \E i \in 1..Len(IF plan.no = 0 THEN << >> ELSE plan.steps) : DeadlinePasses(i)
  \/ \E n \in Nodes :
       \/ BindEntry(n) \/ DropEntry(n)
       \/ GoStale(n) \/ ChangeElse(n) \/ Repair(n)
       \/ BuildState(n)
       \/ \E i \in 1..Len(gets[n]) : Deliver(n, i)
       \/ Install(n) \/ SendReceipt(n) \/ LoseReceipt(n) \/ ReceiveReceipt(n)

Spec == Init /\ [][Next]_vars
-----------------------------------------------------------------------------
Installed == [n \in Nodes |-> agent[n].has]

\* No server forwards to a listener that is not there, whatever fails, falls
\* silent, is paused or retried on the way: each step waits for its receipt.
NeverDangling == Connected(Installed)

\* The path a bound entry advertises is installed from end to end: publication
\* (publishLineRolloutTx) waits for the whole expansion, cleanup for publication.
\* (Not on a server that was paired again: its new agent starts with nothing.
\* Nor after a removal is compensated: that plan is an edit, and Bindable lets
\* entries in while the path is being installed again.)
EntriesServed ==
  entries # {} => \A n \in Nodes : gen[n] = 1 => RulesOn(line.path, n) \subseteq agent[n].has

\* "Neither old success nor late failure can win" (RetryLineRollout): a step is
\* applied only by a delivery issued after its attempt began.
AttemptsAnswerThemselves ==
  Active => \A i \in 1..Len(plan.steps) :
    plan.steps[i].status = "applied" => plan.steps[i].delivery > plan.steps[i].since

\* What the scheduler takes for confirmed is what the server runs.
ConfirmedIsInstalled ==
  Active => \A i \in 1..Len(plan.steps) :
    Latest(plan, plan.steps[i].node) = i /\ Confirmed(plan, i)
      => agent[plan.steps[i].node].has = plan.steps[i].expect

\* A completed plan, and the plan that compensates another, leaves its servers
\* with the rules of the saved line and no others.  (Not if a compensation is
\* itself compensated while a step is released and not delivered: Held then takes
\* those rules for installed, and the new plan has nothing left to do.)
CompletedIsClean ==
  plan.status = "completed" =>
    \A n \in plan.nodes : plan.gen[n] = gen[n] => agent[n].has = SavedRules(line, n)

\* "A re-paired server must never inherit an old generation's held listeners"
\* (ApplyLineRolloutForwards).
RepairedInheritsNothing ==
  Active => \A n \in plan.nodes :
    plan.gen[n] # gen[n] /\ head[n].gen = gen[n] => head[n].rules = {}

\* Agents owe nothing; the scheduler ticks every five seconds and time passes.
FairSpec ==
  /\ Spec
  /\ WF_vars(Advance)
  /\ WF_vars(\E i \in 1..Len(IF plan.no = 0 THEN << >> ELSE plan.steps) : DeadlinePasses(i))

\* A running plan completes or stops for the operator, if every agent falls
\* silent too: the per-step timeout sees to it.  (Unless it cannot be published
\* because an entry was bound meanwhile, see RolloutBatch.)
StopsByItself ==
  plan.status = "running" ~> plan.status # "running" \/ ~Advanced(plan, line).ok
=============================================================================
