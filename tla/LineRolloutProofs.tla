------------------------- MODULE LineRolloutProofs -------------------------
(***************************************************************************)
(* For every set of servers, every path and every number of plans,         *)
(* deliveries, polls, attempts and disturbances: a release plan holds each *)
(* target once and in order, its steps are confirmed only by deliveries of *)
(* their own attempt, what is confirmed is installed, and a re-paired      *)
(* server is handed nothing of the old plan.                               *)
(***************************************************************************)
EXTENDS LineRollout, LinePlanProofs

-----------------------------------------------------------------------------
(* The invariant of a release.                                             *)

StepRow == [node : Nodes, phase : {"expand", "cleanup"}, expect : SUBSET Rule,
            status : {"pending", "released", "applied"}, attempt : Nat, delivery : Nat,
            receipt : {"none", "applied", "failed"}, due : BOOLEAN, since : Nat]
PlanRow == [no : Nat \ {0}, status : {"running", "paused", "completed"},
            kind : {"create", "edit", "delete"}, stage : {"expand", "cleanup"}, base : Nat,
            before : Path, after : Path, held : RuleMap, nodes : SUBSET Nodes, deps : SUBSET Nodes,
            gen : [Nodes -> Nat], steps : Seq(StepRow)]
LineRow == [path : Path, version : Nat]
HeadRow == [id : Nat, rules : SUBSET Rule, misc : Nat, gen : Nat, applied : BOOLEAN,
            fresh : BOOLEAN, map : Nat \X Nat \X Nat, seen : Nat]
GetRow == [rules : SUBSET Rule, misc : Nat, live : BOOLEAN]
BareRow == [rules : {{}}, misc : Nat, live : BOOLEAN]
AgentRow == [id : Nat, want : SUBSET Rule, has : SUBSET Rule, done : BOOLEAN]
MailRow == [id : Nat, applied : BOOLEAN]

\* The type of the state: rows of the tables, and of what servers hold.
LineRolloutTypeOK ==
  /\ line \in LineRow
  /\ entries \in SUBSET Nodes
  /\ plan = NoPlan \/ plan \in PlanRow
  /\ head \in [Nodes -> HeadRow]
  /\ issued \in [Nodes -> Nat]
  /\ gen \in [Nodes -> Nat]
  /\ misc \in [Nodes -> Nat]
  /\ gets \in [Nodes -> Seq(GetRow)]
  /\ agent \in [Nodes -> AgentRow]
  /\ mail \in [Nodes -> MailRow]
  /\ spent \in [DOMAIN Budget -> Nat]

\* What the panel delivered last, what the agent holds of it, and what the
\* receipt under way says of the agent.
HeadInv(n) ==
  /\ head[n].id = issued[n] /\ issued[n] > 0
  /\ head[n].gen <= gen[n]
  /\ head[n].map[1] <= plan.no
  /\ agent[n].id <= issued[n] /\ mail[n].id <= issued[n]
  /\ agent[n].id = head[n].id => agent[n].want = head[n].rules
  /\ agent[n].done => agent[n].has = agent[n].want
  /\ mail[n].id = head[n].id => agent[n].id = head[n].id /\ (mail[n].applied => agent[n].done)

\* Step i of the plan and the head of its server: a delivery is mapped to at
\* most the current attempt, came after it began, carries the step's rules, and
\* answers it only once the agent has installed them.
StepHolds(s, i, no, h, last, g, a) ==
  /\ s.since <= last /\ s.delivery <= last
  /\ s.status = "pending" => s.delivery = 0
  /\ s.status = "applied" => s.delivery > s.since
  /\ h.map[1] = no /\ h.map[2] = i => h.map[3] <= s.attempt /\ s.status # "pending"
  /\ h.map[1] = no /\ h.map[2] = i /\ h.map[3] = s.attempt => s.delivery = h.id /\ s.since < h.id
  /\ s.delivery = h.id => s.expect = h.rules
  /\ s.status = "applied" /\ s.delivery = h.id /\ h.gen = g => a.id = h.id /\ a.done

StepInv(i) ==
  LET n == plan.steps[i].node
  IN  StepHolds(plan.steps[i], i, plan.no, head[n], issued[n], gen[n], agent[n])

\* Nothing of the plan is on its way to a server paired again since.
RepairInv(n) ==
  Active /\ n \in plan.nodes /\ plan.gen[n] # gen[n] =>
    /\ gets[n] \in Seq(BareRow)
    /\ head[n].gen = gen[n] => head[n].rules = {}

ReleaseInv ==
  /\ LineRolloutTypeOK
  /\ \A n \in Nodes : HeadInv(n)
  /\ plan.no # 0 => \A i \in 1..Len(plan.steps) : StepInv(i)
  /\ \A n \in Nodes : RepairInv(n)
-----------------------------------------------------------------------------
(* What the operations make of a plan.                                     *)

\* The same plan at another point of its release.
SamePlan(p, q) ==
  /\ q \in PlanRow
  /\ q.no = p.no /\ q.nodes = p.nodes /\ q.gen = p.gen
  /\ Len(q.steps) = Len(p.steps)

\* A step at the start of its first attempt.
Freed(s) == [s EXCEPT !.status = "released", !.due = FALSE, !.since = issued[s.node]]

LEMMA PlanFacts ==
  ASSUME NEW p \in PlanRow
  PROVE  /\ p.steps \in Seq(StepRow) /\ Len(p.steps) \in Nat /\ DOMAIN p.steps = 1..Len(p.steps)
         /\ \A i \in 1..Len(p.steps) : p.steps[i] \in StepRow
  <1>1. p.steps \in Seq(StepRow)
    BY DEF PlanRow
  <1> QED BY <1>1, LenProperties, ElementOfSeq

LEMMA LatestFacts ==
  ASSUME NEW p \in PlanRow, NEW n
  PROVE  /\ Latest(p, n) \in 0..Len(p.steps)
         /\ Latest(p, n) # 0 => /\ Latest(p, n) \in 1..Len(p.steps)
                                /\ p.steps[Latest(p, n)].node = n
                                /\ p.steps[Latest(p, n)].status # "pending"
  <1> DEFINE mine == {i \in 1..Len(p.steps) : p.steps[i].node = n /\ p.steps[i].status # "pending"}
  <1>0. Len(p.steps) \in Nat
    BY PlanFacts
  <1>1. CASE mine = {}
    BY <1>0, <1>1 DEF Latest
  <1>2. CASE mine # {}
    <2>1. mine \in SUBSET (1..Len(p.steps))
      OBVIOUS
    <2> DEFINE L == Len(p.steps)
    <2>2. Max(mine) \in mine
      <3> HIDE DEF mine, L
      <3> QED BY <1>0, <1>2, <2>1, MaxInSet DEF L
    <2>3. Latest(p, n) = Max(mine)
      BY <1>2 DEF Latest
    <2> QED BY <1>0, <2>2, <2>3
  <1> QED BY <1>1, <1>2

\* Step i of plan p is rewritten to row, and nothing else.
Rewritten(p, q, i, row) ==
  /\ SamePlan(p, q) /\ q.status = p.status
  /\ q.steps[i] = row
  /\ \A j \in 1..Len(p.steps) : j # i => q.steps[j] = p.steps[j]

LEMMA WithStep ==
  ASSUME NEW p \in PlanRow, NEW i \in 1..Len(p.steps), NEW row \in StepRow
  PROVE  Rewritten(p, [p EXCEPT !.steps = [p.steps EXCEPT ![i] = row]], i, row)
  <1> DEFINE ss == [p.steps EXCEPT ![i] = row]
             q == [p EXCEPT !.steps = ss]
  <1>1. p.steps \in Seq(StepRow)
    BY PlanFacts
  <1>2. /\ ss \in Seq(StepRow) /\ Len(ss) = Len(p.steps)
        /\ ss[i] = row /\ \A j \in 1..Len(p.steps) : j # i => ss[j] = p.steps[j]
    BY <1>1, ExceptSeq
  <1> HIDE DEF ss
  <1>3. q \in PlanRow /\ q.steps = ss /\ q.no = p.no /\ q.nodes = p.nodes /\ q.gen = p.gen /\ q.status = p.status
    BY <1>2 DEF PlanRow
  <1> HIDE DEF q
  <1>4. SamePlan(p, q)
    BY <1>2, <1>3 DEF SamePlan
  <1>5. q.steps[i] = row /\ \A j \in 1..Len(p.steps) : j # i => q.steps[j] = p.steps[j]
    BY <1>2, <1>3
  <1>6. Rewritten(p, q, i, row)
    BY <1>3, <1>4, <1>5 DEF Rewritten
  <1> QED BY <1>6 DEF q, ss

LEMMA PausedFacts ==
  ASSUME NEW p \in PlanRow
  PROVE  SamePlan(p, Paused(p)) /\ Paused(p).steps = p.steps /\ Paused(p).stage = p.stage /\ Paused(p).status = "paused"
  BY DEF PlanRow, Paused, SamePlan

LEMMA ReleasedFacts ==
  ASSUME NEW p \in PlanRow, NEW i \in 1..Len(p.steps), issued \in [Nodes -> Nat]
  PROVE  LET q == Released(p, i)
         IN  /\ SamePlan(p, q) /\ q.status = p.status /\ q.stage = p.stage
             /\ q.steps[i] = Freed(p.steps[i])
             /\ \A j \in 1..Len(p.steps) : j # i => q.steps[j] = p.steps[j]
  <1> DEFINE row == Freed(p.steps[i])
             q == [p EXCEPT !.steps = [p.steps EXCEPT ![i] = row]]
  <1>1. p.steps[i] \in StepRow
    BY PlanFacts
  <1>2. row \in StepRow
    BY <1>1 DEF StepRow, Freed
  <1>3. Released(p, i) = q
    BY DEF Released, PlanRow, Freed
  <1>4. q.stage = p.stage
    BY DEF PlanRow
  <1> HIDE DEF row
  <1>5. SamePlan(p, q) /\ q.status = p.status /\ q.steps[i] = row /\ \A j \in 1..Len(p.steps) : j # i => q.steps[j] = p.steps[j]
    <2>1. Rewritten(p, q, i, row)
      BY <1>2, WithStep
    <2> HIDE DEF q
    <2> QED BY <2>1 DEF Rewritten
  <1> QED BY <1>3, <1>4, <1>5 DEF row

\* Nothing but the release of steps that were still to be released.
Moved(p, q) ==
  /\ SamePlan(p, q)
  /\ \A i \in 1..Len(p.steps) :
       \/ q.steps[i] = p.steps[i]
       \/ /\ p.steps[i].status = "pending"
          /\ q.steps[i] = Freed(p.steps[i])

\* advanceLineRolloutTx releases at most a step, and changes the line only to
\* another saved row.
LEMMA AdvanceStageFacts ==
  ASSUME NEW p \in PlanRow, NEW l \in LineRow, issued \in [Nodes -> Nat]
  PROVE  /\ AdvanceStage(p, l).line \in LineRow
         /\ Moved(p, AdvanceStage(p, l).plan)
         /\ AdvanceStage(p, l).plan.stage # p.stage => AdvanceStage(p, l).plan.steps = p.steps
  <1> DEFINE r == AdvanceStage(p, l)
             same == [ok |-> TRUE, plan |-> p, line |-> l]
             first == Min(Blocking(p))
             paused == [same EXCEPT !.plan = Paused(p)]
  <1>1. SamePlan(p, p)
    BY DEF SamePlan
  <1>2. CASE r = same
    BY <1>1, <1>2 DEF Moved
  <1>3. CASE r = paused
    <2>1. r.line = l /\ r.plan = Paused(p)
      BY <1>3
    <2> QED BY <2>1, PausedFacts DEF Moved
  <1>4. CASE Blocking(p) # {} /\ p.steps[first].status = "pending" /\ r = [same EXCEPT !.plan = Released(p, first)]
    <2>1. r.line = l /\ r.plan = Released(p, first)
      BY <1>4
    <2>2. Blocking(p) \subseteq 1..Len(p.steps)
      BY DEF Blocking
    <2>3. Blocking(p) \in SUBSET Nat
      BY <2>2, PlanFacts
    <2>4. first \in 1..Len(p.steps)
      BY <1>4, <2>2, <2>3, MinInSet
    <2> HIDE DEF r, first, same
    <2>5. /\ SamePlan(p, r.plan) /\ r.plan.stage = p.stage
          /\ r.plan.steps[first] = Freed(p.steps[first])
          /\ \A j \in 1..Len(p.steps) : j # first => r.plan.steps[j] = p.steps[j]
      <3> DEFINE q == Released(p, first)
      <3>1. /\ SamePlan(p, q) /\ q.stage = p.stage /\ q.steps[first] = Freed(p.steps[first])
            /\ \A j \in 1..Len(p.steps) : j # first => q.steps[j] = p.steps[j]
        BY <2>4, ReleasedFacts
      <3>2. r.plan = q
        BY <2>1
      <3> HIDE DEF q
      <3> QED BY <3>1, <3>2
    <2>6. Moved(p, r.plan)
      BY <1>4, <2>5 DEF Moved
    <2> QED BY <2>1, <2>5, <2>6 DEF r
  <1>5. CASE r = [ok |-> CanPublish(p), line |-> Published(p, l),
                  plan |-> [p EXCEPT !.stage = "cleanup", !.base = Published(p, l).version]]
    <2>1. Published(p, l) \in LineRow
      BY DEF Published, PlanRow, LineRow
    <2>2. Published(p, l).version \in Nat
      BY <2>1 DEF LineRow
    <2>3. r.line = Published(p, l) /\ r.plan = [p EXCEPT !.stage = "cleanup", !.base = Published(p, l).version]
      BY <1>5
    <2> HIDE DEF r
    <2>4. SamePlan(p, r.plan) /\ r.plan.steps = p.steps
      BY <2>2, <2>3 DEF SamePlan, PlanRow
    <2> QED BY <2>1, <2>3, <2>4 DEF Moved, r
  <1>6. CASE r = [ok |-> p.kind = "delete" => CanDelete,
                  line |-> IF p.kind = "delete" THEN [path |-> NoLine, version |-> 0] ELSE l,
                  plan |-> [p EXCEPT !.status = "completed"]]
    <2>1. [path |-> NoLine, version |-> 0] \in LineRow
      BY EmptySeq DEF LineRow, Path, NoLine
    <2>2. r.line \in LineRow /\ r.plan = [p EXCEPT !.status = "completed"]
      BY <1>6, <2>1
    <2> HIDE DEF r
    <2>4. SamePlan(p, r.plan) /\ r.plan.steps = p.steps
      BY <2>2 DEF SamePlan, PlanRow
    <2> QED BY <2>2, <2>4 DEF Moved, r
  <1>7. Blocking(p) # {} => p.steps[first].status \in {"pending", "released", "applied"}
    <2> HAVE Blocking(p) # {}
    <2>2. Blocking(p) \subseteq 1..Len(p.steps)
      BY DEF Blocking
    <2>3. Blocking(p) \in SUBSET Nat
      BY <2>2, PlanFacts
    <2>4. first \in 1..Len(p.steps)
      BY <2>2, <2>3, MinInSet
    <2>5. p.steps[first] \in StepRow
      BY <2>4, PlanFacts
    <2> QED BY <2>5 DEF StepRow
  <1>8. \/ r = same \/ r = paused
        \/ Blocking(p) # {} /\ p.steps[first].status = "pending" /\ r = [same EXCEPT !.plan = Released(p, first)]
        \/ r = [ok |-> CanPublish(p), line |-> Published(p, l),
                plan |-> [p EXCEPT !.stage = "cleanup", !.base = Published(p, l).version]]
        \/ r = [ok |-> p.kind = "delete" => CanDelete,
                line |-> IF p.kind = "delete" THEN [path |-> NoLine, version |-> 0] ELSE l,
                plan |-> [p EXCEPT !.status = "completed"]]
    BY <1>7, Zenon DEF AdvanceStage
  <1> QED BY <1>2, <1>3, <1>4, <1>5, <1>6, <1>8

LEMMA AdvancedFacts ==
  ASSUME NEW p \in PlanRow, NEW l \in LineRow, issued \in [Nodes -> Nat]
  PROVE  Advanced(p, l).line \in LineRow /\ Moved(p, Advanced(p, l).plan)
  <1> DEFINE r == AdvanceStage(p, l)
  <1>1. r.line \in LineRow /\ Moved(p, r.plan) /\ (r.plan.stage # p.stage => r.plan.steps = p.steps)
    BY AdvanceStageFacts
  <1>2. CASE r.ok /\ r.plan.stage # p.stage
    <2>1. r.plan \in PlanRow
      BY <1>1 DEF Moved, SamePlan
    <2> DEFINE t == AdvanceStage(r.plan, r.line)
    <2>2. Advanced(p, l) = t
      BY <1>2 DEF Advanced
    <2> HIDE DEF r
    <2>3. t.line \in LineRow /\ Moved(r.plan, t.plan)
      BY <1>1, <2>1, AdvanceStageFacts
    <2>4. Moved(p, t.plan)
      <3> HIDE DEF t
      <3> QED BY <1>1, <1>2, <2>3 DEF Moved, SamePlan
    <2> QED BY <2>2, <2>3, <2>4
  <1>3. CASE ~(r.ok /\ r.plan.stage # p.stage)
    BY <1>1, <1>3 DEF Advanced
  <1> QED BY <1>2, <1>3

\* createLineRolloutTx starts with the plan's targets in their order, none of them released.
LEMMA NewStepsFacts ==
  ASSUME NEW old \in RuleMap, NEW new \in RuleMap, NEW before \in Path, NEW after \in Path
  PROVE  LET ss == NewSteps(old, new, before, after)
         IN  /\ ss \in Seq(StepRow)
             /\ \A i \in 1..Len(ss) : ss[i].status = "pending" /\ ss[i].delivery = 0 /\ ss[i].since = 0
  <1> DEFINE t == OrderedTargets(old, new, before, after)
             row(i) == [node |-> t[i].node, phase |-> t[i].phase, expect |-> t[i].expect, status |-> "pending",
                        attempt |-> 1, delivery |-> 0, receipt |-> "none", due |-> FALSE, since |-> 0]
             ss == [i \in 1..Len(t) |-> row(i)]
  <1>1. t \in Seq(PlanTarget)
    BY PlanIsOrdered
  <1>2. NewSteps(old, new, before, after) = ss
    BY DEF NewSteps
  <1> HIDE DEF t
  <1>3. Len(t) \in Nat /\ \A i \in 1..Len(t) : t[i] \in PlanTarget
    BY <1>1, LenProperties, ElementOfSeq
  <1>4. \A i \in 1..Len(t) : row(i) \in StepRow /\ row(i).status = "pending" /\ row(i).delivery = 0 /\ row(i).since = 0
    BY <1>3 DEF PlanTarget, StepRow
  <1> HIDE DEF row
  <1>5. ss \in [1..Len(t) -> StepRow]
    BY <1>4
  <1>6. ss \in Seq(StepRow) /\ Len(ss) = Len(t)
    BY <1>3, <1>5, RowsAreSeq
  <1>7. \A i \in 1..Len(ss) : ss[i] = row(i)
    BY <1>6
  <1> QED BY <1>2, <1>4, <1>6, <1>7

\* A plan that was just drawn: at most one step is released, and none delivered.
LEMMA DrawnFacts ==
  ASSUME NEW old \in RuleMap, NEW to \in Path, NEW l \in LineRow,
         plan.no \in Nat, gen \in [Nodes -> Nat], issued \in [Nodes -> Nat]
  PROVE  LET r == Drawn(old, to, l)
         IN  /\ r.line \in LineRow /\ r.plan \in PlanRow
             /\ r.plan.no = plan.no + 1 /\ r.plan.gen = gen
             /\ \A i \in 1..Len(r.plan.steps) :
                  LET s == r.plan.steps[i]
                  IN  s.status # "applied" /\ s.delivery = 0 /\ s.since <= issued[s.node]
  <1> DEFINE new == [n \in Nodes |-> RulesOn(to, n)]
             ids == {n \in Nodes : old[n] # {} \/ new[n] # {}}
             row == IF l.path = NoLine THEN [path |-> to, version |-> 1] ELSE l
             ss == NewSteps(old, new, l.path, to)
             p == [no |-> plan.no + 1, status |-> "running",
                   kind |-> IF l.path = NoLine THEN "create" ELSE IF to = NoLine THEN "delete" ELSE "edit",
                   stage |-> IF to = NoLine THEN "cleanup" ELSE "expand",
                   base |-> row.version, before |-> l.path, after |-> to, held |-> old,
                   nodes |-> ids, deps |-> ids \cup {Landing}, gen |-> gen, steps |-> ss]
             r == Drawn(old, to, l)
  <1>1. new \in RuleMap
    BY RulesTyped DEF RuleMap
  <1>2. l.path \in Path /\ row \in LineRow
    BY DEF LineRow
  <1>3. /\ ss \in Seq(StepRow)
        /\ \A i \in 1..Len(ss) : ss[i].status = "pending" /\ ss[i].delivery = 0 /\ ss[i].since = 0
    <2> HIDE DEF new
    <2> QED BY <1>1, <1>2, NewStepsFacts
  <1>4. r = Advanced(p, row)
    BY DEF Drawn
  <1>5. ids \in SUBSET Nodes /\ ids \cup {Landing} \in SUBSET Nodes
    BY LineRolloutConstants
  <1>6. row.version \in Nat
    BY <1>2 DEF LineRow
  <1> HIDE DEF new, ids, row, ss
  <1>7. p \in PlanRow /\ p.no = plan.no + 1 /\ p.gen = gen /\ p.steps = ss
    BY <1>2, <1>3, <1>5, <1>6 DEF PlanRow
  <1> HIDE DEF p, r
  <1>8. r.line \in LineRow /\ Moved(p, r.plan)
    BY <1>2, <1>4, <1>7, AdvancedFacts
  <1>9. r.plan \in PlanRow /\ r.plan.no = plan.no + 1 /\ r.plan.gen = gen /\ Len(r.plan.steps) = Len(ss)
    BY <1>7, <1>8 DEF Moved, SamePlan
  <1>10. ASSUME NEW i \in 1..Len(ss)
         PROVE  LET s == r.plan.steps[i]
                IN  s.status # "applied" /\ s.delivery = 0 /\ s.since <= issued[s.node]
    <2>0. ss[i] \in StepRow
      BY <1>3, ElementOfSeq
    <2>1. r.plan.steps[i] = ss[i] \/ r.plan.steps[i] = Freed(ss[i])
      BY <1>7, <1>8 DEF Moved
    <2>2. ss[i].status = "pending" /\ ss[i].delivery = 0 /\ ss[i].since = 0 /\ issued[ss[i].node] \in Nat
      BY <1>3, <2>0 DEF StepRow
    <2> DEFINE z == ss[i]
    <2>3. z \in StepRow /\ z.status = "pending" /\ z.delivery = 0 /\ z.since = 0 /\ issued[z.node] \in Nat
      BY <2>0, <2>2
    <2>4. r.plan.steps[i] = z \/ r.plan.steps[i] = Freed(z)
      BY <2>1
    <2> HIDE DEF z
    <2>5. Freed(z).status = "released" /\ Freed(z).delivery = 0 /\ Freed(z).since = issued[z.node] /\ Freed(z).node = z.node
      BY <2>3 DEF Freed, StepRow
    <2> QED BY <2>3, <2>4, <2>5
  <1> QED BY <1>8, <1>9, <1>10 DEF r

\* Step i waits for delivery id, and nothing else is changed.
Awaits(p, q, i, id) ==
  /\ SamePlan(p, q) /\ q.status = p.status
  /\ \A j \in 1..Len(p.steps) : j # i => q.steps[j] = p.steps[j]
  /\ q.steps[i].node = p.steps[i].node /\ q.steps[i].expect = p.steps[i].expect
  /\ q.steps[i].attempt = p.steps[i].attempt /\ q.steps[i].since = p.steps[i].since
  /\ q.steps[i].status = "released" /\ q.steps[i].delivery = id

\* A delivery is bound to a step.
LEMMA BoundFacts ==
  ASSUME NEW p \in PlanRow, NEW map, map # NoMap, map[2] \in 1..Len(p.steps), NEW id \in Nat
  PROVE  Awaits(p, Bound(p, map, id), map[2], id)
  <1> DEFINE i == map[2]
             row == [p.steps[i] EXCEPT !.status = "released", !.delivery = id, !.receipt = "none"]
             q == [p EXCEPT !.steps = [p.steps EXCEPT ![i] = row]]
  <1>1. p.steps[i] \in StepRow
    BY PlanFacts
  <1>2. /\ row \in StepRow /\ row.node = p.steps[i].node /\ row.expect = p.steps[i].expect
        /\ row.attempt = p.steps[i].attempt /\ row.since = p.steps[i].since
        /\ row.status = "released" /\ row.delivery = id
    BY <1>1 DEF StepRow
  <1>3. Bound(p, map, id) = q
    BY DEF Bound, PlanRow
  <1> HIDE DEF row
  <1>5. SamePlan(p, q) /\ q.status = p.status /\ q.steps[i] = row /\ \A j \in 1..Len(p.steps) : j # i => q.steps[j] = p.steps[j]
    <2>1. Rewritten(p, q, i, row)
      BY <1>2, WithStep
    <2> HIDE DEF q
    <2> QED BY <2>1 DEF Rewritten
  <1> HIDE DEF q
  <1>6. Awaits(p, q, i, id)
    BY <1>2, <1>5 DEF Awaits
  <1> QED BY <1>3, <1>6

\* Step i is answered, with success or not, and nothing else is changed.
Answers(p, q, i, ok) ==
  /\ SamePlan(p, q)
  /\ \A j \in 1..Len(p.steps) : j # i => q.steps[j] = p.steps[j]
  /\ q.steps[i].node = p.steps[i].node /\ q.steps[i].expect = p.steps[i].expect
  /\ q.steps[i].attempt = p.steps[i].attempt /\ q.steps[i].since = p.steps[i].since
  /\ q.steps[i].delivery = p.steps[i].delivery
  /\ q.steps[i].status \in {"released", "applied"} /\ (q.steps[i].status = "applied" => ok)

\* A receipt is recorded for a step.
LEMMA RecordedFacts ==
  ASSUME NEW p \in PlanRow, NEW i \in 1..Len(p.steps), NEW ok \in BOOLEAN
  PROVE  Answers(p, Recorded(p, i, ok), i, ok)
  <1> DEFINE row == [p.steps[i] EXCEPT !.status = IF ok THEN "applied" ELSE "released",
                                       !.receipt = IF ok THEN "applied" ELSE "failed"]
             q == [p EXCEPT !.steps = [p.steps EXCEPT ![i] = row]]
  <1>1. p.steps[i] \in StepRow
    BY PlanFacts
  <1>2. /\ row \in StepRow /\ row.node = p.steps[i].node /\ row.expect = p.steps[i].expect
        /\ row.attempt = p.steps[i].attempt /\ row.since = p.steps[i].since
        /\ row.delivery = p.steps[i].delivery
        /\ row.status \in {"released", "applied"} /\ (row.status = "applied" => ok)
    BY <1>1 DEF StepRow
  <1>3. Recorded(p, i, ok) = IF ~ok /\ p.status = "running" THEN Paused(q) ELSE q
    BY DEF Recorded, PlanRow
  <1> HIDE DEF row
  <1>4. SamePlan(p, q) /\ q.status = p.status /\ q.steps[i] = row /\ \A j \in 1..Len(p.steps) : j # i => q.steps[j] = p.steps[j]
    <2>1. Rewritten(p, q, i, row)
      BY <1>2, WithStep
    <2> HIDE DEF q
    <2> QED BY <2>1 DEF Rewritten
  <1> HIDE DEF q
  <1>5. q \in PlanRow
    BY <1>4 DEF SamePlan
  <1>6. SamePlan(q, Paused(q)) /\ Paused(q).steps = q.steps /\ Paused(q).status = "paused"
    BY <1>5, PausedFacts
  <1>7. CASE ~ok /\ p.status = "running"
    <2> DEFINE t == Paused(q)
    <2>1. SamePlan(p, t) /\ t.status = "paused" /\ t.steps = q.steps
      BY <1>4, <1>6 DEF SamePlan
    <2>2. Recorded(p, i, ok) = t
      BY <1>3, <1>7
    <2> HIDE DEF t
    <2>3. Answers(p, t, i, ok)
      BY <1>2, <1>4, <2>1 DEF Answers
    <2> QED BY <2>2, <2>3
  <1>8. CASE ~(~ok /\ p.status = "running")
    <2>1. Recorded(p, i, ok) = q
      BY <1>3, <1>8
    <2>2. Answers(p, q, i, ok)
      BY <1>2, <1>4 DEF Answers
    <2> QED BY <2>1, <2>2
  <1> QED BY <1>7, <1>8

\* A step's deadline is marked as passed.
LEMMA DueFacts ==
  ASSUME NEW p \in PlanRow, NEW i \in 1..Len(p.steps)
  PROVE  LET q == [p EXCEPT !.steps[i].due = TRUE]
         IN  /\ SamePlan(p, q) /\ q.status = p.status
             /\ \A j \in 1..Len(p.steps) :
                  /\ q.steps[j].node = p.steps[j].node /\ q.steps[j].expect = p.steps[j].expect
                  /\ q.steps[j].attempt = p.steps[j].attempt /\ q.steps[j].since = p.steps[j].since
                  /\ q.steps[j].delivery = p.steps[j].delivery /\ q.steps[j].status = p.steps[j].status
  <1> DEFINE row == [p.steps[i] EXCEPT !.due = TRUE]
             q == [p EXCEPT !.steps = [p.steps EXCEPT ![i] = row]]
  <1>1. p.steps[i] \in StepRow
    BY PlanFacts
  <1>2. /\ row \in StepRow /\ row.node = p.steps[i].node /\ row.expect = p.steps[i].expect
        /\ row.attempt = p.steps[i].attempt /\ row.since = p.steps[i].since
        /\ row.delivery = p.steps[i].delivery /\ row.status = p.steps[i].status
    BY <1>1 DEF StepRow
  <1>3. [p EXCEPT !.steps[i].due = TRUE] = q
    BY DEF PlanRow
  <1> HIDE DEF row
  <1>5. SamePlan(p, q) /\ q.status = p.status /\ q.steps[i] = row /\ \A j \in 1..Len(p.steps) : j # i => q.steps[j] = p.steps[j]
    <2>1. Rewritten(p, q, i, row)
      BY <1>2, WithStep
    <2> HIDE DEF q
    <2> QED BY <2>1 DEF Rewritten
  <1> HIDE DEF q
  <1> QED BY <1>2, <1>3, <1>5

\* RetryLineRollout: a step stays as it was or begins its next attempt.
LEMMA RetryFacts ==
  ASSUME plan \in PlanRow, issued \in [Nodes -> Nat], Retry
  PROVE  /\ SamePlan(plan, plan') /\ plan'.status = "running"
         /\ \A i \in 1..Len(plan.steps) :
              \/ plan'.steps[i] = plan.steps[i]
              \/ LET s == plan.steps[i]
                     t == plan'.steps[i]
                 IN  /\ t.node = s.node /\ t.expect = s.expect /\ t.attempt = s.attempt + 1
                     /\ t.status = "released" /\ t.delivery = 0 /\ t.since = issued[s.node]
  <1> DEFINE again(i) == Again(plan.steps[i])
             row(i) == IF plan.steps[i].phase # plan.stage \/ plan.steps[i].status = "pending"
                            \/ Latest(plan, plan.steps[i].node) # i
                       THEN plan.steps[i] ELSE again(i)
             L == Len(plan.steps)
             ss == [i \in 1..L |-> row(i)]
             q == [plan EXCEPT !.status = "running", !.steps = ss]
  <1>1. /\ L \in Nat /\ DOMAIN plan.steps = 1..L
        /\ \A i \in 1..L : plan.steps[i] \in StepRow
    BY PlanFacts
  <1>2. plan' = q
    <2>1. plan' = [plan EXCEPT !.status = "running", !.steps = [i \in DOMAIN plan.steps |-> row(i)]]
      BY DEF Retry
    <2> QED BY <1>1, <2>1, Zenon
  <1>3. \A i \in 1..L : /\ again(i) \in StepRow /\ again(i).node = plan.steps[i].node
                        /\ again(i).expect = plan.steps[i].expect
                        /\ again(i).attempt = plan.steps[i].attempt + 1 /\ again(i).status = "released"
                        /\ again(i).delivery = 0 /\ again(i).since = issued[plan.steps[i].node]
    <2> TAKE i \in 1..L
    <2> DEFINE s == plan.steps[i]
    <2>1. s \in StepRow
      BY <1>1
    <2> HIDE DEF s
    <2> DEFINE v == s.attempt + 1
               w == issued[s.node]
               t == [s EXCEPT !.attempt = v, !.status = "released", !.due = FALSE,
                              !.delivery = 0, !.receipt = "none", !.since = w]
    <2>a. v \in Nat /\ w \in Nat
      BY <2>1 DEF StepRow
    <2>b. Again(s) = t
      BY DEF Again
    <2> HIDE DEF v, w
    <2>c. t \in StepRow
      BY <2>1, <2>a DEF StepRow
    <2>d. /\ t.node = s.node /\ t.expect = s.expect /\ t.attempt = v /\ t.status = "released"
          /\ t.delivery = 0 /\ t.since = w
      BY <2>1, <2>a DEF StepRow
    <2>2. /\ Again(s) \in StepRow /\ Again(s).node = s.node /\ Again(s).expect = s.expect
          /\ Again(s).attempt = s.attempt + 1 /\ Again(s).status = "released"
          /\ Again(s).delivery = 0 /\ Again(s).since = issued[s.node]
      <3> HIDE DEF t
      <3> QED BY <2>b, <2>c, <2>d DEF v, w
    <2> QED BY <2>2 DEF s
  <1>4. \A i \in 1..L : row(i) \in StepRow /\ (row(i) = plan.steps[i] \/ row(i) = again(i))
    <2> HIDE DEF again
    <2> QED BY <1>1, <1>3
  <1> HIDE DEF again, row
  <1>5. ss \in [1..L -> StepRow]
    BY <1>4
  <1>6. ss \in Seq(StepRow) /\ Len(ss) = L /\ \A i \in 1..L : ss[i] = row(i)
    <2> HIDE DEF L
    <2> QED BY <1>1, <1>5, RowsAreSeq
  <1> HIDE DEF ss
  <1>7. SamePlan(plan, q) /\ q.status = "running" /\ q.steps = ss
    BY <1>6 DEF PlanRow, SamePlan
  <1> HIDE DEF q
  <1> QED BY <1>2, <1>3, <1>4, <1>6, <1>7
-----------------------------------------------------------------------------
(* Steps of the scheduler and the operator.                                *)

\* What they may do to a step: leave it, release it, or begin its next attempt.
Carried(s, t) ==
  /\ t.node = s.node /\ t.expect = s.expect
  /\ \/ t.attempt = s.attempt /\ t.since = s.since /\ t.delivery = s.delivery /\ t.status = s.status
     \/ /\ s.status = "pending" /\ t.attempt = s.attempt
        /\ t.status = "released" /\ t.delivery = s.delivery /\ t.since = issued[s.node]
     \/ /\ t.attempt = s.attempt + 1
        /\ t.status = "released" /\ t.delivery = 0 /\ t.since = issued[s.node]

LEMMA StepCarried ==
  ASSUME ReleaseInv, plan.no # 0, plan' \in PlanRow, plan'.no = plan.no,
         NEW i \in 1..Len(plan.steps), i \in 1..Len(plan'.steps),
         Carried(plan.steps[i], plan'.steps[i]),
         UNCHANGED <<head, issued, gen, agent>>
  PROVE  StepInv(i)'
  <1> DEFINE s == plan.steps[i]
             t == plan'.steps[i]
             n == s.node
             h == head[n]
  <1>0. plan \in PlanRow
    BY DEF ReleaseInv, LineRolloutTypeOK, NoPlan
  <1>1. s \in StepRow /\ t \in StepRow
    BY <1>0, PlanFacts
  <1>2. n \in Nodes
    BY <1>1 DEF StepRow
  <1>3. /\ h.id \in Nat /\ h.map[3] \in Nat /\ issued[n] \in Nat
        /\ s.attempt \in Nat /\ s.since \in Nat /\ s.delivery \in Nat
    BY <1>1, <1>2 DEF ReleaseInv, LineRolloutTypeOK, HeadRow, StepRow
  <1>4. HeadInv(n) /\ StepInv(i)
    BY <1>2 DEF ReleaseInv
  <1>5. StepHolds(s, i, plan.no, h, issued[n], gen[n], agent[n]) /\ h.id = issued[n] /\ issued[n] > 0
    BY <1>4 DEF StepInv, HeadInv
  <1>6. /\ t.node = n /\ t.expect = s.expect
        /\ \/ t.attempt = s.attempt /\ t.since = s.since /\ t.delivery = s.delivery /\ t.status = s.status
           \/ /\ s.status = "pending" /\ t.attempt = s.attempt
              /\ t.status = "released" /\ t.delivery = s.delivery /\ t.since = issued[n]
           \/ /\ t.attempt = s.attempt + 1
              /\ t.status = "released" /\ t.delivery = 0 /\ t.since = issued[n]
    BY DEF Carried
  <1>7. StepHolds(t, i, plan.no, h, issued[n], gen[n], agent[n]) => StepInv(i)'
    BY <1>6 DEF StepInv
  <1> HIDE DEF s, t, n, h
  <1> QED BY <1>3, <1>5, <1>6, <1>7 DEF StepHolds

LEMMA PlanTyped ==
  ASSUME LineRolloutTypeOK
  PROVE  /\ plan.no \in Nat
         /\ plan.no # 0 => plan \in PlanRow
         /\ plan.status \in {"running", "paused", "completed"} => plan.no # 0 /\ plan \in PlanRow
         /\ Active => plan.no # 0 /\ plan \in PlanRow
  <1>1. CASE plan = NoPlan
    BY <1>1 DEF NoPlan, Active
  <1>2. CASE plan \in PlanRow
    BY <1>2 DEF PlanRow, Active
  <1> QED BY <1>1, <1>2 DEF LineRolloutTypeOK

LEMMA CarriesOn ==
  ASSUME ReleaseInv, Active, line' \in LineRow, spent' \in [DOMAIN Budget -> Nat],
         SamePlan(plan, plan'), \A i \in 1..Len(plan.steps) : Carried(plan.steps[i], plan'.steps[i]),
         UNCHANGED <<entries, head, issued, gen, misc, gets, agent, mail>>
  PROVE  ReleaseInv'
  <1>0. plan.no # 0 /\ plan \in PlanRow
    BY PlanTyped DEF ReleaseInv
  <1>1. LineRolloutTypeOK'
    BY DEF ReleaseInv, LineRolloutTypeOK, SamePlan
  <1>2. ASSUME NEW n \in Nodes PROVE HeadInv(n)'
    BY DEF ReleaseInv, HeadInv, SamePlan
  <1>3. ASSUME NEW i \in 1..Len(plan'.steps) PROVE StepInv(i)'
    BY <1>0, StepCarried DEF SamePlan
  <1>4. ASSUME NEW n \in Nodes PROVE RepairInv(n)'
    <2>1. RepairInv(n)
      BY DEF ReleaseInv
    <2> QED BY <2>1 DEF RepairInv, SamePlan
  <1> QED BY <1>1, <1>2, <1>3, <1>4 DEF ReleaseInv

LEMMA StartsAnew ==
  ASSUME ReleaseInv, line' \in LineRow, spent' \in [DOMAIN Budget -> Nat],
         plan' \in PlanRow, plan'.no = plan.no + 1, plan'.gen = gen,
         \A i \in 1..Len(plan'.steps) :
            /\ plan'.steps[i].status # "applied" /\ plan'.steps[i].delivery = 0
            /\ plan'.steps[i].since <= issued[plan'.steps[i].node],
         UNCHANGED <<entries, head, issued, gen, misc, gets, agent, mail>>
  PROVE  ReleaseInv'
  <1>0. plan.no \in Nat
    BY PlanTyped DEF ReleaseInv
  <1>1. LineRolloutTypeOK'
    BY DEF ReleaseInv, LineRolloutTypeOK
  <1>2. ASSUME NEW n \in Nodes PROVE HeadInv(n)'
    <2>1. head[n].map[1] \in Nat /\ HeadInv(n)
      BY DEF ReleaseInv, LineRolloutTypeOK, HeadRow
    <2> QED BY <1>0, <2>1 DEF HeadInv
  <1>3. ASSUME NEW i \in 1..Len(plan'.steps) PROVE StepInv(i)'
    <2> DEFINE t == plan'.steps[i]
               n == t.node
               h == head[n]
    <2>1. t \in StepRow
      BY PlanFacts
    <2>2. n \in Nodes
      BY <2>1 DEF StepRow
    <2>3. h.map[1] \in Nat /\ h.id \in Nat /\ issued[n] \in Nat
      BY <2>2 DEF ReleaseInv, LineRolloutTypeOK, HeadRow
    <2>4. h.map[1] <= plan.no /\ h.id = issued[n] /\ issued[n] > 0
      BY <2>2 DEF ReleaseInv, HeadInv
    <2>5. t.status # "applied" /\ t.delivery = 0 /\ t.since <= issued[n]
      OBVIOUS
    <2>6. StepHolds(t, i, plan.no + 1, h, issued[n], gen[n], agent[n]) => StepInv(i)'
      BY DEF StepInv
    <2> HIDE DEF t, n, h
    <2> QED BY <1>0, <2>3, <2>4, <2>5, <2>6 DEF StepHolds
  <1>4. ASSUME NEW n \in Nodes PROVE RepairInv(n)'
    BY DEF RepairInv
  <1> QED BY <1>1, <1>2, <1>3, <1>4 DEF ReleaseInv

LEMMA SpendTyped ==
  ASSUME spent \in [DOMAIN Budget -> Nat], NEW w \in DOMAIN Budget, Spend(w)
  PROVE  spent' \in [DOMAIN Budget -> Nat]
  BY DEF Spend

LEMMA AdvanceInv ==
  ASSUME ReleaseInv, Advance
  PROVE  ReleaseInv'
  <1>0. Active
    BY DEF Advance, Active
  <1>1. plan \in PlanRow /\ plan.no # 0 /\ line \in LineRow /\ issued \in [Nodes -> Nat]
    BY <1>0, PlanTyped DEF ReleaseInv, LineRolloutTypeOK
  <1>2. line' \in LineRow /\ Moved(plan, plan')
    BY <1>1, AdvancedFacts DEF Advance
  <1>3. ASSUME NEW i \in 1..Len(plan.steps) PROVE Carried(plan.steps[i], plan'.steps[i])
    <2> DEFINE s == plan.steps[i]
               t == plan'.steps[i]
    <2>1. s \in StepRow
      BY <1>1, PlanFacts
    <2>2. t = s \/ (s.status = "pending" /\ t = Freed(s))
      BY <1>2 DEF Moved
    <2> HIDE DEF s, t
    <2>3. /\ Freed(s).node = s.node /\ Freed(s).expect = s.expect /\ Freed(s).attempt = s.attempt
          /\ Freed(s).status = "released" /\ Freed(s).delivery = s.delivery /\ Freed(s).since = issued[s.node]
      BY <2>1 DEF Freed, StepRow
    <2>4. Carried(s, t)
      BY <2>2, <2>3 DEF Carried
    <2> QED BY <2>4 DEF s, t
  <1>4. SamePlan(plan, plan') /\ spent' \in [DOMAIN Budget -> Nat]
    BY <1>2 DEF Moved, Advance, ReleaseInv, LineRolloutTypeOK
  <1>5. UNCHANGED <<entries, head, issued, gen, misc, gets, agent, mail>>
    BY DEF Advance
  <1> QED BY <1>0, <1>2, <1>3, <1>4, <1>5, CarriesOn

LEMMA RetryInv ==
  ASSUME ReleaseInv, Retry
  PROVE  ReleaseInv'
  <1>0. Active
    BY DEF Retry, Active
  <1>1. plan \in PlanRow /\ plan.no # 0 /\ issued \in [Nodes -> Nat]
    BY <1>0, PlanTyped DEF ReleaseInv, LineRolloutTypeOK
  <1>2. SamePlan(plan, plan') /\ \A i \in 1..Len(plan.steps) : Carried(plan.steps[i], plan'.steps[i])
    BY <1>1, RetryFacts DEF Carried
  <1>3. /\ UNCHANGED <<entries, head, issued, gen, misc, gets, agent, mail>>
        /\ line' \in LineRow /\ spent' \in [DOMAIN Budget -> Nat]
    BY DEF Retry, ReleaseInv, LineRolloutTypeOK
  <1> QED BY <1>0, <1>2, <1>3, CarriesOn

LEMMA PauseInv ==
  ASSUME ReleaseInv, Pause
  PROVE  ReleaseInv'
  <1>0. Active
    BY DEF Pause, Active
  <1>1. plan \in PlanRow /\ plan.no # 0
    BY <1>0, PlanTyped DEF ReleaseInv
  <1>2. SamePlan(plan, plan') /\ plan'.steps = plan.steps
    BY <1>1, PausedFacts DEF Pause
  <1>3. \A i \in 1..Len(plan.steps) : Carried(plan.steps[i], plan'.steps[i])
    BY <1>2 DEF Carried
  <1>4. UNCHANGED <<entries, head, issued, gen, misc, gets, agent, mail>> /\ line' \in LineRow
    BY DEF Pause, ReleaseInv, LineRolloutTypeOK
  <1>5. spent' \in [DOMAIN Budget -> Nat]
    BY SpendTyped, LineRolloutConstants DEF Pause, ReleaseInv, LineRolloutTypeOK
  <1> QED BY <1>0, <1>2, <1>3, <1>4, <1>5, CarriesOn

LEMMA DeadlineInv ==
  ASSUME ReleaseInv, NEW i, DeadlinePasses(i)
  PROVE  ReleaseInv'
  <1>0. Active /\ i \in 1..Len(plan.steps)
    BY DEF DeadlinePasses
  <1>1. plan \in PlanRow /\ plan.no # 0
    BY <1>0, PlanTyped DEF ReleaseInv
  <1>2. plan' = [plan EXCEPT !.steps[i].due = TRUE]
    BY DEF DeadlinePasses
  <1>3. SamePlan(plan, plan') /\ \A j \in 1..Len(plan.steps) : Carried(plan.steps[j], plan'.steps[j])
    BY <1>0, <1>1, <1>2, DueFacts DEF Carried
  <1>4. UNCHANGED <<entries, head, issued, gen, misc, gets, agent, mail>> /\ line' \in LineRow
    BY DEF DeadlinePasses, ReleaseInv, LineRolloutTypeOK
  <1>5. spent' \in [DOMAIN Budget -> Nat]
    BY SpendTyped, LineRolloutConstants DEF DeadlinePasses, ReleaseInv, LineRolloutTypeOK
  <1> QED BY <1>0, <1>3, <1>4, <1>5, CarriesOn

\* A drawn plan in its place starts the invariant anew.
LEMMA DrawnInv ==
  ASSUME ReleaseInv, NEW old \in RuleMap, NEW to \in Path,
         plan' = Drawn(old, to, line).plan, line' = Drawn(old, to, line).line,
         spent' \in [DOMAIN Budget -> Nat],
         UNCHANGED <<entries, head, issued, gen, misc, gets, agent, mail>>
  PROVE  ReleaseInv'
  <1>1. plan.no \in Nat /\ line \in LineRow /\ gen \in [Nodes -> Nat] /\ issued \in [Nodes -> Nat]
    BY PlanTyped DEF ReleaseInv, LineRolloutTypeOK
  <1> DEFINE r == Drawn(old, to, line)
  <1>2. /\ r.line \in LineRow /\ r.plan \in PlanRow
        /\ r.plan.no = plan.no + 1 /\ r.plan.gen = gen
        /\ \A i \in 1..Len(r.plan.steps) :
             /\ r.plan.steps[i].status # "applied" /\ r.plan.steps[i].delivery = 0
             /\ r.plan.steps[i].since <= issued[r.plan.steps[i].node]
    BY <1>1, DrawnFacts
  <1> HIDE DEF r
  <1>3. plan' = r.plan /\ line' = r.line
    BY DEF r
  <1> QED BY <1>2, <1>3, StartsAnew

LEMMA PlanInv ==
  ASSUME ReleaseInv, NEW to \in Intents, Plan(to)
  PROVE  ReleaseInv'
  <1> DEFINE old == [n \in Nodes |-> SavedRules(line, n)]
  <1>1. to \in Path
    BY LineRolloutConstants DEF Path
  <1>2. line.path \in Path
    BY DEF ReleaseInv, LineRolloutTypeOK, LineRow
  <1>3. old \in RuleMap
    BY <1>2, RulesTyped DEF RuleMap, SavedRules
  <1>4. plan' = Drawn(old, to, line).plan /\ line' = Drawn(old, to, line).line
    BY DEF Plan
  <1>5. /\ UNCHANGED <<entries, head, issued, gen, misc, gets, agent, mail>>
        /\ spent' \in [DOMAIN Budget -> Nat]
    BY DEF Plan, ReleaseInv, LineRolloutTypeOK
  <1> HIDE DEF old
  <1> QED BY <1>1, <1>3, <1>4, <1>5, DrawnInv

LEMMA CurrentTyped ==
  ASSUME NEW p \in PlanRow, NEW n \in Nodes
  PROVE  CurrentRules(p, n) \in SUBSET Rule
  <1>1. CASE Latest(p, n) = 0
    BY <1>1 DEF CurrentRules, PlanRow, RuleMap
  <1>2. CASE Latest(p, n) # 0
    <2>1. p.steps[Latest(p, n)] \in StepRow
      BY <1>2, LatestFacts, PlanFacts
    <2> QED BY <1>2, <2>1 DEF CurrentRules, StepRow
  <1> QED BY <1>1, <1>2

LEMMA CompensateInv ==
  ASSUME ReleaseInv, Compensate
  PROVE  ReleaseInv'
  <1> DEFINE held == [n \in Nodes |-> Held(n)]
  <1>1. plan \in PlanRow /\ line \in LineRow /\ head \in [Nodes -> HeadRow]
    BY PlanTyped DEF Compensate, ReleaseInv, LineRolloutTypeOK
  <1>2. plan.before \in Path /\ line.path \in Path
    BY <1>1 DEF PlanRow, LineRow
  <1>3. ASSUME NEW n \in Nodes PROVE Held(n) \in SUBSET Rule
    <2>1. head[n].rules \in SUBSET Rule
      BY <1>1 DEF HeadRow
    <2>2. SavedRules(line, n) \in SUBSET Rule
      BY <1>2, RulesTyped DEF SavedRules
    <2>3. CurrentRules(plan, n) \in SUBSET Rule
      BY <1>1, CurrentTyped
    <2> QED BY <2>1, <2>2, <2>3 DEF Held
  <1>4. held \in RuleMap
    BY <1>3 DEF RuleMap
  <1>5. plan' = Drawn(held, plan.before, line).plan /\ line' = Drawn(held, plan.before, line).line
    BY DEF Compensate
  <1>6. UNCHANGED <<entries, head, issued, gen, misc, gets, agent, mail>>
    BY DEF Compensate
  <1>7. spent' \in [DOMAIN Budget -> Nat]
    BY SpendTyped, LineRolloutConstants DEF Compensate, ReleaseInv, LineRolloutTypeOK
  <1> HIDE DEF held
  <1> QED BY <1>2, <1>4, <1>5, <1>6, <1>7, DrawnInv
-----------------------------------------------------------------------------
(* Steps of the servers.                                                   *)

\* A step that leaves the plan and every head's identity alone.
LEMMA SameStep ==
  ASSUME ReleaseInv, plan.no # 0, NEW i \in 1..Len(plan.steps), UNCHANGED <<plan, issued>>,
         LET n == plan.steps[i].node
         IN  /\ head'[n].id = head[n].id /\ head'[n].map = head[n].map /\ head'[n].rules = head[n].rules
             /\ head'[n].gen = head[n].gen
             /\ \/ gen'[n] = gen[n] /\ agent'[n].id = agent[n].id /\ (agent[n].done => agent'[n].done)
                \/ gen'[n] # head'[n].gen
  PROVE  StepInv(i)'
  <1> DEFINE s == plan.steps[i]
             n == s.node
             h == head[n]
             k == head'[n]
  <1>1. StepHolds(s, i, plan.no, h, issued[n], gen[n], agent[n])
    BY DEF ReleaseInv, StepInv
  <1>2. StepHolds(s, i, plan.no, k, issued[n], gen'[n], agent'[n]) => StepInv(i)'
    BY DEF StepInv
  <1>3. /\ k.id = h.id /\ k.map = h.map /\ k.rules = h.rules /\ k.gen = h.gen
        /\ \/ gen'[n] = gen[n] /\ agent'[n].id = agent[n].id /\ (agent[n].done => agent'[n].done)
           \/ gen'[n] # k.gen
    OBVIOUS
  <1> HIDE DEF s, n, h, k
  <1> QED BY <1>1, <1>2, <1>3 DEF StepHolds

\* Steps that change entries, other state or the receipts under way.
LEMMA QuietInv ==
  ASSUME ReleaseInv, UNCHANGED <<line, plan, head, issued, gen, gets, agent>>,
         entries' \in SUBSET Nodes, misc' \in [Nodes -> Nat], spent' \in [DOMAIN Budget -> Nat],
         mail' \in [Nodes -> MailRow],
         \A n \in Nodes : \/ mail'[n] = mail[n] \/ mail'[n].id = 0
                          \/ mail'[n].id = agent[n].id /\ (mail'[n].applied => agent[n].done)
  PROVE  ReleaseInv'
  <1>1. LineRolloutTypeOK'
    BY DEF ReleaseInv, LineRolloutTypeOK
  <1>2. ASSUME NEW n \in Nodes PROVE HeadInv(n)'
    <2>1. HeadInv(n) /\ issued[n] \in Nat
      BY DEF ReleaseInv, LineRolloutTypeOK
    <2>2. \/ mail'[n] = mail[n] \/ mail'[n].id = 0
          \/ mail'[n].id = agent[n].id /\ (mail'[n].applied => agent[n].done)
      OBVIOUS
    <2> QED BY <2>1, <2>2 DEF HeadInv
  <1>3. ASSUME plan'.no # 0, NEW i \in 1..Len(plan'.steps) PROVE StepInv(i)'
    BY <1>3, SameStep
  <1>4. ASSUME NEW n \in Nodes PROVE RepairInv(n)'
    BY DEF ReleaseInv, RepairInv, Active
  <1> QED BY <1>1, <1>2, <1>3, <1>4 DEF ReleaseInv

LEMMA NoMailTyped ==
  NoMail \in MailRow /\ NoMail.id = 0
  BY DEF NoMail, MailRow

LEMMA EntryInv ==
  ASSUME ReleaseInv, NEW n \in Nodes, BindEntry(n) \/ DropEntry(n) \/ ChangeElse(n)
  PROVE  ReleaseInv'
  <1>1. spent' \in [DOMAIN Budget -> Nat]
    BY SpendTyped, LineRolloutConstants DEF BindEntry, DropEntry, ChangeElse, ReleaseInv, LineRolloutTypeOK
  <1>2. UNCHANGED <<line, plan, head, issued, gen, gets, agent, mail>>
    BY DEF BindEntry, DropEntry, ChangeElse
  <1>3. entries' \in SUBSET Nodes /\ misc' \in [Nodes -> Nat]
    <2>0. entries \in SUBSET Nodes /\ misc \in [Nodes -> Nat]
      BY DEF ReleaseInv, LineRolloutTypeOK
    <2>1. CASE BindEntry(n) \/ DropEntry(n)
      BY <2>0, <2>1 DEF BindEntry, DropEntry
    <2>2. CASE ChangeElse(n)
      <3>1. misc[n] + 1 \in Nat
        BY <2>0
      <3> QED BY <2>0, <2>2, <3>1 DEF ChangeElse
    <2> QED BY <2>1, <2>2
  <1>4. mail' \in [Nodes -> MailRow]
    BY <1>2 DEF ReleaseInv, LineRolloutTypeOK
  <1> QED BY <1>1, <1>2, <1>3, <1>4, QuietInv

LEMMA SendInv ==
  ASSUME ReleaseInv, NEW n \in Nodes, SendReceipt(n) \/ LoseReceipt(n)
  PROVE  ReleaseInv'
  <1> DEFINE m == IF SendReceipt(n) THEN [id |-> agent[n].id, applied |-> agent[n].done] ELSE NoMail
  <1>1. spent' \in [DOMAIN Budget -> Nat]
    BY SpendTyped, LineRolloutConstants DEF SendReceipt, LoseReceipt, ReleaseInv, LineRolloutTypeOK
  <1>2. UNCHANGED <<line, plan, head, issued, gen, gets, agent, entries, misc>>
    BY DEF SendReceipt, LoseReceipt
  <1>3. entries' \in SUBSET Nodes /\ misc' \in [Nodes -> Nat]
    BY <1>2 DEF ReleaseInv, LineRolloutTypeOK
  <1>4. m \in MailRow /\ (m.id = 0 \/ (m.id = agent[n].id /\ (m.applied => agent[n].done)))
    <2>1. agent[n].id \in Nat /\ agent[n].done \in BOOLEAN
      BY DEF ReleaseInv, LineRolloutTypeOK, AgentRow
    <2> QED BY <2>1, NoMailTyped DEF MailRow
  <1>5. mail' = [mail EXCEPT ![n] = m]
    BY DEF SendReceipt, LoseReceipt
  <1>6. mail \in [Nodes -> MailRow]
    BY DEF ReleaseInv, LineRolloutTypeOK
  <1> HIDE DEF m
  <1>7. mail' \in [Nodes -> MailRow]
    BY <1>4, <1>5, <1>6
  <1>8. \A k \in Nodes : \/ mail'[k] = mail[k] \/ mail'[k].id = 0
                         \/ mail'[k].id = agent[k].id /\ (mail'[k].applied => agent[k].done)
    BY <1>4, <1>5, <1>6
  <1> QED BY <1>1, <1>2, <1>3, <1>7, <1>8, QuietInv

\* The heads keep their deliveries: steps that touch only their receipts.
LEMMA HeadsKeep ==
  ASSUME ReleaseInv, UNCHANGED <<line, entries, plan, issued, gen, misc, gets, agent, mail>>,
         head' \in [Nodes -> HeadRow], spent' \in [DOMAIN Budget -> Nat],
         \A k \in Nodes : /\ head'[k].id = head[k].id /\ head'[k].map = head[k].map
                          /\ head'[k].rules = head[k].rules /\ head'[k].gen = head[k].gen
  PROVE  ReleaseInv'
  <1>1. LineRolloutTypeOK'
    BY DEF ReleaseInv, LineRolloutTypeOK
  <1>2. ASSUME NEW n \in Nodes PROVE HeadInv(n)'
    <2>1. HeadInv(n)
      BY DEF ReleaseInv
    <2> QED BY <2>1 DEF HeadInv
  <1>3. ASSUME plan'.no # 0, NEW i \in 1..Len(plan'.steps) PROVE StepInv(i)'
    <2>1. plan.steps[i].node \in Nodes
      BY <1>3, PlanTyped, PlanFacts DEF ReleaseInv, StepRow
    <2> QED BY <1>3, <2>1, SameStep
  <1>4. ASSUME NEW n \in Nodes PROVE RepairInv(n)'
    <2>1. RepairInv(n)
      BY DEF ReleaseInv
    <2> QED BY <2>1 DEF RepairInv, Active
  <1> QED BY <1>1, <1>2, <1>3, <1>4 DEF ReleaseInv

\* No receipt for a while.
LEMMA StaleInv ==
  ASSUME ReleaseInv, NEW n \in Nodes, GoStale(n)
  PROVE  ReleaseInv'
  <1>0. head \in [Nodes -> HeadRow] /\ UNCHANGED <<line, entries, plan, issued, gen, misc, gets, agent, mail>>
    BY DEF GoStale, ReleaseInv, LineRolloutTypeOK
  <1>1. head' = [head EXCEPT ![n].fresh = FALSE]
    BY DEF GoStale
  <1>2. /\ head' \in [Nodes -> HeadRow]
        /\ \A k \in Nodes : /\ head'[k].id = head[k].id /\ head'[k].map = head[k].map
                            /\ head'[k].rules = head[k].rules /\ head'[k].gen = head[k].gen
    BY <1>0, <1>1 DEF HeadRow
  <1>3. spent' \in [DOMAIN Budget -> Nat]
    BY SpendTyped, LineRolloutConstants DEF GoStale, ReleaseInv, LineRolloutTypeOK
  <1> QED BY <1>0, <1>2, <1>3, HeadsKeep

\* An agent installs what it fetched.
LEMMA InstallInv ==
  ASSUME ReleaseInv, NEW n \in Nodes, Install(n)
  PROVE  ReleaseInv'
  <1>0. UNCHANGED <<line, entries, plan, head, issued, gen, misc, gets, mail, spent>> /\ agent \in [Nodes -> AgentRow]
    BY DEF Install, ReleaseInv, LineRolloutTypeOK
  <1> DEFINE a == agent[n]
             b == [a EXCEPT !.has = a.want, !.done = TRUE]
  <1>1. agent' = [agent EXCEPT ![n] = b]
    BY DEF Install
  <1>2. b \in AgentRow /\ b.id = a.id /\ b.want = a.want /\ b.has = a.want /\ b.done = TRUE
    <2>1. a \in AgentRow
      BY <1>0
    <2> HIDE DEF a
    <2> QED BY <2>1 DEF AgentRow
  <1> HIDE DEF b
  <1>3. agent' \in [Nodes -> AgentRow] /\ agent'[n] = b /\ \A k \in Nodes : k # n => agent'[k] = agent[k]
    BY <1>0, <1>1, <1>2
  <1>4. LineRolloutTypeOK'
    BY <1>0, <1>3 DEF ReleaseInv, LineRolloutTypeOK
  <1>5. ASSUME NEW k \in Nodes PROVE HeadInv(k)'
    <2>1. HeadInv(k)
      BY DEF ReleaseInv
    <2>2. CASE k = n
      BY <1>0, <1>2, <1>3, <2>1, <2>2 DEF HeadInv
    <2>3. CASE k # n
      BY <1>0, <1>3, <2>1, <2>3 DEF HeadInv
    <2> QED BY <2>2, <2>3
  <1>6. ASSUME plan'.no # 0, NEW i \in 1..Len(plan'.steps) PROVE StepInv(i)'
    <2>1. plan.steps[i].node \in Nodes
      BY <1>0, <1>6, PlanTyped, PlanFacts DEF ReleaseInv, StepRow
    <2>2. LET k == plan.steps[i].node IN agent'[k].id = agent[k].id /\ (agent[k].done => agent'[k].done)
      BY <1>2, <1>3, <2>1
    <2> QED BY <1>0, <1>6, <2>2, SameStep
  <1>7. ASSUME NEW k \in Nodes PROVE RepairInv(k)'
    BY <1>0 DEF ReleaseInv, RepairInv, Active
  <1> QED BY <1>4, <1>5, <1>6, <1>7 DEF ReleaseInv

\* A server is paired again: the head's token is no longer the server's.
LEMMA RepairedInv ==
  ASSUME ReleaseInv, NEW n \in Nodes, Repair(n)
  PROVE  ReleaseInv'
  <1>0. /\ UNCHANGED <<line, entries, plan, head, issued, misc>>
        /\ gen \in [Nodes -> Nat] /\ gets \in [Nodes -> Seq(GetRow)] /\ head \in [Nodes -> HeadRow]
        /\ agent \in [Nodes -> AgentRow] /\ mail \in [Nodes -> MailRow] /\ issued \in [Nodes -> Nat]
    BY DEF Repair, ReleaseInv, LineRolloutTypeOK
  <1> DEFINE b == [id |-> 0, want |-> {}, has |-> {}, done |-> FALSE]
  <1>1. b \in AgentRow /\ << >> \in Seq(GetRow) /\ gen[n] + 1 \in Nat
    BY <1>0, EmptySeq DEF AgentRow
  <1>2. /\ agent' = [agent EXCEPT ![n] = b] /\ gets' = [gets EXCEPT ![n] = << >>]
        /\ gen' = [gen EXCEPT ![n] = gen[n] + 1] /\ mail' = [mail EXCEPT ![n] = NoMail]
    BY DEF Repair
  <1>3. b.id = 0 /\ b.done = FALSE
    OBVIOUS
  <1> HIDE DEF b
  <1>4. /\ agent' \in [Nodes -> AgentRow] /\ agent'[n] = b /\ \A k \in Nodes : k # n => agent'[k] = agent[k]
        /\ gets' \in [Nodes -> Seq(GetRow)] /\ gets'[n] = << >> /\ \A k \in Nodes : k # n => gets'[k] = gets[k]
    BY <1>0, <1>1, <1>2
  <1>5. /\ gen' \in [Nodes -> Nat] /\ gen'[n] = gen[n] + 1 /\ \A k \in Nodes : k # n => gen'[k] = gen[k]
        /\ mail' \in [Nodes -> MailRow] /\ mail'[n] = NoMail /\ \A k \in Nodes : k # n => mail'[k] = mail[k]
    BY <1>0, <1>1, <1>2, NoMailTyped
  <1>6. spent' \in [DOMAIN Budget -> Nat]
    BY SpendTyped, LineRolloutConstants DEF Repair, ReleaseInv, LineRolloutTypeOK
  <1>7. LineRolloutTypeOK'
    BY <1>0, <1>4, <1>5, <1>6 DEF ReleaseInv, LineRolloutTypeOK
  <1>8. head[n].gen \in Nat /\ head[n].gen < gen'[n]
    <2>1. head[n].gen <= gen[n]
      BY DEF ReleaseInv, HeadInv
    <2> QED BY <1>0, <1>5, <2>1 DEF HeadRow
  <1>9. ASSUME NEW k \in Nodes PROVE HeadInv(k)'
    <2>1. HeadInv(k) /\ issued[k] \in Nat
      BY <1>0 DEF ReleaseInv
    <2>2. CASE k = n
      BY <1>0, <1>3, <1>4, <1>5, <1>8, <2>1, <2>2, NoMailTyped DEF HeadInv
    <2>3. CASE k # n
      BY <1>0, <1>4, <1>5, <2>1, <2>3 DEF HeadInv
    <2> QED BY <2>2, <2>3
  <1>10. ASSUME plan'.no # 0, NEW i \in 1..Len(plan'.steps) PROVE StepInv(i)'
    <2>1. plan.steps[i].node \in Nodes
      BY <1>0, <1>10, PlanTyped, PlanFacts DEF ReleaseInv, StepRow
    <2>2. LET k == plan.steps[i].node
          IN  \/ gen'[k] = gen[k] /\ agent'[k] = agent[k]
              \/ gen'[k] # head'[k].gen
      BY <1>0, <1>4, <1>5, <1>8, <2>1
    <2> QED BY <1>0, <1>10, <2>2, SameStep
  <1>11. ASSUME NEW k \in Nodes PROVE RepairInv(k)'
    <2>1. RepairInv(k)
      BY DEF ReleaseInv
    <2>2. CASE k = n
      <3>1. gets'[k] \in Seq(BareRow) /\ head'[k].gen # gen'[k]
        BY <1>0, <1>4, <1>8, <2>2, EmptySeq
      <3> QED BY <3>1 DEF RepairInv
    <2>3. CASE k # n
      BY <1>0, <1>4, <1>5, <2>1, <2>3 DEF RepairInv, Active
    <2> QED BY <2>2, <2>3
  <1> QED BY <1>7, <1>9, <1>10, <1>11 DEF ReleaseInv

LEMMA GivenUpTyped ==
  ASSUME NEW S, NEW g \in Seq(S), \A x \in S : [x EXCEPT !.live = FALSE] \in S
  PROVE  [i \in DOMAIN g |-> [g[i] EXCEPT !.live = FALSE]] \in Seq(S)
  <1> DEFINE q(i) == [g[i] EXCEPT !.live = FALSE]
             L == Len(g)
  <1>1. L \in Nat /\ DOMAIN g = 1..L /\ \A i \in 1..L : g[i] \in S
    BY LenProperties, ElementOfSeq
  <1>2. \A i \in 1..L : q(i) \in S
    BY <1>1
  <1> HIDE DEF q, L
  <1>3. [i \in 1..L |-> q(i)] \in [1..L -> S]
    BY <1>2
  <1>4. [i \in 1..L |-> q(i)] \in Seq(S)
    BY <1>1, <1>3, RowsAreSeq
  <1> QED BY <1>1, <1>4 DEF q

\* Steps that change only the polls the panel is serving.
LEMMA PollsInv ==
  ASSUME ReleaseInv, UNCHANGED <<line, entries, plan, head, issued, gen, misc, agent, mail, spent>>,
         NEW n \in Nodes, NEW g \in Seq(GetRow), gets' = [gets EXCEPT ![n] = g],
         Active /\ n \in plan.nodes /\ plan.gen[n] # gen[n] => g \in Seq(BareRow)
  PROVE  ReleaseInv'
  <1>0. gets \in [Nodes -> Seq(GetRow)]
    BY DEF ReleaseInv, LineRolloutTypeOK
  <1>1. gets' \in [Nodes -> Seq(GetRow)] /\ gets'[n] = g /\ \A k \in Nodes : k # n => gets'[k] = gets[k]
    BY <1>0
  <1>2. LineRolloutTypeOK'
    BY <1>1 DEF ReleaseInv, LineRolloutTypeOK
  <1>3. ASSUME NEW k \in Nodes PROVE HeadInv(k)'
    BY DEF ReleaseInv, HeadInv
  <1>4. ASSUME plan'.no # 0, NEW i \in 1..Len(plan'.steps) PROVE StepInv(i)'
    BY <1>4, SameStep
  <1>5. ASSUME NEW k \in Nodes PROVE RepairInv(k)'
    <2>1. RepairInv(k)
      BY DEF ReleaseInv
    <2> QED BY <1>1, <2>1 DEF RepairInv, Active
  <1> QED BY <1>2, <1>3, <1>4, <1>5 DEF ReleaseInv

LEMMA BuildInv ==
  ASSUME ReleaseInv, NEW n \in Nodes, BuildState(n)
  PROVE  ReleaseInv'
  <1> DEFINE f == [rules |-> Desired(n), misc |-> misc[n], live |-> TRUE]
             givenUp == [i \in DOMAIN gets[n] |-> [gets[n][i] EXCEPT !.live = FALSE]]
             g == Append(givenUp, f)
  <1>0. /\ UNCHANGED <<line, entries, plan, head, issued, gen, misc, agent, mail, spent>>
        /\ gets' = [gets EXCEPT ![n] = g]
    BY DEF BuildState
  <1>1. misc[n] \in Nat /\ gets[n] \in Seq(GetRow) /\ line.path \in Path
    BY DEF ReleaseInv, LineRolloutTypeOK, LineRow
  <1>2. Desired(n) \in SUBSET Rule
    <2>1. Active => plan \in PlanRow
      BY PlanTyped DEF ReleaseInv
    <2>2. Active => CurrentRules(plan, n) \in SUBSET Rule
      BY <2>1, CurrentTyped
    <2>3. SavedRules(line, n) \in SUBSET Rule
      BY <1>1, RulesTyped DEF SavedRules
    <2> QED BY <2>2, <2>3 DEF Desired
  <1>3. g \in Seq(GetRow)
    <2>1. f \in GetRow
      BY <1>1, <1>2 DEF GetRow
    <2>2. \A x \in GetRow : [x EXCEPT !.live = FALSE] \in GetRow
      BY DEF GetRow
    <2>3. givenUp \in Seq(GetRow)
      BY <1>1, <2>2, GivenUpTyped
    <2> HIDE DEF f, givenUp
    <2> QED BY <2>1, <2>3, AppendProperties
  <1>4. ASSUME Active /\ n \in plan.nodes /\ plan.gen[n] # gen[n] PROVE g \in Seq(BareRow)
    <2>1. f \in BareRow
      <3>1. Desired(n) = {}
        BY <1>4 DEF Desired
      <3> QED BY <1>1, <3>1 DEF BareRow
    <2>2. \A x \in BareRow : [x EXCEPT !.live = FALSE] \in BareRow
      BY DEF BareRow
    <2>3. gets[n] \in Seq(BareRow)
      BY <1>4 DEF ReleaseInv, RepairInv
    <2>4. givenUp \in Seq(BareRow)
      BY <2>2, <2>3, GivenUpTyped
    <2> HIDE DEF f, givenUp
    <2> QED BY <2>1, <2>4, AppendProperties
  <1> HIDE DEF g
  <1> QED BY <1>0, <1>3, <1>4, PollsInv

\* What a delivery is mapped to: nothing, or the current attempt of its server's
\* latest step, whose rules it carries.
LEMMA MatchingFacts ==
  ASSUME ReleaseInv, NEW n \in Nodes, NEW f
  PROVE  LET map == Matching(n, f)
             i == Latest(plan, n)
         IN  /\ map \in Nat \X Nat \X Nat
             /\ map[1] <= plan.no
             /\ map # NoMap =>
                  /\ plan \in PlanRow /\ plan.no # 0
                  /\ i \in 1..Len(plan.steps) /\ plan.steps[i].node = n /\ plan.steps[i].expect = f
                  /\ map[1] = plan.no /\ map[2] = i /\ map[3] = plan.steps[i].attempt
             /\ map = NoMap => map[1] = 0
  <1> DEFINE map == Matching(n, f)
             i == Latest(plan, n)
  <1>0. plan.no \in Nat
    BY PlanTyped DEF ReleaseInv
  <1>1. NoMap \in Nat \X Nat \X Nat /\ NoMap[1] = 0
    BY DEF NoMap
  <1>2. CASE map = NoMap
    BY <1>0, <1>1, <1>2
  <1>3. CASE map # NoMap
    <2>1. Active /\ Latest(plan, n) # 0 /\ plan.steps[i].expect = f /\ map = <<plan.no, i, plan.steps[i].attempt>>
      BY <1>3 DEF Matching
    <2>2. plan \in PlanRow /\ plan.no # 0
      BY <2>1, PlanTyped DEF ReleaseInv
    <2>3. i \in 1..Len(plan.steps) /\ plan.steps[i].node = n
      BY <2>1, <2>2, LatestFacts
    <2>4. plan.steps[i].attempt \in Nat /\ i \in Nat
      BY <2>2, <2>3, PlanFacts DEF StepRow
    <2> HIDE DEF map, i
    <2>5. map \in Nat \X Nat \X Nat /\ map[1] = plan.no /\ map[2] = i /\ map[3] = plan.steps[i].attempt
      BY <1>0, <2>1, <2>4
    <2> QED BY <1>0, <1>3, <2>1, <2>2, <2>3, <2>5 DEF map, i
  <1> QED BY <1>2, <1>3

\* A poll is answered with a new delivery, which becomes the head and which the
\* step it matches waits for.
LEMMA DeliverInv ==
  ASSUME ReleaseInv, NEW n \in Nodes, NEW i \in 1..Len(gets[n]), Deliver(n, i)
  PROVE  ReleaseInv'
  <1> DEFINE f == gets[n][i]
             id == issued[n] + 1
             map == Matching(n, f.rules)
             g == RemoveAt(gets[n], i)
             k == [id |-> id, rules |-> f.rules, misc |-> f.misc, gen |-> gen[n],
                   applied |-> FALSE, fresh |-> FALSE, map |-> map,
                   seen |-> IF Active /\ n \in plan.nodes THEN plan.no ELSE 0]
             a == [agent[n] EXCEPT !.id = id, !.want = f.rules, !.done = FALSE]
  <1>0. /\ gets \in [Nodes -> Seq(GetRow)] /\ gets[n] \in Seq(GetRow)
        /\ issued \in [Nodes -> Nat] /\ issued[n] \in Nat /\ id \in Nat /\ gen[n] \in Nat
        /\ head \in [Nodes -> HeadRow] /\ agent \in [Nodes -> AgentRow] /\ agent[n] \in AgentRow
        /\ plan.no \in Nat
    BY PlanTyped DEF ReleaseInv, LineRolloutTypeOK
  <1>1. UNCHANGED <<line, entries, gen, misc, mail, spent>> /\ gets' = [gets EXCEPT ![n] = g]
    BY DEF Deliver
  <1>2. f \in GetRow /\ g \in Seq(GetRow)
    BY <1>0, ElementOfSeq, RemoveAtType
  <1>3. Active /\ n \in plan.nodes /\ plan.gen[n] # gen[n] => g \in Seq(BareRow) /\ f.rules = {}
    <2> SUFFICES ASSUME Active /\ n \in plan.nodes /\ plan.gen[n] # gen[n] PROVE g \in Seq(BareRow) /\ f.rules = {}
      OBVIOUS
    <2>1. gets[n] \in Seq(BareRow)
      BY DEF ReleaseInv, RepairInv
    <2>2. f \in BareRow /\ g \in Seq(BareRow)
      BY <2>1, ElementOfSeq, RemoveAtType
    <2> QED BY <2>2 DEF BareRow
  <1>4. CASE Answered(n, f)
    <2>1. UNCHANGED <<plan, head, issued, agent>>
      BY <1>4 DEF Deliver
    <2> HIDE DEF g, f
    <2> QED BY <1>1, <1>2, <1>3, <2>1, PollsInv
  <1>5. CASE ~Answered(n, f)
    <2>1. /\ issued' = [issued EXCEPT ![n] = id] /\ head' = [head EXCEPT ![n] = k]
          /\ plan' = Bound(plan, map, id)
          /\ agent' = agent \/ agent' = [agent EXCEPT ![n] = a]
      BY <1>5 DEF Deliver
    <2>2. /\ map \in Nat \X Nat \X Nat /\ map[1] <= plan.no
          /\ map # NoMap =>
               /\ plan \in PlanRow /\ plan.no # 0
               /\ map[2] \in 1..Len(plan.steps)
               /\ plan.steps[map[2]].node = n /\ plan.steps[map[2]].expect = f.rules
               /\ map[1] = plan.no /\ map[3] = plan.steps[map[2]].attempt
          /\ map = NoMap => map[1] = 0
      BY MatchingFacts
    <2> HIDE DEF map, f, g
    <2>3. k \in HeadRow /\ k.id = id /\ k.rules = f.rules /\ k.gen = gen[n] /\ k.map = map
      <3>1. (IF Active /\ n \in plan.nodes THEN plan.no ELSE 0) \in Nat
        BY <1>0
      <3>2. f.rules \in SUBSET Rule /\ f.misc \in Nat
        BY <1>2 DEF GetRow
      <3> HIDE DEF id
      <3> QED BY <1>0, <2>2, <3>1, <3>2 DEF HeadRow
    <2>4. a \in AgentRow /\ a.id = id /\ a.want = f.rules /\ a.done = FALSE
      <3> HIDE DEF id
      <3>1. f.rules \in SUBSET Rule
        BY <1>2 DEF GetRow
      <3> QED BY <1>0, <3>1 DEF AgentRow
    <2> HIDE DEF k, a
    <2>5. /\ issued' \in [Nodes -> Nat] /\ issued'[n] = id /\ \A m \in Nodes : m # n => issued'[m] = issued[m]
          /\ head' \in [Nodes -> HeadRow] /\ head'[n] = k /\ \A m \in Nodes : m # n => head'[m] = head[m]
      <3> HIDE DEF id
      <3> QED BY <1>0, <2>1, <2>3
    <2>6. /\ agent' \in [Nodes -> AgentRow] /\ agent'[n] \in {agent[n], a}
          /\ \A m \in Nodes : m # n => agent'[m] = agent[m]
      BY <1>0, <2>1, <2>4
    <2>7. gets' \in [Nodes -> Seq(GetRow)] /\ gets'[n] = g /\ \A m \in Nodes : m # n => gets'[m] = gets[m]
      BY <1>0, <1>1, <1>2
    <2>8. /\ plan' = NoPlan \/ plan' \in PlanRow
          /\ plan'.no = plan.no /\ plan'.status = plan.status
          /\ plan.no # 0 =>
               /\ SamePlan(plan, plan')
               /\ \A j \in 1..Len(plan.steps) :
                    \/ plan'.steps[j] = plan.steps[j] /\ ~(map # NoMap /\ j = map[2])
                    \/ /\ map # NoMap /\ j = map[2]
                       /\ plan'.steps[j].node = plan.steps[j].node /\ plan'.steps[j].expect = plan.steps[j].expect
                       /\ plan'.steps[j].attempt = plan.steps[j].attempt /\ plan'.steps[j].since = plan.steps[j].since
                       /\ plan'.steps[j].status = "released" /\ plan'.steps[j].delivery = id
      <3>0. plan = NoPlan \/ plan \in PlanRow
        BY DEF ReleaseInv, LineRolloutTypeOK
      <3>1. CASE map = NoMap
        <4>1. plan' = plan
          BY <2>1, <3>1 DEF Bound
        <4> QED BY <3>0, <3>1, <4>1, PlanTyped DEF SamePlan, ReleaseInv
      <3>2. CASE map # NoMap
        <4>1. plan \in PlanRow /\ map[2] \in 1..Len(plan.steps)
          BY <2>2, <3>2
        <4> HIDE DEF id
        <4>2. Awaits(plan, plan', map[2], id)
          BY <1>0, <2>1, <3>2, <4>1, BoundFacts
        <4>3. /\ SamePlan(plan, plan') /\ plan'.status = plan.status
              /\ \A j \in 1..Len(plan.steps) : j # map[2] => plan'.steps[j] = plan.steps[j]
              /\ plan'.steps[map[2]].node = plan.steps[map[2]].node /\ plan'.steps[map[2]].expect = plan.steps[map[2]].expect
              /\ plan'.steps[map[2]].attempt = plan.steps[map[2]].attempt /\ plan'.steps[map[2]].since = plan.steps[map[2]].since
              /\ plan'.steps[map[2]].status = "released" /\ plan'.steps[map[2]].delivery = id
          BY <4>2 DEF Awaits
        <4> QED BY <3>2, <4>1, <4>3 DEF SamePlan
      <3> QED BY <3>1, <3>2
    <2>9. LineRolloutTypeOK'
      BY <1>1, <2>5, <2>6, <2>7, <2>8 DEF ReleaseInv, LineRolloutTypeOK
    <2>10. ASSUME NEW m \in Nodes PROVE HeadInv(m)'
      <3>1. HeadInv(m)
        BY DEF ReleaseInv
      <3>2. CASE m # n
        BY <1>1, <2>5, <2>6, <2>8, <3>1, <3>2 DEF HeadInv
      <3>3. CASE m = n
        <4>1. agent[n].id \in Nat /\ mail[n].id \in Nat
          BY DEF ReleaseInv, LineRolloutTypeOK, AgentRow, MailRow
        <4>2. agent[n].id < id /\ mail[n].id < id
          BY <1>0, <3>1, <3>3, <4>1 DEF HeadInv
        <4>3. agent[n].done => agent[n].has = agent[n].want
          BY <3>1, <3>3 DEF HeadInv
        <4> HIDE DEF id
        <4>4. agent'[n].id <= id /\ (agent'[n].id = id => agent'[n].want = f.rules)
              /\ (agent'[n].done => agent'[n].has = agent'[n].want)
          BY <1>0, <2>4, <2>6, <4>1, <4>2, <4>3
        <4>5. id > 0
          BY <1>0 DEF id
        <4>6. head'[n].gen <= gen'[n] /\ head'[n].map[1] <= plan'.no
          BY <1>0, <1>1, <2>2, <2>3, <2>5, <2>8
        <4> QED BY <1>0, <1>1, <2>3, <2>5, <3>3, <4>1, <4>2, <4>4, <4>5, <4>6 DEF HeadInv
      <3> QED BY <3>2, <3>3
    <2>11. ASSUME plan'.no # 0, NEW j \in 1..Len(plan'.steps) PROVE StepInv(j)'
      <3> DEFINE s == plan.steps[j]
                 t == plan'.steps[j]
                 m == s.node
      <3>0. plan.no # 0 /\ plan \in PlanRow /\ j \in 1..Len(plan.steps)
        BY <2>8, <2>11, PlanTyped DEF ReleaseInv, SamePlan
      <3>1. /\ s \in StepRow /\ m \in Nodes
            /\ StepHolds(s, j, plan.no, head[m], issued[m], gen[m], agent[m])
        BY <3>0, PlanFacts DEF StepRow, ReleaseInv, StepInv
      <3>2. /\ t.node = m /\ t.expect = s.expect /\ t.attempt = s.attempt /\ t.since = s.since
            /\ \/ t.status = s.status /\ t.delivery = s.delivery /\ ~(map # NoMap /\ j = map[2])
               \/ /\ map # NoMap /\ j = map[2] /\ m = n /\ s.expect = f.rules /\ map[3] = s.attempt
                  /\ t.status = "released" /\ t.delivery = id
        BY <2>2, <2>8, <3>0
      <3>3. StepHolds(t, j, plan.no, head'[m], issued'[m], gen[m], agent'[m]) => StepInv(j)'
        BY <1>1, <2>8, <3>2 DEF StepInv
      <3>4. /\ s.since \in Nat /\ s.delivery \in Nat /\ s.attempt \in Nat
        BY <3>1 DEF StepRow
      <3> HIDE DEF s, t, m
      <3>5. CASE m # n
        <4>1. head'[m] = head[m] /\ issued'[m] = issued[m] /\ agent'[m] = agent[m]
          BY <2>5, <2>6, <3>1, <3>5
        <4> QED BY <3>1, <3>2, <3>3, <3>5, <4>1 DEF StepHolds
      <3>6. CASE m = n
        <4>1. s.since < id /\ s.delivery < id
          BY <1>0, <3>1, <3>4, <3>6 DEF StepHolds
        <4>2. head'[m] = k /\ issued'[m] = id
          BY <2>5, <3>6
        <4>3. k.map[1] = plan.no => map # NoMap
          BY <2>2, <2>3, <3>0
        <4>4. /\ s.status = "pending" => s.delivery = 0
              /\ s.status = "applied" => s.delivery > s.since
          BY <3>1 DEF StepHolds
        <4>5. k.map[1] = plan.no /\ k.map[2] = j => map # NoMap /\ j = map[2]
          BY <2>3, <4>3
        <4> HIDE DEF id
        <4>6. CASE map # NoMap /\ j = map[2]
          <5>1. t.status = "released" /\ t.delivery = id /\ t.since = s.since /\ s.expect = f.rules
                /\ t.expect = s.expect /\ t.attempt = s.attempt /\ map[3] = s.attempt
            BY <3>2, <4>6
          <5>2. StepHolds(t, j, plan.no, k, id, gen[m], agent'[m])
            BY <1>0, <2>3, <3>4, <4>1, <5>1 DEF StepHolds
          <5> QED BY <3>3, <4>2, <5>2
        <4>7. CASE ~(map # NoMap /\ j = map[2])
          <5>1. t.status = s.status /\ t.delivery = s.delivery /\ t.since = s.since
            BY <3>2, <4>7
          <5>2. StepHolds(t, j, plan.no, k, id, gen[m], agent'[m])
            BY <1>0, <2>3, <3>4, <4>1, <4>4, <4>5, <4>7, <5>1 DEF StepHolds
          <5> QED BY <3>3, <4>2, <5>2
        <4> QED BY <4>6, <4>7
      <3> QED BY <3>5, <3>6
    <2>12. ASSUME NEW m \in Nodes PROVE RepairInv(m)'
      <3>1. RepairInv(m) /\ (Active' <=> Active)
        BY <2>8 DEF ReleaseInv, Active
      <3>2. Active => plan'.nodes = plan.nodes /\ plan'.gen = plan.gen
        BY <2>8, PlanTyped DEF SamePlan, ReleaseInv
      <3>3. CASE m # n
        BY <1>1, <2>5, <2>7, <3>1, <3>2, <3>3 DEF RepairInv
      <3>4. CASE m = n
        BY <1>1, <1>3, <2>3, <2>5, <2>7, <3>1, <3>2, <3>4 DEF RepairInv
      <3> QED BY <3>3, <3>4
    <2> QED BY <2>9, <2>10, <2>11, <2>12 DEF ReleaseInv
  <1> QED BY <1>4, <1>5

\* A receipt arrives: it counts only for the head of the server's token, and
\* answers only the step the head was delivered for.
LEMMA ReceiveInv ==
  ASSUME ReleaseInv, NEW n \in Nodes, ReceiveReceipt(n)
  PROVE  ReleaseInv'
  <1> DEFINE r == mail[n]
             i == StepOf(n, head[n])
             h == head[n]
             k == [h EXCEPT !.applied = r.applied, !.fresh = TRUE]
  <1>0. /\ UNCHANGED <<line, entries, issued, gen, misc, gets, agent, spent>>
        /\ mail' = [mail EXCEPT ![n] = NoMail]
        /\ mail \in [Nodes -> MailRow] /\ head \in [Nodes -> HeadRow] /\ h \in HeadRow
        /\ r.applied \in BOOLEAN
    BY DEF ReceiveReceipt, ReleaseInv, LineRolloutTypeOK, MailRow
  <1>1. mail' \in [Nodes -> MailRow] /\ mail'[n] = NoMail /\ \A m \in Nodes : m # n => mail'[m] = mail[m]
    BY <1>0, NoMailTyped
  <1>2. /\ head' \in [Nodes -> HeadRow]
        /\ \A m \in Nodes : /\ head'[m].id = head[m].id /\ head'[m].map = head[m].map
                            /\ head'[m].rules = head[m].rules /\ head'[m].gen = head[m].gen
    <2>1. head' = head \/ head' = [head EXCEPT ![n] = k]
      BY DEF ReceiveReceipt
    <2>2. k \in HeadRow /\ k.id = h.id /\ k.map = h.map /\ k.rules = h.rules /\ k.gen = h.gen
      <3> HIDE DEF h
      <3> QED BY <1>0 DEF HeadRow
    <2> HIDE DEF k
    <2> QED BY <1>0, <2>1, <2>2
  <1>3. \/ plan' = plan
        \/ /\ r.id = h.id /\ Active /\ plan.no # 0 /\ plan \in PlanRow
           /\ i \in 1..Len(plan.steps) /\ plan.steps[i].node = n
           /\ h.map[1] = plan.no /\ h.map[2] = i /\ h.map[3] = plan.steps[i].attempt
           /\ Answers(plan, plan', i, r.applied)
    <2>1. plan' = plan \/ (r.id = h.id /\ i # 0 /\ plan' = Recorded(plan, i, r.applied))
      BY DEF ReceiveReceipt
    <2>2. ASSUME i # 0
          PROVE  /\ Active /\ i = Latest(plan, n) /\ Latest(plan, n) # 0
                 /\ h.map = <<plan.no, i, plan.steps[i].attempt>>
      BY <2>2 DEF StepOf
    <2>3. ASSUME i # 0
          PROVE  plan.no # 0 /\ plan \in PlanRow /\ i \in 1..Len(plan.steps) /\ plan.steps[i].node = n
      <3>1. plan.no # 0 /\ plan \in PlanRow
        BY <2>2, <2>3, PlanTyped DEF ReleaseInv
      <3> QED BY <2>2, <2>3, <3>1, LatestFacts
    <2> HIDE DEF i, h, r
    <2>4. ASSUME i # 0 PROVE Answers(plan, Recorded(plan, i, r.applied), i, r.applied)
      BY <1>0, <2>3, <2>4, RecordedFacts
    <2> QED BY <2>1, <2>2, <2>3, <2>4
  <1>4. /\ plan'.no = plan.no
        /\ plan' = plan \/ (SamePlan(plan, plan') /\ Active)
    <2>1. plan' = plan \/ (SamePlan(plan, plan') /\ Active)
      BY <1>3 DEF Answers
    <2> QED BY <2>1 DEF SamePlan
  <1>5. LineRolloutTypeOK'
    BY <1>0, <1>1, <1>2, <1>4 DEF ReleaseInv, LineRolloutTypeOK, SamePlan
  <1>6. ASSUME NEW m \in Nodes PROVE HeadInv(m)'
    <2>1. HeadInv(m) /\ issued[m] \in Nat
      BY DEF ReleaseInv, LineRolloutTypeOK
    <2>2. CASE m = n
      BY <1>0, <1>1, <1>2, <1>4, <2>1, <2>2, NoMailTyped DEF HeadInv
    <2>3. CASE m # n
      BY <1>0, <1>1, <1>2, <1>4, <2>1, <2>3 DEF HeadInv
    <2> QED BY <2>2, <2>3
  <1>7. ASSUME plan'.no # 0, NEW j \in 1..Len(plan'.steps) PROVE StepInv(j)'
    <2>1. CASE plan' = plan
      <3>1. plan.steps[j].node \in Nodes
        BY <1>7, <2>1, PlanTyped, PlanFacts DEF ReleaseInv, StepRow
      <3> QED BY <1>0, <1>2, <1>7, <2>1, <3>1, SameStep
    <2>2. CASE plan' # plan
      <3> DEFINE s == plan.steps[j]
                 t == plan'.steps[j]
                 m == s.node
                 g == head[m]
                 w == head'[m]
      <3>0. plan.no # 0 /\ plan \in PlanRow /\ j \in 1..Len(plan.steps) /\ Answers(plan, plan', i, r.applied)
        BY <1>3, <2>2 DEF Answers, SamePlan
      <3>1. /\ s \in StepRow /\ m \in Nodes
            /\ StepHolds(s, j, plan.no, g, issued[m], gen[m], agent[m])
        BY <3>0, PlanFacts DEF StepRow, ReleaseInv, StepInv
      <3>2. /\ t.node = m /\ t.expect = s.expect /\ t.attempt = s.attempt /\ t.since = s.since
            /\ t.delivery = s.delivery
            /\ \/ t.status = s.status
               \/ /\ j = i /\ m = n /\ t.status \in {"released", "applied"} /\ (t.status = "applied" => r.applied)
        BY <1>3, <2>2, <3>0 DEF Answers
      <3>3. StepHolds(t, j, plan.no, w, issued[m], gen[m], agent[m]) => StepInv(j)'
        BY <1>0, <1>4, <3>2 DEF StepInv
      <3>4. w.id = g.id /\ w.map = g.map /\ w.rules = g.rules /\ w.gen = g.gen
        BY <1>2, <3>1
      <3>5. j = i /\ m = n => /\ g.map[1] = plan.no /\ g.map[2] = j /\ g.map[3] = s.attempt
                             /\ (r.applied => agent[m].id = g.id /\ agent[m].done)
        <4>1. HeadInv(n)
          BY DEF ReleaseInv
        <4>2. r.id = h.id => agent[n].id = h.id /\ (r.applied => agent[n].done)
          BY <4>1 DEF HeadInv
        <4> QED BY <1>3, <2>2, <4>2
      <3>6. s.since \in Nat /\ s.delivery \in Nat /\ g.id \in Nat
        BY <1>0, <3>1 DEF StepRow, HeadRow
      <3> HIDE DEF s, t, m, g, w, r, i, h, k
      <3> QED BY <3>1, <3>2, <3>3, <3>4, <3>5, <3>6 DEF StepHolds
    <2> QED BY <2>1, <2>2
  <1>8. ASSUME NEW m \in Nodes PROVE RepairInv(m)'
    <2>1. RepairInv(m)
      BY DEF ReleaseInv
    <2> QED BY <1>0, <1>2, <1>4, <2>1 DEF RepairInv, Active, SamePlan
  <1> QED BY <1>5, <1>6, <1>7, <1>8 DEF ReleaseInv
-----------------------------------------------------------------------------
(* The theorems.                                                           *)

LEMMA ReleaseInit ==
  ASSUME Init
  PROVE  ReleaseInv
  <1>0. Start \in Path
    BY LineRolloutConstants DEF Path
  <1>1. \A n \in Nodes : RulesOn(Start, n) \in SUBSET Rule
    BY <1>0, RulesTyped
  <1> DEFINE h(n) == [id |-> 1, rules |-> RulesOn(Start, n), misc |-> 0, gen |-> 1,
                      applied |-> TRUE, fresh |-> TRUE, map |-> NoMap, seen |-> 0]
             a(n) == [id |-> 1, want |-> RulesOn(Start, n), has |-> RulesOn(Start, n), done |-> TRUE]
  <1>2. NoMap \in Nat \X Nat \X Nat /\ NoMap[1] = 0
    BY DEF NoMap
  <1>3. \A n \in Nodes : h(n) \in HeadRow /\ a(n) \in AgentRow
    BY <1>1, <1>2 DEF HeadRow, AgentRow
  <1>4. \A n \in Nodes : /\ head[n].id = 1 /\ head[n].gen = 1 /\ head[n].map = NoMap /\ head[n].rules = RulesOn(Start, n)
                         /\ agent[n].id = 1 /\ agent[n].want = RulesOn(Start, n) /\ agent[n].has = RulesOn(Start, n)
                         /\ agent[n].done = TRUE /\ issued[n] = 1 /\ gen[n] = 1 /\ mail[n].id = 0
    BY NoMailTyped DEF Init
  <1>5. head \in [Nodes -> HeadRow] /\ agent \in [Nodes -> AgentRow]
    <2>1. head = [n \in Nodes |-> h(n)] /\ agent = [n \in Nodes |-> a(n)]
      BY DEF Init
    <2> HIDE DEF h, a
    <2> QED BY <1>3, <2>1
  <1>6. line \in LineRow
    BY <1>0 DEF Init, LineRow
  <1>7. gets \in [Nodes -> Seq(GetRow)] /\ mail \in [Nodes -> MailRow]
    BY EmptySeq, NoMailTyped DEF Init
  <1>8. LineRolloutTypeOK
    BY <1>5, <1>6, <1>7 DEF Init, LineRolloutTypeOK
  <1>9. plan.no = 0 /\ ~Active
    BY DEF Init, NoPlan, Active
  <1>10. \A n \in Nodes : HeadInv(n)
    BY <1>2, <1>4, <1>9 DEF HeadInv
  <1> QED BY <1>8, <1>9, <1>10 DEF ReleaseInv, RepairInv

LEMMA ReleaseInvariant ==
  Spec => []ReleaseInv
  <1>1. Init => ReleaseInv
    BY ReleaseInit
  <1>2. ReleaseInv /\ [Next]_vars => ReleaseInv'
    <2> SUFFICES ASSUME ReleaseInv, [Next]_vars PROVE ReleaseInv'
      OBVIOUS
    <2>1. CASE Advance
      BY <2>1, AdvanceInv
    <2>2. CASE Pause
      BY <2>2, PauseInv
    <2>3. CASE Retry
      BY <2>3, RetryInv
    <2>4. CASE Compensate
      BY <2>4, CompensateInv
    <2>5. CASE \E to \in Intents : Plan(to)
      BY <2>5, PlanInv
    <2>6. CASE \E i \in 1..Len(IF plan.no = 0 THEN << >> ELSE plan.steps) : DeadlinePasses(i)
      BY <2>6, DeadlineInv
    <2>7. ASSUME NEW n \in Nodes, BindEntry(n) \/ DropEntry(n) \/ ChangeElse(n) PROVE ReleaseInv'
      BY <2>7, EntryInv
    <2>8. ASSUME NEW n \in Nodes, GoStale(n) PROVE ReleaseInv'
      BY <2>8, StaleInv
    <2>9. ASSUME NEW n \in Nodes, Repair(n) PROVE ReleaseInv'
      BY <2>9, RepairedInv
    <2>10. ASSUME NEW n \in Nodes, BuildState(n) PROVE ReleaseInv'
      BY <2>10, BuildInv
    <2>11. ASSUME NEW n \in Nodes, NEW i \in 1..Len(gets[n]), Deliver(n, i) PROVE ReleaseInv'
      BY <2>11, DeliverInv
    <2>12. ASSUME NEW n \in Nodes, Install(n) PROVE ReleaseInv'
      BY <2>12, InstallInv
    <2>13. ASSUME NEW n \in Nodes, SendReceipt(n) \/ LoseReceipt(n) PROVE ReleaseInv'
      BY <2>13, SendInv
    <2>14. ASSUME NEW n \in Nodes, ReceiveReceipt(n) PROVE ReleaseInv'
      BY <2>14, ReceiveInv
    <2>15. CASE UNCHANGED vars
      <3>1. UNCHANGED <<line, plan, head, issued, gen, gets, agent, entries, misc, mail, spent>>
        BY <2>15 DEF vars
      <3>2. /\ entries' \in SUBSET Nodes /\ misc' \in [Nodes -> Nat] /\ spent' \in [DOMAIN Budget -> Nat]
            /\ mail' \in [Nodes -> MailRow]
        BY <3>1 DEF ReleaseInv, LineRolloutTypeOK
      <3> QED BY <3>1, <3>2, QuietInv
    <2> QED BY <2>1, <2>2, <2>3, <2>4, <2>5, <2>6, <2>7, <2>8, <2>9, <2>10, <2>11, <2>12, <2>13, <2>14, <2>15 DEF Next
  <1> QED BY <1>1, <1>2, PTL DEF Spec

\* The rows of the release tables and the servers' state keep their types.
THEOREM ReleaseIsTyped ==
  Spec => []LineRolloutTypeOK
  <1>1. ReleaseInv => LineRolloutTypeOK
    BY DEF ReleaseInv
  <1> QED BY <1>1, ReleaseInvariant, PTL

\* A step counts as applied only through a delivery issued after its attempt
\* began: RetryLineRollout's "neither old success nor late failure can win".
THEOREM AttemptsStayAnswered ==
  Spec => []AttemptsAnswerThemselves
  <1>1. ReleaseInv => AttemptsAnswerThemselves
    <2> SUFFICES ASSUME ReleaseInv, Active, NEW i \in 1..Len(plan.steps), plan.steps[i].status = "applied"
                 PROVE  plan.steps[i].delivery > plan.steps[i].since
      BY DEF AttemptsAnswerThemselves
    <2>1. plan.no # 0
      BY PlanTyped DEF ReleaseInv
    <2>2. StepInv(i)
      BY <2>1 DEF ReleaseInv
    <2> QED BY <2>2 DEF StepInv, StepHolds
  <1> QED BY <1>1, ReleaseInvariant, PTL

\* Whatever receipts are lost, late or failed: a step the scheduler takes for
\* confirmed is what its server runs (readLineRolloutTx).
THEOREM ConfirmedStaysInstalled ==
  Spec => []ConfirmedIsInstalled
  <1>1. ReleaseInv => ConfirmedIsInstalled
    <2> SUFFICES ASSUME ReleaseInv, Active, NEW i \in 1..Len(plan.steps), Confirmed(plan, i)
                 PROVE  agent[plan.steps[i].node].has = plan.steps[i].expect
      BY DEF ConfirmedIsInstalled
    <2> DEFINE n == plan.steps[i].node
    <2>1. plan.no # 0 /\ plan \in PlanRow
      BY PlanTyped DEF ReleaseInv
    <2>2. StepInv(i) /\ n \in Nodes
      BY <2>1, PlanFacts DEF ReleaseInv, StepRow
    <2>3. plan.steps[i].status = "applied" /\ plan.steps[i].delivery = head[n].id /\ head[n].gen = gen[n]
      BY DEF Confirmed, StepFresh
    <2>4. agent[n].id = head[n].id /\ agent[n].done /\ plan.steps[i].expect = head[n].rules
      BY <2>2, <2>3 DEF StepInv, StepHolds
    <2>5. HeadInv(n)
      BY <2>2 DEF ReleaseInv
    <2> QED BY <2>4, <2>5 DEF HeadInv
  <1> QED BY <1>1, ReleaseInvariant, PTL

\* A server paired again during a plan is delivered none of its rules, whichever
\* polls were under way (ApplyLineRolloutForwards).
THEOREM RepairedStaysBare ==
  Spec => []RepairedInheritsNothing
  <1>1. ReleaseInv => RepairedInheritsNothing
    <2> SUFFICES ASSUME ReleaseInv, Active, NEW n \in plan.nodes,
                        plan.gen[n] # gen[n], head[n].gen = gen[n]
                 PROVE  head[n].rules = {}
      BY DEF RepairedInheritsNothing
    <2>1. n \in Nodes
      BY PlanTyped DEF ReleaseInv, PlanRow
    <2> QED BY <2>1 DEF ReleaseInv, RepairInv
  <1> QED BY <1>1, ReleaseInvariant, PTL
=============================================================================
