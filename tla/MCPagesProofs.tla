---------------------------- MODULE MCPagesProofs ----------------------------
(***************************************************************************)
(* Theorems about the parts MCPages runs side by side: the order of a      *)
(* release's steps, pages that call something current, the load charts,    *)
(* the editors of the consoles and their drafts, the reviewed changes, the *)
(* dates of a server, and the cards and the cache of the status page.      *)
(* Each part is proved by itself, for every value of its constants; the    *)
(* parts share no state, so that PageSpec implies what is proved of each.  *)
(***************************************************************************)
EXTENDS MCPages, LinePlanProofs, PanelSessionProofs, ProofFacts

-----------------------------------------------------------------------------
(* LineOrder.  What the steps of a plan that remain say of what is          *)
(* installed.                                                               *)
LEMMA IntentsArePaths ==
  ASSUME NEW p \in Intents
  PROVE  /\ p \in Path /\ Len(p) \in Nat /\ \A i \in 1..Len(p) : p[i] \subseteq Listeners
         /\ p # NoLine => IsPath(p)
  <1>1. CASE p = NoLine
    BY <1>1 DEF NoLine, Path
  <1>2. CASE p # NoLine
    <2>1. PICK k \in 1..MaxHops : p \in [1..k -> Groups] /\ IsPath(p)
      BY <1>2 DEF Intents, Paths
    <2>2. k \in Nat /\ Groups \subseteq SUBSET Listeners
      BY LineOrderBounds DEF Groups
    <2>3. p \in Seq(Groups) /\ Len(p) = k
      BY <2>1, <2>2, RowsAreSeq
    <2>4. p \in [1..k -> SUBSET Listeners]
      BY <2>1, <2>2
    <2>5. p \in Seq(SUBSET Listeners)
      BY <2>2, <2>4, RowsAreSeq
    <2> QED BY <2>1, <2>2, <2>3, <2>4, <2>5 DEF Path
  <1> QED BY <1>1, <1>2

LEMMA DepthIsPlace ==
  ASSUME NEW p \in Intents, NEW i \in 1..Len(p), NEW n \in ServersOf(p[i])
  PROVE  DepthOn(p, n) = i - 1
  <1>1. IsPath(p)
    BY IntentsArePaths DEF NoLine
  <1>2. \A j \in 1..Len(p) : n \in ServersOf(p[j]) => j = i
    BY <1>1 DEF IsPath
  <1> QED BY <1>2 DEF DepthOn

\* The rule of a listener forwards to the listeners of the next group, which are
\* one deeper and have rules of their own.
LEMMA RuleForwards ==
  ASSUME NEW p \in Intents, NEW n \in Nodes, NEW r \in RulesOn(p, n), NEW l \in r.to
  PROVE  /\ l[1] \in Nodes /\ DepthOn(p, n) \in Nat /\ DepthOn(p, l[1]) = DepthOn(p, n) + 1
         /\ \E s \in RulesOn(p, l[1]) : s.port = l[2]
  <1>0. Len(p) \in Nat /\ \A i \in 1..Len(p) : p[i] \subseteq Listeners
    BY IntentsArePaths
  <1>1. PICK i \in 1..Len(p) : \E k \in p[i] : k[1] = n /\ r = [port |-> k[2], to |-> IF i = Len(p) THEN {} ELSE p[i + 1]]
    BY DEF RulesOn
  <1>2. i # Len(p) /\ l \in p[i + 1] /\ n \in ServersOf(p[i])
    BY <1>1 DEF ServersOf
  <1>3. i + 1 \in 1..Len(p) /\ i \in Nat
    BY <1>0, <1>2
  <1>4. l \in Listeners /\ l[1] \in ServersOf(p[i + 1])
    BY <1>0, <1>2, <1>3 DEF ServersOf
  <1>5. l[1] \in Nodes
    BY <1>4 DEF Listeners
  <1>6. DepthOn(p, n) = i - 1 /\ DepthOn(p, l[1]) = (i + 1) - 1
    BY <1>2, <1>3, <1>4, DepthIsPlace
  <1>7. [port |-> l[2], to |-> IF i + 1 = Len(p) THEN {} ELSE p[(i + 1) + 1]] \in RulesOn(p, l[1])
    <2> DEFINE j == i + 1
               here == {[port |-> m[2], to |-> IF j = Len(p) THEN {} ELSE p[j + 1]] : m \in {k \in p[j] : k[1] = l[1]}}
    <2>1. l \in {k \in p[j] : k[1] = l[1]}
      BY <1>2
    <2>2. [port |-> l[2], to |-> IF j = Len(p) THEN {} ELSE p[j + 1]] \in here
      BY <2>1
    <2>3. j \in 1..Len(p)
      BY <1>3
    <2> HIDE DEF j
    <2>4. here \subseteq RulesOn(p, l[1])
      BY <2>3 DEF RulesOn
    <2> QED BY <2>2, <2>4 DEF j
  <1> QED BY <1>0, <1>3, <1>5, <1>6, <1>7

LEMMA CompiledTyped ==
  ASSUME NEW p \in Intents
  PROVE  Compiled(p) \in RuleMap /\ Connected(Compiled(p)) /\ \A n \in Nodes : Compiled(p)[n] = RulesOn(p, n)
  <1>1. \A n \in Nodes : Compiled(p)[n] = RulesOn(p, n) /\ RulesOn(p, n) \in SUBSET Rule
    BY IntentsArePaths, RulesTyped DEF Compiled
  <1>2. Compiled(p) \in RuleMap
    BY <1>1 DEF Compiled, RuleMap
  <1>3. Connected(Compiled(p))
    BY <1>1, RuleForwards DEF Connected
  <1> QED BY <1>1, <1>2, <1>3

\* The rules on a server while the steps ss remain of a plan that began with the
\* rules old: the old ones before its expansion, the new ones after its cleanup,
\* and both in between.
Pending(ss, n, phase) == \E i \in 1..Len(ss) : ss[i].node = n /\ ss[i].phase = phase

PlanHolds(old, b, a, ss, has) ==
  LET new == Compiled(a)
      all == Targets(old, new, b, a)
  IN /\ ss \in Seq(PlanTarget)
     /\ \A i \in 1..Len(ss) : ss[i] \in all
     /\ \A i, j \in 1..Len(ss) : i < j => Precedes(ss[i], ss[j])
     /\ \A t \in all : (\E i \in 1..Len(ss) : ss[i] = t) \/ (\A i \in 1..Len(ss) : Precedes(t, ss[i]))
     /\ has = [n \in Nodes |-> IF Pending(ss, n, "expand") THEN old[n]
                               ELSE IF Pending(ss, n, "cleanup") THEN old[n] \cup new[n] ELSE new[n]]

\* A target of a plan, by its phase.
LEMMA TargetFacts ==
  ASSUME NEW old \in RuleMap, NEW new \in RuleMap, NEW b \in Intents, NEW a \in Intents
  PROVE  LET all == Targets(old, new, b, a) IN
         /\ \A t \in all :
              /\ t.node \in Nodes
              /\ \/ t.phase = "expand" /\ t.expect = old[t.node] \cup new[t.node] /\ t.depth = DepthOn(a, t.node)
                    /\ old[t.node] \cup new[t.node] # old[t.node]
                 \/ t.phase = "cleanup" /\ t.expect = new[t.node] /\ t.depth = DepthOn(b, t.node)
                    /\ old[t.node] \cup new[t.node] # new[t.node]
         /\ \A n \in Nodes : old[n] \cup new[n] # old[n] => \E t \in all : t.node = n /\ t.phase = "expand"
         /\ \A n \in Nodes : old[n] \cup new[n] # new[n] => \E t \in all : t.node = n /\ t.phase = "cleanup"
  <1> DEFINE E == {k \in Nodes : old[k] \cup new[k] # old[k]}
             C == {k \in Nodes : old[k] \cup new[k] # new[k]}
             grow(n) == [node |-> n, phase |-> "expand", depth |-> DepthOn(a, n), expect |-> old[n] \cup new[n]]
             trim(n) == [node |-> n, phase |-> "cleanup", depth |-> DepthOn(b, n), expect |-> new[n]]
             all == Targets(old, new, b, a)
  <1>1. all = {grow(n) : n \in E} \cup {trim(n) : n \in C}
    BY DEF Targets
  <1>2. \A n : /\ grow(n).node = n /\ grow(n).phase = "expand" /\ grow(n).depth = DepthOn(a, n)
               /\ grow(n).expect = old[n] \cup new[n]
               /\ trim(n).node = n /\ trim(n).phase = "cleanup" /\ trim(n).depth = DepthOn(b, n)
               /\ trim(n).expect = new[n]
    OBVIOUS
  <1> HIDE DEF grow, trim, all
  <1>3. \A n \in E : grow(n) \in all
    BY <1>1
  <1>4. \A n \in C : trim(n) \in all
    BY <1>1
  <1>5. \A t \in all : (\E n \in E : t = grow(n)) \/ (\E n \in C : t = trim(n))
    BY <1>1
  <1>6. \A t \in all :
          /\ t.node \in Nodes
          /\ \/ t.phase = "expand" /\ t.expect = old[t.node] \cup new[t.node] /\ t.depth = DepthOn(a, t.node)
                /\ old[t.node] \cup new[t.node] # old[t.node]
             \/ t.phase = "cleanup" /\ t.expect = new[t.node] /\ t.depth = DepthOn(b, t.node)
                /\ old[t.node] \cup new[t.node] # new[t.node]
    BY <1>2, <1>5
  <1> QED BY <1>2, <1>3, <1>4, <1>6 DEF all

LEMMA PlanBegins ==
  ASSUME NEW old \in RuleMap, NEW b \in Intents, NEW a \in Intents
  PROVE  PlanHolds(old, b, a, OrderedTargets(old, Compiled(a), b, a), old)
  <1> DEFINE new == Compiled(a)
             all == Targets(old, new, b, a)
             ss == OrderedTargets(old, new, b, a)
  <1>1. new \in RuleMap /\ b \in Path /\ a \in Path
    BY CompiledTyped, IntentsArePaths
  <1>2. /\ ss \in Seq(PlanTarget) /\ \A i \in 1..Len(ss) : ss[i] \in all
        /\ \A x \in all : \E i \in 1..Len(ss) : ss[i] = x
        /\ \A i, j \in 1..Len(ss) : i < j => Precedes(ss[i], ss[j])
    <2> HIDE DEF new
    <2>1. ss \in Seq(PlanTarget)
      BY <1>1, PlanIsOrdered
    <2>2. \A i \in 1..Len(ss) : ss[i] \in all
      BY <1>1, PlanIsOrdered
    <2>3. \A x \in all : \E i \in 1..Len(ss) : ss[i] = x
      BY <1>1, PlanIsOrdered
    <2>4. \A i, j \in 1..Len(ss) : i < j => Precedes(ss[i], ss[j])
      BY <1>1, PlanIsOrdered
    <2> QED BY <2>1, <2>2, <2>3, <2>4
  <1> HIDE DEF ss
  <1>3. /\ \A n \in Nodes : old[n] \cup new[n] # old[n] => Pending(ss, n, "expand")
        /\ \A n \in Nodes : old[n] \cup new[n] # new[n] => Pending(ss, n, "cleanup")
    <2> HIDE DEF all, new
    <2>1. /\ \A n \in Nodes : old[n] \cup new[n] # old[n] => \E t \in all : t.node = n /\ t.phase = "expand"
          /\ \A n \in Nodes : old[n] \cup new[n] # new[n] => \E t \in all : t.node = n /\ t.phase = "cleanup"
      BY <1>1, TargetFacts DEF all
    <2> QED BY <1>2, <2>1 DEF Pending
  <1>4. \A n \in Nodes : old[n] = IF Pending(ss, n, "expand") THEN old[n]
                                  ELSE IF Pending(ss, n, "cleanup") THEN old[n] \cup new[n] ELSE new[n]
    <2> HIDE DEF new
    <2> QED BY <1>3
  <1>5. old = [n \in Nodes |-> old[n]]
    BY DEF RuleMap
  <1>6. old = [n \in Nodes |-> IF Pending(ss, n, "expand") THEN old[n]
                               ELSE IF Pending(ss, n, "cleanup") THEN old[n] \cup new[n] ELSE new[n]]
    <2> HIDE DEF new
    <2> QED BY <1>4, <1>5
  <1>7. PlanHolds(old, b, a, ss, old)
    BY <1>2, <1>6 DEF PlanHolds
  <1> QED BY <1>7 DEF ss

LEMMA PlanGoesOn ==
  ASSUME NEW old \in RuleMap, NEW b \in Intents, NEW a \in Intents, NEW ss, NEW has,
         PlanHolds(old, b, a, ss, has), ss # << >>
  PROVE  /\ PlanHolds(old, b, a, Tail(ss), [has EXCEPT ![Head(ss).node] = Head(ss).expect])
         /\ Expands(Tail(ss)) => Expands(ss)
  <1> DEFINE new == Compiled(a)
             all == Targets(old, new, b, a)
             hd == Head(ss)
             tl == Tail(ss)
             now(q, n) == IF Pending(q, n, "expand") THEN old[n]
                          ELSE IF Pending(q, n, "cleanup") THEN old[n] \cup new[n] ELSE new[n]
  <1>1. new \in RuleMap
    BY CompiledTyped
  <1>2. /\ ss \in Seq(PlanTarget) /\ \A i \in 1..Len(ss) : ss[i] \in all
        /\ \A i, j \in 1..Len(ss) : i < j => Precedes(ss[i], ss[j])
        /\ \A t \in all : (\E i \in 1..Len(ss) : ss[i] = t) \/ (\A i \in 1..Len(ss) : Precedes(t, ss[i]))
        /\ has = [n \in Nodes |-> now(ss, n)]
    BY DEF PlanHolds
  <1>3. /\ tl \in Seq(PlanTarget) /\ Len(ss) \in Nat /\ Len(ss) >= 1 /\ Len(tl) = Len(ss) - 1 /\ hd = ss[1]
        /\ \A i \in 1..Len(tl) : tl[i] = ss[i + 1]
    BY <1>2
  <1>4. /\ \A t \in all : t.node \in Nodes
        /\ \A t \in all : \/ t.phase = "expand" /\ t.expect = old[t.node] \cup new[t.node]
                          \/ t.phase = "cleanup" /\ t.expect = new[t.node]
        /\ \A n \in Nodes : old[n] \cup new[n] # new[n] => \E t \in all : t.node = n /\ t.phase = "cleanup"
    BY <1>1, TargetFacts
  <1> HIDE DEF all, new, hd, tl
  <1>5. hd \in all /\ 1 \in 1..Len(ss) /\ \A i \in 1..Len(tl) : i + 1 \in 1..Len(ss) /\ 1 < i + 1
    BY <1>2, <1>3
  <1>6. \A i \in 1..Len(tl) : tl[i] \in all /\ Precedes(hd, tl[i])
    BY <1>2, <1>3, <1>5
  <1>7. \A i, j \in 1..Len(tl) : i < j => Precedes(tl[i], tl[j])
    <2> SUFFICES ASSUME NEW i \in 1..Len(tl), NEW j \in 1..Len(tl), i < j PROVE Precedes(tl[i], tl[j])
      OBVIOUS
    <2>1. i + 1 < j + 1
      BY <1>3
    <2> QED BY <1>2, <1>3, <1>5, <2>1
  <1>8. \A i \in 1..Len(ss) : i = 1 \/ \E j \in 1..Len(tl) : i = j + 1
    <2> SUFFICES ASSUME NEW i \in 1..Len(ss), i # 1 PROVE \E j \in 1..Len(tl) : i = j + 1
      OBVIOUS
    <2>1. i - 1 \in 1..Len(tl) /\ i = (i - 1) + 1
      BY <1>3
    <2> QED BY <2>1
  <1>9. \A t \in all : (\E i \in 1..Len(tl) : tl[i] = t) \/ (\A i \in 1..Len(tl) : Precedes(t, tl[i]))
    <2> SUFFICES ASSUME NEW t \in all PROVE (\E i \in 1..Len(tl) : tl[i] = t) \/ (\A i \in 1..Len(tl) : Precedes(t, tl[i]))
      OBVIOUS
    <2>1. CASE \E i \in 1..Len(ss) : ss[i] = t
      <3>1. t = hd \/ \E j \in 1..Len(tl) : tl[j] = t
        BY <1>3, <1>8, <2>1
      <3> QED BY <1>6, <3>1
    <2>2. CASE \A i \in 1..Len(ss) : Precedes(t, ss[i])
      BY <1>3, <1>5, <2>2
    <2> QED BY <1>2, <2>1, <2>2
  <1>10. \A t \in all : ~Precedes(t, t)
    <2>1. all \subseteq PlanTarget /\ \A x, y \in all : x.node = y.node /\ x.phase = y.phase => x = y
      BY <1>1, IntentsArePaths, TargetsTyped DEF all
    <2> QED BY <2>1, PrecedesOrders
  <1>11. \A x, y \in all : x.node = y.node /\ x.phase = y.phase => x = y
    BY <1>1, IntentsArePaths, TargetsTyped DEF all
  <1>12. \A n, phase : Pending(ss, n, phase) <=> (hd.node = n /\ hd.phase = phase) \/ Pending(tl, n, phase)
    <2> SUFFICES ASSUME NEW n, NEW phase
                 PROVE  Pending(ss, n, phase) <=> (hd.node = n /\ hd.phase = phase) \/ Pending(tl, n, phase)
      OBVIOUS
    <2>1. ASSUME Pending(ss, n, phase) PROVE (hd.node = n /\ hd.phase = phase) \/ Pending(tl, n, phase)
      BY <1>3, <1>8, <2>1 DEF Pending
    <2>2. ASSUME hd.node = n, hd.phase = phase PROVE Pending(ss, n, phase)
      BY <1>3, <1>5, <2>2 DEF Pending
    <2>3. ASSUME Pending(tl, n, phase) PROVE Pending(ss, n, phase)
      BY <1>3, <1>5, <2>3 DEF Pending
    <2> QED BY <2>1, <2>2, <2>3
  <1>13. ~Pending(tl, hd.node, hd.phase)
    <2> SUFFICES ASSUME NEW i \in 1..Len(tl), tl[i].node = hd.node, tl[i].phase = hd.phase PROVE FALSE
      BY DEF Pending
    <2>1. tl[i] = hd
      BY <1>5, <1>6, <1>11
    <2> QED BY <1>5, <1>6, <1>10, <2>1
  <1>14. hd.phase = "cleanup" => \A n : ~Pending(tl, n, "expand")
    <2> SUFFICES ASSUME hd.phase = "cleanup", NEW i \in 1..Len(tl), tl[i].phase = "expand" PROVE FALSE
      BY DEF Pending
    <2>1. Precedes(hd, tl[i])
      BY <1>6
    <2> QED BY <2>1 DEF Precedes
  <1>15. hd.expect = now(tl, hd.node)
    <2>1. CASE hd.phase = "expand"
      <3>1. hd.expect = old[hd.node] \cup new[hd.node] /\ hd.node \in Nodes /\ ~Pending(tl, hd.node, "expand")
        BY <1>4, <1>5, <1>13, <2>1
      <3>2. CASE Pending(tl, hd.node, "cleanup")
        BY <3>1, <3>2
      <3>3. CASE ~Pending(tl, hd.node, "cleanup")
        <4>1. old[hd.node] \cup new[hd.node] = new[hd.node]
          <5> SUFFICES ASSUME NEW t \in all, t.node = hd.node, t.phase = "cleanup" PROVE FALSE
            BY <1>4, <3>1
          <5>1. ~\E i \in 1..Len(tl) : tl[i] = t
            BY <3>3 DEF Pending
          <5>2. ~\E i \in 1..Len(ss) : ss[i] = t
            BY <1>3, <1>8, <2>1, <5>1
          <5>3. Precedes(t, hd)
            BY <1>2, <1>3, <1>5, <5>2
          <5> QED BY <2>1, <5>3 DEF Precedes
        <4> QED BY <3>1, <3>3, <4>1
      <3> QED BY <3>2, <3>3
    <2>2. CASE hd.phase = "cleanup"
      <3>1. hd.expect = new[hd.node] /\ ~Pending(tl, hd.node, "expand") /\ ~Pending(tl, hd.node, "cleanup")
        BY <1>4, <1>5, <1>13, <1>14, <2>2
      <3> QED BY <3>1
    <2> QED BY <1>4, <1>5, <2>1, <2>2
  <1>16. \A n \in Nodes : n # hd.node => now(tl, n) = now(ss, n)
    BY <1>12
  <1>17. [has EXCEPT ![hd.node] = hd.expect] = [n \in Nodes |-> now(tl, n)]
    <2> HIDE DEF now
    <2> QED BY <1>2, <1>4, <1>5, <1>15, <1>16
  <1>18. Expands(tl) => Expands(ss)
    <2> SUFFICES ASSUME Len(tl) > 0, Head(tl).phase = "expand" PROVE hd.phase = "expand"
      BY <1>3 DEF Expands, hd
    <2>1. tl[1].phase = "expand" /\ 1 \in 1..Len(tl)
      BY <1>3
    <2>2. Pending(tl, tl[1].node, "expand")
      BY <2>1 DEF Pending
    <2> QED BY <1>4, <1>5, <1>14, <2>2
  <1>19. PlanHolds(old, b, a, tl, [has EXCEPT ![hd.node] = hd.expect])
    BY <1>3, <1>6, <1>7, <1>9, <1>17 DEF PlanHolds, all, new
  <1> QED BY <1>18, <1>19 DEF hd, tl

\* What is installed while a plan expands, while it cleans up, and at its end.
LEMMA PlanPhases ==
  ASSUME NEW old \in RuleMap, NEW b \in Intents, NEW a \in Intents, NEW ss, NEW has,
         PlanHolds(old, b, a, ss, has)
  PROVE  /\ has \in RuleMap /\ \A n \in Nodes : has[n] \subseteq old[n] \cup Compiled(a)[n]
         /\ Expands(ss) => \A n \in Nodes : old[n] \subseteq has[n]
         /\ ~Expands(ss) => \A n \in Nodes : Compiled(a)[n] \subseteq has[n] /\ ~Pending(ss, n, "expand")
         /\ Expands(ss) => \A t \in Targets(old, Compiled(a), b, a) : t.phase = "cleanup" => \E i \in 1..Len(ss) : ss[i] = t
         /\ ss = << >> => has = Compiled(a)
  <1> DEFINE new == Compiled(a)
             all == Targets(old, new, b, a)
  <1>1. new \in RuleMap
    BY CompiledTyped
  <1>2. /\ ss \in Seq(PlanTarget) /\ \A i \in 1..Len(ss) : ss[i] \in all
        /\ \A i, j \in 1..Len(ss) : i < j => Precedes(ss[i], ss[j])
        /\ \A t \in all : (\E i \in 1..Len(ss) : ss[i] = t) \/ (\A i \in 1..Len(ss) : Precedes(t, ss[i]))
        /\ has = [n \in Nodes |-> IF Pending(ss, n, "expand") THEN old[n]
                                  ELSE IF Pending(ss, n, "cleanup") THEN old[n] \cup new[n] ELSE new[n]]
    BY DEF PlanHolds
  <1> HIDE DEF new, all
  <1>3. has \in RuleMap /\ \A n \in Nodes : has[n] \subseteq old[n] \cup new[n]
    BY <1>1, <1>2 DEF RuleMap
  <1>4. Len(ss) \in Nat /\ (Len(ss) > 0 => Head(ss) = ss[1] /\ 1 \in 1..Len(ss))
    BY <1>2
  <1>5. ASSUME Expands(ss), NEW t \in all, t.phase = "cleanup" PROVE \E i \in 1..Len(ss) : ss[i] = t
    <2>1. ss[1].phase = "expand" /\ 1 \in 1..Len(ss)
      BY <1>4, <1>5 DEF Expands
    <2>2. ~Precedes(t, ss[1])
      BY <1>5, <2>1 DEF Precedes
    <2> QED BY <1>2, <2>1, <2>2
  <1>6. ASSUME Expands(ss), NEW n \in Nodes PROVE old[n] \subseteq has[n]
    <2> SUFFICES ASSUME ~Pending(ss, n, "expand"), ~Pending(ss, n, "cleanup") PROVE old[n] \subseteq new[n]
      BY <1>2
    <2>1. ~\E t \in all : t.node = n /\ t.phase = "cleanup"
      BY <1>5, <1>6 DEF Pending
    <2>2. old[n] \cup new[n] = new[n]
      BY <1>1, <2>1, TargetFacts DEF all
    <2> QED BY <2>2
  <1>7. ASSUME ~Expands(ss), NEW n \in Nodes PROVE new[n] \subseteq has[n] /\ ~Pending(ss, n, "expand")
    <2>1. ~Pending(ss, n, "expand")
      <3> SUFFICES ASSUME NEW i \in 1..Len(ss), ss[i].phase = "expand" PROVE FALSE
        BY DEF Pending
      <3>1. Len(ss) > 0 /\ 1 \in 1..Len(ss) /\ ss[1].phase # "expand" /\ i # 1
        BY <1>4, <1>7 DEF Expands
      <3>2. Precedes(ss[1], ss[i])
        BY <1>2, <1>4, <3>1
      <3> QED BY <3>1, <3>2 DEF Precedes
    <2> QED BY <1>2, <2>1
  <1>8. ss = << >> => has = new
    <2> SUFFICES ASSUME ss = << >> PROVE has = new
      OBVIOUS
    <2>1. Len(ss) = 0
      OBVIOUS
    <2>2. \A n : ~Pending(ss, n, "expand") /\ ~Pending(ss, n, "cleanup")
      BY <2>1 DEF Pending
    <2> QED BY <1>1, <1>2, <2>2 DEF RuleMap
  <1> QED BY <1>3, <1>5, <1>6, <1>7, <1>8 DEF new, all

\* Expanding from downstream to entry, and cleaning up from entry to downstream,
\* keeps what forwards connected, when the rules a plan begins with were and are
\* those of its two paths.
LEMMA PlanConnects ==
  ASSUME NEW old \in RuleMap, NEW b \in Intents, NEW a \in Intents, NEW ss, NEW has,
         PlanHolds(old, b, a, ss, has), Connected(old),
         \A n \in Nodes : old[n] \subseteq RulesOn(b, n) \cup RulesOn(a, n)
  PROVE  Connected(has)
  <1> DEFINE new == Compiled(a)
             all == Targets(old, new, b, a)
  <1>1. new \in RuleMap /\ Connected(new) /\ \A n \in Nodes : new[n] = RulesOn(a, n)
    BY CompiledTyped
  <1>2. /\ ss \in Seq(PlanTarget) /\ \A i \in 1..Len(ss) : ss[i] \in all
        /\ \A t \in all : (\E i \in 1..Len(ss) : ss[i] = t) \/ (\A i \in 1..Len(ss) : Precedes(t, ss[i]))
        /\ has = [n \in Nodes |-> IF Pending(ss, n, "expand") THEN old[n]
                                  ELSE IF Pending(ss, n, "cleanup") THEN old[n] \cup new[n] ELSE new[n]]
    BY DEF PlanHolds
  <1>3. /\ Expands(ss) => \A n \in Nodes : old[n] \subseteq has[n]
        /\ ~Expands(ss) => \A n \in Nodes : new[n] \subseteq has[n] /\ ~Pending(ss, n, "expand")
        /\ \A n \in Nodes : has[n] \subseteq old[n] \cup new[n]
    BY PlanPhases
  <1>4. /\ \A t \in all :
             \/ t.phase = "expand" /\ t.depth = DepthOn(a, t.node)
             \/ t.phase = "cleanup" /\ t.depth = DepthOn(b, t.node)
        /\ \A n \in Nodes : old[n] \cup new[n] # old[n] => \E t \in all : t.node = n /\ t.phase = "expand"
        /\ \A n \in Nodes : old[n] \cup new[n] # new[n] => \E t \in all : t.node = n /\ t.phase = "cleanup"
    BY <1>1, TargetFacts
  <1> HIDE DEF new, all
  <1> SUFFICES ASSUME NEW n \in Nodes, NEW r \in has[n], NEW l \in r.to
               PROVE  \E s \in has[l[1]] : s.port = l[2]
    BY DEF Connected
  <1>5. CASE Expands(ss)
    <2>1. CASE r \in old[n]
      <3>1. \E s \in old[l[1]] : s.port = l[2]
        BY <2>1 DEF Connected
      <3>2. l[1] \in Nodes
        BY <2>1, RuleForwards
      <3> QED BY <1>3, <1>5, <3>1, <3>2
    <2>2. CASE r \notin old[n]
      <3>1. r \in new[n] /\ r \in RulesOn(a, n) /\ ~Pending(ss, n, "expand")
        BY <1>1, <1>2, <1>3, <2>2
      <3>2. /\ l[1] \in Nodes /\ DepthOn(a, n) \in Nat /\ DepthOn(a, l[1]) = DepthOn(a, n) + 1
            /\ \E s \in new[l[1]] : s.port = l[2]
        BY <1>1, <3>1, RuleForwards
      <3>3. PICK t \in all : t.node = n /\ t.phase = "expand"
        BY <1>4, <2>2, <3>1
      <3>4. \A i \in 1..Len(ss) : Precedes(t, ss[i])
        BY <1>2, <3>1, <3>3 DEF Pending
      <3>5. ~Pending(ss, l[1], "expand")
        <4> SUFFICES ASSUME NEW i \in 1..Len(ss), ss[i].node = l[1], ss[i].phase = "expand" PROVE FALSE
          BY DEF Pending
        <4>1. ss[i].depth = DepthOn(a, l[1]) /\ t.depth = DepthOn(a, n)
          BY <1>2, <1>4, <3>3
        <4>2. ss[i].depth = t.depth + 1 /\ t.depth \in Nat
          BY <3>2, <4>1
        <4> QED BY <3>3, <3>4, <4>2 DEF Precedes
      <3>6. new[l[1]] \subseteq has[l[1]]
        BY <1>2, <3>2, <3>5
      <3> QED BY <3>2, <3>6
    <2> QED BY <2>1, <2>2
  <1>6. CASE ~Expands(ss)
    <2>1. CASE r \in new[n]
      <3>1. \E s \in new[l[1]] : s.port = l[2]
        BY <1>1, <2>1 DEF Connected
      <3>2. l[1] \in Nodes
        BY <1>1, <2>1, RuleForwards
      <3> QED BY <1>3, <1>6, <3>1, <3>2
    <2>2. CASE r \notin new[n]
      <3>1. r \in old[n] /\ r \in RulesOn(b, n) /\ Pending(ss, n, "cleanup")
        BY <1>1, <1>2, <1>3, <1>6, <2>2
      <3>2. /\ l[1] \in Nodes /\ DepthOn(b, n) \in Nat /\ DepthOn(b, l[1]) = DepthOn(b, n) + 1
        BY <3>1, RuleForwards
      <3>3. \E s \in old[l[1]] : s.port = l[2]
        BY <3>1 DEF Connected
      <3>4. PICK i \in 1..Len(ss) : ss[i].node = n /\ ss[i].phase = "cleanup"
        BY <3>1 DEF Pending
      <3>5. old[l[1]] \subseteq has[l[1]]
        <4>1. CASE Pending(ss, l[1], "cleanup")
          BY <1>2, <1>3, <1>6, <3>2, <4>1
        <4>2. CASE ~Pending(ss, l[1], "cleanup")
          <5>1. old[l[1]] \cup new[l[1]] = new[l[1]]
            <6> SUFFICES ASSUME NEW t \in all, t.node = l[1], t.phase = "cleanup" PROVE FALSE
              BY <1>4, <3>2
            <6>1. Precedes(t, ss[i])
              BY <1>2, <4>2 DEF Pending
            <6>2. t.depth = DepthOn(b, l[1]) /\ ss[i].depth = DepthOn(b, n)
              BY <1>2, <1>4, <3>4
            <6>3. t.depth = ss[i].depth + 1 /\ ss[i].depth \in Nat
              BY <3>2, <6>2
            <6> QED BY <3>4, <6>1, <6>3 DEF Precedes
          <5> QED BY <1>3, <1>6, <3>2, <5>1
        <4> QED BY <4>1, <4>2
      <3> QED BY <3>3, <3>5
    <2> QED BY <2>1, <2>2
  <1> QED BY <1>5, <1>6

-----------------------------------------------------------------------------
(* The invariant: the plan in force began with rules that were connected,   *)
(* and the saved line is the one its stage says.                            *)
LineTyped ==
  /\ before \in Intents /\ after \in Intents /\ saved \in Intents /\ second \in BOOLEAN
  /\ ~second => before # after

LineSaved ==
  /\ after = NoLine => saved = IF steps = << >> THEN NoLine ELSE before
  /\ after # NoLine => saved = IF before = NoLine \/ ~Expands(steps) THEN after ELSE before

\* The rules old a plan began with: those of its paths, and all of a line that is
\* changed into another.
BeganWith(old, b, a) ==
  /\ \A n \in Nodes : old[n] \subseteq RulesOn(b, n) \cup RulesOn(a, n)
  /\ b = NoLine \/ a = NoLine \/ \A n \in Nodes : RulesOn(b, n) \subseteq old[n]

LineBase(old) ==
  /\ PlanHolds(old, before, after, steps, installed)
  /\ Connected(old)
  /\ Restores \/ BeganWith(old, before, after)

LineInv == LineTyped /\ LineSaved /\ \E old \in RuleMap : LineBase(old)

LEMMA LineStarts == Init => LineInv
  <1> SUFFICES ASSUME Init PROVE LineInv
    OBVIOUS
  <1>1. PICK b \in Intents, a \in Intents :
          /\ b # a /\ before = b /\ after = a /\ installed = Compiled(b)
          /\ steps = OrderedTargets(Compiled(b), Compiled(a), b, a)
          /\ saved = SavedWith(steps, a, b) /\ second = FALSE
    BY DEF Init
  <1>2. NoLine \in Intents
    BY DEF Intents
  <1>3. LineTyped
    BY <1>1, <1>2 DEF LineTyped, SavedWith
  <1>4. LineSaved
    BY <1>1 DEF LineSaved, SavedWith
  <1>5. Compiled(b) \in RuleMap /\ Connected(Compiled(b)) /\ \A n \in Nodes : Compiled(b)[n] = RulesOn(b, n)
    BY CompiledTyped
  <1>6. PlanHolds(Compiled(b), before, after, steps, installed)
    BY <1>1, <1>5, PlanBegins
  <1>7. BeganWith(Compiled(b), before, after)
    BY <1>1, <1>5 DEF BeganWith
  <1> QED BY <1>3, <1>4, <1>5, <1>6, <1>7 DEF LineInv, LineBase

LEMMA LineConfirmKeeps == ASSUME LineInv, Confirm PROVE LineInv'
  <1>1. PICK old \in RuleMap : LineBase(old)
    BY DEF LineInv
  <1>2. /\ steps # << >> /\ steps' = Tail(steps)
        /\ installed' = [installed EXCEPT ![Head(steps).node] = Head(steps).expect]
        /\ saved' = SavedWith(steps', after, saved) /\ UNCHANGED <<before, after, second>>
    BY DEF Confirm
  <1>3. LineTyped /\ LineSaved
    BY DEF LineInv
  <1>4. /\ PlanHolds(old, before, after, steps', installed')
        /\ Expands(steps') => Expands(steps)
    BY <1>1, <1>2, <1>3, PlanGoesOn DEF LineBase, LineTyped
  <1>5. LineTyped'
    BY <1>2, <1>3 DEF LineTyped, SavedWith, Intents
  <1>6. LineSaved'
    <2>1. CASE after = NoLine
      BY <1>2, <1>3, <2>1 DEF LineSaved, SavedWith
    <2>2. CASE after # NoLine
      <3>1. saved' = IF saved = NoLine \/ ~Expands(steps') THEN after ELSE saved
        BY <1>2, <2>2 DEF SavedWith
      <3>2. saved = IF before = NoLine \/ ~Expands(steps) THEN after ELSE before
        BY <1>3, <2>2 DEF LineSaved
      <3>3. saved' = IF before = NoLine \/ ~Expands(steps') THEN after ELSE before
        BY <1>4, <3>1, <3>2
      <3> QED BY <1>2, <2>2, <3>3 DEF LineSaved
    <2> QED BY <2>1, <2>2
  <1>7. Restores' = Restores
    BY <1>2 DEF Restores
  <1>8. LineBase(old)'
    BY <1>1, <1>2, <1>4, <1>7 DEF LineBase
  <1> QED BY <1>5, <1>6, <1>8 DEF LineInv

LEMMA LineConnected == ASSUME LineInv PROVE PathStaysConnected
  <1>1. PICK old \in RuleMap : LineBase(old)
    BY DEF LineInv
  <1> SUFFICES ASSUME ~Restores PROVE Connected(installed)
    BY DEF PathStaysConnected, NeverDangling
  <1>2. before \in Intents /\ after \in Intents
    BY DEF LineInv, LineTyped
  <1> QED BY <1>1, <1>2, PlanConnects DEF LineBase, BeganWith

LEMMA LineCompensateKeeps == ASSUME LineInv, Compensate PROVE LineInv'
  <1>1. PICK old \in RuleMap : LineBase(old)
    BY DEF LineInv
  <1>2. /\ ~second /\ second' = TRUE /\ before' = saved /\ after' = before /\ installed' = installed
        /\ steps' = OrderedTargets(installed, Compiled(before), saved, before)
        /\ saved' = SavedWith(steps', before, saved)
    BY DEF Compensate
  <1>3. before \in Intents /\ after \in Intents /\ saved \in Intents /\ before # after /\ LineSaved
    BY <1>2 DEF LineInv, LineTyped
  <1>4. /\ installed \in RuleMap /\ \A n \in Nodes : installed[n] \subseteq old[n] \cup Compiled(after)[n]
        /\ ~Expands(steps) => \A n \in Nodes : Compiled(after)[n] \subseteq installed[n]
    BY <1>1, <1>3, PlanPhases DEF LineBase
  <1>5. \A n \in Nodes : Compiled(after)[n] = RulesOn(after, n)
    BY <1>3, CompiledTyped
  <1>6. ~Restores
    BY <1>2 DEF Restores
  <1>7. Connected(installed)
    BY <1>6, LineConnected DEF PathStaysConnected, NeverDangling
  <1>8. PlanHolds(installed, before', after', steps', installed')
    BY <1>2, <1>3, <1>4, PlanBegins
  <1>9. Restores' \/ BeganWith(installed, before', after')
    <2> SUFFICES ASSUME saved # before PROVE BeganWith(installed, saved, before)
      BY <1>2 DEF Restores
    <2>1. saved = after
      BY <1>3 DEF LineSaved
    <2>2. \A n \in Nodes : installed[n] \subseteq RulesOn(saved, n) \cup RulesOn(before, n)
      BY <1>1, <1>4, <1>5, <1>6, <2>1 DEF LineBase, BeganWith
    <2>3. ASSUME saved # NoLine, before # NoLine PROVE \A n \in Nodes : RulesOn(saved, n) \subseteq installed[n]
      <3>1. ~Expands(steps)
        BY <1>3, <2>1, <2>3 DEF LineSaved
      <3> QED BY <1>4, <1>5, <2>1, <3>1
    <2> QED BY <2>2, <2>3 DEF BeganWith
  <1>10. LineTyped'
    BY <1>2, <1>3 DEF LineTyped, SavedWith, Intents
  <1>11. LineSaved'
    BY <1>2 DEF LineSaved, SavedWith
  <1> QED BY <1>2, <1>4, <1>7, <1>8, <1>9, <1>10, <1>11 DEF LineInv, LineBase

LEMMA LineStep == LineInv /\ [Next]_vars => LineInv'
  <1> SUFFICES ASSUME LineInv, [Next]_vars PROVE LineInv'
    OBVIOUS
  <1>1. CASE UNCHANGED vars
    BY <1>1 DEF vars, LineInv, LineTyped, LineSaved, LineBase, Restores
  <1> QED BY <1>1, LineConfirmKeeps, LineCompensateKeeps DEF Next

LEMMA LineIsServed == ASSUME LineInv PROVE PublishedIsInstalled /\ NothingLeftBehind
  <1>1. PICK old \in RuleMap : LineBase(old)
    BY DEF LineInv
  <1>2. before \in Intents /\ after \in Intents /\ LineSaved
    BY DEF LineInv, LineTyped
  <1>3. /\ Expands(steps) => \A n \in Nodes : old[n] \subseteq installed[n]
        /\ ~Expands(steps) => \A n \in Nodes : Compiled(after)[n] \subseteq installed[n]
        /\ steps = << >> => installed = Compiled(after)
    BY <1>1, <1>2, PlanPhases DEF LineBase
  <1>4. \A n \in Nodes : Compiled(after)[n] = RulesOn(after, n)
    BY <1>2, CompiledTyped
  <1>5. ASSUME ~(Restores /\ Expands(steps)), NEW n \in Nodes PROVE RulesOn(Bindable, n) \subseteq installed[n]
    <2>1. CASE Bindable = NoLine
      <3>1. Len(NoLine) = 0
        BY DEF NoLine
      <3>2. RulesOn(NoLine, n) = {}
        BY <3>1 DEF RulesOn
      <3> QED BY <2>1, <3>2
    <2>2. CASE Bindable # NoLine
      <3>1. Bindable = saved /\ after # NoLine /\ ~(before = NoLine /\ Expands(steps))
        BY <2>2 DEF Bindable
      <3>2. CASE Expands(steps)
        <4>1. saved = before /\ before # NoLine /\ ~Restores
          BY <1>2, <1>5, <3>1, <3>2 DEF LineSaved
        <4>2. RulesOn(before, n) \subseteq old[n]
          BY <1>1, <3>1, <4>1 DEF LineBase, BeganWith
        <4> QED BY <1>3, <3>1, <3>2, <4>1, <4>2
      <3>3. CASE ~Expands(steps)
        <4>1. saved = after
          BY <1>2, <3>1, <3>3 DEF LineSaved
        <4> QED BY <1>3, <1>4, <3>1, <3>3, <4>1
      <3> QED BY <3>2, <3>3
    <2> QED BY <2>1, <2>2
  <1> QED BY <1>3, <1>5 DEF PublishedIsInstalled, NothingLeftBehind

-----------------------------------------------------------------------------
(* EvidenceView.  Real time is on no clock of the browser.  The invariant   *)
(* says, for the evidence on the wire and on the page, how the clocks that  *)
(* were noted bound it: unless the machine slept, the monotonic clock runs  *)
(* with real time, and unless it was set back, the wall clock does.        *)
Stamp == [mono : Int, wall : Int, gen : Int]
SentAsk == [at : {"sent"}, started : Stamp, slept : BOOLEAN, back : BOOLEAN]
AnsweredAsk ==
  [at : {"answered"}, started : Stamp, slept : BOOLEAN, back : BOOLEAN, made : Int, revision : Int, freshFor : Nat]
HeldEvidence ==
  [at : {"held"}, started : Stamp, received : Stamp, made : Int, revision : Int, freshFor : Nat,
   slept : BOOLEAN, back : BOOLEAN, late : BOOLEAN]

EvidenceTyped ==
  /\ page \in EvidenceProfiles
  /\ clocks \in [real : Int, mono : Int, wall : Int]
  /\ ticked \in [mono : Int, wall : Int]
  /\ reading \in Stamp
  /\ observed \in [made : Int, revision : Int] /\ savedRevision \in Int
  /\ ask \in {NoAsk} \cup SentAsk \cup AnsweredAsk
  /\ evidence \in {NoEvidence} \cup HeldEvidence
  /\ lost \in BOOLEAN /\ online \in BOOLEAN
  /\ mishaps \in [asks : Int, saves : Int, failures : Int, back : BOOLEAN, tooOld : BOOLEAN]

\* The clocks noted when the request left are not ahead of the clocks now.
Early(q, c) == q.started.mono <= c.mono /\ (~q.back => q.started.wall <= c.wall)

\* By either clock that ran with real time, the deadline is not after the end of
\* the evidence.
Leased(q, c) ==
  q.freshFor > 0 =>
    /\ ~q.slept => c.real - c.mono + q.started.mono + q.freshFor <= q.made + Lifetime
    /\ ~q.back => c.real - c.wall + q.started.wall + q.freshFor <= q.made + Lifetime

\* An answer that landed too late shows it by the clocks of its receipt.
LateShows(e) ==
  e.late /\ e.freshFor > 0 =>
    /\ ~e.slept => e.freshFor <= e.received.mono - e.started.mono
    /\ ~e.back => e.freshFor <= e.received.wall - e.started.wall

ClocksHold ==
  /\ ~mishaps.back => clocks.wall = clocks.real
  /\ page.method # "stamp" =>
       /\ ask.at # "no" => Early(ask, clocks)
       /\ ask.at = "answered" => Leased(ask, clocks)
       /\ evidence.at = "held" => Early(evidence, clocks) /\ Leased(evidence, clocks)
  /\ page.method = "bounded" =>
       /\ ask.at = "answered" => ask.freshFor = Lifetime
       /\ evidence.at = "held" => evidence.freshFor = Lifetime
  /\ page.method \in {"elapsed", "generation"} /\ evidence.at = "held" => LateShows(evidence)

\* The clock of a page that counts generations was read at the receipt, and later
\* readings of the same generation are not behind it.
ReadSince(e, r) ==
  /\ e.received.gen <= r.gen
  /\ e.received.gen = r.gen => e.received.wall <= r.wall /\ e.received.mono <= r.mono

TooOldHolds ==
  /\ mishaps.tooOld /\ page.discard => evidence.at = "none"
  /\ page.method = "generation" /\ evidence.at = "held" =>
       /\ ReadSince(evidence, reading)
       /\ mishaps.tooOld => ~WithinGeneration(evidence, reading)

EvidenceInv == EvidenceTyped /\ ClocksHold /\ TooOldHolds

LEMMA EvidenceStarts == EvidenceInit => EvidenceInv
  <1> SUFFICES ASSUME EvidenceInit PROVE EvidenceInv
    OBVIOUS
  <1>1. EvidenceTyped
    <2>1. clocks \in [real : Int, mono : Int, wall : Int] /\ ticked \in [mono : Int, wall : Int] /\ reading \in Stamp
      BY DEF EvidenceInit, Dawn, Stamp
    <2>2. mishaps \in [asks : Int, saves : Int, failures : Int, back : BOOLEAN, tooOld : BOOLEAN]
      BY DEF EvidenceInit
    <2>3. observed \in [made : Int, revision : Int] /\ savedRevision \in Int /\ page \in EvidenceProfiles
      BY DEF EvidenceInit
    <2> QED BY <2>1, <2>2, <2>3 DEF EvidenceInit, EvidenceTyped
  <1>2. ClocksHold /\ TooOldHolds
    BY DEF EvidenceInit, ClocksHold, TooOldHolds, NoAsk, NoEvidence
  <1> QED BY <1>1, <1>2 DEF EvidenceInv

LEMMA ObservationIsStamp == EvidenceTyped => ObservationClock \in Stamp
  BY DEF EvidenceTyped, ObservationClock, Stamp

\* What is too old by one reading is too old by every later one.
LEMMA OldStaysOld ==
  ASSUME EvidenceTyped, evidence \in HeldEvidence, ReadSince(evidence, reading),
         WithinGeneration(evidence, ObservationClock)
  PROVE  WithinGeneration(evidence, reading)
  <1>1. ObservationClock \in Stamp /\ reading \in Stamp
    BY ObservationIsStamp DEF EvidenceTyped
  <1>2. /\ ObservationClock.gen >= reading.gen
        /\ ObservationClock.gen = reading.gen =>
             ObservationClock.wall >= reading.wall /\ ObservationClock.mono >= reading.mono
    BY DEF ObservationClock, EvidenceTyped, Stamp
  <1> DEFINE now == ObservationClock
  <1> HIDE DEF now
  <1>3. now \in Stamp /\ now.gen >= reading.gen /\ (now.gen = reading.gen => now.wall >= reading.wall /\ now.mono >= reading.mono)
        /\ WithinGeneration(evidence, now)
    BY <1>1, <1>2 DEF now
  <1> QED BY <1>1, <1>3 DEF WithinGeneration, ReadSince, WithinElapsed, Elapsed, Larger, Stamp, HeldEvidence

\* Time passes; the evidence and the request only learn that the machine slept or
\* that its clock was set back.
LEMMA PassKeeps == EvidenceInv /\ Pass => EvidenceInv'
  <1> SUFFICES ASSUME EvidenceInv, Pass PROVE EvidenceInv'
    OBVIOUS
  <1>1. EvidenceTyped'
    BY DEF EvidenceInv, Pass, EvidenceTyped
  <1>2. ClocksHold'
    BY DEF EvidenceInv, Pass, EvidenceTyped, ClocksHold, Early, Leased, LateShows, NoAsk, NoEvidence,
           SentAsk, AnsweredAsk, HeldEvidence, Stamp
  <1>3. TooOldHolds'
    BY DEF EvidenceInv, Pass, TooOldHolds, ReadSince, WithinGeneration, WithinElapsed, Elapsed, Larger
  <1> QED BY <1>1, <1>2, <1>3 DEF EvidenceInv

LEMMA SleepKeeps == EvidenceInv /\ Sleep => EvidenceInv'
  <1> SUFFICES ASSUME EvidenceInv, Sleep PROVE EvidenceInv'
    OBVIOUS
  <1>1. EvidenceTyped'
    <2>1. ask' \in {NoAsk} \cup SentAsk \cup AnsweredAsk
      BY DEF EvidenceInv, Sleep, EvidenceTyped, NoAsk, SentAsk, AnsweredAsk
    <2>2. evidence' \in {NoEvidence} \cup HeldEvidence
      BY DEF EvidenceInv, Sleep, EvidenceTyped, NoEvidence, HeldEvidence
    <2>3. clocks \in [real : Int, mono : Int, wall : Int] /\ clocks' = [clocks EXCEPT !.real = @ + 1, !.wall = @ + 1]
      BY DEF EvidenceInv, Sleep, EvidenceTyped
    <2>4. clocks' \in [real : Int, mono : Int, wall : Int]
      <3>1. clocks.real + 1 \in Int /\ clocks.mono \in Int /\ clocks.wall + 1 \in Int
        BY <2>3
      <3>2. clocks' = [real |-> clocks.real + 1, mono |-> clocks.mono, wall |-> clocks.wall + 1]
        BY <2>3
      <3> QED BY <3>1, <3>2
    <2> QED BY <2>1, <2>2, <2>4 DEF EvidenceInv, Sleep, EvidenceTyped
  <1>2. ClocksHold'
    BY DEF EvidenceInv, Sleep, EvidenceTyped, ClocksHold, Early, Leased, LateShows, NoAsk, NoEvidence,
           SentAsk, AnsweredAsk, HeldEvidence, Stamp
  <1>3. TooOldHolds'
    BY DEF EvidenceInv, Sleep, EvidenceTyped, TooOldHolds, ReadSince, WithinGeneration, WithinElapsed, Elapsed, Larger,
           NoEvidence, HeldEvidence
  <1> QED BY <1>1, <1>2, <1>3 DEF EvidenceInv

LEMMA SetBackKeeps == EvidenceInv /\ SetBack => EvidenceInv'
  <1> SUFFICES ASSUME EvidenceInv, SetBack PROVE EvidenceInv'
    OBVIOUS
  <1>1. EvidenceTyped'
    <2>1. PICK by \in 1..MaxBack :
            /\ clocks' = [clocks EXCEPT !.wall = @ - by]
            /\ mishaps' = [mishaps EXCEPT !.back = TRUE]
            /\ ask' = IF ask.at = "no" THEN ask ELSE [ask EXCEPT !.back = TRUE]
            /\ evidence' = IF evidence.at = "none" THEN evidence ELSE [evidence EXCEPT !.back = TRUE]
            /\ UNCHANGED <<page, ticked, reading, observed, savedRevision, lost, online>>
      BY DEF SetBack
    <2>2. ask' \in {NoAsk} \cup SentAsk \cup AnsweredAsk
      BY <2>1 DEF EvidenceInv, EvidenceTyped, NoAsk, SentAsk, AnsweredAsk
    <2>3. evidence' \in {NoEvidence} \cup HeldEvidence
      BY <2>1 DEF EvidenceInv, EvidenceTyped, NoEvidence, HeldEvidence
    <2>4. clocks \in [real : Int, mono : Int, wall : Int]
      BY DEF EvidenceInv, EvidenceTyped
    <2>5. clocks' \in [real : Int, mono : Int, wall : Int]
      BY <2>1, <2>4
    <2>6. mishaps' \in [asks : Int, saves : Int, failures : Int, back : BOOLEAN, tooOld : BOOLEAN]
      BY <2>1 DEF EvidenceInv, EvidenceTyped
    <2> QED BY <2>1, <2>2, <2>3, <2>5, <2>6 DEF EvidenceInv, EvidenceTyped
  <1>2. ClocksHold'
    BY DEF EvidenceInv, SetBack, EvidenceTyped, ClocksHold, Early, Leased, LateShows, NoAsk, NoEvidence,
           SentAsk, AnsweredAsk, HeldEvidence, Stamp
  <1>3. TooOldHolds'
    BY DEF EvidenceInv, SetBack, EvidenceTyped, TooOldHolds, ReadSince, WithinGeneration, WithinElapsed, Elapsed, Larger,
           NoEvidence, HeldEvidence
  <1> QED BY <1>1, <1>2, <1>3 DEF EvidenceInv

\* A render: it may end the evidence, and never brings one back.
LEMMA ClockTickKeeps == EvidenceInv /\ ClockTick => EvidenceInv'
  <1> SUFFICES ASSUME EvidenceInv, ClockTick PROVE EvidenceInv'
    OBVIOUS
  <1>0. EvidenceTyped /\ ClocksHold /\ TooOldHolds /\ ObservationClock \in Stamp
    BY ObservationIsStamp DEF EvidenceInv
  <1>1. /\ evidence' = evidence \/ (page.discard /\ evidence' = NoEvidence)
        /\ reading' = reading \/ reading' = ObservationClock
        /\ ticked' \in [mono : Int, wall : Int]
        /\ UNCHANGED <<page, clocks, observed, savedRevision, ask, lost, online>>
    <2>1. ticked' = ticked \/ ticked' = [mono |-> clocks.mono, wall |-> clocks.wall]
      BY DEF ClockTick
    <2>2. clocks.mono \in Int /\ clocks.wall \in Int /\ ticked \in [mono : Int, wall : Int]
      BY <1>0 DEF EvidenceTyped
    <2>3. ticked' \in [mono : Int, wall : Int]
      BY <2>1, <2>2
    <2> QED BY <2>3 DEF ClockTick, ReadClock
  <1>2. PICK old \in BOOLEAN :
          /\ mishaps' = [mishaps EXCEPT !.tooOld = @ \/ old]
          /\ old => evidence.at = "held" /\ ~Young(evidence, IF page.now = "state" THEN ticked' ELSE ObservationClock)
          /\ old /\ page.discard => evidence' = NoEvidence
    BY DEF ClockTick
  <1>3. /\ mishaps \in [asks : Int, saves : Int, failures : Int, back : BOOLEAN, tooOld : BOOLEAN]
        /\ page \in EvidenceProfiles
    BY <1>0 DEF EvidenceTyped
  <1>4. /\ mishaps' \in [asks : Int, saves : Int, failures : Int, back : BOOLEAN, tooOld : BOOLEAN]
        /\ mishaps'.back = mishaps.back /\ (mishaps'.tooOld <=> mishaps.tooOld \/ old)
    BY <1>2, <1>3
  <1>5. EvidenceTyped'
    BY <1>0, <1>1, <1>4 DEF EvidenceTyped
  <1>6. ClocksHold'
    BY <1>0, <1>1, <1>4 DEF ClocksHold, NoEvidence
  <1>7. TooOldHolds'
    <2>1. mishaps'.tooOld /\ page'.discard => evidence'.at = "none"
      BY <1>0, <1>1, <1>2, <1>4 DEF TooOldHolds, NoEvidence
    <2>2. ASSUME page.method = "generation", evidence'.at = "held"
          PROVE  ReadSince(evidence, ObservationClock) /\ (mishaps'.tooOld => ~WithinGeneration(evidence, ObservationClock))
      <3>1. evidence' = evidence /\ evidence.at = "held" /\ page.now # "state"
        BY <1>1, <1>3, <2>2, EvidencePages DEF NoEvidence
      <3>2. evidence \in HeldEvidence /\ ReadSince(evidence, reading)
        BY <1>0, <2>2, <3>1 DEF TooOldHolds, EvidenceTyped, NoEvidence
      <3>3. ReadSince(evidence, ObservationClock)
        BY <1>0, <3>2 DEF ReadSince, ObservationClock, EvidenceTyped, Stamp, HeldEvidence
      <3>4. ASSUME mishaps.tooOld PROVE ~WithinGeneration(evidence, ObservationClock)
        BY <1>0, <2>2, <3>1, <3>2, <3>4, OldStaysOld DEF TooOldHolds
      <3>5. ASSUME old PROVE ~WithinGeneration(evidence, ObservationClock)
        BY <1>2, <2>2, <3>1, <3>5 DEF Young
      <3> QED BY <1>4, <3>3, <3>4, <3>5
    <2>3. page.method = "generation" => reading' = ObservationClock
      BY DEF ClockTick, ReadClock
    <2>4. evidence'.at = "held" => evidence' = evidence
      BY <1>1 DEF NoEvidence
    <2> QED BY <1>1, <2>1, <2>2, <2>3, <2>4 DEF TooOldHolds
  <1> QED BY <1>5, <1>6, <1>7 DEF EvidenceInv

\* Steps that touch neither the clocks, the request nor the evidence.
LEMMA AsideKeeps == EvidenceInv /\ (GoOffline \/ Observe \/ SaveSubject) => EvidenceInv'
  <1> SUFFICES ASSUME EvidenceInv, GoOffline \/ Observe \/ SaveSubject PROVE EvidenceInv'
    OBVIOUS
  <1>1. /\ UNCHANGED <<page, clocks, ticked, reading, ask, evidence, lost>>
        /\ mishaps'.back = mishaps.back /\ mishaps'.tooOld = mishaps.tooOld
    BY DEF EvidenceInv, EvidenceTyped, GoOffline, Observe, SaveSubject
  <1>2. EvidenceTyped'
    <2>1. mishaps' \in [asks : Int, saves : Int, failures : Int, back : BOOLEAN, tooOld : BOOLEAN]
      BY DEF EvidenceInv, EvidenceTyped, GoOffline, Observe, SaveSubject
    <2>2. observed' \in [made : Int, revision : Int]
      BY DEF EvidenceInv, EvidenceTyped, GoOffline, Observe, SaveSubject
    <2>3. savedRevision' \in Int
      BY DEF EvidenceInv, EvidenceTyped, GoOffline, Observe, SaveSubject
    <2>4. online' \in BOOLEAN
      BY DEF EvidenceInv, EvidenceTyped, GoOffline, Observe, SaveSubject
    <2> QED BY <1>1, <2>1, <2>2, <2>3, <2>4 DEF EvidenceInv, EvidenceTyped
  <1>3. ClocksHold' /\ TooOldHolds'
    BY <1>1 DEF EvidenceInv, ClocksHold, TooOldHolds
  <1> QED BY <1>2, <1>3 DEF EvidenceInv

\* A reading of the clock leaves evidence as old as it was.
LEMMA ReadingKeeps ==
  ASSUME EvidenceInv, ReadClock, UNCHANGED <<page, evidence>>, mishaps'.tooOld = mishaps.tooOld
  PROVE  TooOldHolds'
  <1>0. EvidenceTyped /\ TooOldHolds
    BY DEF EvidenceInv
  <1>1. mishaps.tooOld /\ page.discard => evidence.at = "none"
    BY <1>0 DEF TooOldHolds
  <1>2. ASSUME page.method = "generation", evidence.at = "held"
        PROVE  ReadSince(evidence, ObservationClock) /\ (mishaps.tooOld => ~WithinGeneration(evidence, ObservationClock))
    <2>1. evidence \in HeldEvidence /\ ReadSince(evidence, reading)
      BY <1>0, <1>2 DEF TooOldHolds, EvidenceTyped, NoEvidence
    <2>2. ReadSince(evidence, ObservationClock)
      BY <1>0, <2>1 DEF ReadSince, ObservationClock, EvidenceTyped, Stamp, HeldEvidence
    <2> QED BY <1>0, <1>2, <2>1, <2>2, OldStaysOld DEF TooOldHolds
  <1>3. page.method = "generation" => reading' = ObservationClock
    BY DEF ReadClock
  <1> QED BY <1>1, <1>2, <1>3 DEF TooOldHolds

LEMMA SendKeeps == EvidenceInv /\ SendRequest => EvidenceInv'
  <1> SUFFICES ASSUME EvidenceInv, SendRequest PROVE EvidenceInv'
    OBVIOUS
  <1>0. EvidenceTyped /\ ClocksHold /\ ObservationClock \in Stamp /\ Dawn \in Stamp
    BY ObservationIsStamp DEF EvidenceInv, Dawn, Stamp
  <1>1. /\ mishaps' = [mishaps EXCEPT !.asks = @ + 1] /\ ReadClock
        /\ ask' = [at |-> "sent", started |-> Noted, slept |-> FALSE, back |-> FALSE]
        /\ UNCHANGED <<page, clocks, ticked, observed, savedRevision, evidence, lost, online>>
    BY DEF SendRequest
  <1>2. /\ mishaps' \in [asks : Int, saves : Int, failures : Int, back : BOOLEAN, tooOld : BOOLEAN]
        /\ mishaps'.back = mishaps.back /\ mishaps'.tooOld = mishaps.tooOld
    BY <1>0, <1>1 DEF EvidenceTyped
  <1>3. Noted \in Stamp /\ (page.method # "stamp" => Noted.mono = clocks.mono /\ Noted.wall = clocks.wall)
    BY <1>0 DEF Noted, ObservationClock
  <1>4. EvidenceTyped'
    <2>1. ask' \in SentAsk
      BY <1>1, <1>3 DEF SentAsk
    <2>2. reading' \in Stamp
      BY <1>0, <1>1 DEF ReadClock, EvidenceTyped
    <2> QED BY <1>0, <1>1, <1>2, <2>1, <2>2 DEF EvidenceTyped
  <1>5. ClocksHold'
    <2>1. page.method # "stamp" => Early(ask, clocks)'
      <3>1. clocks.mono \in Int /\ clocks.wall \in Int
        BY <1>0 DEF EvidenceTyped
      <3> QED BY <1>1, <1>3, <3>1 DEF Early
    <2> QED BY <1>0, <1>1, <1>2, <2>1 DEF ClocksHold
  <1>6. TooOldHolds'
    BY <1>1, <1>2, ReadingKeeps
  <1> QED BY <1>4, <1>5, <1>6 DEF EvidenceInv


LEMMA EvidenceAnswered == EvidenceInv /\ Answer => EvidenceInv'
  <1> SUFFICES ASSUME EvidenceInv, Answer PROVE EvidenceInv'
    OBVIOUS
  <1> DEFINE left == IF page.method = "bounded" THEN Lifetime ELSE Larger(0, observed.made + Lifetime - clocks.real)
  <1>0. EvidenceTyped /\ ClocksHold /\ TooOldHolds
    BY DEF EvidenceInv
  <1>1. /\ ask.at = "sent" /\ (page.method = "bounded" => observed.made = clocks.real)
        /\ ask' = [at |-> "answered", started |-> ask.started, slept |-> ask.slept, back |-> ask.back,
                   made |-> observed.made, revision |-> observed.revision, freshFor |-> left]
        /\ UNCHANGED <<page, clocks, ticked, reading, observed, savedRevision, evidence, lost, online, mishaps>>
    BY DEF Answer
  <1>2. ask \in SentAsk
    BY <1>0, <1>1 DEF EvidenceTyped, NoAsk, AnsweredAsk
  <1>3. /\ clocks.real \in Int /\ clocks.mono \in Int /\ clocks.wall \in Int
        /\ observed.made \in Int /\ observed.revision \in Int
    BY <1>0 DEF EvidenceTyped
  <1>4. left \in Nat /\ (left > 0 => left <= observed.made + Lifetime - clocks.real)
        /\ (page.method = "bounded" => left = Lifetime)
    BY <1>1, <1>3, EvidenceBounds DEF Larger
  <1> HIDE DEF left
  <1>5. EvidenceTyped'
    <2>1. ask' \in AnsweredAsk
      BY <1>1, <1>2, <1>3, <1>4 DEF AnsweredAsk, SentAsk
    <2> QED BY <1>0, <1>1, <2>1 DEF EvidenceTyped
  <1>6. ClocksHold'
    <2>1. ASSUME page.method # "stamp" PROVE Early(ask, clocks)' /\ Leased(ask, clocks)'
      <3>1. Early(ask, clocks)
        BY <1>0, <1>1, <2>1 DEF ClocksHold
      <3>2. ask.started.mono \in Int /\ ask.started.wall \in Int
        BY <1>2 DEF SentAsk, Stamp
      <3>3. Early(ask, clocks)'
        BY <1>1, <3>1 DEF Early
      <3>4. Leased(ask, clocks)'
        BY <1>1, <1>3, <1>4, <3>1, <3>2, EvidenceBounds DEF Early, Leased
      <3> QED BY <3>3, <3>4
    <2> QED BY <1>0, <1>1, <1>4, <2>1 DEF ClocksHold
  <1>7. TooOldHolds'
    BY <1>0, <1>1 DEF TooOldHolds
  <1> QED BY <1>5, <1>6, <1>7 DEF EvidenceInv

LEMMA ReceiveKeeps == EvidenceInv /\ Receive => EvidenceInv'
  <1> SUFFICES ASSUME EvidenceInv, Receive PROVE EvidenceInv'
    OBVIOUS
  <1>0. EvidenceTyped /\ ClocksHold /\ ObservationClock \in Stamp /\ Dawn \in Stamp
    BY ObservationIsStamp DEF EvidenceInv, Dawn, Stamp
  <1>1. /\ ask.at = "answered" /\ ReadClock /\ ask' = NoAsk /\ lost' = FALSE
        /\ evidence' = [at |-> "held", started |-> ask.started, received |-> NotedAtReceipt, made |-> ask.made,
                        revision |-> ask.revision, freshFor |-> ask.freshFor, slept |-> ask.slept,
                        back |-> ask.back, late |-> clocks.real >= ask.made + Lifetime]
        /\ mishaps' = [mishaps EXCEPT !.tooOld = FALSE]
        /\ UNCHANGED <<page, clocks, ticked, observed, savedRevision, online>>
    BY DEF Receive
  <1>2. ask \in AnsweredAsk
    BY <1>0, <1>1 DEF EvidenceTyped, NoAsk, SentAsk
  <1>3. /\ mishaps' \in [asks : Int, saves : Int, failures : Int, back : BOOLEAN, tooOld : BOOLEAN]
        /\ mishaps'.back = mishaps.back /\ mishaps'.tooOld = FALSE
    BY <1>0, <1>1 DEF EvidenceTyped
  <1>4. /\ NotedAtReceipt \in Stamp
        /\ page.method \in {"elapsed", "generation"} => NotedAtReceipt = ObservationClock
    BY <1>0 DEF NotedAtReceipt
  <1>5. clocks.real \in Int /\ clocks.mono \in Int /\ clocks.wall \in Int
    BY <1>0 DEF EvidenceTyped
  <1>6. EvidenceTyped'
    <2>1. evidence' \in HeldEvidence
      BY <1>1, <1>2, <1>4 DEF HeldEvidence, AnsweredAsk
    <2>2. reading' \in Stamp
      BY <1>0, <1>1 DEF ReadClock, EvidenceTyped
    <2> QED BY <1>0, <1>1, <1>3, <2>1, <2>2 DEF EvidenceTyped
  <1>7. ClocksHold'
    <2>1. ASSUME page.method # "stamp" PROVE Early(evidence, clocks)' /\ Leased(evidence, clocks)'
      <3>1. Early(ask, clocks) /\ Leased(ask, clocks)
        BY <1>0, <1>1, <2>1 DEF ClocksHold
      <3> QED BY <1>1, <3>1 DEF Early, Leased
    <2>2. ASSUME page.method \in {"elapsed", "generation"} PROVE LateShows(evidence)'
      <3>1. Leased(ask, clocks)
        BY <1>0, <1>1, <2>2 DEF ClocksHold
      <3>2. NotedAtReceipt.mono = clocks.mono /\ NotedAtReceipt.wall = clocks.wall
        BY <1>4, <2>2 DEF ObservationClock
      <3>3. ask.started.mono \in Int /\ ask.started.wall \in Int /\ ask.freshFor \in Nat /\ ask.made \in Int
        BY <1>2 DEF AnsweredAsk, Stamp
      <3>4. evidence'.late = (clocks.real >= ask.made + Lifetime)
        BY <1>1
      <3>5. ASSUME evidence'.late, evidence'.freshFor > 0
            PROVE  /\ ~evidence'.slept => evidence'.freshFor <= evidence'.received.mono - evidence'.started.mono
                   /\ ~evidence'.back => evidence'.freshFor <= evidence'.received.wall - evidence'.started.wall
        <4>1. clocks.real >= ask.made + Lifetime
          BY <3>4, <3>5
        <4>2. /\ evidence'.freshFor = ask.freshFor /\ evidence'.started = ask.started /\ evidence'.slept = ask.slept
              /\ evidence'.back = ask.back /\ evidence'.received = NotedAtReceipt
          BY <1>1
        <4> QED BY <1>5, <3>1, <3>2, <3>3, <3>5, <4>1, <4>2, EvidenceBounds DEF Leased
      <3> QED BY <3>5 DEF LateShows
    <2> QED BY <1>0, <1>1, <1>3, <2>1, <2>2 DEF ClocksHold, NoAsk
  <1>8. TooOldHolds'
    <2>1. page.method = "generation" => ReadSince(evidence, reading)'
      <3>1. page.method = "generation" => evidence'.received = ObservationClock /\ reading' = ObservationClock
        BY <1>1, <1>4 DEF ReadClock
      <3> QED BY <1>0, <3>1 DEF ReadSince, Stamp
    <2> QED BY <1>1, <1>3, <2>1 DEF TooOldHolds
  <1> QED BY <1>6, <1>7, <1>8 DEF EvidenceInv

LEMMA LoseKeeps == EvidenceInv /\ LoseRequest => EvidenceInv'
  <1> SUFFICES ASSUME EvidenceInv, LoseRequest PROVE EvidenceInv'
    OBVIOUS
  <1>1. /\ mishaps' \in [asks : Int, saves : Int, failures : Int, back : BOOLEAN, tooOld : BOOLEAN]
        /\ mishaps'.back = mishaps.back /\ mishaps'.tooOld = mishaps.tooOld
    BY DEF EvidenceInv, EvidenceTyped, LoseRequest
  <1>2. /\ ask' = NoAsk /\ lost' = TRUE
        /\ UNCHANGED <<page, clocks, ticked, reading, observed, savedRevision, evidence, online>>
    BY DEF LoseRequest
  <1>3. EvidenceTyped'
    BY <1>1, <1>2 DEF EvidenceInv, EvidenceTyped
  <1>4. ClocksHold' /\ TooOldHolds'
    BY <1>1, <1>2 DEF EvidenceInv, ClocksHold, TooOldHolds, NoAsk
  <1> QED BY <1>3, <1>4 DEF EvidenceInv

LEMMA EvidenceStep == EvidenceInv /\ [EvidenceNext]_evidenceVars => EvidenceInv'
  <1> SUFFICES ASSUME EvidenceInv, [EvidenceNext]_evidenceVars PROVE EvidenceInv'
    OBVIOUS
  <1>1. CASE UNCHANGED evidenceVars
    BY <1>1 DEF evidenceVars, EvidenceInv, EvidenceTyped, ClocksHold, TooOldHolds
  <1>2. CASE EvidenceNext
    BY <1>2, PassKeeps, SleepKeeps, SetBackKeeps, ClockTickKeeps, AsideKeeps, SendKeeps, EvidenceAnswered,
       ReceiveKeeps, LoseKeeps DEF EvidenceNext
  <1> QED BY <1>1, <1>2

LEMMA EvidenceInvariant == EvidenceSpec => []EvidenceInv
  BY EvidenceStarts, EvidenceStep, PTL DEF EvidenceSpec

\* The clocks a page judges by, when its tick is current, are the clocks.
LEMMA JudgedByTheClocks ==
  ASSUME EvidenceInv, TickIsCurrent
  PROVE  Now.mono = clocks.mono /\ Now.wall = clocks.wall
  <1>1. page \in EvidenceProfiles
    BY DEF EvidenceInv, EvidenceTyped
  <1>2. page.now \in {"state", "render"}
    BY <1>1, EvidencePages
  <1> QED BY <1>2 DEF Now, TickIsCurrent, ObservationClock

LEMMA CurrentByTheServer == EvidenceInv => FreshIsTrue
  <1> SUFFICES ASSUME EvidenceInv, Fresh, TickIsCurrent, ~Fooled(evidence)
               PROVE  clocks.real < evidence.made + Lifetime
    BY DEF FreshIsTrue
  <1> DEFINE now == Now
  <1>0. EvidenceTyped /\ ClocksHold /\ evidence \in HeldEvidence /\ evidence.at = "held"
    BY DEF EvidenceInv, EvidenceTyped, Fresh, NoEvidence
  <1>1. now.mono = clocks.mono /\ now.wall = clocks.wall /\ Young(evidence, now)
    BY JudgedByTheClocks DEF Fresh
  <1> HIDE DEF now
  <1>2. /\ clocks.real \in Int /\ clocks.mono \in Int /\ clocks.wall \in Int
        /\ evidence.made \in Int /\ evidence.freshFor \in Nat /\ evidence.started.mono \in Int /\ evidence.started.wall \in Int
        /\ page.method \in {"deadlines", "elapsed", "generation", "bounded", "stamp"}
    BY <1>0, EvidencePages DEF EvidenceTyped, HeldEvidence, Stamp
  <1>3. CASE page.method = "stamp"
    <2>1. WithinStamp(evidence, now) /\ ~mishaps.back
      BY <1>1, <1>3 DEF Young, Fooled
    <2> QED BY <1>0, <1>1, <1>2, <2>1, EvidenceBounds DEF WithinStamp, ClocksHold
  <1>4. CASE page.method # "stamp"
    <2>1. Early(evidence, clocks) /\ Leased(evidence, clocks) /\ (~evidence.slept \/ ~evidence.back)
      BY <1>0, <1>4 DEF ClocksHold, Fooled
    <2>2. /\ clocks.mono < evidence.started.mono + evidence.freshFor
          /\ clocks.wall < evidence.started.wall + evidence.freshFor
      <3>1. CASE page.method = "deadlines"
        BY <1>1, <3>1 DEF Young, WithinDeadlines
      <3>2. CASE page.method \in {"elapsed", "generation"}
        <4>1. WithinElapsed(evidence, now)
          BY <1>1, <3>2 DEF Young, WithinGeneration
        <4>2. Elapsed(evidence.started, now) < evidence.freshFor
          <5>1. evidence.received.mono \in Int /\ evidence.received.wall \in Int
            BY <1>0 DEF HeldEvidence, Stamp
          <5> QED BY <1>1, <1>2, <4>1, <5>1 DEF WithinElapsed, Elapsed, Larger
        <4> QED BY <1>1, <1>2, <4>2 DEF Elapsed, Larger
      <3>3. CASE page.method = "bounded"
        <4>1. evidence.freshFor = Lifetime /\ WithinBounds(evidence, now)
          BY <1>0, <1>1, <3>3 DEF ClocksHold, Young
        <4> QED BY <1>1, <1>2, <4>1, EvidenceBounds DEF WithinBounds
      <3> QED BY <1>2, <1>4, <3>1, <3>2, <3>3
    <2> QED BY <1>2, <2>1, <2>2, EvidenceBounds DEF Early, Leased
  <1> QED BY <1>3, <1>4

LEMMA LateIsNeverCurrent == EvidenceInv => FreshOnArrival
  <1> SUFFICES ASSUME EvidenceInv, Fresh, page.method \in {"elapsed", "generation"}, ~Fooled(evidence), evidence.late
               PROVE  FALSE
    BY DEF FreshOnArrival
  <1>0. EvidenceTyped /\ ClocksHold /\ evidence \in HeldEvidence /\ evidence.at = "held"
    BY DEF EvidenceInv, EvidenceTyped, Fresh, NoEvidence
  <1>1. LateShows(evidence) /\ (~evidence.slept \/ ~evidence.back)
    BY <1>0 DEF ClocksHold, Fooled
  <1>2. /\ evidence.freshFor \in Nat /\ evidence.started.mono \in Int /\ evidence.started.wall \in Int
        /\ evidence.received.mono \in Int /\ evidence.received.wall \in Int
    BY <1>0 DEF HeldEvidence, Stamp
  <1>3. PICK now \in {ticked, ObservationClock} : WithinElapsed(evidence, now)
    BY DEF Fresh, Young, WithinGeneration, Now
  <1>4. now.mono \in Int /\ now.wall \in Int
    BY <1>0, ObservationIsStamp DEF EvidenceTyped, Stamp
  <1>5. Elapsed(evidence.started, evidence.received) < evidence.freshFor
    BY <1>2, <1>3, <1>4 DEF WithinElapsed, Elapsed, Larger
  <1>6. /\ evidence.freshFor > 0
        /\ evidence.received.mono - evidence.started.mono < evidence.freshFor
        /\ evidence.received.wall - evidence.started.wall < evidence.freshFor
    BY <1>2, <1>5 DEF Elapsed, Larger
  <1> QED BY <1>1, <1>2, <1>6 DEF LateShows

LEMMA TooOldStays == EvidenceInv => TooOldIsFinal
  <1> SUFFICES ASSUME EvidenceInv, mishaps.tooOld, page.discard \/ page.method = "generation", Fresh PROVE FALSE
    BY DEF TooOldIsFinal
  <1>0. EvidenceTyped /\ TooOldHolds /\ evidence \in HeldEvidence /\ evidence.at = "held"
    BY DEF EvidenceInv, EvidenceTyped, Fresh, NoEvidence
  <1>1. page.method = "generation"
    BY <1>0 DEF TooOldHolds
  <1>2. page.now # "state"
    BY <1>0, <1>1, EvidencePages DEF EvidenceTyped
  <1>3. WithinGeneration(evidence, ObservationClock)
    BY <1>1, <1>2 DEF Fresh, Young, Now
  <1> QED BY <1>0, <1>1, <1>3, OldStaysOld DEF TooOldHolds

-----------------------------------------------------------------------------
(* LoadSeries.  A row is of the server and the time it was read for, and a   *)
(* minute that is over does not change: what a row says stays what was       *)
(* measured, however late it landed.  Reads and rows are followed by the     *)
(* number of their call.                                                     *)

\* What a row has for a field: the measure, when there is a series for it, and
\* otherwise nothing, or a capacity that is published.
RowHolds(rec, s, t) ==
  \A f \in RecordFields :
    /\ f \in MetricDefinitions => rec[f] = Measured(s, t, f)
    /\ f \notin MetricDefinitions => rec[f] = Void \/ (f \in DOMAIN Capacities /\ Capacities[f] \in published)

\* The times of a chosen range as far back as the history is read.
ReadTimes(v, at) == {t \in v.from..v.until : t >= at - MaxSpan}
NoCpuIn(s, v, at) == "cpu" \in published => \A t \in ReadTimes(v, at) : Measured(s, t, "cpu") = Void

\* The ranges a visitor may choose, and the reads for them.
Views ==
  {[kind |-> "realtime"]} \cup [kind : {"preset"}, span : LoadSpans]
  \cup {v \in [kind : {"custom"}, from : Nat \ {0}, until : Nat] : v.from < v.until}
Unset == [kind |-> "unset"]
ReadRow ==
  [n : Nat, of : LoadServers, view : Views, at : Nat, failed : BOOLEAN, leg : {"recent", "query", "records"}]

\* Records are read for a range only when its query failed or had no CPU in it.
ReadFits(q) ==
  /\ q.at <= clockNow
  /\ (q.leg = "recent") <=> (q.view.kind = "realtime")
  /\ q.view.kind = "custom" => q.view.until <= q.at
  /\ q.view.kind = "custom" /\ q.leg = "records" /\ ~q.failed => NoCpuIn(q.of, q.view, q.at)

LandedFits(d) ==
  /\ d.at \in Nat /\ d.at <= clockNow /\ DOMAIN d.rows \subseteq 1..d.at
  /\ \A t \in DOMAIN d.rows : RowHolds(d.rows[t], d.of, t)
  /\ d.view.kind = "custom" =>
       /\ d.view.from \in Nat /\ d.view.until \in Nat /\ d.view.until <= d.at
       /\ d.failed \/ NoCpuIn(d.of, d.view, d.at) \/ DOMAIN d.rows = ReadTimes(d.view, d.at)

\* The answers the chart holds.
Held ==
  (IF metricData = << >> THEN {} ELSE {metricData[1]}) \cup (IF remoteData = NoRows THEN {} ELSE {remoteData})

LoadTyped ==
  /\ clockNow \in Nat /\ turn \in Nat /\ uuid \in LoadServers /\ strayed \in BOOLEAN
  /\ DOMAIN minutes = 1..clockNow
  /\ view \in Views \cup {Unset} /\ (view.kind = "custom" => view.until <= clockNow)
  /\ reads \subseteq ReadRow /\ (\A q \in reads : q.n <= turn)
  /\ \A p, q \in reads : p.n = q.n => p = q

ReadsHold == \A q \in reads : ReadFits(q)
ShownHolds == \A d \in Held : LandedFits(d) /\ d.n \in Nat /\ d.n <= turn

\* An answer to the latest call is of the server that is open and the range chosen.
OfNow(d) == d.of = uuid /\ (d.view = view \/ view = Unset)

LatestHolds ==
  /\ \A q \in reads \cup Held : q.n = turn => OfNow(q)
  /\ ~strayed /\ (\E q \in reads : q.n = turn /\ q.leg # "query") => metricData = << >>
  /\ ~strayed /\ (\A q \in reads : q.n # turn) =>
       IF metricData = << >> THEN remoteData = NoRows \/ remoteData.n = turn ELSE metricData[1].n = turn

LoadInv == LoadTyped /\ ReadsHold /\ ShownHolds /\ LatestHolds

LEMMA MeasureFacts ==
  /\ Measures = {"cpu", "ram", "ram_total", "swap", "disk", "disk_total", "net_in", "net_out", "load", "process",
                 "connections", "connections_udp"}
  /\ LoadFields["cpu"].section = "cpu" /\ LoadFields["ram"].section = "memory"
  /\ LoadFields["ram_total"].section = "memory" /\ LoadFields["swap"].section = "memory"
  /\ LoadFields["disk_total"].section = "disk"
  /\ LoadFields["net_in"].section = "network" /\ LoadFields["net_out"].section = "network"
  /\ LoadFields["load"].section = "system" /\ LoadFields["process"].section = "system"
  /\ LoadFields["connections"].section = "system" /\ LoadFields["connections_udp"].section = "system"
  BY DEF Measures, LoadFields

LEMMA CapacityFacts ==
  /\ DOMAIN Capacities = {"ram_total", "swap_total", "disk_total"}
  /\ Capacities["ram_total"] = "memory" /\ Capacities["swap_total"] = "memory" /\ Capacities["disk_total"] = "disk"
  BY DEF Capacities

LEMMA ViewKinds ==
  ASSUME NEW v \in Views
  PROVE  /\ v.kind = "custom" => v.from \in Nat \ {0} /\ v.until \in Nat /\ v.from < v.until
         /\ v.kind \notin {"custom", "realtime"} => v.span \in Nat
         /\ v.kind # "unset"
  <1>1. CASE v = [kind |-> "realtime"]
    BY <1>1
  <1>2. CASE v \in [kind : {"preset"}, span : LoadSpans]
    <2>1. v.kind = "preset" /\ v.span \in LoadSpans
      BY <1>2
    <2>2. \A s \in LoadSpans : s \in Nat
      BY LoadAssumption
    <2> QED BY <2>1, <2>2
  <1>3. CASE v \in {w \in [kind : {"custom"}, from : Nat \ {0}, until : Nat] : w.from < w.until}
    BY <1>3
  <1> QED BY <1>1, <1>2, <1>3 DEF Views

LEMMA BoundedIsNat == ASSUME NEW h \in Int PROVE Bounded(h) \in Nat
  BY LoadAssumption DEF Bounded

\* The answer to a query: every published measure, at the same times.
QueryTimes(v, at) ==
  {u \in 1..at : u >= at - RequestedHours(v, at) /\ (v.kind = "custom" => u >= v.from /\ u <= v.until)}

LEMMA QueryAnswer ==
  ASSUME NEW s, NEW v, NEW at, NEW k \in MetricDefinitions
  PROVE  /\ DOMAIN QueryMetrics(s, v, at) = MetricDefinitions
         /\ DOMAIN QueryMetrics(s, v, at)[k] = QueryTimes(v, at)
         /\ \A t \in QueryTimes(v, at) : QueryMetrics(s, v, at)[k][t] = Measured(s, t, k)
  <1> DEFINE all == LoadMetrics(s, at, RequestedHours(v, at), MetricDefinitions)
  <1>1. DOMAIN all = MetricDefinitions
    BY DEF LoadMetrics, MetricDefinitions
  <1>2. all[k] = [t \in {u \in 1..at : u >= at - RequestedHours(v, at)} |-> Measured(s, t, k)]
    BY DEF LoadMetrics, MetricDefinitions
  <1> HIDE DEF all
  <1>3. QueryMetrics(s, v, at) =
          [j \in DOMAIN all |-> [t \in {u \in DOMAIN all[j] : v.kind = "custom" => u >= v.from /\ u <= v.until} |-> all[j][t]]]
    BY DEF QueryMetrics, all
  <1>4. QueryMetrics(s, v, at)[k] =
          [t \in {u \in DOMAIN all[k] : v.kind = "custom" => u >= v.from /\ u <= v.until} |-> all[k][t]]
    BY <1>1, <1>3
  <1> QED BY <1>1, <1>2, <1>3, <1>4 DEF QueryTimes

LEMMA QueryRows ==
  ASSUME NEW s, NEW v, NEW at
  PROVE  LET rows_ == MetricSeriesToRecordFormat(QueryMetrics(s, v, at)) IN
         /\ DOMAIN rows_ \subseteq QueryTimes(v, at)
         /\ MetricDefinitions # {} => DOMAIN rows_ = QueryTimes(v, at)
         /\ \A t \in DOMAIN rows_ : RowHolds(rows_[t], s, t)
  <1> DEFINE series == QueryMetrics(s, v, at)
             rows_ == MetricSeriesToRecordFormat(series)
  <1>1. DOMAIN series = MetricDefinitions
    BY DEF QueryMetrics, LoadMetrics, MetricDefinitions
  <1>2. \A k \in MetricDefinitions :
          DOMAIN series[k] = QueryTimes(v, at) /\ \A t \in QueryTimes(v, at) : series[k][t] = Measured(s, t, k)
    BY QueryAnswer
  <1> HIDE DEF series
  <1>3. rows_ = [t \in UNION {DOMAIN series[k] : k \in DOMAIN series} |-> ApplyMetricPoint(EnsureMetricRow, series, t)]
    BY DEF MetricSeriesToRecordFormat
  <1>4. /\ DOMAIN rows_ \subseteq QueryTimes(v, at)
        /\ MetricDefinitions # {} => DOMAIN rows_ = QueryTimes(v, at)
    BY <1>1, <1>2, <1>3
  <1>5. ASSUME NEW t \in DOMAIN rows_ PROVE RowHolds(rows_[t], s, t)
    <2>1. rows_[t] = ApplyMetricPoint(EnsureMetricRow, series, t) /\ t \in QueryTimes(v, at)
      BY <1>3, <1>4
    <2>2. ASSUME NEW f \in RecordFields
          PROVE  rows_[t][f] = IF f \in MetricDefinitions THEN Measured(s, t, f) ELSE EnsureMetricRow[f]
      BY <1>1, <1>2, <2>1 DEF ApplyMetricPoint
    <2>3. \A f \in RecordFields : EnsureMetricRow[f] = Void \/ (f \in DOMAIN Capacities /\ Capacities[f] \in published)
      BY DEF EnsureMetricRow, Capacity
    <2> QED BY <2>2, <2>3 DEF RowHolds
  <1> QED BY <1>4, <1>5 DEF series

LEMMA RecordRows ==
  ASSUME NEW s, NEW at \in Nat, NEW hours \in Int
  PROVE  LET rows_ == StatusToRecordFormat(LoadRecords(s, at, hours)) IN
         /\ DOMAIN rows_ \subseteq 1..at
         /\ \A t \in DOMAIN rows_ : RowHolds(rows_[t], s, t)
  <1> DEFINE series == LoadMetrics(s, at, hours, Measures)
             records == LoadRecords(s, at, hours)
             rows_ == StatusToRecordFormat(records)
             times == {u \in 1..at : u >= at - hours}
  <1>1. DOMAIN series = MetricDefinitions /\ \A k \in MetricDefinitions : series[k] = [t \in times |-> Measured(s, t, k)]
    BY DEF LoadMetrics, MetricDefinitions
  <1> HIDE DEF series
  <1>2. records = [t \in UNION {DOMAIN series[k] : k \in DOMAIN series} |-> [k \in DOMAIN series |-> series[k][t]]]
    BY DEF LoadRecords, series
  <1>3. DOMAIN records \subseteq times
    BY <1>1, <1>2
  <1>4. ASSUME NEW t \in DOMAIN records
        PROVE  DOMAIN records[t] = MetricDefinitions /\ \A f \in MetricDefinitions : records[t][f] = Measured(s, t, f)
    <2>1. records[t] = [k \in DOMAIN series |-> series[k][t]] /\ t \in times
      BY <1>2, <1>3
    <2>2. ASSUME NEW k \in MetricDefinitions PROVE series[k][t] = Measured(s, t, k)
      <3>1. series[k] = [u \in times |-> Measured(s, u, k)]
        BY <1>1
      <3>2. t \in times
        BY <2>1
      <3> HIDE DEF times
      <3> QED BY <3>1, <3>2
    <2> QED BY <1>1, <2>1, <2>2
  <1> HIDE DEF records
  <1>5. DOMAIN rows_ = DOMAIN records
    BY DEF StatusToRecordFormat
  <1>6. ASSUME NEW t \in DOMAIN rows_ PROVE RowHolds(rows_[t], s, t)
    <2>1. ASSUME NEW f \in RecordFields
          PROVE  rows_[t][f] = IF f \in MetricDefinitions THEN Measured(s, t, f) ELSE Void
      BY <1>4, <1>5 DEF StatusToRecordFormat
    <2> QED BY <2>1 DEF RowHolds
  <1> QED BY <1>3, <1>5, <1>6 DEF records

\* What a query lands with, and that it falls back only without a CPU in the range.
LEMMA QueriedFits ==
  ASSUME NEW q \in ReadRow, ReadFits(q), q.leg = "query"
  PROVE  /\ LandedFits(Landed(q, QueriedRows(q)))
         /\ ~HasCpuHistory(QueriedRows(q)) /\ q.view.kind = "custom" => NoCpuIn(q.of, q.view, q.at)
  <1> DEFINE queried == QueriedRows(q)
             d == Landed(q, queried)
  <1>1. q.at \in Nat /\ q.view \in Views /\ q.at <= clockNow /\ (q.view.kind = "custom" => q.view.until <= q.at)
    BY DEF ReadRow, ReadFits
  <1>2. /\ DOMAIN queried \subseteq QueryTimes(q.view, q.at)
        /\ MetricDefinitions # {} => DOMAIN queried = QueryTimes(q.view, q.at)
        /\ \A t \in DOMAIN queried : RowHolds(queried[t], q.of, t)
    BY QueryRows DEF QueriedRows
  <1>3. d.at = q.at /\ d.of = q.of /\ d.view = q.view /\ d.failed = q.failed /\ d.rows = queried
    BY DEF Landed
  <1> HIDE DEF queried, d
  <1>4. DOMAIN queried \subseteq 1..q.at
    BY <1>2 DEF QueryTimes
  <1>5. ASSUME q.view.kind = "custom", "cpu" \in published
        PROVE  /\ DOMAIN queried = ReadTimes(q.view, q.at)
               /\ ~HasCpuHistory(queried) => \A t \in ReadTimes(q.view, q.at) : Measured(q.of, t, "cpu") = Void
    <2>1. q.view.from \in Nat \ {0} /\ q.view.until \in Nat /\ q.view.from < q.view.until
      BY <1>1, <1>5, ViewKinds
    <2>2. "cpu" \in MetricDefinitions /\ "cpu" \in RecordFields
      BY <1>5, MeasureFacts DEF MetricDefinitions, RecordFields
    <2>3. ReadTimes(q.view, q.at) = QueryTimes(q.view, q.at)
      BY <1>1, <1>5, <2>1, LoadAssumption DEF QueryTimes, ReadTimes, RequestedHours, Bounded
    <2> QED BY <1>2, <1>5, <2>2, <2>3 DEF RowHolds, HasCpuHistory
  <1> QED BY <1>1, <1>2, <1>3, <1>4, <1>5, ViewKinds DEF LandedFits, NoCpuIn, queried, d

LEMMA RecordsFit ==
  ASSUME NEW q \in ReadRow, ReadFits(q), q.leg # "query"
  PROVE  LandedFits(Landed(q, RecordRowsOf(q)))
  <1> DEFINE records == RecordRowsOf(q)
             d == Landed(q, records)
  <1>1. /\ q.at \in Nat /\ q.view \in Views /\ q.at <= clockNow /\ (q.view.kind = "custom" => q.view.until <= q.at)
        /\ q.view.kind = "custom" => q.failed \/ NoCpuIn(q.of, q.view, q.at)
    BY DEF ReadRow, ReadFits
  <1>2. HoursOf(q.view) \in Int
    <2>1. CASE q.view.kind = "realtime"
      BY <2>1 DEF HoursOf
    <2>2. CASE q.view.kind = "custom"
      <3>1. q.view.until - q.view.from \in Int
        BY <1>1, <2>2, ViewKinds
      <3> QED BY <2>2, <3>1, BoundedIsNat DEF HoursOf
    <2>3. CASE q.view.kind \notin {"custom", "realtime"}
      <3>1. q.view.span \in Int
        BY <1>1, <2>3, ViewKinds
      <3> QED BY <2>3, <3>1, BoundedIsNat DEF HoursOf
    <2> QED BY <2>1, <2>2, <2>3
  <1>3. DOMAIN records \subseteq 1..q.at /\ \A t \in DOMAIN records : RowHolds(records[t], q.of, t)
    BY <1>1, <1>2, RecordRows DEF RecordRowsOf
  <1>4. d.at = q.at /\ d.of = q.of /\ d.view = q.view /\ d.failed = q.failed /\ d.rows = records
    BY DEF Landed
  <1> HIDE DEF records, d
  <1> QED BY <1>1, <1>3, <1>4, ViewKinds DEF LandedFits, records, d

-----------------------------------------------------------------------------
\* What is over stays as it was.
PastStays ==
  /\ clockNow' \in Nat /\ clockNow <= clockNow' /\ published' = published
  /\ \A s, f : \A t \in Int : t <= clockNow => Measured(s, t, f)' = Measured(s, t, f)

LEMMA PastRests == ASSUME LoadTyped, UNCHANGED historyVars PROVE PastStays
  BY DEF LoadTyped, historyVars, PastStays, Measured

LEMMA MinuteAdds ==
  ASSUME LoadTyped, NEW report, MinutePasses(report)
  PROVE  PastStays /\ DOMAIN minutes' = 1..clockNow'
  <1>1. /\ clockNow \in Nat /\ DOMAIN minutes = 1..clockNow
        /\ clockNow' = clockNow + 1 /\ published' = published
        /\ minutes' = [t \in 1..clockNow' |-> IF t = clockNow' THEN report ELSE minutes[t]]
    BY DEF LoadTyped, MinutePasses
  <1>2. DOMAIN minutes' = 1..(clockNow + 1)
    BY <1>1
  <1>3. \A t \in DOMAIN minutes : t \in DOMAIN minutes' /\ minutes'[t] = minutes[t]
    BY <1>1
  <1>4. ASSUME NEW s, NEW f, NEW t \in Int, t <= clockNow PROVE Measured(s, t, f)' = Measured(s, t, f)
    <2>1. t \in DOMAIN minutes' => t \in 1..clockNow
      BY <1>1, <1>2, <1>4
    <2>2. CASE t \in DOMAIN minutes
      BY <1>3, <2>2 DEF Measured
    <2>3. CASE t \notin DOMAIN minutes
      BY <1>1, <2>1, <2>3 DEF Measured
    <2> QED BY <2>2, <2>3
  <1> QED BY <1>1, <1>2, <1>4 DEF PastStays

LEMMA RowStays ==
  ASSUME LoadTyped, PastStays, NEW rec, NEW s, NEW t \in Int, t <= clockNow, RowHolds(rec, s, t)
  PROVE  RowHolds(rec, s, t)'
  <1>1. MetricDefinitions' = MetricDefinitions /\ published' = published
    BY DEF MetricDefinitions, PastStays
  <1>2. \A f : Measured(s, t, f)' = Measured(s, t, f)
    BY DEF PastStays
  <1> QED BY <1>1, <1>2 DEF RowHolds

LEMMA NoCpuStays ==
  ASSUME LoadTyped, PastStays, NEW s, NEW v, NEW at, v.from \in Nat, v.until \in Nat, v.until <= clockNow, NoCpuIn(s, v, at)
  PROVE  NoCpuIn(s, v, at)'
  <1>1. published' = published /\ clockNow \in Nat
    BY DEF PastStays, LoadTyped
  <1>2. \A t \in ReadTimes(v, at) : t \in Int /\ t <= clockNow
    BY <1>1 DEF ReadTimes
  <1>3. \A t \in ReadTimes(v, at) : Measured(s, t, "cpu")' = Measured(s, t, "cpu")
    BY <1>2 DEF PastStays
  <1> QED BY <1>1, <1>3 DEF NoCpuIn

LEMMA ReadFitsStays ==
  ASSUME LoadTyped, PastStays, NEW q \in ReadRow, ReadFits(q)
  PROVE  ReadFits(q)'
  <1>1. q.at \in Nat /\ q.view \in Views /\ clockNow \in Nat
    BY DEF ReadRow, LoadTyped
  <1>2. q.view.kind = "custom" => q.view.from \in Nat /\ q.view.until \in Nat /\ q.view.until <= clockNow
    BY <1>1, ViewKinds DEF ReadFits
  <1>3. q.view.kind = "custom" /\ q.leg = "records" /\ ~q.failed => NoCpuIn(q.of, q.view, q.at)'
    BY <1>2, NoCpuStays DEF ReadFits
  <1>4. q.at <= clockNow'
    BY <1>1 DEF ReadFits, PastStays
  <1> QED BY <1>3, <1>4 DEF ReadFits

LEMMA LandedFitsStays ==
  ASSUME LoadTyped, PastStays, NEW d, LandedFits(d)
  PROVE  LandedFits(d)'
  <1>1. clockNow \in Nat /\ d.at \in Nat /\ d.at <= clockNow /\ DOMAIN d.rows \subseteq 1..d.at
    BY DEF LandedFits, LoadTyped
  <1>2. \A t \in DOMAIN d.rows : RowHolds(d.rows[t], d.of, t)'
    <2> TAKE t \in DOMAIN d.rows
    <2>1. t \in Int /\ t <= clockNow
      BY <1>1
    <2>2. RowHolds(d.rows[t], d.of, t)
      BY DEF LandedFits
    <2> QED BY <2>1, <2>2, RowStays
  <1>3. d.view.kind = "custom" /\ NoCpuIn(d.of, d.view, d.at) => NoCpuIn(d.of, d.view, d.at)'
    BY <1>1, NoCpuStays DEF LandedFits
  <1>4. d.at <= clockNow'
    BY <1>1 DEF PastStays
  <1> QED BY <1>1, <1>2, <1>3, <1>4 DEF LandedFits

LEMMA HeldStays ==
  ASSUME LoadInv, PastStays
  PROVE  (\A q \in reads : ReadFits(q)') /\ (\A d \in Held : LandedFits(d)')
  <1>1. ASSUME NEW q \in reads PROVE ReadFits(q)'
    BY ReadFitsStays DEF LoadInv, LoadTyped, ReadsHold
  <1>2. ASSUME NEW d \in Held PROVE LandedFits(d)'
    BY LandedFitsStays DEF LoadInv, ShownHolds
  <1> QED BY <1>1, <1>2

-----------------------------------------------------------------------------
\* A call of fetchData, by a choice or by opening another server.
LEMMA FetchKeeps ==
  ASSUME LoadInv, NEW s \in LoadServers, NEW v \in Views \cup {Unset}, v.kind = "custom" => v.until <= clockNow,
         FetchData(s, v), UNCHANGED historyVars, uuid' = s, view' = v,
         metricData' \in {metricData, << >>}, remoteData' \in {remoteData, NoRows},
         v.kind = "realtime" => metricData' = << >>,
         v = Unset => metricData' = << >> /\ remoteData' = NoRows
  PROVE  LoadInv'
  <1>1. PastStays
    BY PastRests DEF LoadInv
  <1>0. PICK fetched : fetched = [n |-> turn + 1, of |-> s, view |-> v, at |-> clockNow, failed |-> FALSE,
                                leg |-> IF v.kind = "realtime" THEN "recent" ELSE "query"]
    OBVIOUS
  <1>2. /\ turn \in Nat /\ turn' = turn + 1 /\ strayed' = FALSE /\ clockNow \in Nat /\ clockNow' = clockNow
        /\ reads' = IF v.kind = "unset" THEN reads ELSE reads \cup {fetched}
    BY <1>0 DEF LoadInv, LoadTyped, FetchData, historyVars
  <1>3. v.kind = "unset" <=> v = Unset
    BY ViewKinds DEF Unset
  <1>4. v # Unset => v \in Views /\ fetched \in ReadRow
    BY <1>0, <1>2 DEF ReadRow
  <1>5. v # Unset => ReadFits(fetched)'
    BY <1>0, <1>2 DEF ReadFits
  <1>6. Held' \subseteq Held
    BY DEF Held
  <1>7. fetched.n = turn' /\ fetched.of = s /\ fetched.view = v /\ (fetched.leg # "query" => v.kind = "realtime")
    BY <1>0, <1>2
  <1>8. reads \subseteq ReadRow /\ (\A q \in reads : q.n <= turn) /\ (\A q \in reads : q.n \in Nat)
        /\ (\A d \in Held : d.n \in Nat /\ d.n <= turn)
    BY DEF LoadInv, LoadTyped, ShownHolds, ReadRow
  <1>9. LoadTyped'
    <2>1. reads' \subseteq ReadRow /\ \A q \in reads' : q.n <= turn'
      BY <1>2, <1>3, <1>4, <1>7, <1>8
    <2>2. \A p, q \in reads' : p.n = q.n => p = q
      BY <1>2, <1>7, <1>8 DEF LoadInv, LoadTyped
    <2>3. DOMAIN minutes' = 1..clockNow'
      BY DEF LoadInv, LoadTyped, historyVars
    <2>4. clockNow' \in Nat /\ turn' \in Nat /\ uuid' \in LoadServers
      BY <1>2
    <2>5. strayed' \in BOOLEAN
      BY Zenon DEF FetchData
    <2>6. view' \in Views \cup {Unset} /\ (view'.kind = "custom" => view'.until <= clockNow')
      BY <1>2
    <2> QED BY <2>1, <2>2, <2>3, <2>4, <2>5, <2>6 DEF LoadTyped
  <1>10. ReadsHold'
    BY <1>1, <1>2, <1>3, <1>5, HeldStays DEF ReadsHold
  <1>11. ShownHolds'
    BY <1>1, <1>2, <1>6, <1>8, HeldStays DEF ShownHolds
  <1>12. LatestHolds'
    <2>1. ASSUME NEW q \in reads' \cup Held', q.n = turn' PROVE q = fetched /\ q \in reads'
      BY <1>2, <1>6, <1>8, <2>1
    <2>2. \A q \in reads' \cup Held' : q.n = turn' => OfNow(q)'
      BY <1>7, <2>1 DEF OfNow
    <2>3. (\E q \in reads' : q.n = turn' /\ q.leg # "query") => metricData' = << >>
      BY <1>7, <2>1
    <2>4. (\A q \in reads' : q.n # turn') => metricData' = << >> /\ remoteData' = NoRows
      BY <1>2, <1>3, <1>7
    <2> QED BY <2>2, <2>3, <2>4 DEF LatestHolds
  <1> QED BY <1>9, <1>10, <1>11, <1>12 DEF LoadInv

\* An answer that is taken off the wire, with the rows it leaves.
LEMMA LandingKeeps ==
  ASSUME LoadInv, NEW q \in reads, Lands(q), reads' = reads \ {q}, UNCHANGED <<historyVars, uuid, view, turn>>,
         NEW d, LandedFits(d), d.n = q.n, d.of = q.of, d.view = q.view,
         metricData' \in {<< >>, <<d>>} \/ (metricData' = metricData /\ q.leg # "query"), remoteData' \in {NoRows, d}
  PROVE  LoadInv'
  <1>1. PastStays
    BY PastRests DEF LoadInv
  <1>2. /\ turn \in Nat /\ turn' = turn /\ uuid' = uuid /\ view' = view /\ clockNow' = clockNow /\ minutes' = minutes
        /\ strayed' = (strayed \/ q.n # turn) /\ strayed \in BOOLEAN
    BY DEF LoadInv, LoadTyped, Lands, historyVars
  <1>3. Held' \subseteq Held \cup {d}
    BY DEF Held
  <1>4. reads \subseteq ReadRow /\ q.n \in Nat /\ q.n <= turn
    BY DEF LoadInv, LoadTyped, ReadRow
  <1>5. LoadTyped'
    BY <1>2 DEF LoadInv, LoadTyped
  <1>6. ReadsHold'
    BY <1>1, HeldStays DEF ReadsHold
  <1>7. LandedFits(d)'
    BY <1>1, LandedFitsStays DEF LoadInv
  <1>8. ShownHolds'
    <2>1. \A e \in Held : LandedFits(e)' /\ e.n \in Nat /\ e.n <= turn'
      BY <1>1, <1>2, HeldStays DEF LoadInv, ShownHolds
    <2> QED BY <1>2, <1>3, <1>4, <1>7, <2>1 DEF ShownHolds
  <1>9. LatestHolds'
    <2>1. \A e : OfNow(e)' <=> OfNow(e)
      BY <1>2 DEF OfNow
    <2>2. OfNow(d) <=> OfNow(q)
      BY DEF OfNow
    <2>3. \A e \in reads' \cup Held' : e.n = turn' => OfNow(e)'
      <3>1. \A e \in reads \cup Held : e.n = turn => OfNow(e)
        BY DEF LoadInv, LatestHolds
      <3>2. d.n = turn => OfNow(d)
        BY <2>2, <3>1
      <3> QED BY <1>2, <1>3, <2>1, <3>1, <3>2
    <2>4. ASSUME ~strayed' PROVE ~strayed /\ q.n = turn /\ \A e \in reads' : e.n # turn
      BY <1>2, <2>4 DEF LoadInv, LoadTyped
    <2>5. ASSUME ~strayed' PROVE metricData' \in {<< >>, <<d>>}
      <3>1. q.leg # "query" => metricData = << >>
        BY <2>4, <2>5 DEF LoadInv, LatestHolds
      <3> QED BY <3>1
    <2>6. ~strayed' => IF metricData' = << >> THEN remoteData' = NoRows \/ remoteData'.n = turn' ELSE metricData'[1].n = turn'
      BY <1>2, <2>4, <2>5
    <2> QED BY <1>2, <2>3, <2>4, <2>6 DEF LatestHolds
  <1> QED BY <1>5, <1>6, <1>8, <1>9 DEF LoadInv

LEMMA FallBackKeeps ==
  ASSUME LoadInv, NEW q \in reads, NEW fails \in BOOLEAN, QueryFallsBack(q, fails)
  PROVE  LoadInv'
  <1>0. PICK p : p = [q EXCEPT !.leg = "records", !.failed = fails, !.at = clockNow]
    OBVIOUS
  <1>1. /\ reads' = (reads \ {q}) \cup {p} /\ metricData' = << >> /\ remoteData' = remoteData
        /\ UNCHANGED <<historyVars, uuid, view, turn>> /\ strayed' = (strayed \/ q.n # turn)
        /\ q.leg = "query" /\ (fails \/ ~HasCpuHistory(QueriedRows(q)))
    BY <1>0 DEF QueryFallsBack, Lands
  <1>2. q \in ReadRow /\ ReadFits(q) /\ clockNow \in Nat /\ turn \in Nat /\ q.n <= turn /\ strayed \in BOOLEAN
    BY DEF LoadInv, LoadTyped, ReadsHold
  <1>3. p \in ReadRow /\ p.n = q.n /\ p.of = q.of /\ p.view = q.view /\ p.at = clockNow /\ p.failed = fails /\ p.leg = "records"
    BY <1>0, <1>2 DEF ReadRow
  <1>4. PastStays
    BY <1>1, PastRests DEF LoadInv
  <1>5. q.view.kind = "custom" /\ ~fails => NoCpuIn(q.of, q.view, clockNow)
    <2> SUFFICES ASSUME q.view.kind = "custom", ~fails PROVE NoCpuIn(q.of, q.view, clockNow)
      OBVIOUS
    <2>1. NoCpuIn(q.of, q.view, q.at)
      BY <1>1, <1>2, QueriedFits
    <2>2. q.at \in Nat /\ q.at <= clockNow /\ q.view \in Views
      BY <1>2 DEF ReadRow, ReadFits
    <2>3. ReadTimes(q.view, clockNow) \subseteq ReadTimes(q.view, q.at)
      BY <1>2, <2>2, ViewKinds, LoadAssumption DEF ReadTimes
    <2> QED BY <2>1, <2>3 DEF NoCpuIn
  <1>6. ReadFits(p)
    <2>1. q.view.kind # "realtime" /\ (q.view.kind = "custom" => q.view.until <= clockNow)
      <3>1. q.view.kind = "custom" => q.view.until \in Nat /\ q.view.until <= q.at /\ q.at \in Nat /\ q.at <= clockNow
        BY <1>2, ViewKinds DEF ReadRow, ReadFits
      <3> QED BY <1>1, <1>2, <3>1 DEF ReadFits
    <2> QED BY <1>2, <1>3, <1>5, <2>1 DEF ReadFits
  <1>7. Held' \subseteq Held
    BY <1>1 DEF Held
  <1>8. LoadTyped'
    <2>1. \A a, b \in reads' : a.n = b.n => a = b
      BY <1>1, <1>3 DEF LoadInv, LoadTyped
    <2>2. reads' \subseteq ReadRow /\ \A a \in reads' : a.n <= turn'
      BY <1>1, <1>2, <1>3 DEF LoadInv, LoadTyped
    <2> QED BY <1>1, <1>2, <2>1, <2>2 DEF LoadInv, LoadTyped, historyVars
  <1>9. ReadsHold'
    <2>1. ReadFits(p)'
      BY <1>3, <1>4, <1>6, ReadFitsStays DEF LoadInv
    <2> QED BY <1>1, <1>4, <2>1, HeldStays DEF ReadsHold
  <1>10. ShownHolds'
    BY <1>1, <1>4, <1>7, HeldStays DEF LoadInv, ShownHolds
  <1>11. LatestHolds'
    <2>1. \A e : OfNow(e)' <=> OfNow(e)
      BY <1>1 DEF OfNow
    <2>2. p.n = turn => OfNow(p)
      <3>1. q.n = turn => OfNow(q)
        BY DEF LoadInv, LatestHolds
      <3> QED BY <1>3, <3>1 DEF OfNow
    <2>3. \A e \in reads' \cup Held' : e.n = turn' => OfNow(e)'
      BY <1>1, <1>7, <2>1, <2>2 DEF LoadInv, LatestHolds
    <2>4. ~strayed' => p \in reads' /\ p.n = turn'
      BY <1>1, <1>3
    <2> QED BY <1>1, <2>3, <2>4 DEF LatestHolds
  <1> QED BY <1>8, <1>9, <1>10, <1>11 DEF LoadInv

LEMMA ChooseKeeps == ASSUME LoadInv, ChooseCustom PROVE LoadInv'
  <1>1. /\ view' = Unset /\ UNCHANGED <<historyVars, uuid, turn, reads, metricData, remoteData, strayed>>
    BY DEF ChooseCustom, Unset
  <1>2. PastStays
    BY <1>1, PastRests DEF LoadInv
  <1>3. Held' = Held
    BY <1>1 DEF Held
  <1>4. LoadTyped'
    BY <1>1 DEF LoadInv, LoadTyped, historyVars, Unset
  <1>5. ReadsHold' /\ ShownHolds'
    BY <1>1, <1>2, <1>3, HeldStays DEF LoadInv, ReadsHold, ShownHolds
  <1>6. \A e : OfNow(e) => OfNow(e)'
    BY <1>1 DEF OfNow
  <1>7. LatestHolds'
    BY <1>1, <1>3, <1>6 DEF LoadInv, LatestHolds
  <1> QED BY <1>4, <1>5, <1>7 DEF LoadInv

LEMMA MinuteKeeps == ASSUME LoadInv, NEW report, MinutePasses(report) PROVE LoadInv'
  <1>1. UNCHANGED <<published, uuid, view, turn, reads, metricData, remoteData, strayed>>
    BY DEF MinutePasses
  <1>2. PastStays /\ DOMAIN minutes' = 1..clockNow'
    BY MinuteAdds DEF LoadInv
  <1>3. Held' = Held
    BY <1>1 DEF Held
  <1>4. LoadTyped'
    <2>1. view.kind = "custom" => view.until \in Nat
      BY ViewKinds DEF LoadInv, LoadTyped, Unset
    <2> QED BY <1>1, <1>2, <2>1 DEF LoadInv, LoadTyped, PastStays
  <1>5. ReadsHold' /\ ShownHolds'
    BY <1>1, <1>2, <1>3, HeldStays DEF LoadInv, ReadsHold, ShownHolds
  <1>6. \A e : OfNow(e) => OfNow(e)'
    BY <1>1 DEF OfNow
  <1>7. LatestHolds'
    BY <1>1, <1>3, <1>6 DEF LoadInv, LatestHolds
  <1> QED BY <1>4, <1>5, <1>7 DEF LoadInv

LEMMA LoadStarts == LoadInit => LoadInv
  <1> SUFFICES ASSUME LoadInit PROVE LoadInv
    OBVIOUS
  <1>1. Held = {} /\ reads = {} /\ view \in Views /\ view.kind = "realtime"
    BY DEF LoadInit, Held, Views
  <1>2. LoadTyped
    BY <1>1, LoadAssumption DEF LoadInit, LoadTyped
  <1> QED BY <1>1, <1>2 DEF LoadInit, LoadInv, ReadsHold, ShownHolds, LatestHolds

LEMMA LoadStep == LoadInv /\ [LoadNext]_loadVars => LoadInv'
  <1> SUFFICES ASSUME LoadInv, [LoadNext]_loadVars PROVE LoadInv'
    OBVIOUS
  <1>1. ASSUME NEW r \in MinuteReports, MinutePasses(r) PROVE LoadInv'
    BY <1>1, MinuteKeeps
  <1>2. ASSUME NEW v \in Views, v.kind = "custom" => v.until <= clockNow, LookAt(v) PROVE LoadInv'
    <2>1. uuid \in LoadServers /\ v # Unset
      BY ViewKinds DEF LoadInv, LoadTyped, Unset
    <2>2. /\ FetchData(uuid, v) /\ UNCHANGED historyVars /\ uuid' = uuid /\ view' = v /\ remoteData' = remoteData
          /\ metricData' = IF v.kind = "realtime" THEN << >> ELSE metricData
      BY <1>2 DEF LookAt
    <2> QED BY <1>2, <2>1, <2>2, FetchKeeps
  <1>3. LookAt([kind |-> "realtime"]) => LoadInv'
    <2>1. [kind |-> "realtime"] \in Views
      BY DEF Views
    <2> QED BY <1>2, <2>1
  <1>4. ASSUME NEW s \in LoadSpans, LookAt([kind |-> "preset", span |-> s]) PROVE LoadInv'
    <2>1. [kind |-> "preset", span |-> s] \in Views
      BY DEF Views
    <2> QED BY <1>2, <1>4, <2>1
  <1>5. ASSUME NEW a \in 1..clockNow, NEW b \in 1..clockNow, a < b, LookAt([kind |-> "custom", from |-> a, until |-> b])
        PROVE  LoadInv'
    <2> DEFINE v == [kind |-> "custom", from |-> a, until |-> b]
    <2>1. clockNow \in Nat
      BY DEF LoadInv, LoadTyped
    <2>2. v \in [kind : {"custom"}, from : Nat \ {0}, until : Nat] /\ v.from < v.until /\ v.until <= clockNow
      BY <1>5, <2>1
    <2>3. v \in Views
      BY <2>2 DEF Views
    <2> QED BY <1>2, <1>5, <2>2, <2>3
  <1>6. ASSUME NEW s \in LoadServers, OpenServer(s) PROVE LoadInv'
    <2>1. /\ FetchData(s, view) /\ UNCHANGED historyVars /\ uuid' = s /\ view' = view
          /\ metricData' = << >> /\ remoteData' = NoRows
      BY <1>6 DEF OpenServer
    <2>2. view \in Views \cup {Unset} /\ (view.kind = "custom" => view.until <= clockNow)
      BY DEF LoadInv, LoadTyped
    <2> QED BY <2>1, <2>2, FetchKeeps
  <1>7. ASSUME NEW q \in reads, RecordsLand(q) \/ RecordsFail(q) PROVE LoadInv'
    <2> DEFINE d == Landed(q, RecordRowsOf(q))
    <2>1. LandedFits(d)
      BY <1>7, RecordsFit DEF LoadInv, LoadTyped, ReadsHold, RecordsLand, RecordsFail
    <2>2. d.n = q.n /\ d.of = q.of /\ d.view = q.view
      BY DEF Landed
    <2>3. /\ q.leg # "query" /\ Lands(q) /\ reads' = reads \ {q} /\ UNCHANGED <<historyVars, uuid, view, turn>>
          /\ metricData' \in {metricData, << >>} /\ remoteData' \in {NoRows, d}
      BY <1>7 DEF RecordsLand, RecordsFail
    <2> HIDE DEF d
    <2> QED BY <2>1, <2>2, <2>3, LandingKeeps
  <1>8. ASSUME NEW q \in reads, QueryLands(q) PROVE LoadInv'
    <2> DEFINE d == Landed(q, QueriedRows(q))
    <2>1. LandedFits(d)
      BY <1>8, QueriedFits DEF LoadInv, LoadTyped, ReadsHold, QueryLands
    <2>2. d.n = q.n /\ d.of = q.of /\ d.view = q.view
      BY DEF Landed
    <2>3. /\ Lands(q) /\ reads' = reads \ {q} /\ UNCHANGED <<historyVars, uuid, view, turn>>
          /\ metricData' = <<d>> /\ remoteData' = NoRows
      BY <1>8 DEF QueryLands
    <2> HIDE DEF d
    <2> QED BY <2>1, <2>2, <2>3, LandingKeeps
  <1>9. ASSUME UNCHANGED loadVars PROVE LoadInv'
    <2>1. PastStays
      BY <1>9, PastRests DEF LoadInv, loadVars, historyVars
    <2>2. Held' = Held /\ \A e : OfNow(e)' <=> OfNow(e)
      BY <1>9 DEF loadVars, Held, OfNow
    <2>3. LoadTyped' /\ LatestHolds'
      BY <1>9, <2>2 DEF LoadInv, LoadTyped, LatestHolds, loadVars
    <2> QED BY <1>9, <2>1, <2>2, <2>3, HeldStays DEF LoadInv, ReadsHold, ShownHolds, loadVars
  <1>10. ASSUME NEW q \in reads, NEW fails \in BOOLEAN, QueryFallsBack(q, fails) PROVE LoadInv'
    BY <1>10, FallBackKeeps
  <1>11. ChooseCustom => LoadInv'
    BY ChooseKeeps
  <1> QED BY <1>1, <1>3, <1>4, <1>5, <1>6, <1>7, <1>8, <1>9, <1>10, <1>11 DEF LoadNext

LEMMA LoadInvariant == LoadSpec => []LoadInv
  BY LoadStarts, LoadStep, PTL DEF LoadSpec

\* What the chart draws is an answer it holds, or nothing.
LEMMA DataIsHeld ==
  /\ ChartData = NoRows \/ ChartData \in Held
  /\ LoadInv => \A t \in DOMAIN ChartRows : RowHolds(ChartRows[t], ChartData.of, t)
  <1>1. ChartData = NoRows \/ ChartData \in Held
    BY DEF ChartData, Held
  <1>2. DOMAIN NoRows.rows = {}
    BY DEF NoRows
  <1> QED BY <1>1, <1>2 DEF ChartRows, LoadInv, ShownHolds, LandedFits

LEMMA RowsAreMeasured == LoadInv => LoadIsMeasured
  <1> SUFFICES ASSUME LoadInv, NEW t \in DOMAIN ChartRows
               PROVE  LET rec == ChartRows[t]
                          M(key) == Measured(ChartData.of, t, key)
                      IN
      /\ IsChartCardEnabled("cpu") => CpuChartOption(rec)[1] = M("cpu")
      /\ IsChartCardEnabled("cpu") /\ "system" \in published => CpuChartOption(rec)[2] = M("load")
      /\ IsChartCardEnabled("memory") =>
           /\ MemoryChartOption(rec)[1] = M("ram") /\ MemoryChartOption(rec)[3] = M("swap")
           /\ MemoryChartOption(rec)[2] = OrElse(M("ram_total"), Capacity(uuid, "ram_total"))
      /\ IsChartCardEnabled("network") =>
           /\ M("net_in") # Void => NetworkChartOption(rec)[1] = M("net_in")
           /\ M("net_out") # Void => NetworkChartOption(rec)[2] = M("net_out")
      /\ IsChartCardEnabled("connections") =>
           ConnectionsChartOption(rec) = <<M("connections"), M("connections_udp")>>
      /\ IsChartCardEnabled("process") => ProcessChartOption(rec) = <<M("process")>>
    BY DEF LoadIsMeasured
  <1>1. \A f \in Measures : LoadFields[f].section \in published => ChartRows[t][f] = Measured(ChartData.of, t, f)
    BY DataIsHeld DEF RowHolds, MetricDefinitions, RecordFields
  <1>2. /\ IsChartCardEnabled("cpu") => "cpu" \in published
        /\ IsChartCardEnabled("memory") => "memory" \in published
        /\ IsChartCardEnabled("network") => "network" \in published
        /\ IsChartCardEnabled("connections") => "system" \in published
        /\ IsChartCardEnabled("process") => "system" \in published
    BY DEF IsChartCardEnabled, ChartCards
  <1> QED BY <1>1, <1>2, MeasureFacts
          DEF CpuChartOption, MemoryChartOption, NetworkChartOption, ConnectionsChartOption, ProcessChartOption, OrElse

LEMMA LatestStaysDrawn == LoadInv => LatestCallIsDrawn
  <1> SUFFICES ASSUME LoadInv, ~strayed, \A q \in reads : q.n # turn, DOMAIN ChartRows # {}
               PROVE  ChartData.n = turn /\ ChartData.of = uuid /\ (ChartData.view = view \/ view.kind = "unset")
    BY DEF LatestCallIsDrawn
  <1>1. ChartData # NoRows
    BY DEF ChartRows, NoRows
  <1>2. ChartData \in Held /\ ChartData.n = turn
    BY <1>1, DataIsHeld DEF ChartData, LoadInv, LatestHolds
  <1>3. OfNow(ChartData)
    BY <1>2 DEF LoadInv, LatestHolds
  <1> QED BY <1>2, <1>3 DEF OfNow, Unset

LEMMA RangeStaysShown == LoadInv => RangeIsShown
  <1>1. IsChartCardEnabled("cpu") => "cpu" \in published
    BY DEF IsChartCardEnabled, ChartCards
  <1>2. LoadInv /\ ChartData # NoRows => LandedFits(ChartData)
    BY DataIsHeld DEF LoadInv, ShownHolds
  <1> QED BY <1>1, <1>2 DEF LandedFits, NoCpuIn, RangeIsShown, ReadTimes, ChartRows

LEMMA HiddenStaysHidden == LoadInv => HiddenIsNotDrawn
  <1> SUFFICES ASSUME LoadInv, NEW t \in DOMAIN ChartRows, NEW f \in RecordFields,
                      IF f \in Measures THEN LoadFields[f].section \notin published
                      ELSE f \notin DOMAIN Capacities \/ Capacities[f] \notin published
               PROVE  ChartRows[t][f] = Void
    BY DEF HiddenIsNotDrawn
  <1>1. f \notin MetricDefinitions
    BY DEF MetricDefinitions
  <1>2. ChartRows[t][f] = Void \/ (f \in DOMAIN Capacities /\ Capacities[f] \in published)
    BY <1>1, DataIsHeld DEF RowHolds
  <1>3. f \in DOMAIN Capacities => Capacities[f] \notin published
    BY MeasureFacts, CapacityFacts
  <1> QED BY <1>2, <1>3

LEMMA HeadIsOfTheLast == LoadInv => LatestIsTheLast
  <1> SUFFICES ASSUME LoadInv, NEW k \in Measures \ DOMAIN Capacities, LatestStatus(k) # Void
               PROVE  LatestStatus(k) = <<ChartData.of, Max(DOMAIN ChartRows)>>
    BY DEF LatestIsTheLast
  <1> DEFINE last == Max(DOMAIN ChartRows)
  <1>1. DOMAIN ChartRows # {} /\ LatestStatus(k) = ChartRows[last][k]
    BY DEF LatestStatus
  <1>2. ChartData # NoRows
    BY <1>1 DEF ChartRows, NoRows
  <1>3. ChartData.at \in Nat /\ DOMAIN ChartRows \subseteq 1..ChartData.at
    BY <1>2, DataIsHeld DEF LoadInv, ShownHolds, LandedFits, ChartRows
  <1>4. last \in DOMAIN ChartRows
    BY <1>1, <1>3, MaxInSet
  <1>5. ChartRows[last][k] = Measured(ChartData.of, last, k) \/ ChartRows[last][k] = Void
    BY <1>4, DataIsHeld DEF RowHolds, RecordFields
  <1> QED BY <1>1, <1>5 DEF Measured

-----------------------------------------------------------------------------
(* ReviewSession.  The inductive invariant follows the reviews by their     *)
(* numbers: one that is still on the wire is nowhere else and was not       *)
(* carried out, and one that was carried out is older than the world, so    *)
(* that the comparison of revisions refuses it from then on.                *)
ReviewRow == [n : Nat, of : Nat, seen : Nat]
AskedRow == [at : {"sent", "served"}, counts : BOOLEAN, review : ReviewRow]
CommitRow ==
  [at : {"no", "sent", "read", "writing", "done", "refused", "closed"}, of : Nat, seen : Nat, shown : ReviewRow,
   read : Nat, config : Nat, left : Nat]

ReviewTyped ==
  /\ desk \in ReviewProfiles
  /\ proposal \in Nat /\ world \in Nat \ {0} /\ config \in Nat
  /\ asked \subseteq AskedRow
  /\ review \in ReviewRow /\ confirm \in ReviewRow /\ commit \in CommitRow
  /\ made \subseteq Nat /\ (\A n \in made : n <= tally.reviews)
  /\ tally \in [worlds : Nat, reviews : Nat, lost : Nat, sent : BOOLEAN]

\* A review on the wire has a number of its own and was not carried out; on a page
\* of the "newest" kind the one that counts is of the present choice.
OnTheWire(q) ==
  /\ q.review.n \in 1..tally.reviews /\ q.review.n \notin made
  /\ q.review.seen <= world
  /\ q.counts /\ desk.tied = "newest" => q.review.of = proposal

WireHolds ==
  /\ \A q \in asked : OnTheWire(q)
  /\ \A p, q \in asked : p.review.n = q.review.n => p = q

\* A review that has arrived is not on the wire any more, and is out of date once
\* it was carried out.
Arrived(r) ==
  /\ r.n <= tally.reviews /\ r.seen <= world
  /\ r.n \in made => r.seen < world
  /\ \A q \in asked : q.review.n # r.n

ReviewsHold == Arrived(review) /\ Arrived(confirm) /\ Arrived(commit.shown)

\* The request carries what was approved.  A plan that was read after its review
\* was carried out is another one; while records are written, it is the one reviewed
\* and the panel's own part of it has not changed.
CommitHolds ==
  /\ commit.seen = commit.shown.seen
  /\ desk.checked => commit.of = commit.shown.of
  /\ commit.at = "read" /\ commit.shown.n \in made => commit.shown.seen < commit.read
  /\ commit.at = "writing" => commit.read = commit.seen /\ commit.config = config /\ commit.left # 0

\* With no answer due that counts, the price is that of the choice.
QuoteHolds ==
  desk.tied = "newest" /\ (\A q \in asked : ~q.counts) => review = NoReview \/ review.of = proposal

ReviewInv == ReviewTyped /\ WireHolds /\ ReviewsHold /\ CommitHolds /\ QuoteHolds

-----------------------------------------------------------------------------
\* A step that asks for nothing, moves neither world nor proposal, and carries
\* nothing out.
Still == UNCHANGED <<desk, proposal, world, config, made>> /\ tally'.reviews = tally.reviews
         /\ tally' \in [worlds : Nat, reviews : Nat, lost : Nat, sent : BOOLEAN]

LEMMA NoReviewIsRow == NoReview \in ReviewRow /\ NoCommit \in CommitRow
  BY DEF NoReview, NoCommit, ReviewRow, CommitRow

LEMMA NothingArrived == ASSUME ReviewInv PROVE Arrived(NoReview)
  BY DEF ReviewInv, ReviewTyped, WireHolds, OnTheWire, Arrived, NoReview, AskedRow, ReviewRow

\* Reviews that have arrived are looked at, opened, sent and dropped.
LEMMA ArrivedMoves ==
  ASSUME ReviewInv, Still, UNCHANGED asked,
         review' = review \/ review' = NoReview,
         confirm' \in {confirm, review, NoReview},
         commit' \in CommitRow, commit'.shown \in {commit.shown, review, confirm, NoReview},
         CommitHolds'
  PROVE  ReviewInv'
  <1>1. ReviewTyped'
    BY NoReviewIsRow DEF ReviewInv, ReviewTyped, Still
  <1>2. WireHolds'
    BY DEF ReviewInv, WireHolds, OnTheWire, Still
  <1>3. ASSUME NEW r, Arrived(r)
        PROVE  r.n <= tally'.reviews /\ r.seen <= world' /\ (r.n \in made' => r.seen < world')
               /\ \A q \in asked' : q.review.n # r.n
    BY <1>3 DEF Arrived, Still
  <1>4. ReviewsHold'
    <2>1. Arrived(review) /\ Arrived(confirm) /\ Arrived(commit.shown) /\ Arrived(NoReview)
      BY NothingArrived DEF ReviewInv, ReviewsHold
    <2>2. Arrived(review)'
      BY <1>3, <2>1 DEF Arrived
    <2>3. Arrived(confirm)'
      BY <1>3, <2>1 DEF Arrived
    <2>4. Arrived(commit.shown)'
      BY <1>3, <2>1 DEF Arrived
    <2> QED BY <2>2, <2>3, <2>4 DEF ReviewsHold
  <1>5. QuoteHolds'
    BY DEF ReviewInv, QuoteHolds, Still
  <1> QED BY <1>1, <1>2, <1>4, <1>5 DEF ReviewInv

LEMMA ConfirmKeeps == ASSUME ReviewInv, OpenConfirm PROVE ReviewInv'
  <1>1. Still /\ UNCHANGED <<asked, review, commit>> /\ confirm' = review /\ commit' \in CommitRow
    BY DEF OpenConfirm, Still, ReviewInv, ReviewTyped
  <1>2. CommitHolds'
    BY <1>1 DEF ReviewInv, CommitHolds, Still
  <1> QED BY <1>1, <1>2, ArrivedMoves

LEMMA CommitKeeps == ASSUME ReviewInv, Commit PROVE ReviewInv'
  <1>1. /\ desk \in ReviewProfiles /\ review \in ReviewRow /\ confirm \in ReviewRow /\ proposal \in Nat
        /\ tally \in [worlds : Nat, reviews : Nat, lost : Nat, sent : BOOLEAN]
    BY DEF ReviewInv, ReviewTyped
  <1>2. Approved \in ReviewRow /\ Approved \in {confirm, review}
    BY <1>1 DEF Approved
  <1>3. commit' = Sent /\ confirm' = NoReview /\ tally' = [tally EXCEPT !.sent = TRUE]
        /\ UNCHANGED <<desk, proposal, world, config, asked, review, made>>
    BY DEF Commit
  <1>4. Still
    BY <1>1, <1>3 DEF Still
  <1>5. /\ Sent \in CommitRow /\ Sent.shown = Approved /\ Sent.seen = Approved.seen /\ Sent.at = "sent"
        /\ desk.checked => Sent.of = Approved.of
    BY <1>1, <1>2, ReviewPages DEF Sent, NoCommit, NoReview, CommitRow, ReviewRow
  <1>6. CommitHolds'
    BY <1>3, <1>5 DEF CommitHolds
  <1> QED BY <1>2, <1>3, <1>4, <1>5, <1>6, ArrivedMoves

LEMMA EndsKeep == ASSUME ReviewInv, CommitSucceeds \/ CommitFails PROVE ReviewInv'
  <1>1. commit \in CommitRow /\ tally \in [worlds : Nat, reviews : Nat, lost : Nat, sent : BOOLEAN]
    BY DEF ReviewInv, ReviewTyped
  <1>2. CASE CommitSucceeds
    <2>1. /\ commit' = (IF desk.atomic THEN [commit EXCEPT !.at = "closed"] ELSE NoCommit)
          /\ UNCHANGED <<desk, proposal, world, config, asked, review, confirm, made, tally>>
      BY <1>2 DEF CommitSucceeds
    <2>2. Still
      BY <1>1, <2>1 DEF Still
    <2>3. CASE desk.atomic
      <3>1. /\ commit' \in CommitRow /\ commit'.shown = commit.shown /\ commit'.seen = commit.seen
            /\ commit'.of = commit.of /\ commit'.at = "closed"
        BY <1>1, <2>1, <2>3 DEF CommitRow
      <3>2. CommitHolds'
        BY <2>1, <3>1 DEF ReviewInv, CommitHolds
      <3> QED BY <2>1, <2>2, <3>1, <3>2, ArrivedMoves
    <2>4. CASE ~desk.atomic
      <3>1. commit' \in CommitRow /\ commit'.shown = NoReview /\ CommitHolds'
        BY <2>1, <2>4, NoReviewIsRow DEF CommitHolds, NoCommit, NoReview
      <3> QED BY <2>1, <2>2, <3>1, ArrivedMoves
    <2> QED BY <2>3, <2>4
  <1>3. CASE CommitFails
    <2>1. /\ commit' = NoCommit /\ (review' = review \/ review' = NoReview)
          /\ UNCHANGED <<desk, proposal, world, config, asked, confirm, made>>
          /\ tally' = [tally EXCEPT !.lost = @ + IF commit.at = "refused" THEN 0 ELSE 1]
      BY <1>3 DEF CommitFails
    <2>2. Still
      BY <1>1, <2>1 DEF Still
    <2>3. commit' \in CommitRow /\ commit'.shown = NoReview /\ CommitHolds'
      BY <2>1, NoReviewIsRow DEF CommitHolds, NoCommit, NoReview
    <2> QED BY <2>1, <2>2, <2>3, ArrivedMoves
  <1> QED BY <1>2, <1>3

\* The world moves on, by itself or because a commit is accepted: the review that
\* was carried out is older than the world from then on.
LEMMA WorldKeeps ==
  ASSUME ReviewInv, world' = world + 1, made' = made \/ made' = made \cup {commit.shown.n},
         config' \in Nat, UNCHANGED <<desk, proposal, asked, review, confirm>>,
         commit' \in CommitRow, commit'.shown = commit.shown, CommitHolds',
         tally'.reviews = tally.reviews,
         tally' \in [worlds : Nat, reviews : Nat, lost : Nat, sent : BOOLEAN]
  PROVE  ReviewInv'
  <1>1. /\ world \in Nat \ {0} /\ commit.shown \in ReviewRow /\ Arrived(commit.shown)
        /\ review \in ReviewRow /\ confirm \in ReviewRow
    BY DEF ReviewInv, ReviewTyped, ReviewsHold, CommitRow
  <1>2. commit.shown.n \in Nat /\ commit.shown.n <= tally.reviews
        /\ \A q \in asked : q.review.n # commit.shown.n
    BY <1>1 DEF Arrived, ReviewRow
  <1>3. ReviewTyped'
    <2>1. made' \subseteq Nat /\ \A n \in made' : n <= tally'.reviews
      BY <1>2 DEF ReviewInv, ReviewTyped
    <2>2. world' \in Nat \ {0}
      BY <1>1
    <2> QED BY <2>1, <2>2 DEF ReviewInv, ReviewTyped
  <1>4. WireHolds'
    <2>1. ASSUME NEW q \in asked PROVE OnTheWire(q)'
      <3>1. OnTheWire(q) /\ q.review.seen \in Nat
        BY DEF ReviewInv, ReviewTyped, WireHolds, AskedRow, ReviewRow
      <3> QED BY <1>1, <1>2, <3>1 DEF OnTheWire
    <2> QED BY <2>1 DEF ReviewInv, WireHolds
  <1>5. ASSUME NEW r \in ReviewRow, Arrived(r)
        PROVE  r.n <= tally'.reviews /\ r.seen < world' /\ \A q \in asked' : q.review.n # r.n
    BY <1>1, <1>5 DEF Arrived, ReviewRow
  <1>6. ReviewsHold'
    <2>1. Arrived(review)'
      <3>1. Arrived(review)
        BY DEF ReviewInv, ReviewsHold
      <3> QED BY <1>1, <1>5, <3>1 DEF Arrived, ReviewRow
    <2>2. Arrived(confirm)'
      <3>1. Arrived(confirm)
        BY DEF ReviewInv, ReviewsHold
      <3> QED BY <1>1, <1>5, <3>1 DEF Arrived, ReviewRow
    <2>3. Arrived(commit.shown)'
      BY <1>1, <1>5 DEF Arrived, ReviewRow
    <2> QED BY <2>1, <2>2, <2>3 DEF ReviewsHold
  <1>7. QuoteHolds'
    BY DEF ReviewInv, QuoteHolds
  <1> QED BY <1>3, <1>4, <1>6, <1>7 DEF ReviewInv

LEMMA ServeKeeps == ASSUME ReviewInv, ServeCommit PROVE ReviewInv'
  <1>1. /\ commit \in CommitRow
        /\ tally \in [worlds : Nat, reviews : Nat, lost : Nat, sent : BOOLEAN]
    BY DEF ReviewInv, ReviewTyped
  <1>2. UNCHANGED <<desk, proposal, config, asked, review, confirm, tally>> /\ config \in Nat
    BY DEF ServeCommit, ReviewInv, ReviewTyped
  <1>3. ASSUME NEW at \in {"done", "refused"}, commit' = [commit EXCEPT !.at = at]
        PROVE  commit' \in CommitRow /\ commit'.shown = commit.shown /\ CommitHolds'
    <2>1. /\ commit' \in CommitRow /\ commit'.shown = commit.shown /\ commit'.seen = commit.seen
          /\ commit'.of = commit.of /\ commit'.at = at
      BY <1>1, <1>3 DEF CommitRow
    <2> QED BY <1>2, <2>1 DEF ReviewInv, CommitHolds
  <1>4. CASE Accepts
    <2>1. /\ world' = world + 1 /\ made' = made \cup {commit.shown.n}
          /\ commit' = [commit EXCEPT !.at = "done"]
      BY <1>4 DEF ServeCommit
    <2> QED BY <1>1, <1>2, <1>3, <2>1, WorldKeeps
  <1>5. CASE ~Accepts
    <2>1. UNCHANGED <<world, made>> /\ commit' = [commit EXCEPT !.at = "refused"]
      BY <1>5 DEF ServeCommit
    <2>2. Still
      BY <1>1, <1>2, <2>1 DEF Still
    <2> QED BY <1>2, <1>3, <2>1, <2>2, ArrivedMoves
  <1> QED BY <1>4, <1>5

LEMMA WorldMovesKeeps == ASSUME ReviewInv, NEW inside \in BOOLEAN, WorldMoves(inside) PROVE ReviewInv'
  <1>1. /\ commit \in CommitRow /\ config \in Nat
        /\ tally \in [worlds : Nat, reviews : Nat, lost : Nat, sent : BOOLEAN]
    BY DEF ReviewInv, ReviewTyped
  <1>2. /\ world' = world + 1 /\ tally' = [tally EXCEPT !.worlds = @ + 1]
        /\ config' = config + (IF inside THEN 1 ELSE 0) /\ (inside => commit.at # "writing")
        /\ UNCHANGED <<desk, proposal, asked, review, confirm, commit, made>>
    BY DEF WorldMoves
  <1>3. /\ tally'.reviews = tally.reviews
        /\ tally' \in [worlds : Nat, reviews : Nat, lost : Nat, sent : BOOLEAN]
    BY <1>1, <1>2
  <1>4. config' \in Nat /\ (commit.at = "writing" => config' = config)
    BY <1>1, <1>2
  <1>5. CommitHolds'
    BY <1>2, <1>4 DEF ReviewInv, CommitHolds
  <1> QED BY <1>1, <1>2, <1>3, <1>4, <1>5, WorldKeeps

\* The plan of a sync is read, compared, and written record by record.
LEMMA ReadKeeps == ASSUME ReviewInv, ReadPlan PROVE ReviewInv'
  <1>1. /\ commit \in CommitRow /\ config \in Nat /\ world \in Nat
        /\ tally \in [worlds : Nat, reviews : Nat, lost : Nat, sent : BOOLEAN]
    BY DEF ReviewInv, ReviewTyped
  <1>2. /\ commit' = [commit EXCEPT !.at = "read", !.read = world, !.config = config]
        /\ UNCHANGED <<desk, proposal, world, config, asked, review, confirm, made, tally>>
    BY DEF ReadPlan
  <1>3. /\ commit' \in CommitRow /\ commit'.shown = commit.shown /\ commit'.seen = commit.seen
        /\ commit'.of = commit.of /\ commit'.at = "read" /\ commit'.read = world
    BY <1>1, <1>2 DEF CommitRow
  <1>4. Still
    BY <1>1, <1>2 DEF Still
  <1>5. CommitHolds'
    BY <1>2, <1>3 DEF ReviewInv, CommitHolds, ReviewsHold, Arrived
  <1> QED BY <1>2, <1>3, <1>4, <1>5, ArrivedMoves

LEMMA ApplyKeeps == ASSUME ReviewInv, NEW records \in 1..MaxRecords, ApplyPlan(records) PROVE ReviewInv'
  <1>1. /\ commit \in CommitRow /\ records \in Nat /\ records # 0
        /\ tally \in [worlds : Nat, reviews : Nat, lost : Nat, sent : BOOLEAN]
    BY DEF ReviewInv, ReviewTyped
  <1>2. UNCHANGED <<desk, proposal, world, config, asked, review, confirm, made, tally>>
    BY DEF ApplyPlan
  <1>3. Still
    BY <1>1, <1>2 DEF Still
  <1>4. CASE commit.config = config /\ commit.read = commit.seen
    <2>1. commit' = [commit EXCEPT !.at = "writing", !.left = records]
      BY <1>4 DEF ApplyPlan
    <2>2. /\ commit' \in CommitRow /\ commit'.shown = commit.shown /\ commit'.seen = commit.seen
          /\ commit'.of = commit.of /\ commit'.at = "writing" /\ commit'.left = records
          /\ commit'.read = commit.read /\ commit'.config = commit.config
      BY <1>1, <2>1 DEF CommitRow
    <2>3. CommitHolds'
      BY <1>1, <1>2, <1>4, <2>2 DEF ReviewInv, CommitHolds
    <2> QED BY <1>2, <1>3, <2>2, <2>3, ArrivedMoves
  <1>5. CASE ~(commit.config = config /\ commit.read = commit.seen)
    <2>1. commit' = [commit EXCEPT !.at = "refused"]
      BY <1>5 DEF ApplyPlan
    <2>2. /\ commit' \in CommitRow /\ commit'.shown = commit.shown /\ commit'.seen = commit.seen
          /\ commit'.of = commit.of /\ commit'.at = "refused"
      BY <1>1, <2>1 DEF CommitRow
    <2>3. CommitHolds'
      BY <1>2, <2>2 DEF ReviewInv, CommitHolds
    <2> QED BY <1>2, <1>3, <2>2, <2>3, ArrivedMoves
  <1> QED BY <1>4, <1>5

LEMMA WriteKeeps == ASSUME ReviewInv, NEW written \in BOOLEAN, WriteRecord(written) PROVE ReviewInv'
  <1>1. /\ commit \in CommitRow /\ config \in Nat /\ commit.at = "writing" /\ CommitHolds
        /\ tally \in [worlds : Nat, reviews : Nat, lost : Nat, sent : BOOLEAN]
    BY DEF ReviewInv, ReviewTyped, WriteRecord
  <1>2. commit.left \in Nat /\ commit.left # 0
    BY <1>1 DEF CommitHolds, CommitRow
  <1>3. /\ commit' = [commit EXCEPT !.left = commit.left - 1, !.at = IF commit.left = 1 THEN "done" ELSE "writing"]
        /\ UNCHANGED <<desk, proposal, config, asked, review, confirm, tally>>
    BY DEF WriteRecord
  <1>4. /\ commit' \in CommitRow /\ commit'.shown = commit.shown /\ commit'.seen = commit.seen
        /\ commit'.of = commit.of /\ commit'.read = commit.read /\ commit'.config = commit.config
        /\ commit'.left = commit.left - 1 /\ commit'.at = IF commit.left = 1 THEN "done" ELSE "writing"
    <2> DEFINE end == IF commit.left = 1 THEN "done" ELSE "writing"
               less == commit.left - 1
    <2>1. end \in {"done", "writing"} /\ less \in Nat
      BY <1>2
    <2>2. commit' = [commit EXCEPT !.left = less, !.at = end]
      BY <1>3
    <2> HIDE DEF end, less
    <2>3. /\ commit' \in CommitRow /\ commit'.shown = commit.shown /\ commit'.seen = commit.seen
          /\ commit'.of = commit.of /\ commit'.read = commit.read /\ commit'.config = commit.config
          /\ commit'.left = less /\ commit'.at = end
      BY <1>1, <2>1, <2>2 DEF CommitRow
    <2> QED BY <2>3 DEF end, less
  <1>5. CommitHolds'
    <2>1. commit'.at # "read" /\ (commit'.at = "writing" => commit'.left # 0)
      BY <1>2, <1>4
    <2>2. commit.seen = commit.shown.seen /\ (desk.checked => commit.of = commit.shown.of)
          /\ commit.read = commit.seen /\ commit.config = config
      BY <1>1 DEF CommitHolds
    <2>3. desk' = desk /\ config' = config
      BY <1>3
    <2> QED BY <1>4, <2>1, <2>2, <2>3 DEF CommitHolds
  <1>6. CASE written
    <2>1. world' = world + 1 /\ made' = made \cup {commit.shown.n}
      BY <1>6 DEF WriteRecord
    <2> QED BY <1>1, <1>3, <1>4, <1>5, <2>1, WorldKeeps
  <1>7. CASE ~written
    <2>1. UNCHANGED <<world, made>>
      BY <1>7 DEF WriteRecord
    <2>2. Still
      BY <1>1, <1>3, <2>1 DEF Still
    <2> QED BY <1>3, <1>4, <1>5, <2>1, <2>2, ArrivedMoves
  <1> QED BY <1>6, <1>7

-----------------------------------------------------------------------------
\* A question has a new number, and makes the older ones count for nothing.
LEMMA AskKeeps ==
  ASSUME ReviewInv, NEW p \in Nat, Ask(p), UNCHANGED <<desk, world, config, review, confirm, commit, made>>,
         proposal' \in Nat, p = proposal'
  PROVE  ReviewInv'
  <1> DEFINE new == [at |-> "sent", counts |-> TRUE, review |-> [n |-> tally.reviews + 1, of |-> p, seen |-> 0]]
             old(q) == [q EXCEPT !.counts = FALSE]
  <1>1. /\ tally \in [worlds : Nat, reviews : Nat, lost : Nat, sent : BOOLEAN] /\ asked \subseteq AskedRow
        /\ world \in Nat
    BY DEF ReviewInv, ReviewTyped
  <1>2. /\ asked' = {old(q) : q \in asked} \cup {new}
        /\ tally' = [tally EXCEPT !.reviews = @ + 1]
    BY DEF Ask
  <1>3. /\ tally' \in [worlds : Nat, reviews : Nat, lost : Nat, sent : BOOLEAN]
        /\ tally'.reviews = tally.reviews + 1
    BY <1>1, <1>2
  <1>4. new \in AskedRow /\ new.counts /\ new.review.n = tally'.reviews /\ new.review.of = p /\ new.review.seen = 0
    BY <1>1, <1>3 DEF AskedRow, ReviewRow
  <1>5. ASSUME NEW q \in asked
        PROVE  old(q) \in AskedRow /\ ~old(q).counts /\ old(q).review = q.review /\ old(q).at = q.at
    BY <1>1 DEF AskedRow
  <1>6. ASSUME NEW q \in asked
        PROVE  q.review.n \in 1..tally.reviews /\ q.review.n \notin made /\ q.review.seen <= world
    BY DEF ReviewInv, WireHolds, OnTheWire
  <1>7. ReviewTyped'
    <2>1. asked' \subseteq AskedRow
      BY <1>2, <1>4, <1>5
    <2>2. \A n \in made' : n \in Nat /\ n <= tally'.reviews
      BY <1>1, <1>3 DEF ReviewInv, ReviewTyped
    <2> QED BY <1>3, <2>1, <2>2 DEF ReviewInv, ReviewTyped
  <1> HIDE DEF new, old
  <1>8. WireHolds'
    <2>1. ASSUME NEW q, q = new PROVE OnTheWire(q)'
      <3>1. tally'.reviews \notin made
        BY <1>1, <1>3 DEF ReviewInv, ReviewTyped
      <3> QED BY <1>1, <1>3, <1>4, <2>1, <3>1 DEF OnTheWire
    <2>2. ASSUME NEW q \in asked, NEW r, r = old(q) PROVE OnTheWire(r)'
      BY <1>1, <1>3, <1>5, <1>6, <2>2 DEF OnTheWire
    <2>3. ASSUME NEW q \in asked PROVE old(q).review.n # new.review.n
      BY <1>1, <1>3, <1>4, <1>5, <1>6
    <2>4. ASSUME NEW a \in asked, NEW b \in asked, old(a).review.n = old(b).review.n
          PROVE  old(a) = old(b)
      <3>1. a = b
        BY <1>5, <2>4 DEF ReviewInv, WireHolds
      <3> QED BY <3>1
    <2>5. \A q \in asked' : OnTheWire(q)'
      BY <1>2, <2>1, <2>2
    <2>6. \A a, b \in asked' : a.review.n = b.review.n => a = b
      BY <1>2, <2>3, <2>4
    <2> QED BY <2>5, <2>6 DEF WireHolds
  <1>9. ASSUME NEW r \in ReviewRow, Arrived(r)
        PROVE  r.n <= tally'.reviews /\ r.seen <= world' /\ (r.n \in made' => r.seen < world')
               /\ \A q \in asked' : q.review.n # r.n
    <2>1. r.n \in Nat /\ r.n <= tally.reviews /\ \A q \in asked : q.review.n # r.n
      BY <1>9 DEF Arrived, ReviewRow
    <2>2. r.n # new.review.n /\ r.n <= tally'.reviews
      BY <1>1, <1>3, <1>4, <2>1
    <2>3. \A q \in asked' : q.review.n # r.n
      BY <1>2, <1>5, <2>1, <2>2
    <2> QED BY <1>9, <2>2, <2>3 DEF Arrived
  <1>10. ReviewsHold'
    <2>1. review \in ReviewRow /\ confirm \in ReviewRow /\ commit.shown \in ReviewRow
      BY DEF ReviewInv, ReviewTyped, CommitRow
    <2>2. Arrived(review)'
      BY <1>9, <2>1 DEF ReviewInv, ReviewsHold, Arrived
    <2>3. Arrived(confirm)'
      BY <1>9, <2>1 DEF ReviewInv, ReviewsHold, Arrived
    <2>4. Arrived(commit.shown)'
      BY <1>9, <2>1 DEF ReviewInv, ReviewsHold, Arrived
    <2> QED BY <2>2, <2>3, <2>4 DEF ReviewsHold
  <1>11. CommitHolds' /\ QuoteHolds'
    BY <1>2, <1>4 DEF ReviewInv, CommitHolds, QuoteHolds
  <1> QED BY <1>7, <1>8, <1>10, <1>11 DEF ReviewInv

LEMMA QuestionsKeep == ASSUME ReviewInv, EditProposal \/ AskReview PROVE ReviewInv'
  <1>1. proposal \in Nat /\ proposal + 1 \in Nat
    BY DEF ReviewInv, ReviewTyped
  <1>2. CASE AskReview
    BY <1>1, <1>2, AskKeeps DEF AskReview
  <1>3. CASE EditProposal /\ desk.tied = "newest"
    <2>1. /\ proposal' = proposal + 1 /\ Ask(proposal + 1)
          /\ UNCHANGED <<desk, world, config, review, confirm, commit, made>>
      BY <1>3 DEF EditProposal
    <2> QED BY <1>1, <2>1, AskKeeps
  <1>4. CASE EditProposal /\ desk.tied # "newest"
    <2>1. proposal' = proposal + 1 /\ UNCHANGED <<desk, world, config, review, confirm, commit, made, asked, tally>>
      BY <1>4 DEF EditProposal
    <2>2. ReviewTyped' /\ CommitHolds' /\ QuoteHolds' /\ ReviewsHold'
      BY <1>1, <1>4, <2>1 DEF ReviewInv, ReviewTyped, CommitHolds, QuoteHolds, ReviewsHold, Arrived
    <2>3. WireHolds'
      BY <1>4, <2>1 DEF ReviewInv, WireHolds, OnTheWire
    <2> QED BY <2>2, <2>3 DEF ReviewInv
  <1> QED BY <1>2, <1>3, <1>4

\* The server works the effects out: the question becomes an answer of the same
\* number.
LEMMA AnswerKeeps == ASSUME ReviewInv, NEW q \in asked, ServeReview(q) PROVE ReviewInv'
  <1>1. /\ q \in AskedRow /\ OnTheWire(q) /\ world \in Nat /\ asked \subseteq AskedRow
        /\ \A a, b \in asked : a.review.n = b.review.n => a = b
    BY DEF ReviewInv, ReviewTyped, WireHolds
  <1>2. PICK new : new = [q EXCEPT !.at = "served", !.review.seen = world]
    OBVIOUS
  <1>3. /\ new \in AskedRow /\ new.counts = q.counts /\ new.review.n = q.review.n
        /\ new.review.of = q.review.of /\ new.review.seen = world
    BY <1>1, <1>2 DEF AskedRow, ReviewRow
  <1>4. /\ asked' = (asked \ {q}) \cup {new}
        /\ UNCHANGED <<desk, proposal, world, config, review, confirm, commit, made, tally>>
    BY <1>2 DEF ServeReview
  <1>5. ReviewTyped'
    <2>1. asked' \subseteq AskedRow
      BY <1>1, <1>3, <1>4
    <2> QED BY <1>4, <2>1 DEF ReviewInv, ReviewTyped
  <1>6. WireHolds'
    <2>1. OnTheWire(new)'
      BY <1>1, <1>3, <1>4 DEF OnTheWire
    <2>2. \A a \in asked : OnTheWire(a)'
      BY <1>4 DEF ReviewInv, WireHolds, OnTheWire
    <2>3. \A a, b \in asked' : a.review.n = b.review.n => a = b
      BY <1>1, <1>3, <1>4
    <2> QED BY <1>4, <2>1, <2>2, <2>3 DEF WireHolds
  <1>7. ASSUME NEW r, Arrived(r) PROVE \A a \in asked' : a.review.n # r.n
    BY <1>3, <1>4, <1>7 DEF Arrived
  <1>8. ReviewsHold'
    <2>1. Arrived(review)'
      BY <1>4, <1>7 DEF ReviewInv, ReviewsHold, Arrived
    <2>2. Arrived(confirm)'
      BY <1>4, <1>7 DEF ReviewInv, ReviewsHold, Arrived
    <2>3. Arrived(commit.shown)'
      BY <1>4, <1>7 DEF ReviewInv, ReviewsHold, Arrived
    <2> QED BY <2>1, <2>2, <2>3 DEF ReviewsHold
  <1>9. CommitHolds'
    BY <1>4 DEF ReviewInv, CommitHolds
  <1>10. QuoteHolds'
    <2>1. (\A a \in asked' : ~a.counts) => \A a \in asked : ~a.counts
      BY <1>3, <1>4
    <2> QED BY <1>4, <2>1 DEF ReviewInv, QuoteHolds
  <1> QED BY <1>5, <1>6, <1>8, <1>9, <1>10 DEF ReviewInv

\* A question leaves the wire, and its review may come to the page.
LEMMA WireShrinks ==
  ASSUME ReviewInv, NEW q \in asked, asked' = asked \ {q}, Still, UNCHANGED <<confirm, commit>>,
         review' \in {review, NoReview, q.review}, QuoteHolds'
  PROVE  ReviewInv'
  <1>1. /\ q.review \in ReviewRow /\ OnTheWire(q) /\ Arrived(NoReview)
        /\ \A a, b \in asked : a.review.n = b.review.n => a = b
    BY NothingArrived DEF ReviewInv, ReviewTyped, WireHolds, AskedRow
  <1>2. ReviewTyped'
    <2>1. review' \in ReviewRow
      BY <1>1, NoReviewIsRow DEF ReviewInv, ReviewTyped
    <2> QED BY <2>1 DEF ReviewInv, ReviewTyped, Still
  <1>3. WireHolds'
    BY <1>1 DEF ReviewInv, WireHolds, OnTheWire, Still
  <1>4. ASSUME NEW r, Arrived(r) \/ r = q.review
        PROVE  r.n <= tally'.reviews /\ r.seen <= world' /\ (r.n \in made' => r.seen < world')
               /\ \A a \in asked' : a.review.n # r.n
    <2>1. CASE Arrived(r)
      BY <2>1 DEF Arrived, Still
    <2>2. CASE r = q.review
      <3>1. tally.reviews \in Nat /\ r.n \in 1..tally.reviews /\ r.n \notin made /\ r.seen <= world
        BY <1>1, <2>2 DEF OnTheWire, ReviewInv, ReviewTyped
      <3>2. \A a \in asked' : a.review.n # r.n
        BY <1>1, <2>2
      <3> QED BY <3>1, <3>2 DEF Still
    <2> QED BY <1>4, <2>1, <2>2
  <1>5. ReviewsHold'
    <2>1. Arrived(review) /\ Arrived(confirm) /\ Arrived(commit.shown)
      BY DEF ReviewInv, ReviewsHold
    <2>2. Arrived(review)'
      BY <1>1, <1>4, <2>1 DEF Arrived
    <2>3. Arrived(confirm)'
      BY <1>4, <2>1 DEF Arrived
    <2>4. Arrived(commit.shown)'
      BY <1>4, <2>1 DEF Arrived
    <2> QED BY <2>2, <2>3, <2>4 DEF ReviewsHold
  <1>6. CommitHolds'
    BY DEF ReviewInv, CommitHolds, Still
  <1> QED BY <1>2, <1>3, <1>5, <1>6 DEF ReviewInv

LEMMA ArrivesKeeps == ASSUME ReviewInv, NEW q \in asked, ReviewArrives(q) PROVE ReviewInv'
  <1>1. /\ tally \in [worlds : Nat, reviews : Nat, lost : Nat, sent : BOOLEAN]
        /\ OnTheWire(q) /\ QuoteHolds
    BY DEF ReviewInv, ReviewTyped, WireHolds
  <1>2. asked' = asked \ {q} /\ UNCHANGED <<desk, proposal, world, config, confirm, commit, made>>
    BY DEF ReviewArrives
  <1>3. CASE q.counts
    <2>1. review' = q.review /\ tally' = [tally EXCEPT !.sent = FALSE]
      BY <1>3 DEF ReviewArrives
    <2>2. Still
      BY <1>1, <1>2, <2>1 DEF Still
    <2>3. QuoteHolds'
      BY <1>1, <1>2, <1>3, <2>1 DEF QuoteHolds, OnTheWire
    <2> QED BY <1>2, <2>1, <2>2, <2>3, WireShrinks
  <1>4. CASE ~q.counts
    <2>1. UNCHANGED <<review, tally>>
      BY <1>4 DEF ReviewArrives
    <2>2. Still
      BY <1>1, <1>2, <2>1 DEF Still
    <2>3. QuoteHolds'
      BY <1>1, <1>2, <1>4, <2>1 DEF QuoteHolds
    <2> QED BY <1>2, <2>1, <2>2, <2>3, WireShrinks
  <1> QED BY <1>3, <1>4

LEMMA FailsKeeps == ASSUME ReviewInv, NEW q \in asked, ReviewFails(q) PROVE ReviewInv'
  <1>1. /\ tally \in [worlds : Nat, reviews : Nat, lost : Nat, sent : BOOLEAN]
        /\ OnTheWire(q) /\ QuoteHolds
    BY DEF ReviewInv, ReviewTyped, WireHolds
  <1>2. /\ asked' = asked \ {q} /\ UNCHANGED <<desk, proposal, world, config, confirm, commit, made, tally>>
        /\ review' = IF desk.tied = "source" \/ ~q.counts THEN review ELSE NoReview
    BY DEF ReviewFails
  <1>3. Still
    BY <1>1, <1>2 DEF Still
  <1>4. QuoteHolds'
    BY <1>1, <1>2 DEF QuoteHolds
  <1> QED BY <1>2, <1>3, <1>4, WireShrinks

LEMMA ReviewStarts == ReviewInit => ReviewInv
  BY NoReviewIsRow DEF ReviewInit, ReviewInv, ReviewTyped, WireHolds, ReviewsHold, Arrived, CommitHolds,
                       QuoteHolds, NoReview, NoCommit

LEMMA ReviewStep == ReviewInv /\ [ReviewNext]_reviewVars => ReviewInv'
  <1> SUFFICES ASSUME ReviewInv, [ReviewNext]_reviewVars PROVE ReviewInv'
    OBVIOUS
  <1>1. CASE UNCHANGED reviewVars
    BY <1>1 DEF reviewVars, ReviewInv, ReviewTyped, WireHolds, OnTheWire, ReviewsHold, Arrived, CommitHolds, QuoteHolds
  <1>2. CASE ReviewNext
    <2>1. ASSUME NEW q \in asked, ServeReview(q) \/ ReviewArrives(q) \/ ReviewFails(q)
          PROVE  ReviewInv'
      BY <2>1, AnswerKeeps, ArrivesKeeps, FailsKeeps
    <2> QED BY <1>2, <2>1, QuestionsKeep, WorldMovesKeeps, ConfirmKeeps, CommitKeeps, ServeKeeps, EndsKeep,
               ReadKeeps, ApplyKeeps, WriteKeeps
            DEF ReviewNext
  <1> QED BY <1>1, <1>2

LEMMA ReviewInvariant == ReviewSpec => []ReviewInv
  BY ReviewStarts, ReviewStep, PTL DEF ReviewSpec

-----------------------------------------------------------------------------
\* What the transaction of a checked page carries out is the proposal that was on
\* the screen when it was approved, with the effects it had then, whatever was
\* edited, polled or changed by others meanwhile (LineReview, RouteReview, the
\* release planner and its actions, changesets); the DNS sync, which the provider
\* gives no transaction, writes the plan that was reviewed as it was when it was
\* read, and with the panel's configuration unchanged.
THEOREM ApprovedIsCarriedOut == ReviewSpec => CommittedAsReviewed
  <1> DEFINE Same == /\ ServeCommit /\ Accepts =>
                          ~desk.checked \/ (commit.of = commit.shown.of /\ world = commit.shown.seen)
                     /\ (\E written \in BOOLEAN : WriteRecord(written)) =>
                          /\ desk.checked => commit.of = commit.shown.of
                          /\ commit.read = commit.shown.seen /\ config = commit.config
  <1>1. ReviewInv => Same
    <2>1. ReviewInv => (ServeCommit /\ Accepts =>
            ~desk.checked \/ (commit.of = commit.shown.of /\ world = commit.shown.seen))
      BY DEF ReviewInv, CommitHolds, Accepts
    <2>2. ASSUME ReviewInv, NEW written \in BOOLEAN, WriteRecord(written)
          PROVE  /\ desk.checked => commit.of = commit.shown.of
                 /\ commit.read = commit.shown.seen /\ config = commit.config
      BY <2>2 DEF ReviewInv, CommitHolds, WriteRecord
    <2> QED BY <2>1, <2>2
  <1>2. []ReviewInv => [][Same]_reviewVars
    BY <1>1, PTL
  <1> QED BY <1>2, ReviewInvariant, PTL DEF CommittedAsReviewed

\* The comparison of revisions refuses a review that was carried out before,
\* although its first answer was lost and the person tries again; and a sync of
\* which any record was written is not applied a second time.
THEOREM ReviewRunsOnce == ReviewSpec => CarriedOutOnce
  <1> DEFINE Once == /\ ServeCommit /\ Accepts => (commit.shown.n \notin made \/ ~desk.checked)
                     /\ (\E records \in 1..MaxRecords : ApplyPlan(records)) /\ commit'.at = "writing" =>
                          commit.shown.n \notin made
  <1>1. ReviewInv => Once
    <2>1. ASSUME ReviewInv, Accepts, desk.checked, commit.shown.n \in made PROVE FALSE
      <3>1. commit.shown.seen < world /\ commit.shown.seen = world /\ world \in Nat
        BY <2>1 DEF ReviewInv, ReviewTyped, ReviewsHold, Arrived, CommitHolds, Accepts
      <3> QED BY <3>1
    <2>2. ASSUME ReviewInv, NEW records \in 1..MaxRecords, ApplyPlan(records), commit'.at = "writing",
                 commit.shown.n \in made
          PROVE  FALSE
      <3>1. commit \in CommitRow /\ commit.at = "read" /\ commit.seen = commit.shown.seen /\ commit.shown.seen < commit.read
        BY <2>2 DEF ReviewInv, ReviewTyped, CommitHolds, ApplyPlan
      <3>2. commit.read = commit.seen
        <4> SUFFICES ASSUME commit.read # commit.seen PROVE FALSE
          OBVIOUS
        <4>1. commit' = [commit EXCEPT !.at = "refused"]
          BY <2>2 DEF ApplyPlan
        <4>2. commit'.at = "refused"
          BY <3>1, <4>1 DEF CommitRow
        <4> QED BY <2>2, <4>2
      <3>3. commit.read \in Nat
        BY <3>1 DEF CommitRow
      <3> QED BY <3>1, <3>2, <3>3
    <2> QED BY <2>1, <2>2
  <1>2. []ReviewInv => [][Once]_reviewVars
    BY <1>1, PTL
  <1> QED BY <1>2, ReviewInvariant, PTL DEF CarriedOutOnce

\* Once every answer is in, the price on the order button is that of the period
\* and the coupon chosen last, in whatever order the answers came.
THEOREM QuoteFollowsTheChoice == ReviewSpec => []QuoteIsOfTheChoice
  <1>1. ReviewInv => QuoteIsOfTheChoice
    BY DEF ReviewInv, QuoteHolds, QuoteIsOfTheChoice, Asking
  <1> QED BY <1>1, ReviewInvariant, PTL

-----------------------------------------------------------------------------
(* ServerRenewal.  The calendar: whatever the lengths of the months between *)
(* 28 and 31 days.                                                          *)
CalendarDates == [m : Int, d : 1..31]

LEMMA MonthLength ==
  ASSUME NEW m \in Int
  PROVE  LastDay(m) \in 28..31
  BY DEF LastDay

LEMMA ClampedDay ==
  ASSUME NEW m \in Int, NEW day \in 1..31
  PROVE  /\ Clamp(day, m) \in 1..31 /\ Clamp(day, m) <= LastDay(m)
         /\ Clamp(day, m) = day \/ (Clamp(day, m) = LastDay(m) /\ LastDay(m) < day)
  BY MonthLength DEF Clamp

LEMMA DatesCompare ==
  ASSUME NEW a \in CalendarDates, NEW b \in CalendarDates
  PROVE  /\ Earlier(a, b) \/ a = b \/ Earlier(b, a)
         /\ ~Earlier(a, a)
         /\ ~(Earlier(a, b) /\ Earlier(b, a))
  BY DEF CalendarDates, Earlier

LEMMA DatesChain ==
  ASSUME NEW a \in CalendarDates, NEW b \in CalendarDates, NEW c \in CalendarDates
  PROVE  /\ Earlier(a, b) /\ ~Earlier(c, b) => Earlier(a, c)
         /\ ~Earlier(b, a) /\ Earlier(b, c) => Earlier(a, c)
  BY DEF CalendarDates, Earlier

\* The boundary that belongs to a month; it may lie in the one before or after.
Mark(m, day, shift) == PlusDays([m |-> m, d |-> Clamp(day, m)], shift)

LEMMA MarkPlace ==
  ASSUME NEW m \in Int, NEW day \in 1..31, NEW shift \in {-1, 0, 1}
  PROVE  LET x == Mark(m, day, shift) IN
         /\ x \in CalendarDates
         /\ \/ x.m = m /\ x.d = Clamp(day, m) + shift
            \/ x.m = m - 1 /\ shift = -1 /\ x.d = LastDay(m - 1) /\ day = 1
            \/ x.m = m + 1 /\ shift = 1 /\ x.d = 1
  <1> DEFINE c == Clamp(day, m)
             at == [m |-> m, d |-> c]
  <1>1. c \in 1..31 /\ c <= LastDay(m) /\ (c = 1 => day = 1)
    BY ClampedDay, MonthLength
  <1>2. at.m = m /\ at.d = c
    OBVIOUS
  <1>3. LastDay(m) \in 28..31 /\ LastDay(m - 1) \in 28..31
    BY MonthLength
  <1>4. CASE c + shift < 1
    <2>1. Mark(m, day, shift) = [m |-> m - 1, d |-> LastDay(m - 1)]
      BY <1>2, <1>4 DEF Mark, PlusDays
    <2> QED BY <1>1, <1>3, <1>4, <2>1 DEF CalendarDates
  <1>5. CASE ~(c + shift < 1) /\ c + shift > LastDay(m)
    <2>1. Mark(m, day, shift) = [m |-> m + 1, d |-> 1]
      BY <1>2, <1>5 DEF Mark, PlusDays
    <2> QED BY <1>1, <1>3, <1>5, <2>1 DEF CalendarDates
  <1>6. CASE ~(c + shift < 1) /\ ~(c + shift > LastDay(m))
    <2>1. Mark(m, day, shift) = [at EXCEPT !.d = @ + shift]
      BY <1>2, <1>6 DEF Mark, PlusDays
    <2>2. Mark(m, day, shift) = [m |-> m, d |-> c + shift]
      BY <1>2, <2>1
    <2> QED BY <1>1, <1>3, <1>6, <2>2 DEF CalendarDates
  <1> QED BY <1>4, <1>5, <1>6

\* Boundaries follow each other as their months do.
LEMMA MarksRise ==
  ASSUME NEW a \in Int, NEW b \in Int, a < b, NEW day \in 1..31, NEW shift \in {-1, 0, 1}
  PROVE  Earlier(Mark(a, day, shift), Mark(b, day, shift))
  <1> DEFINE x == Mark(a, day, shift)
             y == Mark(b, day, shift)
  <1>1. x \in CalendarDates /\ y \in CalendarDates
    BY MarkPlace
  <1>2. \/ x.m = a /\ x.d = Clamp(day, a) + shift
        \/ x.m = a - 1 /\ shift = -1 /\ day = 1
        \/ x.m = a + 1 /\ shift = 1 /\ x.d = 1
    BY MarkPlace
  <1>3. \/ y.m = b /\ y.d = Clamp(day, b) + shift
        \/ y.m = b - 1 /\ shift = -1 /\ y.d = LastDay(b - 1) /\ day = 1
        \/ y.m = b + 1 /\ shift = 1 /\ y.d = 1
    BY MarkPlace
  <1>4. /\ Clamp(day, a) \in 1..31 /\ Clamp(day, b) \in 1..31 /\ (day = 1 => Clamp(day, a) = 1)
        /\ LastDay(b - 1) \in 28..31
    BY ClampedDay, MonthLength
  <1>5. x.m \in Int /\ x.d \in 1..31 /\ y.m \in Int /\ y.d \in 1..31
    BY <1>1 DEF CalendarDates
  <1>6. x.m < y.m \/ (x.m = y.m /\ x.d < y.d)
    <2> HIDE DEF x, y
    <2>1. CASE shift = 0
      BY <1>2, <1>3, <1>5, <2>1
    <2>2. CASE shift = 1
      BY <1>2, <1>3, <1>4, <1>5, <2>2
    <2>3. CASE shift = -1
      BY <1>2, <1>3, <1>4, <1>5, <2>3
    <2> QED BY <2>1, <2>2, <2>3
  <1> QED BY <1>6 DEF Earlier

LEMMA MarksKeepOrder ==
  ASSUME NEW a \in Int, NEW b \in Int, NEW day \in 1..31, NEW shift \in {-1, 0, 1}
  PROVE  Earlier(Mark(a, day, shift), Mark(b, day, shift)) <=> a < b
  <1>1. Mark(a, day, shift) \in CalendarDates /\ Mark(b, day, shift) \in CalendarDates
    BY MarkPlace
  <1>2. a < b => Earlier(Mark(a, day, shift), Mark(b, day, shift))
    BY MarksRise
  <1>3. b < a => Earlier(Mark(b, day, shift), Mark(a, day, shift))
    BY MarksRise
  <1> QED BY <1>1, <1>2, <1>3, DatesCompare

LEMMA BoundaryIsMark ==
  ASSUME NEW at, NEW offset, NEW day, NEW shift
  PROVE  Boundary(at, offset, day, shift) = Mark(at.m + offset, day, shift)
  BY DEF Boundary, Mark

\* The start of a period is the last boundary that is not ahead.
LEMMA StartIsMark ==
  ASSUME NEW at \in CalendarDates, NEW day \in 1..31, NEW shift \in {-1, 0, 1}
  PROVE  \E k \in Int : /\ NodePeriodStart(at, day, shift) = Mark(k, day, shift)
                        /\ ~Earlier(at, Mark(k, day, shift)) /\ Earlier(at, Mark(k + 1, day, shift))
  <1> DEFINE M(k) == Mark(k, day, shift)
  <1>1. at.m \in Int /\ at.d \in 1..31
    BY DEF CalendarDates
  <1>2. Earlier(at, M(at.m + 2))
    <2>1. at.m + 2 \in Int
      BY <1>1
    <2>2. M(at.m + 2) \in CalendarDates /\ M(at.m + 2).m \in {at.m + 2, (at.m + 2) - 1, (at.m + 2) + 1}
      BY <2>1, MarkPlace
    <2> QED BY <1>1, <2>2 DEF Earlier
  <1>3. ~Earlier(at, M(at.m - 1))
    <2>1. at.m - 1 \in Int
      BY <1>1
    <2>2. /\ M(at.m - 1) \in CalendarDates
          /\ \/ M(at.m - 1).m \in {at.m - 1, (at.m - 1) - 1}
             \/ M(at.m - 1).m = (at.m - 1) + 1 /\ M(at.m - 1).d = 1
      BY <2>1, MarkPlace
    <2>3. M(at.m - 1).m < at.m \/ (M(at.m - 1).m = at.m /\ M(at.m - 1).d = 1)
      BY <1>1, <2>2
    <2>4. M(at.m - 1).m \in Int /\ M(at.m - 1).d \in Int
      BY <2>2 DEF CalendarDates
    <2> HIDE DEF M
    <2> QED BY <1>1, <2>3, <2>4 DEF Earlier
  <1>4. NodePeriodStart(at, day, shift) =
          IF ~Earlier(at, M(at.m + 1)) THEN M(at.m + 1) ELSE IF ~Earlier(at, M(at.m + 0)) THEN M(at.m + 0) ELSE M(at.m + (-1))
    BY BoundaryIsMark DEF NodePeriodStart
  <1>5. at.m + 0 = at.m /\ at.m + (-1) = at.m - 1 /\ at.m + 1 + 1 = at.m + 2 /\ at.m - 1 + 1 = at.m
    BY <1>1
  <1> HIDE DEF M
  <1>6. \E k \in {at.m + 1, at.m, at.m - 1} :
          NodePeriodStart(at, day, shift) = M(k) /\ ~Earlier(at, M(k)) /\ Earlier(at, M(k + 1))
    BY <1>2, <1>3, <1>4, <1>5
  <1> QED BY <1>1, <1>6 DEF M

LEMMA EndIsMark ==
  ASSUME NEW k \in Int, NEW day \in 1..31, NEW shift \in {-1, 0, 1}
  PROVE  NodePeriodEnd(Mark(k, day, shift), day, shift) = Mark(k + 1, day, shift)
  <1> DEFINE M(j) == Mark(j, day, shift)
             start == M(k)
             o1 == k + 1 - start.m
             Ends(o) == /\ Earlier(start, Boundary(start, o, day, shift))
                        /\ o = 0 \/ ~Earlier(start, Boundary(start, o - 1, day, shift))
  <1>1. start.m \in Int /\ start.m \in {k - 1, k, k + 1}
    BY MarkPlace DEF CalendarDates
  <1>2. o1 \in 0..2 /\ start.m + o1 = k + 1
    BY <1>1
  <1>3. ASSUME NEW o \in 0..2 PROVE Ends(o) <=> o = o1
    <2>0. start.m + o \in Int /\ start.m + (o - 1) \in Int
      BY <1>1
    <2>1. Earlier(start, Boundary(start, o, day, shift)) <=> k < start.m + o
      <3>1. Boundary(start, o, day, shift) = M(start.m + o)
        BY BoundaryIsMark
      <3>2. Earlier(M(k), M(start.m + o)) <=> k < start.m + o
        BY <2>0, MarksKeepOrder
      <3> QED BY <3>1, <3>2
    <2>2. Earlier(start, Boundary(start, o - 1, day, shift)) <=> k < start.m + (o - 1)
      <3>1. Boundary(start, o - 1, day, shift) = M(start.m + (o - 1))
        BY BoundaryIsMark
      <3>2. Earlier(M(k), M(start.m + (o - 1))) <=> k < start.m + (o - 1)
        BY <2>0, MarksKeepOrder
      <3> QED BY <3>1, <3>2
    <2> HIDE DEF start
    <2> QED BY <1>1, <2>1, <2>2
  <1>4. NodePeriodEnd(start, day, shift) = Boundary(start, CHOOSE o \in 0..2 : Ends(o), day, shift)
    BY DEF NodePeriodEnd
  <1> HIDE DEF Ends, o1
  <1>5. (CHOOSE o \in 0..2 : Ends(o)) = o1
    BY <1>2, <1>3
  <1>6. Boundary(start, o1, day, shift) = M(k + 1)
    BY <1>2, BoundaryIsMark
  <1> QED BY <1>4, <1>5, <1>6

LEMMA MarkStarts ==
  ASSUME NEW k \in Int, NEW day \in 1..31, NEW shift \in {-1, 0, 1}
  PROVE  NodePeriodStart(Mark(k, day, shift), day, shift) = Mark(k, day, shift)
  <1>1. Mark(k, day, shift) \in CalendarDates
    BY MarkPlace
  <1>2. PICK j \in Int : /\ NodePeriodStart(Mark(k, day, shift), day, shift) = Mark(j, day, shift)
                         /\ ~Earlier(Mark(k, day, shift), Mark(j, day, shift))
                         /\ Earlier(Mark(k, day, shift), Mark(j + 1, day, shift))
    BY <1>1, StartIsMark
  <1>3. ~(k < j) /\ k < j + 1
    BY <1>2, MarksKeepOrder
  <1> QED BY <1>2, <1>3

\* Whatever the day and the mode, periods tile the calendar.
LEMMA PeriodsAlwaysTile ==
  ASSUME NEW at \in CalendarDates, NEW day \in 1..31, NEW shift \in {-1, 0, 1}
  PROVE  LET start == NodePeriodStart(at, day, shift)
             end == NodePeriodEnd(start, day, shift)
         IN ~Earlier(at, start) /\ Earlier(at, end) /\ NodePeriodStart(end, day, shift) = end
  <1>1. PICK k \in Int : /\ NodePeriodStart(at, day, shift) = Mark(k, day, shift)
                         /\ ~Earlier(at, Mark(k, day, shift)) /\ Earlier(at, Mark(k + 1, day, shift))
    BY StartIsMark
  <1>2. NodePeriodEnd(Mark(k, day, shift), day, shift) = Mark(k + 1, day, shift)
    BY EndIsMark
  <1>3. NodePeriodStart(Mark(k + 1, day, shift), day, shift) = Mark(k + 1, day, shift)
    BY MarkStarts
  <1> QED BY <1>1, <1>2, <1>3

-----------------------------------------------------------------------------
(* What renews, what is linked and what is paid.                            *)
ServerDates ==
  [expiry : CalendarDates, months : 1..120, enabled : BOOLEAN, anchorDate : CalendarDates \cup {NoDate}, anchorDay : 0..31]
BillDates == [due : CalendarDates, period : 1..120, anchorDay : 1..31, rev : Nat]
OpenPayments ==
  [open : {TRUE}, key : Nat, rev : Nat, due : CalendarDates, action : {"", "record_only", "set_due_date"},
   next : CalendarDates, keeps : BOOLEAN]

RenewalTyped ==
  /\ today \in CalendarDates /\ server \in ServerDates /\ bill \in BillDates /\ linked \in BOOLEAN
  /\ samples \subseteq [seq : Nat, on : CalendarDates] /\ cursor \in Nat /\ dateEdits \in Nat /\ sent \in Nat
  /\ payment = NoPayment \/ payment \in OpenPayments
  /\ paid \in Seq([key : Nat, request : OpenPayments \cup {NoPayment}])

\* The date of a server lies whole cycles after the date its day was taken from.
Anchored(s) ==
  /\ s.anchorDate = NoDate => s.anchorDay = 0
  /\ s.anchorDate # NoDate =>
       /\ ~Earlier(s.expiry, s.anchorDate)
       /\ \E n \in Nat : s.expiry.m - s.anchorDate.m = n * s.months

Agree(s, b) == b.due = s.expiry /\ b.period = s.months /\ b.anchorDay = BillingDay(s)

\* A payment that is of the bill as it is shows the dates the bill has.
ShownAsIs ==
  payment.open =>
    /\ payment.rev <= bill.rev
    /\ payment.action = "set_due_date" => ~Earlier(payment.next, payment.due)
    /\ payment.rev = bill.rev =>
         /\ payment.due = bill.due
         /\ payment.action = "" => payment.next = NextBillingDate(bill)
         /\ payment.keeps <=> (payment.action = "record_only" \/ (payment.action = "" /\ BillRenews))

RenewalInv == RenewalTyped /\ BillFollowsServer /\ Anchored(server) /\ ShownAsIs

\* A date, a day or a number of months as the operators make them.
LEMMA DayOfServer ==
  ASSUME NEW s \in ServerDates
  PROVE  BillingDay(s) \in 1..31
  BY DEF ServerDates, BillingDay, CalendarDates, NoDate

LEMMA ExpiryDate ==
  ASSUME NEW from \in CalendarDates, NEW months \in Int, NEW day \in 1..31
  PROVE  /\ NodeExpiryAt(from, months, day) \in CalendarDates
         /\ NodeExpiryAt(from, months, day).m = from.m + months
         /\ NodeExpiryAt(from, months, day).d = Clamp(day, from.m + months)
  <1>1. from.m + months \in Int
    BY DEF CalendarDates
  <1> QED BY <1>1, ClampedDay DEF NodeExpiryAt, CalendarDates

LEMMA NextBilled ==
  ASSUME NEW b \in BillDates
  PROVE  /\ NextBillingDate(b) \in CalendarDates /\ NextInfraDue(b.due, b.period, b.anchorDay) = NextBillingDate(b)
         /\ ~Earlier(NextBillingDate(b), b.due)
  <1>1. b.due.m + b.period \in Int /\ b.due.m < b.due.m + b.period /\ b.anchorDay \in 1..31 /\ b.due.m \in Int
    BY DEF BillDates, CalendarDates
  <1>2. NextBillingDate(b) = [m |-> b.due.m + b.period, d |-> Clamp(b.anchorDay, b.due.m + b.period)]
    BY DEF NextBillingDate
  <1>3. Clamp(b.anchorDay, b.due.m + b.period) \in 1..31
    BY <1>1, ClampedDay
  <1> QED BY <1>1, <1>2, <1>3 DEF NextInfraDue, CalendarDates, Earlier

\* A renewal ends the first period ahead, which is at least one away.
LEMMA RenewsToTheNext ==
  ASSUME NEW s \in ServerDates, NEW at \in CalendarDates, ~Earlier(at, s.expiry)
  PROVE  \E k \in 1..(at.m - s.expiry.m + 1) :
           /\ NextNodeExpiry(s, at) = NodeExpiryAt(s.expiry, k * s.months, BillingDay(s))
           /\ Earlier(at, NodeExpiryAt(s.expiry, k * s.months, BillingDay(s)))
           /\ \A j \in 1..(k - 1) : ~Earlier(at, NodeExpiryAt(s.expiry, j * s.months, BillingDay(s)))
  <1> DEFINE e == s.expiry
             c == s.months
             day == BillingDay(s)
             X(k) == NodeExpiryAt(e, k * c, day)
             elapsed == at.m - e.m
             q == elapsed \div c
             p == IF q < 1 THEN 1 ELSE q
  <1>1. e \in CalendarDates /\ c \in 1..120 /\ day \in 1..31 /\ e.m \in Int /\ at.m \in Int
    BY DayOfServer DEF ServerDates, CalendarDates
  <1>2. elapsed \in Nat
    BY <1>1 DEF Earlier
  <1>3. q \in Nat /\ q * c <= elapsed /\ elapsed < q * c + c
    <2> HIDE DEF c, elapsed
    <2> QED BY <1>1, <1>2
  <1>4. NextNodeExpiry(s, at) = IF Earlier(at, X(p)) THEN X(p) ELSE X(p + 1)
    BY DEF NextNodeExpiry
  <1>5. \A k \in Nat : X(k).m = e.m + k * c /\ X(k) \in CalendarDates
    <2> TAKE k \in Nat
    <2>1. k * c \in Int
      BY <1>1
    <2> QED BY <1>1, <2>1, ExpiryDate
  <1>6. p \in Nat /\ p >= 1 /\ (p = q \/ (p = 1 /\ q = 0))
    BY <1>3
  <1>7. \A j \in Nat : j < p => ~(j >= 1 /\ Earlier(at, X(j)))
    <2> SUFFICES ASSUME NEW j \in Nat, j >= 1, j < p PROVE ~Earlier(at, X(j))
      OBVIOUS
    <2>1. p = q /\ j + 1 <= q
      BY <1>3, <1>6
    <2>2. j * c + c <= q * c
      <3>1. (j + 1) * c <= q * c
        <4> HIDE DEF q, c
        <4> QED BY <1>1, <1>3, <2>1
      <3>2. (j + 1) * c = j * c + c
        BY <1>1
      <3> QED BY <3>1, <3>2
    <2>3. j * c \in Int /\ q * c \in Int
      BY <1>1, <1>3
    <2>4. X(j).m < at.m
      <3> HIDE DEF X, q, c
      <3>1. X(j).m = e.m + j * c
        BY <1>5
      <3>2. j * c < elapsed
        BY <1>1, <1>2, <1>3, <2>2, <2>3
      <3> QED BY <1>1, <2>3, <3>1, <3>2
    <2>5. X(j).m \in Int
      BY <1>5 DEF CalendarDates
    <2> HIDE DEF X
    <2> QED BY <1>1, <2>4, <2>5 DEF Earlier
  <1>8. Earlier(at, X(p + 1))
    <2>1. (p + 1) * c = p * c + c /\ p * c \in Int
      BY <1>1, <1>6
    <2>2. elapsed < p * c + c
      <3>1. CASE p = q
        BY <1>3, <3>1
      <3>2. CASE p = 1 /\ q = 0
        <4>1. 0 * c = 0 /\ 1 * c = c
          BY <1>1
        <4> HIDE DEF c, q, p
        <4> QED BY <1>1, <1>2, <1>3, <3>2, <4>1
      <3> QED BY <1>6, <3>1, <3>2
    <2>3. X(p + 1).m = e.m + (p + 1) * c
      BY <1>5, <1>6
    <2>4. at.m < X(p + 1).m
      <3> HIDE DEF X, p, c
      <3> QED BY <1>1, <2>1, <2>2, <2>3
    <2> QED BY <2>4 DEF Earlier
  <1>9. q <= elapsed
    <2>1. q * 1 <= q * c
      <3> HIDE DEF q, c
      <3> QED BY <1>1, <1>3
    <2> HIDE DEF q, c
    <2> QED BY <1>1, <1>2, <1>3, <2>1
  <1> HIDE DEF X, q, c, e, day
  <1>10. CASE Earlier(at, X(p))
    <2>1. p \in 1..(elapsed + 1)
      BY <1>2, <1>6, <1>9
    <2>2. NextNodeExpiry(s, at) = X(p) /\ \A j \in 1..(p - 1) : ~Earlier(at, X(j))
      BY <1>4, <1>6, <1>7, <1>10
    <2> QED BY <1>10, <2>1, <2>2 DEF X, c, e, day
  <1>11. CASE ~Earlier(at, X(p))
    <2>1. p <= elapsed
      <3>1. CASE p = q
        BY <1>9, <3>1
      <3>2. CASE q = 0 /\ p = 1
        <4>1. X(1).m = e.m + c
          BY <1>1, <1>5
        <4>2. at.m >= e.m + c
          BY <1>1, <1>11, <3>2, <4>1 DEF Earlier
        <4> QED BY <1>1, <3>2, <4>2
      <3> QED BY <1>6, <3>1, <3>2
    <2>2. p + 1 \in 1..(elapsed + 1)
      BY <1>2, <1>6, <2>1
    <2>3. NextNodeExpiry(s, at) = X(p + 1) /\ \A j \in 1..((p + 1) - 1) : ~Earlier(at, X(j))
      BY <1>4, <1>6, <1>7, <1>11
    <2> QED BY <1>8, <2>2, <2>3 DEF X, c, e, day
  <1> QED BY <1>10, <1>11

\* A server whose day is taken from its own date is anchored there.
LEMMA AnchoredAnew ==
  ASSUME NEW s \in ServerDates, s.anchorDate = s.expiry
  PROVE  Anchored(s)
  <1>1. s.expiry \in CalendarDates /\ s.expiry.m \in Int /\ s.months \in 1..120 /\ s.expiry # NoDate
    BY DEF ServerDates, CalendarDates, NoDate
  <1>2. ~Earlier(s.expiry, s.anchorDate)
    BY <1>1, DatesCompare
  <1>3. s.expiry.m - s.anchorDate.m = 0 * s.months
    BY <1>1
  <1> QED BY <1>1, <1>2, <1>3 DEF Anchored

LEMMA Projected ==
  ASSUME NEW s \in ServerDates, NEW b \in BillDates, s.expiry = b.due, s.months = b.period
  PROVE  LET r == ProjectRenewal(s, b) IN
         /\ r \in ServerDates /\ Anchored(r) /\ Agree(r, b)
         /\ r.enabled = s.enabled /\ r.expiry = s.expiry /\ r.months = s.months
  <1> DEFINE r == ProjectRenewal(s, b)
  <1>1. /\ r \in ServerDates /\ r.anchorDate = b.due /\ r.anchorDay = b.anchorDay
        /\ r.enabled = s.enabled /\ r.expiry = s.expiry /\ r.months = s.months /\ b.anchorDay \in 1..31
    <2>1. b.due \in CalendarDates /\ b.anchorDay \in 1..31 /\ b.anchorDay \in 0..31
      BY DEF BillDates
    <2>2. r = [s EXCEPT !.anchorDate = b.due, !.anchorDay = b.anchorDay]
      BY DEF ProjectRenewal
    <2> HIDE DEF r
    <2> QED BY <2>1, <2>2 DEF ServerDates
  <1> HIDE DEF r
  <1>2. BillingDay(r) = b.anchorDay
    BY <1>1 DEF BillingDay
  <1> QED BY <1>1, <1>2, AnchoredAnew DEF r, Agree

LEMMA AssetProjected ==
  ASSUME NEW s \in ServerDates, NEW b \in BillDates, Anchored(s)
  PROVE  LET r == ProjectAsset(s, b) IN
         r \in ServerDates /\ Anchored(r) /\ Agree(r, b) /\ r.enabled = s.enabled
  <1> DEFINE t == [s EXCEPT !.expiry = b.due, !.months = b.period]
  <1>1. t \in ServerDates /\ t.expiry = b.due /\ t.months = b.period /\ t.enabled = s.enabled
    BY DEF ServerDates, BillDates
  <1> HIDE DEF t
  <1>2. (ProjectAsset(s, b) = s /\ Agree(s, b)) \/ ProjectAsset(s, b) = ProjectRenewal(t, b)
    BY DEF ProjectAsset, Agree, t
  <1> QED BY <1>1, <1>2, Projected

LEMMA Normalized ==
  ASSUME NEW old \in ServerDates, Anchored(old), NEW x \in CalendarDates, NEW k \in 1..120, NEW on \in BOOLEAN
  PROVE  LET r == NormalizeRenewal(old, x, k, on) IN
         /\ r \in ServerDates /\ Anchored(r) /\ r.expiry = x /\ r.months = k
         /\ x = old.expiry /\ k = old.months => BillingDay(r) = BillingDay(old)
  <1> DEFINE r == NormalizeRenewal(old, x, k, on)
  <1>0. x # NoDate /\ old.anchorDate \in CalendarDates \cup {NoDate} /\ old.anchorDay \in 0..31
    BY DEF CalendarDates, NoDate, ServerDates
  <1>1. /\ r.expiry = x /\ r.months = k /\ r.enabled = on
        /\ \/ r.anchorDate = x /\ r.anchorDay = 0
           \/ x = old.expiry /\ k = old.months /\ r.anchorDate = old.anchorDate /\ r.anchorDay = old.anchorDay
        /\ x = old.expiry /\ k = old.months =>
             \/ r.anchorDate = old.anchorDate /\ r.anchorDay = old.anchorDay
             \/ old.anchorDate = NoDate /\ r.anchorDate = x /\ r.anchorDay = 0
    BY <1>0 DEF NormalizeRenewal
  <1>2. r \in ServerDates
    BY <1>0 DEF NormalizeRenewal, ServerDates
  <1> HIDE DEF r
  <1>3. Anchored(r)
    <2>1. CASE r.anchorDate = x
      BY <1>1, <1>2, <2>1, AnchoredAnew
    <2>2. CASE x = old.expiry /\ k = old.months /\ r.anchorDate = old.anchorDate /\ r.anchorDay = old.anchorDay
      BY <1>1, <2>2 DEF Anchored
    <2> QED BY <1>1, <2>1, <2>2
  <1>4. ASSUME x = old.expiry, k = old.months PROVE BillingDay(r) = BillingDay(old)
    BY <1>0, <1>1, <1>4 DEF BillingDay, Anchored
  <1> QED BY <1>1, <1>2, <1>3, <1>4 DEF r

LEMMA InfoOfServer ==
  ASSUME NEW s \in ServerDates, bill \in BillDates
  PROVE  InfoAsset(s) \in BillDates /\ Agree(s, InfoAsset(s)) /\ InfoAsset(s).rev = bill.rev + 1
  BY DayOfServer DEF InfoAsset, BillDates, ServerDates, Agree

\* What a renewal leaves of the server.
LEMMA RenewedServer ==
  ASSUME NEW s \in ServerDates, NEW at \in CalendarDates, Anchored(s), RenewalDue(s, at)
  PROVE  LET r == [s EXCEPT !.expiry = NextNodeExpiry(s, at)] IN
         /\ r \in ServerDates /\ Anchored(r) /\ BillingDay(r) = BillingDay(s)
         /\ r.expiry = NextNodeExpiry(s, at) /\ r.months = s.months /\ r.enabled = s.enabled
         /\ r.anchorDate = s.anchorDate /\ r.anchorDay = s.anchorDay
  <1> DEFINE n == NextNodeExpiry(s, at)
             r == [s EXCEPT !.expiry = n]
  <1>1. s.anchorDate # NoDate /\ ~Earlier(at, s.expiry)
    BY DEF RenewalDue
  <1>2. PICK k \in 1..(at.m - s.expiry.m + 1) : n = NodeExpiryAt(s.expiry, k * s.months, BillingDay(s))
    BY <1>1, RenewsToTheNext
  <1>3. /\ s.expiry \in CalendarDates /\ s.months \in 1..120 /\ BillingDay(s) \in 1..31 /\ s.anchorDate \in CalendarDates
        /\ s.expiry.m \in Int /\ s.anchorDate.m \in Int /\ s.anchorDate.d \in Int /\ s.expiry.d \in Int
    BY <1>1, DayOfServer DEF ServerDates, CalendarDates
  <1>4. k \in Nat /\ k >= 1 /\ k * s.months \in Nat /\ k * s.months >= 1
    <2>1. k \in Nat /\ k >= 1
      BY <1>2
    <2> QED BY <1>3, <2>1
  <1> HIDE DEF n
  <1>5. n \in CalendarDates /\ n.m = s.expiry.m + k * s.months
    <2>1. k * s.months \in Int
      BY <1>4
    <2>2. /\ NodeExpiryAt(s.expiry, k * s.months, BillingDay(s)) \in CalendarDates
          /\ NodeExpiryAt(s.expiry, k * s.months, BillingDay(s)).m = s.expiry.m + k * s.months
      BY <1>3, <2>1, ExpiryDate
    <2> QED BY <1>2, <2>2
  <1>6. /\ r \in ServerDates /\ r.expiry = n /\ r.months = s.months /\ r.enabled = s.enabled
        /\ r.anchorDate = s.anchorDate /\ r.anchorDay = s.anchorDay
    BY <1>5 DEF ServerDates
  <1> HIDE DEF r
  <1>7. BillingDay(r) = BillingDay(s)
    BY <1>1, <1>6 DEF BillingDay
  <1>8. Anchored(r)
    <2>1. PICK j \in Nat : s.expiry.m - s.anchorDate.m = j * s.months
      BY <1>1 DEF Anchored
    <2>2. (j + k) * s.months = j * s.months + k * s.months /\ j * s.months \in Int /\ j * s.months >= 0
      BY <1>3, <1>4, <2>1
    <2>3. n.m - s.anchorDate.m = (j + k) * s.months /\ n.m > s.anchorDate.m
      BY <1>3, <1>4, <1>5, <2>1, <2>2
    <2>4. ~Earlier(n, s.anchorDate)
      BY <1>3, <1>4, <1>5, <2>3 DEF Earlier
    <2>5. j + k \in Nat
      BY <1>4
    <2> QED BY <1>1, <1>6, <2>3, <2>4, <2>5 DEF Anchored
  <1> QED BY <1>6, <1>7, <1>8 DEF n, r

LEMMA DaysAreDates ==
  ASSUME NEW x \in RenewalDays
  PROVE  x \in CalendarDates /\ x # NoDate
  <1>1. x \in [m : Nat, d : 1..31]
    BY RenewalAssumption
  <1> QED BY <1>1 DEF CalendarDates, NoDate

LEMMA RenewalStarts == RenewalInit => RenewalInv
  <1> SUFFICES ASSUME RenewalInit PROVE RenewalInv
    OBVIOUS
  <1>1. PICK x \in RenewalDays, k \in RenewalCycles, on \in BOOLEAN :
          LET s == [expiry |-> x, months |-> k, enabled |-> on,
                    anchorDate |-> IF on THEN x ELSE NoDate, anchorDay |-> 0]
              b == [due |-> x, period |-> k, anchorDay |-> x.d, rev |-> 1]
          IN bill = b /\ linked \in BOOLEAN /\ server = IF linked /\ ~on THEN ProjectRenewal(s, b) ELSE s
    BY DEF RenewalInit
  <1> DEFINE s == [expiry |-> x, months |-> k, enabled |-> on, anchorDate |-> IF on THEN x ELSE NoDate, anchorDay |-> 0]
  <1>2. x \in CalendarDates /\ k \in 1..120 /\ today \in CalendarDates /\ x # NoDate
    <2>1. today \in RenewalDays
      BY DEF RenewalInit
    <2>2. k \in 1..120
      BY RenewalAssumption
    <2> QED BY <2>1, <2>2, DaysAreDates
  <1>3. /\ bill \in BillDates /\ bill.due = x /\ bill.period = k /\ bill.anchorDay = x.d
    BY <1>1, <1>2 DEF BillDates, CalendarDates
  <1>4. s \in ServerDates /\ s.expiry = x /\ s.months = k /\ s.anchorDay = 0 /\ s.anchorDate = IF on THEN x ELSE NoDate
    BY <1>2 DEF ServerDates
  <1>5. server = IF linked /\ ~on THEN ProjectRenewal(s, bill) ELSE s
    BY <1>1
  <1> HIDE DEF s
  <1>6. /\ server \in ServerDates /\ Anchored(server) /\ (linked => Agree(server, bill))
    <2>1. CASE linked /\ ~on
      BY <1>3, <1>4, <1>5, <2>1, Projected
    <2>2. CASE ~(linked /\ ~on)
      <3>1. Anchored(s)
        BY <1>2, <1>4, AnchoredAnew DEF Anchored
      <3>2. on => BillingDay(s) = x.d
        BY <1>2, <1>4 DEF BillingDay
      <3> QED BY <1>3, <1>4, <1>5, <2>2, <3>1, <3>2 DEF Agree
    <2> QED BY <2>1, <2>2
  <1>7. payment = NoPayment /\ paid = << >> /\ samples = {} /\ cursor = 0 /\ dateEdits = 0 /\ sent = 0
    BY DEF RenewalInit
  <1>8. RenewalTyped
    BY <1>1, <1>2, <1>3, <1>6, <1>7 DEF RenewalTyped
  <1>9. ShownAsIs
    BY <1>7 DEF ShownAsIs, NoPayment
  <1> QED BY <1>6, <1>8, <1>9 DEF RenewalInv, BillFollowsServer, Agree

\* A bill that is changed has another revision, so that an open payment is refused.
LEMMA ShownStays ==
  ASSUME RenewalTyped, ShownAsIs, payment' = payment,
         bill'.rev = bill.rev + 1 \/ (bill' = bill /\ BillRenews' = BillRenews)
  PROVE  ShownAsIs'
  <1> SUFFICES ASSUME payment.open PROVE ShownAsIs'
    BY DEF ShownAsIs
  <1>0. payment \in OpenPayments
    BY DEF RenewalTyped, NoPayment
  <1>1. payment.rev \in Nat /\ bill.rev \in Nat
    BY <1>0 DEF RenewalTyped, OpenPayments, BillDates
  <1>2. CASE bill'.rev = bill.rev + 1
    <2>0. payment.rev <= bill.rev /\ (payment.action = "set_due_date" => ~Earlier(payment.next, payment.due))
      BY DEF ShownAsIs
    <2>1. payment.rev <= bill'.rev /\ payment.rev # bill'.rev
      BY <1>1, <1>2, <2>0
    <2>2. payment'.rev <= bill'.rev /\ payment'.rev # bill'.rev
      BY <2>1
    <2>3. payment'.action = "set_due_date" => ~Earlier(payment'.next, payment'.due)
      BY <2>0
    <2> QED BY <2>2, <2>3 DEF ShownAsIs
  <1>3. CASE bill' = bill /\ BillRenews' = BillRenews
    BY <1>3 DEF ShownAsIs
  <1> QED BY <1>2, <1>3

\* A payment opened or loaded again is of the bill as it is.
LEMMA PaymentShown ==
  ASSUME RenewalTyped, NEW key \in Nat, NEW a \in DraftActions, payment' = PaymentOf(key, a),
         UNCHANGED <<bill, server, linked>>
  PROVE  payment' \in OpenPayments /\ ShownAsIs'
  <1>0. bill \in BillDates /\ bill.due \in CalendarDates /\ bill.rev \in Nat
    BY DEF RenewalTyped, BillDates
  <1>1. a \in {"", "record_only", "set_due_date"}
    BY DEF DraftActions
  <1>2. NextBillingDate(bill) \in CalendarDates /\ ~Earlier(NextBillingDate(bill), bill.due)
    BY <1>0, NextBilled
  <1>3. BillRenews' = BillRenews
    BY DEF BillRenews
  <1>4. /\ payment'.open /\ payment'.rev = bill.rev /\ payment'.due = bill.due /\ payment'.action = a
        /\ payment'.next = NextBillingDate(bill)
        /\ payment'.keeps <=> (a = "record_only" \/ (a = "" /\ BillRenews))
    BY DEF PaymentOf
  <1>5. payment' \in OpenPayments
    BY <1>0, <1>1, <1>2 DEF PaymentOf, OpenPayments
  <1>6. NextBillingDate(bill)' = NextBillingDate(bill)
    BY DEF NextBillingDate
  <1>7. payment'.rev <= bill'.rev /\ payment'.due = bill'.due /\ payment'.next = NextBillingDate(bill)'
    <2>1. bill' = bill
      OBVIOUS
    <2>2. payment'.rev = bill.rev /\ payment'.due = bill.due /\ payment'.next = NextBillingDate(bill)'
      BY <1>4, <1>6
    <2>3. bill.rev <= bill.rev
      BY <1>0
    <2> QED BY <2>1, <2>2, <2>3
  <1>8. ~Earlier(payment'.next, payment'.due)
    BY <1>2, <1>4
  <1> QED BY <1>3, <1>4, <1>5, <1>7, <1>8 DEF ShownAsIs

\* A payment as it is served: the date it moves the bill to, and its day.
PaymentAction == IF payment.action # "" THEN payment.action ELSE IF BillRenews THEN "record_only" ELSE "advance_period"

LEMMA PaymentEffect ==
  ASSUME RenewalTyped, ShownAsIs, NEW gone \in BOOLEAN, RecordInfraPayment(gone)
  PROVE  /\ payment \in OpenPayments /\ payment.rev = bill.rev
         /\ bill' \in BillDates /\ bill'.rev = bill.rev + 1 /\ bill'.period = bill.period
         /\ bill'.due = IF payment.keeps THEN bill.due ELSE payment.next
         /\ \/ PaymentAction = "record_only" /\ server' = server /\ bill'.due = bill.due /\ bill'.anchorDay = bill.anchorDay
            \/ server' = SyncedServer(bill') /\ bill'.anchorDay = bill.anchorDay
            \/ /\ server' = SyncedServer(bill') /\ bill'.anchorDay = PaymentDateAnchor(bill, bill'.due)
               /\ ~Earlier(bill'.due, bill.due)
         /\ payment' \in {payment, NoPayment}
         /\ paid' = Append(paid, [key |-> payment.key, request |-> IF gone THEN payment ELSE NoPayment])
         /\ UNCHANGED <<today, linked, samples, cursor, dateEdits, sent>>
  <1>1. payment.open /\ payment.rev = bill.rev
    BY DEF RecordInfraPayment
  <1>2. payment \in OpenPayments
    BY <1>1 DEF RenewalTyped, NoPayment
  <1>3. /\ bill \in BillDates /\ bill.due \in CalendarDates /\ bill.anchorDay \in 1..31 /\ bill.rev \in Nat
        /\ payment.next \in CalendarDates /\ payment.next.d \in 1..31
        /\ payment.action \in {"", "record_only", "set_due_date"}
    BY <1>2 DEF RenewalTyped, BillDates, OpenPayments, CalendarDates
  <1> DEFINE action == PaymentAction
             next == CASE action = "record_only" -> bill.due
                       [] action = "set_due_date" -> payment.next
                       [] OTHER -> NextInfraDue(bill.due, bill.period, bill.anchorDay)
             anchor == IF action = "set_due_date" THEN PaymentDateAnchor(bill, next) ELSE bill.anchorDay
  <1>4. /\ bill' = [bill EXCEPT !.due = next, !.anchorDay = anchor, !.rev = @ + 1]
        /\ server' = IF action = "record_only" THEN server ELSE SyncedServer(bill')
        /\ payment' = IF gone THEN payment ELSE NoPayment
        /\ paid' = Append(paid, [key |-> payment.key, request |-> IF gone THEN payment ELSE NoPayment])
        /\ UNCHANGED <<today, linked, samples, cursor, dateEdits, sent>>
    BY DEF RecordInfraPayment, PaymentAction
  <1>5. action \in {"record_only", "set_due_date", "advance_period"}
    BY <1>3 DEF PaymentAction
  <1>6. /\ action = "record_only" => next = bill.due
        /\ action = "set_due_date" => next = payment.next
        /\ action = "advance_period" => next = NextBillingDate(bill) /\ payment.action = "" /\ ~BillRenews
    BY <1>3, NextBilled DEF PaymentAction
  <1>7. next \in CalendarDates /\ anchor \in 1..31
    BY <1>3, <1>5, <1>6, NextBilled DEF PaymentDateAnchor
  <1>8. next = IF payment.keeps THEN bill.due ELSE payment.next
    BY <1>1, <1>3, <1>5, <1>6 DEF ShownAsIs, PaymentAction
  <1>9. action = "set_due_date" => ~Earlier(next, bill.due)
    BY <1>1, <1>3, <1>6 DEF ShownAsIs, PaymentAction
  <1> HIDE DEF next, action, anchor
  <1>10. /\ bill' \in BillDates /\ bill'.rev = bill.rev + 1 /\ bill'.period = bill.period
         /\ bill'.due = next /\ bill'.anchorDay = anchor
    <2>1. bill' = [bill EXCEPT !.due = next, !.anchorDay = anchor, !.rev = bill.rev + 1]
      BY <1>4
    <2>2. bill.rev + 1 \in Nat /\ bill.period \in 1..120
      <3>1. bill.rev \in Nat /\ bill \in BillDates
        BY <1>3
      <3>2. bill.period \in 1..120
        BY <3>1 DEF BillDates
      <3> QED BY <3>1, <3>2
    <2>3. bill' = [due |-> next, period |-> bill.period, anchorDay |-> anchor, rev |-> bill.rev + 1]
      BY <1>3, <2>1 DEF BillDates
    <2> QED BY <1>7, <2>2, <2>3 DEF BillDates
  <1>11. CASE action = "record_only"
    <2>1. PaymentAction = "record_only" /\ anchor = bill.anchorDay
      BY <1>11 DEF action, anchor
    <2> QED BY <1>1, <1>2, <1>4, <1>6, <1>8, <1>10, <1>11, <2>1
  <1>12. CASE action # "record_only"
    <2>1. anchor = bill.anchorDay \/ (action = "set_due_date" /\ anchor = PaymentDateAnchor(bill, next))
      BY DEF anchor
    <2> QED BY <1>1, <1>2, <1>4, <1>8, <1>9, <1>10, <1>12, <2>1
  <1> QED BY <1>11, <1>12

\* The bill, when it is linked, and the server are still one after the server or
\* the bill moved alone.
LEMMA SyncedAgree ==
  ASSUME RenewalInv, NEW b \in BillDates
  PROVE  /\ SyncedServer(b) \in ServerDates /\ Anchored(SyncedServer(b))
         /\ linked => Agree(SyncedServer(b), b)
         /\ ~linked => SyncedServer(b) = server
  <1>1. server \in ServerDates /\ Anchored(server)
    BY DEF RenewalInv, RenewalTyped
  <1> QED BY <1>1, AssetProjected DEF SyncedServer

\* The counters and the samples, which no date depends on.
Counts ==
  /\ samples \subseteq [seq : Nat, on : CalendarDates] /\ cursor \in Nat /\ dateEdits \in Nat /\ sent \in Nat
  /\ paid \in Seq([key : Nat, request : OpenPayments \cup {NoPayment}])

\* The invariant from its parts.
LEMMA RenewalKept ==
  ASSUME today' \in CalendarDates, server' \in ServerDates, bill' \in BillDates, linked' \in BOOLEAN, Counts',
         payment' = NoPayment \/ payment' \in OpenPayments,
         Anchored(server'), linked' => Agree(server', bill'), ShownAsIs'
  PROVE  RenewalInv'
  <1>1. RenewalTyped'
    BY DEF RenewalTyped, Counts
  <1>2. BillFollowsServer'
    BY DEF BillFollowsServer, Agree
  <1>3. Anchored(server)'
    BY DEF Anchored
  <1> QED BY <1>1, <1>2, <1>3 DEF RenewalInv

\* What the invariant says of the state a step starts in.
LEMMA RenewalNow ==
  ASSUME RenewalInv
  PROVE  /\ today \in CalendarDates /\ server \in ServerDates /\ bill \in BillDates /\ linked \in BOOLEAN /\ Counts
         /\ payment = NoPayment \/ payment \in OpenPayments
         /\ Anchored(server) /\ (linked => Agree(server, bill)) /\ RenewalTyped /\ ShownAsIs
         /\ bill.rev \in Nat /\ bill.period \in 1..120 /\ bill.due \in CalendarDates /\ bill.anchorDay \in 1..31
  BY DEF RenewalInv, RenewalTyped, Counts, BillFollowsServer, Agree, BillDates

LEMMA AsidesKeep == ASSUME RenewalInv, DayPasses \/ SendSample PROVE RenewalInv'
  <1>0. UNCHANGED <<server, bill, linked, payment, cursor, paid, dateEdits>>
    BY DEF DayPasses, SendSample
  <1>1. today' \in CalendarDates
    BY DaysAreDates, RenewalNow DEF DayPasses, SendSample
  <1>2. Counts'
    <2>1. CASE DayPasses
      BY <2>1, RenewalNow DEF DayPasses, Counts
    <2>2. CASE SendSample
      <3>1. sent \in Nat /\ sent + 1 \in Nat /\ today \in CalendarDates
        BY RenewalNow DEF Counts
      <3>2. [seq |-> sent + 1, on |-> today] \in [seq : Nat, on : CalendarDates]
        BY <3>1
      <3>3. samples' \subseteq [seq : Nat, on : CalendarDates] /\ sent' \in Nat
        BY <2>2, <3>1, <3>2, RenewalNow DEF SendSample, Counts
      <3> QED BY <1>0, <3>3, RenewalNow DEF Counts
    <2> QED BY <2>1, <2>2
  <1>3. ShownAsIs'
    <2>1. BillRenews' = BillRenews
      BY <1>0 DEF BillRenews
    <2> QED BY <1>0, <2>1, RenewalNow, ShownStays
  <1>4. Anchored(server') /\ (linked' => Agree(server', bill'))
    BY <1>0, RenewalNow
  <1> QED BY <1>0, <1>1, <1>2, <1>3, <1>4, RenewalNow, RenewalKept

LEMMA ReportKeeps ==
  ASSUME RenewalInv, NEW r \in samples, RecordNodeReport(r)
  PROVE  RenewalInv'
  <1>0. UNCHANGED <<today, linked, samples, payment, paid, dateEdits, sent>>
    BY DEF RecordNodeReport
  <1>1. r.seq \in Nat
    BY RenewalNow DEF Counts
  <1>2. Counts'
    BY <1>0, <1>1, RenewalNow DEF RecordNodeReport, Counts
  <1>3. CASE UNCHANGED <<server, bill>>
    <2>1. BillRenews' = BillRenews
      BY <1>0, <1>3 DEF BillRenews
    <2>2. ShownAsIs'
      BY <1>0, <1>3, <2>1, RenewalNow, ShownStays
    <2>3. Anchored(server') /\ (linked' => Agree(server', bill'))
      BY <1>0, <1>3, RenewalNow
    <2> QED BY <1>0, <1>2, <1>3, <2>2, <2>3, RenewalNow, RenewalKept
  <1>4. CASE ~UNCHANGED <<server, bill>>
    <2>1. /\ RenewalDue(server, today) /\ server' = [server EXCEPT !.expiry = NextNodeExpiry(server, today)]
          /\ bill' = IF linked THEN InfoAsset(server') ELSE bill
      BY <1>4 DEF RecordNodeReport
    <2>2. server' \in ServerDates /\ Anchored(server') /\ server'.enabled = server.enabled
      BY <2>1, RenewalNow, RenewedServer
    <2>3. /\ bill' \in BillDates /\ (linked' => Agree(server', bill'))
          /\ bill'.rev = bill.rev + 1 \/ (bill' = bill /\ ~linked)
      BY <1>0, <2>1, <2>2, RenewalNow, InfoOfServer
    <2>4. ShownAsIs'
      <3>1. bill' = bill /\ ~linked => BillRenews' = BillRenews
        BY <1>0 DEF BillRenews
      <3> QED BY <1>0, <2>3, <3>1, RenewalNow, ShownStays
    <2> QED BY <1>0, <1>2, <2>2, <2>3, <2>4, RenewalNow, RenewalKept
  <1> QED BY <1>3, <1>4

LEMMA InfoKeeps ==
  ASSUME RenewalInv, NEW x \in RenewalDays, NEW k \in RenewalCycles, NEW on \in BOOLEAN, EditInfo(x, k, on)
  PROVE  RenewalInv'
  <1> DEFINE s == NormalizeRenewal(server, x, k, on)
             same == s.expiry = server.expiry /\ s.months = server.months
             b == IF same THEN [InfoAsset(s) EXCEPT !.anchorDay = bill.anchorDay] ELSE InfoAsset(s)
  <1>1. /\ server' = IF linked THEN ProjectRenewal(s, b) ELSE s
        /\ bill' = IF linked THEN b ELSE bill
        /\ dateEdits' = dateEdits + 1
        /\ UNCHANGED <<today, linked, samples, cursor, payment, paid, sent>>
    BY DEF EditInfo, Edited
  <1>2. s \in ServerDates /\ Anchored(s)
    <2>1. k \in 1..120 /\ x \in CalendarDates
      BY RenewalAssumption, DaysAreDates
    <2> QED BY <2>1, RenewalNow, Normalized
  <1> HIDE DEF s
  <1>3. b \in BillDates /\ b.due = s.expiry /\ b.period = s.months /\ b.rev = bill.rev + 1
    <2>1. /\ InfoAsset(s) \in BillDates /\ InfoAsset(s).due = s.expiry /\ InfoAsset(s).period = s.months
          /\ InfoAsset(s).rev = bill.rev + 1 /\ bill.anchorDay \in 1..31
      BY <1>2, RenewalNow, InfoOfServer DEF Agree
    <2>2. LET i == InfoAsset(s) IN
          i \in BillDates => /\ [i EXCEPT !.anchorDay = bill.anchorDay] \in BillDates
                            /\ [i EXCEPT !.anchorDay = bill.anchorDay].due = i.due
                            /\ [i EXCEPT !.anchorDay = bill.anchorDay].period = i.period
                            /\ [i EXCEPT !.anchorDay = bill.anchorDay].rev = i.rev
      BY <2>1 DEF BillDates
    <2> QED BY <2>1, <2>2
  <1> HIDE DEF b
  <1>4. CASE linked
    <2>1. server' \in ServerDates /\ Anchored(server') /\ Agree(server', bill')
      BY <1>1, <1>2, <1>3, <1>4, Projected
    <2>2. bill' \in BillDates /\ bill'.rev = bill.rev + 1
      BY <1>1, <1>3, <1>4
    <2>3. ShownAsIs'
      BY <1>1, <2>2, RenewalNow, ShownStays
    <2>4. Counts'
      BY <1>1, RenewalNow DEF Counts
    <2> QED BY <1>1, <2>1, <2>2, <2>3, <2>4, RenewalNow, RenewalKept
  <1>5. CASE ~linked
    <2>1. server' \in ServerDates /\ Anchored(server') /\ bill' = bill /\ ~linked'
      BY <1>1, <1>2, <1>5
    <2>2. BillRenews' = BillRenews
      BY <1>5, <2>1 DEF BillRenews
    <2>3. ShownAsIs'
      BY <1>1, <2>1, <2>2, RenewalNow, ShownStays
    <2>4. Counts'
      BY <1>1, RenewalNow DEF Counts
    <2> QED BY <1>1, <2>1, <2>3, <2>4, RenewalNow, RenewalKept
  <1> QED BY <1>4, <1>5

LEMMA LinksKeep ==
  ASSUME RenewalInv,
         \/ \E x \in RenewalDays, k \in RenewalCycles, a \in BillingDays : SaveInfraAsset(x, k, a)
         \/ LinkAsset \/ CreateAsset \/ UnlinkAsset
  PROVE  RenewalInv'
  <1>0. dateEdits' = dateEdits + 1 /\ UNCHANGED <<today, samples, cursor, payment, paid, sent>>
    BY DEF SaveInfraAsset, LinkAsset, CreateAsset, UnlinkAsset, Edited
  <1>1. Counts'
    BY <1>0, RenewalNow DEF Counts
  <1>2. /\ linked' \in BOOLEAN /\ bill' \in BillDates /\ bill'.rev = bill.rev + 1
        /\ server' \in ServerDates /\ Anchored(server') /\ (linked' => Agree(server', bill'))
    <2>0. LET b == [bill EXCEPT !.rev = @ + 1] IN
          /\ b \in BillDates /\ b.rev = bill.rev + 1 /\ b.due = bill.due /\ b.period = bill.period /\ b.anchorDay = bill.anchorDay
      BY RenewalNow DEF BillDates
    <2>1. ASSUME NEW x \in RenewalDays, NEW k \in RenewalCycles, NEW a \in BillingDays, SaveInfraAsset(x, k, a)
          PROVE  /\ linked' \in BOOLEAN /\ bill' \in BillDates /\ bill'.rev = bill.rev + 1
                 /\ server' \in ServerDates /\ Anchored(server') /\ (linked' => Agree(server', bill'))
      <3>1. x \in CalendarDates /\ k \in 1..120 /\ a \in 1..31
        BY RenewalAssumption, DaysAreDates
      <3>2. bill' = [due |-> x, period |-> k, anchorDay |-> a, rev |-> bill.rev + 1] /\ server' = SyncedServer(bill') /\ linked' = linked
        BY <2>1 DEF SaveInfraAsset
      <3>3. bill' \in BillDates /\ bill'.rev = bill.rev + 1
        BY <3>1, <3>2, RenewalNow DEF BillDates
      <3>4. linked => Agree(server', bill')
        BY <3>2, <3>3, SyncedAgree
      <3>5. server' \in ServerDates /\ Anchored(server')
        BY <3>2, <3>3, SyncedAgree
      <3> QED BY <3>2, <3>3, <3>4, <3>5, RenewalNow
    <2>2. CASE LinkAsset
      <3>1. /\ server' \in ServerDates /\ Anchored(server') /\ Agree(server', bill)
        BY <2>2, RenewalNow, AssetProjected DEF LinkAsset
      <3>2. Agree(server', bill') /\ bill' \in BillDates /\ bill'.rev = bill.rev + 1
        BY <2>0, <2>2, <3>1 DEF LinkAsset, Agree
      <3> QED BY <2>2, <3>1, <3>2 DEF LinkAsset
    <2>3. CASE CreateAsset
      <3>1. bill' \in BillDates /\ bill'.rev = bill.rev + 1
        BY <2>3, RenewalNow, InfoOfServer DEF CreateAsset
      <3>2. /\ server' \in ServerDates /\ Anchored(server') /\ Agree(server', bill')
        BY <2>3, <3>1, RenewalNow, AssetProjected DEF CreateAsset
      <3> QED BY <2>3, <3>1, <3>2 DEF CreateAsset
    <2>4. CASE UnlinkAsset
      BY <2>0, <2>4, RenewalNow DEF UnlinkAsset
    <2> QED BY <2>1, <2>2, <2>3, <2>4
  <1>3. ShownAsIs'
    BY <1>0, <1>2, RenewalNow, ShownStays
  <1> QED BY <1>0, <1>1, <1>2, <1>3, RenewalNow, RenewalKept

LEMMA DraftsKeep ==
  ASSUME RenewalInv,
         \/ OpenPayment \/ Reanswered \/ ReloadPaymentDraft
         \/ \E x \in RenewalDays : PickDate(x)
  PROVE  RenewalInv'
  <1>0. UNCHANGED <<today, server, bill, linked, samples, cursor, paid, dateEdits, sent>>
    BY DEF OpenPayment, Reanswered, ReloadPaymentDraft, PickDate
  <1>1. Counts'
    BY <1>0, RenewalNow DEF Counts
  <1>2. Anchored(server') /\ (linked' => Agree(server', bill'))
    BY <1>0, RenewalNow
  <1>3. (payment' = NoPayment \/ payment' \in OpenPayments) /\ ShownAsIs'
    <2>1. CASE OpenPayment
      <3>1. PICK a \in DraftActions : payment' = PaymentOf(Len(paid) + 1, a)
        BY <2>1 DEF OpenPayment
      <3>2. Len(paid) + 1 \in Nat
        BY RenewalNow DEF Counts
      <3> QED BY <1>0, <3>1, <3>2, RenewalNow, PaymentShown
    <2>2. CASE Reanswered
      BY <2>2 DEF Reanswered, ShownAsIs, NoPayment
    <2>3. CASE ReloadPaymentDraft
      <3>1. PICK a \in DraftActions : payment' = PaymentOf(payment.key, a)
        BY <2>3 DEF ReloadPaymentDraft
      <3>2. payment \in OpenPayments
        BY <2>3, RenewalNow DEF ReloadPaymentDraft, NoPayment
      <3>3. payment.key \in Nat
        BY <3>2 DEF OpenPayments
      <3> QED BY <1>0, <3>1, <3>3, RenewalNow, PaymentShown
    <2>4. ASSUME NEW x \in RenewalDays, PickDate(x)
          PROVE  (payment' = NoPayment \/ payment' \in OpenPayments) /\ ShownAsIs'
      <3>1. /\ payment.open /\ payment.action = "set_due_date" /\ ~Earlier(x, payment.due)
            /\ payment' = [payment EXCEPT !.next = x]
        BY <2>4 DEF PickDate
      <3>2. payment \in OpenPayments /\ x \in CalendarDates
        BY <3>1, RenewalNow, DaysAreDates DEF NoPayment
      <3>3. /\ payment' \in OpenPayments /\ payment'.next = x /\ payment'.open /\ payment'.due = payment.due
            /\ payment'.rev = payment.rev /\ payment'.action = payment.action /\ payment'.keeps = payment.keeps
        BY <3>1, <3>2 DEF OpenPayments
      <3>4. BillRenews' = BillRenews
        BY <1>0 DEF BillRenews
      <3>5. ShownAsIs'
        BY <1>0, <3>1, <3>3, <3>4, RenewalNow DEF ShownAsIs
      <3> QED BY <3>3, <3>5
    <2> QED BY <2>1, <2>2, <2>3, <2>4
  <1> QED BY <1>0, <1>1, <1>2, <1>3, RenewalNow, RenewalKept

LEMMA PaymentKeeps ==
  ASSUME RenewalInv, NEW gone \in BOOLEAN, RecordInfraPayment(gone)
  PROVE  RenewalInv'
  <1>1. /\ payment \in OpenPayments /\ payment.rev = bill.rev
        /\ bill' \in BillDates /\ bill'.rev = bill.rev + 1 /\ bill'.period = bill.period
        /\ \/ server' = server /\ bill'.due = bill.due /\ bill'.anchorDay = bill.anchorDay
           \/ server' = SyncedServer(bill')
        /\ payment' \in {payment, NoPayment}
        /\ paid' = Append(paid, [key |-> payment.key, request |-> IF gone THEN payment ELSE NoPayment])
        /\ UNCHANGED <<today, linked, samples, cursor, dateEdits, sent>>
    BY RenewalNow, PaymentEffect
  <1>2. /\ server' \in ServerDates /\ Anchored(server') /\ (linked' => Agree(server', bill'))
    <2>1. CASE server' = server /\ bill'.due = bill.due /\ bill'.anchorDay = bill.anchorDay
      BY <1>1, <2>1, RenewalNow DEF Agree
    <2>2. CASE server' = SyncedServer(bill')
      <3>1. linked => Agree(server', bill')
        BY <1>1, <2>2, SyncedAgree
      <3>2. server' \in ServerDates /\ Anchored(server')
        BY <1>1, <2>2, SyncedAgree
      <3> QED BY <1>1, <3>1, <3>2
    <2> QED BY <1>1, <2>1, <2>2
  <1>3. Counts'
    <2>1. payment.key \in Nat
      BY <1>1 DEF OpenPayments
    <2>2. [key |-> payment.key, request |-> IF gone THEN payment ELSE NoPayment] \in [key : Nat, request : OpenPayments \cup {NoPayment}]
      BY <1>1, <2>1
    <2> QED BY <1>1, <2>2, RenewalNow DEF Counts
  <1>4. ShownAsIs'
    <2>1. CASE payment' = payment
      BY <1>1, <2>1, RenewalNow, ShownStays
    <2>2. CASE payment' = NoPayment
      BY <2>2 DEF ShownAsIs, NoPayment
    <2> QED BY <1>1, <2>1, <2>2
  <1> QED BY <1>1, <1>2, <1>3, <1>4, RenewalNow, RenewalKept

LEMMA RenewalStep == RenewalInv /\ [RenewalNext]_renewalVars => RenewalInv'
  <1> SUFFICES ASSUME RenewalInv, [RenewalNext]_renewalVars PROVE RenewalInv'
    OBVIOUS
  <1>1. CASE DayPasses \/ SendSample
    BY <1>1, AsidesKeep
  <1>2. CASE \E r \in samples : RecordNodeReport(r)
    BY <1>2, ReportKeeps
  <1>3. CASE \E x \in RenewalDays, k \in RenewalCycles, on \in BOOLEAN : EditInfo(x, k, on)
    BY <1>3, InfoKeeps
  <1>4. CASE \/ \E x \in RenewalDays, k \in RenewalCycles, a \in BillingDays : SaveInfraAsset(x, k, a)
             \/ LinkAsset \/ CreateAsset \/ UnlinkAsset
    BY <1>4, LinksKeep
  <1>5. CASE OpenPayment \/ Reanswered \/ ReloadPaymentDraft \/ \E x \in RenewalDays : PickDate(x)
    BY <1>5, DraftsKeep
  <1>6. CASE \E gone \in BOOLEAN : RecordInfraPayment(gone)
    BY <1>6, PaymentKeeps
  <1>7. CASE UNCHANGED renewalVars
    BY <1>7 DEF renewalVars, RenewalInv, RenewalTyped, BillFollowsServer, Anchored, ShownAsIs, BillRenews,
                BillingDay, NextBillingDate
  <1> QED BY <1>1, <1>2, <1>3, <1>4, <1>5, <1>6, <1>7 DEF RenewalNext

-----------------------------------------------------------------------------
(* What follows from the invariant.                                         *)
LEMMA PeriodsStayTiled == RenewalInv => PeriodsTile
  <1> SUFFICES ASSUME RenewalInv, NEW day \in {1, BillingDay(server)}, NEW shift \in {-1, 0, 1}
               PROVE  LET start == NodePeriodStart(today, day, shift)
                          end == NodePeriodEnd(start, day, shift)
                      IN /\ ~Earlier(today, start) /\ Earlier(today, end)
                         /\ NodePeriodStart(end, day, shift) = end
    BY DEF PeriodsTile
  <1>1. day \in 1..31
    BY RenewalNow, DayOfServer
  <1> QED BY <1>1, RenewalNow, PeriodsAlwaysTile

\* A step that renews is the report of a sample taken on the day.
LEMMA RenewedByReport ==
  ASSUME RenewalInv, [RenewalNext]_renewalVars, Renewed
  PROVE  /\ RenewalDue(server, today) /\ server' = [server EXCEPT !.expiry = NextNodeExpiry(server, today)]
         /\ UNCHANGED today
  <1>1. cursor' # cursor /\ server' # server
    BY DEF Renewed
  <1>2. PICK r \in samples : RecordNodeReport(r)
    BY <1>1 DEF RenewalNext, renewalVars, DayPasses, SendSample, EditInfo, SaveInfraAsset, LinkAsset, CreateAsset,
                UnlinkAsset, OpenPayment, PickDate, RecordInfraPayment, Reanswered, ReloadPaymentDraft
  <1> QED BY <1>1, <1>2 DEF RecordNodeReport

LEMMA RenewedIsTheNext ==
  ASSUME RenewalInv, [RenewalNext]_renewalVars, Renewed
  PROVE  LET ahead(k) == Earlier(today, NodeExpiryAt(server.expiry, k * server.months, BillingDay(server)))
             k0 == CHOOSE k \in 1..(today.m - server.expiry.m + 1) : ahead(k) /\ \A j \in 1..(k - 1) : ~ahead(j)
         IN server'.expiry = NodeExpiryAt(server.expiry, k0 * server.months, BillingDay(server))
  <1> DEFINE X(k) == NodeExpiryAt(server.expiry, k * server.months, BillingDay(server))
             ahead(k) == Earlier(today, X(k))
             P(k) == ahead(k) /\ \A j \in 1..(k - 1) : ~ahead(j)
             top == today.m - server.expiry.m + 1
             k0 == CHOOSE k \in 1..top : P(k)
  <1>1. RenewalDue(server, today) /\ server'.expiry = NextNodeExpiry(server, today)
    BY RenewedByReport, RenewalNow DEF ServerDates
  <1>2. PICK k \in 1..top : NextNodeExpiry(server, today) = X(k) /\ P(k)
    BY <1>1, RenewalNow, RenewsToTheNext DEF RenewalDue
  <1>3. today.m \in Int /\ server.expiry.m \in Int
    BY RenewalNow DEF ServerDates, CalendarDates
  <1>4. top \in Int
    BY <1>3
  <1> HIDE DEF X, top
  <1>5. k0 \in 1..top /\ P(k0)
    BY <1>2
  <1>6. k0 = k
    <2> HIDE DEF k0
    <2>1. k \in Int /\ k >= 1 /\ k0 \in Int /\ k0 >= 1
      BY <1>2, <1>4, <1>5
    <2> QED BY <1>2, <1>5, <2>1
  <1>7. server'.expiry = X(k0)
    BY <1>1, <1>2, <1>6
  <1> QED BY <1>7 DEF X, top

LEMMA RenewedIsWhole ==
  ASSUME RenewalInv, [RenewalNext]_renewalVars, Renewed, OnCadence(server)
  PROVE  LET start == CycleStart(server')
         IN start # NoDate /\ ~Earlier(today, start) /\ ~Earlier(start, server.expiry)
  <1> DEFINE e == server.expiry
             c == server.months
             day == BillingDay(server)
             X(k) == NodeExpiryAt(e, k * c, day)
             r == server'
  <1>1. /\ RenewalDue(server, today) /\ ~Earlier(today, e) /\ e \in CalendarDates /\ c \in 1..120 /\ day \in 1..31
        /\ e.m \in Int /\ today \in CalendarDates
    BY RenewedByReport, RenewalNow, DayOfServer DEF RenewalDue, ServerDates, CalendarDates
  <1>2. /\ r \in ServerDates /\ Anchored(r) /\ BillingDay(r) = day /\ r.expiry = NextNodeExpiry(server, today)
        /\ r.months = c /\ r.anchorDate = server.anchorDate /\ r.anchorDate # NoDate
    <2>1. /\ server \in ServerDates /\ Anchored(server) /\ server.anchorDate # NoDate
          /\ r = [server EXCEPT !.expiry = NextNodeExpiry(server, today)]
      BY <1>1, RenewedByReport, RenewalNow DEF RenewalDue
    <2> HIDE DEF r
    <2> QED BY <1>1, <2>1, RenewedServer
  <1>3. PICK k \in 1..(today.m - e.m + 1) : /\ r.expiry = X(k)
                                            /\ \A j \in 1..(k - 1) : ~Earlier(today, X(j))
    BY <1>1, <1>2, RenewalNow, RenewsToTheNext
  <1>4. k \in Nat /\ k >= 1 /\ k * c \in Int /\ (k - 1) * c \in Int /\ (k - 1) * c = k * c - c /\ k - 1 \in Nat
    <2>1. k \in Nat /\ k >= 1 /\ k - 1 \in Nat
      BY <1>3
    <2> QED BY <1>1, <2>1
  <1>5. X(k).m = e.m + k * c /\ X(k).d = Clamp(day, e.m + k * c)
    BY <1>1, <1>4, ExpiryDate
  <1>6. RenewalDayFits(r)
    <2>1. PICK n \in Nat : r.expiry.m - r.anchorDate.m = n * c
      BY <1>2 DEF Anchored
    <2>2. (n * c) % c = 0
      <3> HIDE DEF c
      <3> QED BY <1>1
    <2>3. ~Earlier(r.expiry, r.anchorDate)
      BY <1>2 DEF Anchored
    <2> QED BY <1>2, <1>3, <1>5, <2>1, <2>2, <2>3 DEF RenewalDayFits
  <1>7. CycleStart(r) = X(k - 1)
    <2>1. r.expiry.m - c = e.m + (k - 1) * c
      BY <1>1, <1>3, <1>4, <1>5
    <2>2. CycleStart(r) = PreviousCycle(r.expiry, c, day)
      BY <1>2, <1>6 DEF CycleStart
    <2> QED BY <2>1, <2>2 DEF PreviousCycle, NodeExpiryAt
  <1>8. X(k - 1) \in CalendarDates /\ X(k - 1).m = e.m + (k - 1) * c /\ X(k - 1).d = Clamp(day, e.m + (k - 1) * c)
    BY <1>1, <1>4, ExpiryDate
  <1>9. X(k - 1) # NoDate
    BY <1>8 DEF CalendarDates, NoDate
  <1>10. CASE k = 1
    <2>1. (k - 1) * c = 0 /\ e.m + 0 = e.m
      BY <1>1, <1>10
    <2>2. X(k - 1).m = e.m /\ X(k - 1).d = e.d
      BY <1>8, <2>1 DEF OnCadence
    <2>3. X(k - 1) = e
      <3> HIDE DEF X
      <3> QED BY <1>1, <1>8, <2>2 DEF CalendarDates
    <2>4. ~Earlier(e, e)
      BY <1>1, DatesCompare
    <2> QED BY <1>1, <1>7, <1>9, <2>3, <2>4
  <1>11. CASE k > 1
    <2>1. k - 1 \in 1..(k - 1)
      BY <1>4, <1>11
    <2>2. ~Earlier(today, X(k - 1))
      BY <1>3, <2>1
    <2>3. (k - 1) * c > 0
      BY <1>1, <1>4, <1>11
    <2>4. X(k - 1).m > e.m
      <3> HIDE DEF X
      <3> QED BY <1>1, <1>4, <1>8, <2>3
    <2>5. X(k - 1).m \in Int
      BY <1>8 DEF CalendarDates
    <2>6. ~Earlier(X(k - 1), e)
      <3> HIDE DEF X
      <3> QED BY <1>1, <2>4, <2>5 DEF Earlier
    <2> QED BY <1>7, <1>9, <2>2, <2>6
  <1> QED BY <1>4, <1>10, <1>11

\* A payment moves the billing day only when its date is off the cadence.
LEMMA PaidDay ==
  ASSUME RenewalInv, NEW gone \in BOOLEAN, RecordInfraPayment(gone), BillingDay(server') # BillingDay(server)
  PROVE  paid' # paid /\ OffCadence(server, server'.expiry)
  <1>1. /\ bill' \in BillDates
        /\ \/ server' = server
           \/ server' = SyncedServer(bill') /\ bill'.anchorDay = bill.anchorDay
           \/ /\ server' = SyncedServer(bill') /\ bill'.anchorDay = PaymentDateAnchor(bill, bill'.due)
              /\ ~Earlier(bill'.due, bill.due)
        /\ paid' = Append(paid, [key |-> payment.key, request |-> IF gone THEN payment ELSE NoPayment])
    BY RenewalNow, PaymentEffect
  <1>2. linked /\ server' = SyncedServer(bill')
    BY <1>1, SyncedAgree
  <1>3. Agree(server, bill) /\ Agree(server', bill')
    BY <1>1, <1>2, RenewalNow, SyncedAgree
  <1>4. /\ bill'.anchorDay = PaymentDateAnchor(bill, bill'.due) /\ ~Earlier(bill'.due, bill.due)
        /\ bill'.anchorDay # bill.anchorDay
    BY <1>1, <1>3 DEF Agree
  <1> DEFINE target == bill'.due
             months == target.m - bill.due.m
  <1>5. /\ target \in CalendarDates /\ bill.due \in CalendarDates /\ bill.anchorDay \in 1..31
        /\ target.m \in Int /\ bill.due.m \in Int /\ bill.period \in 1..120
    BY <1>1, RenewalNow DEF BillDates, CalendarDates
  <1> HIDE DEF target
  <1>6. months >= 0
    BY <1>4, <1>5 DEF Earlier, target
  <1>7. months % bill.period # 0 \/ NodeExpiryAt(bill.due, months, bill.anchorDay) # target
    BY <1>4, <1>6 DEF PaymentDateAnchor, target
  <1>8. bill.due.m + months = target.m
    BY <1>5
  <1>9. months % bill.period # 0 \/ target.d # Clamp(bill.anchorDay, target.m)
    <2> SUFFICES ASSUME target.d = Clamp(bill.anchorDay, target.m) PROVE months % bill.period # 0
      OBVIOUS
    <2>1. target = [m |-> target.m, d |-> target.d]
      BY <1>5 DEF CalendarDates
    <2>2. NodeExpiryAt(bill.due, months, bill.anchorDay) = target
      BY <1>8, <2>1 DEF NodeExpiryAt
    <2> QED BY <1>7, <2>2
  <1>10. OffCadence(server, server'.expiry)
    BY <1>3, <1>9 DEF OffCadence, Agree, target
  <1>11. paid' # paid
    <2>1. paid \in Seq([key : Nat, request : OpenPayments \cup {NoPayment}])
      BY RenewalNow DEF Counts
    <2>2. Len(paid') = Len(paid) + 1 /\ Len(paid) \in Nat
      BY <1>1, <2>1
    <2> QED BY <2>2
  <1> QED BY <1>10, <1>11

LEMMA DayIsKept ==
  ASSUME RenewalInv, [RenewalNext]_renewalVars, BillingDay(server') # BillingDay(server)
  PROVE  \/ dateEdits' # dateEdits /\ (server'.expiry # server.expiry \/ server'.months # server.months \/ bill' # bill)
         \/ paid' # paid /\ OffCadence(server, server'.expiry)
  <1>0. dateEdits \in Nat /\ bill.rev \in Nat
    BY RenewalNow DEF Counts
  <1>1. server' # server
    OBVIOUS
  <1>2. CASE \E r \in samples : RecordNodeReport(r)
    <2>1. RenewalDue(server, today) /\ server' = [server EXCEPT !.expiry = NextNodeExpiry(server, today)]
      BY <1>1, <1>2 DEF RecordNodeReport
    <2> QED BY <2>1, RenewalNow, RenewedServer
  <1>3. ASSUME NEW x \in RenewalDays, NEW k \in RenewalCycles, NEW on \in BOOLEAN, EditInfo(x, k, on)
        PROVE  dateEdits' # dateEdits /\ (server'.expiry # server.expiry \/ server'.months # server.months \/ bill' # bill)
    <2>1. k \in 1..120 /\ x \in CalendarDates
      BY RenewalAssumption, DaysAreDates
    <2>2. dateEdits' # dateEdits
      BY <1>0, <1>3 DEF EditInfo, Edited
    <2>3. CASE linked
      <3> DEFINE s == NormalizeRenewal(server, x, k, on)
      <3>1. bill' = InfoAsset(s) \/ bill' = [InfoAsset(s) EXCEPT !.anchorDay = bill.anchorDay]
        BY <1>3, <2>3 DEF EditInfo
      <3>2. bill'.rev = bill.rev + 1
        <4> HIDE DEF s
        <4> QED BY <3>1 DEF InfoAsset
      <3> QED BY <1>0, <2>2, <3>2
    <2>4. CASE ~linked
      <3> DEFINE s == NormalizeRenewal(server, x, k, on)
      <3>1. server' = s
        BY <1>3, <2>4 DEF EditInfo
      <3>2. /\ s.expiry = x /\ s.months = k
            /\ x = server.expiry /\ k = server.months => BillingDay(s) = BillingDay(server)
        <4>1. server \in ServerDates /\ Anchored(server)
          BY RenewalNow
        <4>2. s.expiry = x /\ s.months = k
          BY DEF NormalizeRenewal
        <4>3. ASSUME x = server.expiry, k = server.months PROVE BillingDay(s) = BillingDay(server)
          BY <2>1, <4>1, <4>3, Normalized
        <4> QED BY <4>2, <4>3
      <3> HIDE DEF s
      <3> QED BY <2>2, <3>1, <3>2
    <2> QED BY <2>3, <2>4
  <1>4. CASE \/ \E x \in RenewalDays, k \in RenewalCycles, a \in BillingDays : SaveInfraAsset(x, k, a)
             \/ LinkAsset \/ CreateAsset
    <2>1. bill'.rev = bill.rev + 1
      BY <1>4, RenewalNow DEF SaveInfraAsset, LinkAsset, CreateAsset, InfoAsset, BillDates
    <2>2. dateEdits' = dateEdits + 1
      BY <1>4 DEF SaveInfraAsset, LinkAsset, CreateAsset, Edited
    <2> QED BY <1>0, <2>1, <2>2
  <1>5. CASE \E gone \in BOOLEAN : RecordInfraPayment(gone)
    BY <1>5, PaidDay
  <1> QED BY <1>1, <1>2, <1>3, <1>4, <1>5
          DEF RenewalNext, renewalVars, DayPasses, SendSample, UnlinkAsset, OpenPayment, PickDate, Reanswered,
              ReloadPaymentDraft

LEMMA PaidAsShown ==
  ASSUME RenewalInv, [RenewalNext]_renewalVars, paid' # paid
  PROVE  bill'.due = IF payment.keeps THEN payment.due ELSE payment.next
  <1>1. PICK gone \in BOOLEAN : RecordInfraPayment(gone)
    BY DEF RenewalNext, renewalVars, DayPasses, SendSample, RecordNodeReport, EditInfo, SaveInfraAsset, LinkAsset,
           CreateAsset, UnlinkAsset, OpenPayment, PickDate, Reanswered, ReloadPaymentDraft
  <1>2. payment.rev = bill.rev /\ bill'.due = IF payment.keeps THEN bill.due ELSE payment.next
    BY <1>1, RenewalNow, PaymentEffect
  <1>3. payment.open
    BY <1>1 DEF RecordInfraPayment
  <1>4. payment.due = bill.due
    BY <1>2, <1>3, RenewalNow DEF ShownAsIs
  <1> QED BY <1>2, <1>4

-----------------------------------------------------------------------------
(* ProviderCache.  What a sweep leaves.                                     *)

\* B has what is before each member of a finite set: at least e members have
\* fewer than e before them, when some member has e or more.
LEMMA FirstOnesGo ==
  ASSUME NEW I, IsFiniteSet(I), NEW B, \A k \in I : B[k] \in SUBSET I /\ k \notin B[k] /\ \A j \in B[k] : B[j] \subseteq B[k],
         NEW e \in Int, NEW F \in SUBSET I, \A k \in I : k \in F <=> Cardinality(B[k]) < e,
         NEW x \in I, x \notin F
  PROVE  Cardinality(F) >= e
  <1> DEFINE late == I \ F
             ranks == {Cardinality(B[k]) : k \in late}
  <1>1. \A k \in I : IsFiniteSet(B[k]) /\ Cardinality(B[k]) \in Nat
    BY FS_Subset, FS_CardinalityType
  <1>2. PICK y \in late : \A z \in late : Cardinality(B[y]) <= Cardinality(B[z])
    <2>1. ranks \in SUBSET Nat /\ ranks # {}
      BY <1>1
    <2>2. PICK n \in ranks : \A m \in ranks : n <= m
      BY <2>1, LeastMember
    <2> QED BY <2>2
  <1>3. ASSUME NEW j \in B[y] PROVE j \in F
    <2>1. j \in I /\ y \in I /\ B[j] \subseteq B[y] /\ B[j] # B[y]
      BY <1>2, <1>3
    <2>2. Cardinality(B[j]) <= Cardinality(B[y]) /\ (Cardinality(B[y]) = Cardinality(B[j]) => B[y] = B[j])
      BY <1>1, <2>1, FS_Subset
    <2>3. Cardinality(B[j]) < Cardinality(B[y])
      BY <1>1, <2>1, <2>2
    <2>4. j \notin late
      BY <1>1, <1>2, <2>1, <2>3
    <2> QED BY <2>1, <2>4
  <1>4. IsFiniteSet(F) /\ Cardinality(F) \in Nat
    BY FS_Subset, FS_CardinalityType
  <1>5. Cardinality(B[y]) <= Cardinality(F)
    <2>1. B[y] \in SUBSET F
      BY <1>3
    <2> QED BY <1>4, <2>1, FS_Subset
  <1> QED BY <1>1, <1>2, <1>4, <1>5

CacheEntries == [id : Nat \ {0}, expires : Nat, used : Nat]
IsCache(c) == DOMAIN c \subseteq Fingerprints /\ c = [k \in DOMAIN c |-> c[k]] /\ \A k \in DOMAIN c : c[k] \in CacheEntries

\* A part of a cache, with the entries as they were.
PartOf(r, c) == DOMAIN r \subseteq DOMAIN c /\ r = [k \in DOMAIN r |-> r[k]] /\ \A k \in DOMAIN r : r[k] = c[k]

LEMMA WithoutFacts ==
  ASSUME NEW c, NEW ks
  PROVE  PartOf(Without(c, ks), c) /\ DOMAIN Without(c, ks) = DOMAIN c \ ks
  BY DEF Without, PartOf

LEMMA SweepFacts ==
  ASSUME NEW c, IsCache(c), NEW hs
  PROVE  LET r == SweepCache(c, hs)
         IN /\ IsCache(r) /\ PartOf(r, c)
            /\ \A k \in DOMAIN c : Subscribed(hs, c[k].id) => k \in DOMAIN r
            /\ Cardinality(DOMAIN r) > CacheSize => CanEvict(r, hs) = {}
  <1> DEFINE old == {k \in CanEvict(c, hs) : c[k].expires <= cacheTime}
             left == Without(c, old)
             idle == CanEvict(left, hs)
             excess == Cardinality(DOMAIN left) - CacheSize
             Sooner(j, k) == left[j].used < left[k].used \/ (left[j].used = left[k].used /\ left[j].id < left[k].id)
             gone == {k \in idle : Cardinality({j \in idle : Sooner(j, k)}) < excess}
             r == Without(left, gone)
  <1>0. SweepCache(c, hs) = r
    BY DEF SweepCache
  <1> HIDE DEF old
  <1>1. PartOf(left, c) /\ DOMAIN left = DOMAIN c \ old
    BY WithoutFacts
  <1> HIDE DEF left
  <1>2. IsCache(left) /\ idle \subseteq DOMAIN left
    BY <1>1 DEF IsCache, PartOf, CanEvict
  <1>3. IsFiniteSet(DOMAIN left) /\ Cardinality(DOMAIN left) \in Nat /\ IsFiniteSet(idle)
    BY <1>2, CacheAssumption, FS_Subset, FS_CardinalityType DEF IsCache
  <1>4. PartOf(r, left) /\ DOMAIN r = DOMAIN left \ gone
    BY WithoutFacts
  <1> HIDE DEF r
  <1>5. IsCache(r) /\ PartOf(r, c)
    BY <1>1, <1>2, <1>4 DEF IsCache, PartOf
  <1>6. ASSUME NEW k \in DOMAIN c, Subscribed(hs, c[k].id) PROVE k \in DOMAIN r
    <2>1. k \notin CanEvict(c, hs)
      BY <1>6 DEF CanEvict
    <2>2. k \in DOMAIN left /\ left[k] = c[k]
      BY <1>1, <2>1 DEF old, PartOf
    <2>3. k \notin idle
      BY <1>6, <2>2 DEF CanEvict
    <2> QED BY <1>4, <2>2, <2>3
  <1>7. ASSUME Cardinality(DOMAIN r) > CacheSize, NEW x \in CanEvict(r, hs) PROVE FALSE
    <2>1. x \in DOMAIN r /\ ~Subscribed(hs, r[x].id) /\ r[x] = left[x]
      BY <1>4, <1>7 DEF CanEvict, PartOf
    <2>2. x \in idle /\ x \notin gone
      BY <1>4, <2>1 DEF CanEvict
    <2> DEFINE B == [k \in idle |-> {j \in idle : Sooner(j, k)}]
    <2>3. \A k \in idle : left[k].used \in Nat /\ left[k].id \in Nat
      BY <1>2 DEF IsCache, CacheEntries
    <2>4. \A k \in idle : B[k] \in SUBSET idle /\ \A j \in idle : j \in B[k] <=> Sooner(j, k)
      OBVIOUS
    <2>5. gone \in SUBSET idle /\ \A k \in idle : k \in gone <=> Cardinality(B[k]) < excess
      OBVIOUS
    <2> HIDE DEF B, gone, excess
    <2>6. \A k \in idle : B[k] \in SUBSET idle /\ k \notin B[k]
      BY <2>3, <2>4
    <2>7. ASSUME NEW k \in idle, NEW j \in B[k] PROVE B[j] \subseteq B[k]
      <3>1. j \in idle /\ Sooner(j, k)
        BY <2>4, <2>7
      <3>2. ASSUME NEW i \in B[j] PROVE i \in B[k]
        <4>1. i \in idle /\ Sooner(i, j)
          BY <2>4, <3>1, <3>2
        <4>2. Sooner(i, k)
          BY <2>3, <3>1, <4>1
        <4> QED BY <2>4, <4>1, <4>2
      <3> QED BY <3>2
    <2>8. CacheSize \in Nat /\ excess \in Int /\ excess = Cardinality(DOMAIN left) - CacheSize
      BY <1>3, CacheAssumption DEF excess
    <2>10. Cardinality(gone) >= excess
      <3> HIDE DEF idle
      <3> QED BY <1>3, <2>2, <2>5, <2>6, <2>7, <2>8, FirstOnesGo
    <2>11. gone \in SUBSET DOMAIN left
      BY <1>2, <2>5
    <2> HIDE DEF gone
    <2>12. /\ Cardinality(DOMAIN left \ gone) = Cardinality(DOMAIN left) - Cardinality(DOMAIN left \cap gone)
           /\ IsFiniteSet(gone) /\ Cardinality(gone) \in Nat
      BY <1>3, <2>11, FS_Difference, FS_Subset, FS_CardinalityType
    <2>13. DOMAIN left \cap gone = gone
      BY <2>11
    <2>14. Cardinality(DOMAIN r) = Cardinality(DOMAIN left) - Cardinality(gone)
      BY <1>4, <2>12, <2>13
    <2> QED BY <1>3, <1>7, <2>8, <2>10, <2>12, <2>14
  <1> QED BY <1>0, <1>5, <1>6, <1>7

\* The invariant: the types, the bound, and that what a view subscribed to is
\* the entry of its fingerprint, unless an entry did not fit when it was made.
CacheTyped ==
  /\ IsCache(cache) /\ cacheTime \in Nat /\ created \in Nat /\ overflow \in BOOLEAN
  /\ hooks \in [CacheViews -> [key : Fingerprints \cup {NoKey}, entry : Nat]]
  /\ \A v \in CacheViews : hooks[v].key = NoKey => hooks[v].entry = 0

HookHolds(v) == hooks[v].entry # 0 => hooks[v].key \in DOMAIN cache /\ cache[hooks[v].key].id = hooks[v].entry

CacheInv ==
  /\ CacheTyped /\ CacheIsBounded
  /\ ~overflow => \A v \in CacheViews : HookHolds(v)

UsedStays ==
  \A k \in DOMAIN cache : Subscribed(hooks, cache[k].id) /\ Subscribed(hooks', cache[k].id) =>
    k \in DOMAIN cache' /\ cache'[k].id = cache[k].id

LEMMA CacheStarts == CacheInit => CacheInv
  <1> SUFFICES ASSUME CacheInit PROVE CacheInv
    OBVIOUS
  <1>0. cacheTime = 0 /\ cache = << >> /\ created = 0 /\ overflow = FALSE /\ hooks = [v \in CacheViews |-> [key |-> NoKey, entry |-> 0]]
    BY DEF CacheInit
  <1>1. DOMAIN cache = {} /\ cache = [k \in DOMAIN cache |-> cache[k]]
    BY <1>0
  <1>2. IsCache(cache)
    BY <1>1 DEF IsCache
  <1>3. CacheTyped /\ \A v \in CacheViews : hooks[v].entry = 0
    BY <1>0, <1>2 DEF CacheTyped
  <1>4. CacheIsBounded
    BY <1>1 DEF CacheIsBounded, CanEvict
  <1> QED BY <1>3, <1>4 DEF CacheInv, HookHolds

\* Looking an entry up: the cache it leaves, under the subscriptions there are.
LEMMA GetEntryFacts ==
  ASSUME CacheInv, NEW k \in Fingerprints, GetEntry(hooks, k)
  PROVE  /\ IsCache(cache') /\ created' \in Nat /\ overflow' \in BOOLEAN /\ EntryId(cache, hooks, k) \in Nat
         /\ Cardinality(DOMAIN cache') > CacheSize => CanEvict(cache', hooks) = {}
         /\ \A j \in DOMAIN cache : Subscribed(hooks, cache[j].id) => j \in DOMAIN cache' /\ cache'[j].id = cache[j].id
         /\ ~overflow' => ~overflow /\ k \in DOMAIN cache' /\ cache'[k].id = EntryId(cache, hooks, k)
  <1>0. IsCache(cache) /\ cacheTime \in Nat /\ created \in Nat /\ overflow \in BOOLEAN /\ CacheIsBounded
    BY DEF CacheInv, CacheTyped
  <1>1. CASE Hit(cache, hooks, k)
    <2>1. /\ cache' = [cache EXCEPT ![k].used = cacheTime] /\ created' = created /\ k \in DOMAIN cache
          /\ EntryId(cache, hooks, k) = cache[k].id /\ overflow' = overflow
      BY <1>0, <1>1 DEF GetEntry, EntryId, Hit
    <2> DEFINE e == [cache[k] EXCEPT !.used = cacheTime]
    <2>2. cache[k] \in CacheEntries
      BY <1>0, <2>1 DEF IsCache
    <2>3. e \in CacheEntries /\ e.id = cache[k].id /\ cache[k].id \in Nat
      BY <1>0, <2>2 DEF CacheEntries
    <2>4. cache' = [cache EXCEPT ![k] = e]
      BY <2>1
    <2> HIDE DEF e
    <2>5. /\ DOMAIN cache' = DOMAIN cache /\ cache'[k] = e /\ cache' = [j \in DOMAIN cache' |-> cache'[j]]
          /\ \A j \in DOMAIN cache : j # k => cache'[j] = cache[j]
      BY <2>1, <2>4
    <2>6. IsCache(cache') /\ \A j \in DOMAIN cache : cache'[j].id = cache[j].id
      BY <1>0, <2>3, <2>5 DEF IsCache
    <2>7. CanEvict(cache', hooks) = CanEvict(cache, hooks)
      BY <2>5, <2>6 DEF CanEvict
    <2> QED BY <1>0, <2>1, <2>3, <2>5, <2>6, <2>7 DEF CacheIsBounded
  <1>2. CASE ~Hit(cache, hooks, k)
    <2> DEFINE newOne == [id |-> created + 1, expires |-> cacheTime + CacheLife, used |-> cacheTime]
               added == [j \in DOMAIN cache \cup {k} |-> IF j = k THEN newOne ELSE cache[j]]
               r == SweepCache(added, hooks)
    <2>1. /\ cache' = r /\ created' = created + 1 /\ EntryId(cache, hooks, k) = created + 1
          /\ overflow' = (overflow \/ k \notin DOMAIN r)
      BY <1>2 DEF GetEntry, EntryId
    <2>2. newOne \in CacheEntries /\ newOne.id = created + 1
      BY <1>0, CacheAssumption DEF CacheEntries
    <2> HIDE DEF newOne
    <2>3. /\ DOMAIN added = DOMAIN cache \cup {k} /\ added[k] = newOne /\ added = [j \in DOMAIN added |-> added[j]]
          /\ \A j \in DOMAIN cache : j # k => added[j] = cache[j]
      OBVIOUS
    <2> HIDE DEF added
    <2>4. IsCache(added)
      BY <1>0, <2>2, <2>3 DEF IsCache
    <2>5. /\ IsCache(r) /\ PartOf(r, added)
          /\ \A j \in DOMAIN added : Subscribed(hooks, added[j].id) => j \in DOMAIN r
          /\ Cardinality(DOMAIN r) > CacheSize => CanEvict(r, hooks) = {}
      BY <2>4, SweepFacts
    <2> HIDE DEF r
    <2>6. ASSUME NEW j \in DOMAIN cache, Subscribed(hooks, cache[j].id) PROVE j \in DOMAIN r /\ r[j].id = cache[j].id
      <3>1. j # k
        BY <1>2, <2>6 DEF Hit, CanEvict
      <3>2. j \in DOMAIN added /\ added[j] = cache[j]
        BY <2>3, <3>1
      <3>3. j \in DOMAIN r
        BY <2>5, <2>6, <3>2
      <3> QED BY <2>5, <3>2, <3>3 DEF PartOf
    <2>7. k \in DOMAIN r => r[k].id = created + 1
      BY <2>2, <2>3, <2>5 DEF PartOf
    <2>8. overflow' \in BOOLEAN /\ (~overflow' => ~overflow /\ k \in DOMAIN r)
      BY <1>0, <2>1
    <2>9. created' \in Nat /\ EntryId(cache, hooks, k) \in Nat
      BY <1>0, <2>1
    <2> QED BY <2>1, <2>5, <2>6, <2>7, <2>8, <2>9
  <1> QED BY <1>1, <1>2

LEMMA CacheSteps ==
  ASSUME CacheInv, [CacheNext]_cacheVars
  PROVE  CacheInv' /\ UsedStays
  <1>0. /\ IsCache(cache) /\ cacheTime \in Nat /\ created \in Nat /\ overflow \in BOOLEAN /\ CacheIsBounded
        /\ hooks \in [CacheViews -> [key : Fingerprints \cup {NoKey}, entry : Nat]]
        /\ \A v \in CacheViews : hooks[v].key = NoKey => hooks[v].entry = 0
        /\ ~overflow => \A v \in CacheViews : HookHolds(v)
    BY DEF CacheInv, CacheTyped
  \* A sweep under the subscriptions that are left.
  <1>1. ASSUME NEW hs, hooks' = hs, hs \in [CacheViews -> [key : Fingerprints \cup {NoKey}, entry : Nat]],
               \A v \in CacheViews : /\ hs[v].key = NoKey => hs[v].entry = 0
                                     /\ hs[v].entry # 0 => hs[v] = hooks[v],
               cache' = SweepCache(cache, hs), cacheTime' = cacheTime, created' = created, overflow' = overflow
        PROVE  CacheInv' /\ UsedStays
    <2>1. /\ IsCache(cache') /\ PartOf(cache', cache)
          /\ \A k \in DOMAIN cache : Subscribed(hs, cache[k].id) => k \in DOMAIN cache'
          /\ Cardinality(DOMAIN cache') > CacheSize => CanEvict(cache', hs) = {}
      BY <1>0, <1>1, SweepFacts
    <2>2. CacheTyped' /\ CacheIsBounded'
      BY <1>0, <1>1, <2>1 DEF CacheTyped, CacheIsBounded
    <2>3. ASSUME ~overflow, NEW v \in CacheViews, hs[v].entry # 0
          PROVE  hs[v].key \in DOMAIN cache' /\ cache'[hs[v].key].id = hs[v].entry
      <3>1. hs[v].key \in DOMAIN cache /\ cache[hs[v].key].id = hs[v].entry
        BY <1>0, <1>1, <2>3 DEF HookHolds
      <3>2. Subscribed(hs, cache[hs[v].key].id)
        BY <3>1 DEF Subscribed
      <3> QED BY <2>1, <3>1, <3>2 DEF PartOf
    <2>4. ~overflow' => \A v \in CacheViews : HookHolds(v)'
      BY <1>1, <2>3 DEF HookHolds
    <2>5. UsedStays
      BY <1>1, <2>1 DEF UsedStays, PartOf
    <2> QED BY <2>2, <2>4, <2>5 DEF CacheInv
  <1>2. ASSUME NEW v \in CacheViews, NEW k \in Fingerprints, RenderHook(v, k) PROVE CacheInv' /\ UsedStays
    <2>1. /\ hooks[v].key = NoKey /\ hooks' = [hooks EXCEPT ![v] = [key |-> k, entry |-> 0]]
          /\ GetEntry(hooks, k) /\ cacheTime' = cacheTime
      BY <1>2 DEF RenderHook
    <2>2. /\ IsCache(cache') /\ created' \in Nat /\ overflow' \in BOOLEAN
          /\ Cardinality(DOMAIN cache') > CacheSize => CanEvict(cache', hooks) = {}
          /\ \A j \in DOMAIN cache : Subscribed(hooks, cache[j].id) => j \in DOMAIN cache' /\ cache'[j].id = cache[j].id
          /\ ~overflow' => ~overflow
      BY <2>1, GetEntryFacts
    <2>3. /\ hooks' \in [CacheViews -> [key : Fingerprints \cup {NoKey}, entry : Nat]]
          /\ \A w \in CacheViews : hooks'[w].entry = hooks[w].entry /\ (w # v => hooks'[w] = hooks[w])
          /\ \A w \in CacheViews : hooks'[w].key = NoKey => hooks'[w].entry = 0
      BY <1>0, <2>1
    <2>4. CanEvict(cache', hooks') = CanEvict(cache', hooks)
      BY <2>3 DEF CanEvict, Subscribed
    <2>5. CacheTyped' /\ CacheIsBounded'
      BY <1>0, <2>1, <2>2, <2>3, <2>4 DEF CacheTyped, CacheIsBounded
    <2>6. ASSUME ~overflow', NEW w \in CacheViews, hooks'[w].entry # 0
          PROVE  hooks'[w].key \in DOMAIN cache' /\ cache'[hooks'[w].key].id = hooks'[w].entry
      <3>1. hooks'[w] = hooks[w] /\ hooks[w].entry # 0
        BY <1>0, <2>1, <2>3, <2>6
      <3>2. hooks[w].key \in DOMAIN cache /\ cache[hooks[w].key].id = hooks[w].entry
        BY <1>0, <2>2, <2>6, <3>1 DEF HookHolds
      <3>3. Subscribed(hooks, cache[hooks[w].key].id)
        BY <3>2 DEF Subscribed
      <3> QED BY <2>2, <3>1, <3>2, <3>3
    <2>7. ~overflow' => \A w \in CacheViews : HookHolds(w)'
      BY <2>6 DEF HookHolds
    <2>8. UsedStays
      BY <2>2 DEF UsedStays
    <2> QED BY <2>5, <2>7, <2>8 DEF CacheInv
  <1>3. ASSUME NEW v \in CacheViews, SubscribeHook(v) PROVE CacheInv' /\ UsedStays
    <2> DEFINE k == hooks[v].key
               d == EntryId(cache, hooks, k)
    <2>1. /\ k # NoKey /\ hooks[v].entry = 0 /\ hooks' = [hooks EXCEPT ![v].entry = d]
          /\ GetEntry(hooks, k) /\ cacheTime' = cacheTime
      BY <1>3 DEF SubscribeHook
    <2>2. k \in Fingerprints
      BY <1>0, <2>1
    <2> HIDE DEF d
    <2>3. /\ IsCache(cache') /\ created' \in Nat /\ overflow' \in BOOLEAN /\ d \in Nat
          /\ Cardinality(DOMAIN cache') > CacheSize => CanEvict(cache', hooks) = {}
          /\ \A j \in DOMAIN cache : Subscribed(hooks, cache[j].id) => j \in DOMAIN cache' /\ cache'[j].id = cache[j].id
          /\ ~overflow' => ~overflow /\ k \in DOMAIN cache' /\ cache'[k].id = d
      <3> HIDE DEF k
      <3> QED BY <2>1, <2>2, GetEntryFacts DEF d
    <2>4. /\ hooks' \in [CacheViews -> [key : Fingerprints \cup {NoKey}, entry : Nat]]
          /\ hooks'[v].key = k /\ hooks'[v].entry = d /\ \A w \in CacheViews : w # v => hooks'[w] = hooks[w]
          /\ \A w \in CacheViews : hooks'[w].key = NoKey => hooks'[w].entry = 0
      BY <1>0, <2>1, <2>3
    <2> HIDE DEF k
    <2>5. ASSUME NEW x \in CanEvict(cache', hooks') PROVE x \in CanEvict(cache', hooks)
      <3>1. x \in DOMAIN cache' /\ ~Subscribed(hooks', cache'[x].id)
        BY <2>5 DEF CanEvict
      <3>2. cache'[x].id \in Nat \ {0}
        BY <2>3, <3>1 DEF IsCache, CacheEntries
      <3>3. ASSUME NEW w \in CacheViews, hooks[w].entry = cache'[x].id PROVE FALSE
        BY <2>1, <2>4, <3>1, <3>2, <3>3 DEF Subscribed
      <3> QED BY <3>1, <3>3 DEF CanEvict, Subscribed
    <2>6. CacheTyped' /\ CacheIsBounded'
      BY <1>0, <2>1, <2>3, <2>4, <2>5 DEF CacheTyped, CacheIsBounded
    <2>7. ASSUME ~overflow', NEW w \in CacheViews, hooks'[w].entry # 0
          PROVE  hooks'[w].key \in DOMAIN cache' /\ cache'[hooks'[w].key].id = hooks'[w].entry
      <3>1. CASE w = v
        BY <2>3, <2>4, <2>7, <3>1
      <3>2. CASE w # v
        <4>1. hooks'[w] = hooks[w] /\ hooks[w].entry # 0
          BY <2>4, <2>7, <3>2
        <4>2. hooks[w].key \in DOMAIN cache /\ cache[hooks[w].key].id = hooks[w].entry
          BY <1>0, <2>3, <2>7, <4>1 DEF HookHolds
        <4>3. Subscribed(hooks, cache[hooks[w].key].id)
          BY <4>2 DEF Subscribed
        <4> QED BY <2>3, <4>1, <4>2, <4>3
      <3> QED BY <3>1, <3>2
    <2>8. ~overflow' => \A w \in CacheViews : HookHolds(w)'
      BY <2>7 DEF HookHolds
    <2>9. UsedStays
      BY <2>3 DEF UsedStays
    <2> QED BY <2>6, <2>8, <2>9 DEF CacheInv
  <1>4. ASSUME NEW v \in CacheViews, NEW k \in Fingerprints \cup {NoKey}, ReleaseHook(v, k) PROVE CacheInv' /\ UsedStays
    <2>0. PICK hs : hs = [hooks EXCEPT ![v] = [key |-> k, entry |-> 0]]
      OBVIOUS
    <2>1. hooks' = hs /\ cache' = SweepCache(cache, hs) /\ cacheTime' = cacheTime /\ created' = created /\ overflow' = overflow
      BY <1>4, <2>0 DEF ReleaseHook
    <2>2. hs \in [CacheViews -> [key : Fingerprints \cup {NoKey}, entry : Nat]]
      BY <1>0, <2>0
    <2>3. ASSUME NEW w \in CacheViews PROVE (hs[w].key = NoKey => hs[w].entry = 0) /\ (hs[w].entry # 0 => hs[w] = hooks[w])
      BY <1>0, <2>0
    <2> QED BY <1>1, <2>1, <2>2, <2>3
  <1>5. CASE CleanupTimer
    <2>1. PICK hs : hs = hooks
      OBVIOUS
    <2>2. hooks' = hs /\ cache' = SweepCache(cache, hs) /\ cacheTime' = cacheTime /\ created' = created /\ overflow' = overflow
      BY <1>5, <2>1 DEF CleanupTimer
    <2> QED BY <1>0, <1>1, <2>1, <2>2
  <1>6. CASE CacheTick \/ UNCHANGED cacheVars
    <2>1. cache' = cache /\ hooks' = hooks /\ created' = created /\ overflow' = overflow /\ cacheTime' \in Nat
      BY <1>0, <1>6 DEF CacheTick, cacheVars
    <2>2. CacheTyped' /\ CacheIsBounded'
      BY <1>0, <2>1 DEF CacheTyped, CacheIsBounded, CanEvict
    <2> QED BY <1>0, <2>1, <2>2 DEF CacheInv, HookHolds, UsedStays
  <1> QED BY <1>2, <1>3, <1>4, <1>5, <1>6 DEF CacheNext

-----------------------------------------------------------------------------
(* ProbeCards.  Claims are numbered; the snapshot is of a claim older than  *)
(* the attempt that counts, and was fetched no later than it.  The page's   *)
(* cards are those of the sections of its snapshot.                         *)
RatesHold ==
  /\ cardDay \in Nat /\ claims \in Nat
  /\ rateState = [snapshot |-> rateState.snapshot, attempt |-> rateState.attempt,
                  failures |-> rateState.failures, next |-> rateState.next]
  /\ rateState.attempt \in 0..claims
  /\ rateState.snapshot.of \in 0..claims /\ rateState.snapshot.fetched \in 0..cardDay
  /\ rateState.attempt # 0 => rateState.snapshot.of < rateState.attempt
  /\ \A f \in fetches : /\ f.id \in 1..claims /\ f.at \in 0..cardDay
                        /\ f.id = rateState.attempt => rateState.snapshot.fetched <= f.at

CardNames == {"memory", "remainingValue", "totalTraffic", "uploadSpeed", "onlineNodes"}
CardsHold ==
  /\ keys \subseteq CardNames
  /\ IF snap = NoSnap THEN DOMAIN rows = {} ELSE keys = CardKeys(snap)

CardInv == RatesHold /\ CardsHold

\* What a step may do to the rates.
RatesGoOn ==
  rateState'.snapshot # rateState.snapshot =>
    /\ FinanceEnabled /\ rateState'.snapshot.of > rateState.snapshot.of
    /\ rateState'.snapshot.fetched >= rateState.snapshot.fetched

LEMMA CardStarts == CardInit => CardInv
  <1> SUFFICES ASSUME CardInit PROVE CardInv
    OBVIOUS
  <1>1. /\ cardDay = 1 /\ rateState = [snapshot |-> NoRates, attempt |-> 0, failures |-> 0, next |-> 0]
        /\ fetches = {} /\ snap = NoSnap /\ rows = << >> /\ keys = {} /\ claims = 0
    BY DEF CardInit
  <1>2. NoRates.of = 0 /\ NoRates.fetched = 0
    BY DEF NoRates
  <1>3. RatesHold
    <2> HIDE DEF NoRates
    <2> QED BY <1>1, <1>2 DEF RatesHold
  <1>4. CardsHold
    BY <1>1 DEF CardsHold
  <1> QED BY <1>3, <1>4 DEF CardInv

LEMMA CardKeysAreNames ==
  ASSUME NEW p
  PROVE  CardKeys(p) \subseteq CardNames
  BY DEF CardKeys, CardNames

LEMMA CardSteps ==
  ASSUME CardInv, [CardNext]_cardVars
  PROVE  CardInv' /\ RatesGoOn
  <1>0. RatesHold /\ CardsHold
    BY DEF CardInv
  <1>1. ASSUME UNCHANGED <<cardDay, rateState, fetches, claims>> PROVE RatesHold' /\ RatesGoOn
    BY <1>0, <1>1 DEF RatesHold, RatesGoOn
  <1>2. ASSUME UNCHANGED <<snap, rows, keys>> PROVE CardsHold'
    BY <1>0, <1>2 DEF CardsHold
  <1>3. CASE ClaimRates
    <2>1. PICK n, u : /\ claims' = claims + 1 /\ UNCHANGED <<cardDay, snap, rows, keys>>
                      /\ rateState' = [rateState EXCEPT !.attempt = claims + 1, !.failures = n, !.next = u]
                      /\ fetches' = fetches \cup {[id |-> claims + 1, at |-> cardDay]}
      BY <1>3 DEF ClaimRates
    <2>2. rateState' = [snapshot |-> rateState.snapshot, attempt |-> claims + 1, failures |-> n, next |-> u]
      BY <1>0, <2>1 DEF RatesHold
    <2>3. rateState'.snapshot = rateState.snapshot /\ rateState'.attempt = claims + 1
      BY <2>2
    <2>4. ASSUME NEW f \in fetches' PROVE f \in fetches \/ (f.id = claims + 1 /\ f.at = cardDay)
      BY <2>1, <2>4
    <2>5. RatesHold'
      <3>1. rateState' = [snapshot |-> rateState'.snapshot, attempt |-> rateState'.attempt,
                          failures |-> rateState'.failures, next |-> rateState'.next]
        BY <2>2
      <3>2. ASSUME NEW f \in fetches'
            PROVE  /\ f.id \in 1..claims' /\ f.at \in 0..cardDay'
                   /\ f.id = rateState'.attempt => rateState'.snapshot.fetched <= f.at
        BY <1>0, <2>1, <2>3, <2>4 DEF RatesHold
      <3>3. /\ rateState'.attempt \in 0..claims' /\ rateState'.snapshot.of \in 0..claims'
            /\ rateState'.snapshot.fetched \in 0..cardDay'
            /\ rateState'.snapshot.of < rateState'.attempt /\ cardDay' \in Nat /\ claims' \in Nat
        BY <1>0, <2>1, <2>3 DEF RatesHold
      <3> QED BY <3>1, <3>2, <3>3 DEF RatesHold
    <2> QED BY <1>2, <2>1, <2>3, <2>5 DEF CardInv, RatesGoOn
  <1>4. ASSUME NEW f \in fetches, NEW dates, FinishRates(f, dates) PROVE CardInv' /\ RatesGoOn
    <2>1. fetches' = fetches \ {f} /\ UNCHANGED <<cardDay, claims, snap, rows, keys>>
      BY <1>4 DEF FinishRates
    <2>2. /\ cardDay \in Nat /\ claims \in Nat /\ f.id \in 1..claims /\ f.at \in 0..cardDay
          /\ f.id = rateState.attempt => rateState.snapshot.fetched <= f.at
      BY <1>0 DEF RatesHold
    <2>3. CASE rateState' = rateState
      <3>1. RatesHold'
        BY <1>0, <2>1, <2>3 DEF RatesHold
      <3> QED BY <1>2, <2>1, <2>3, <3>1 DEF CardInv, RatesGoOn
    <2>4. ASSUME NEW u, rateState' = [rateState EXCEPT !.attempt = 0, !.next = u] PROVE CardInv' /\ RatesGoOn
      <3>1. rateState' = [snapshot |-> rateState.snapshot, attempt |-> 0, failures |-> rateState.failures, next |-> u]
        BY <1>0, <2>4 DEF RatesHold
      <3>2. /\ rateState'.snapshot = rateState.snapshot /\ rateState'.attempt = 0
            /\ rateState' = [snapshot |-> rateState'.snapshot, attempt |-> rateState'.attempt,
                             failures |-> rateState'.failures, next |-> rateState'.next]
        BY <3>1
      <3>3. RatesHold'
        BY <1>0, <2>1, <3>2 DEF RatesHold
      <3> QED BY <1>2, <2>1, <3>2, <3>3 DEF CardInv, RatesGoOn
    <2>5. CASE /\ rateState.attempt = f.id /\ FinanceEnabled
               /\ rateState' = [snapshot |-> [dates |-> dates, fetched |-> f.at, of |-> f.id],
                                attempt |-> 0, failures |-> 0, next |-> f.at + 1]
      <3>1. /\ rateState'.snapshot.of = f.id /\ rateState'.snapshot.fetched = f.at /\ rateState'.attempt = 0
            /\ rateState' = [snapshot |-> rateState'.snapshot, attempt |-> rateState'.attempt,
                             failures |-> rateState'.failures, next |-> rateState'.next]
        BY <2>5
      <3>2. rateState.snapshot.of < f.id /\ rateState.snapshot.fetched <= f.at /\ rateState.snapshot.of \in Nat /\ rateState.snapshot.fetched \in Nat
        BY <1>0, <2>2, <2>5 DEF RatesHold
      <3>3. RatesHold'
        <4>1. \A g \in fetches' : g.id \in 1..claims' /\ g.at \in 0..cardDay' /\ g.id # rateState'.attempt
          BY <1>0, <2>1, <3>1 DEF RatesHold
        <4>2. rateState'.snapshot.of \in 0..claims' /\ rateState'.snapshot.fetched \in 0..cardDay' /\ rateState'.attempt \in 0..claims'
          BY <2>1, <2>2, <3>1
        <4>3. cardDay' \in Nat /\ claims' \in Nat
          BY <2>1, <2>2
        <4> QED BY <3>1, <4>1, <4>2, <4>3 DEF RatesHold
      <3>4. RatesGoOn
        BY <2>2, <2>5, <3>1, <3>2 DEF RatesGoOn
      <3> QED BY <1>2, <2>1, <3>3, <3>4 DEF CardInv
    <2>6. \/ rateState' = rateState
          \/ \E u : rateState' = [rateState EXCEPT !.attempt = 0, !.next = u]
          \/ /\ rateState.attempt = f.id /\ FinanceEnabled
             /\ rateState' = [snapshot |-> [dates |-> dates, fetched |-> f.at, of |-> f.id],
                              attempt |-> 0, failures |-> 0, next |-> f.at + 1]
      <3>1. CASE rateState.attempt # f.id
        BY <1>4, <3>1 DEF FinishRates
      <3>2. CASE rateState.attempt = f.id /\ ~FinanceEnabled
        BY <1>4, <3>2 DEF FinishRates
      <3>3. CASE rateState.attempt = f.id /\ FinanceEnabled /\ DOMAIN dates = {}
        <4>1. rateState' = [rateState EXCEPT !.attempt = 0]
          BY <1>4, <3>3 DEF FinishRates
        <4>2. rateState' = [rateState EXCEPT !.attempt = 0, !.next = rateState.next]
          BY <1>0, <4>1 DEF RatesHold
        <4> QED BY <4>2
      <3>4. CASE rateState.attempt = f.id /\ FinanceEnabled /\ DOMAIN dates # {}
        BY <1>4, <3>4 DEF FinishRates
      <3> QED BY <3>1, <3>2, <3>3, <3>4
    <2> QED BY <2>3, <2>4, <2>5, <2>6
  <1>5. ASSUME NEW f \in fetches, LoseFetch(f) PROVE CardInv' /\ RatesGoOn
    <2>1. fetches' = fetches \ {f} /\ UNCHANGED <<cardDay, rateState, claims, snap, rows, keys>>
      BY <1>5 DEF LoseFetch
    <2>2. RatesHold'
      BY <1>0, <2>1 DEF RatesHold
    <2> QED BY <1>2, <2>1, <2>2 DEF CardInv, RatesGoOn
  <1>6. CASE RefreshPage
    <2>1. /\ UNCHANGED <<cardDay, rateState, fetches, claims>>
          /\ rows' = [s \in snap'.servers |-> StatusFor(snap', s)]
          /\ keys' = IF snap' = NoSnap THEN {} ELSE CardKeys(snap')
      BY <1>6 DEF RefreshPage, siteVars
    <2>2. snap' = NoSnap => DOMAIN rows' = {}
      BY <2>1 DEF NoSnap
    <2>3. keys' \subseteq CardNames
      BY <2>1, CardKeysAreNames
    <2>4. snap' # NoSnap => keys' = CardKeys(snap')
      BY <2>1
    <2>5. CardsHold'
      BY <2>2, <2>3, <2>4 DEF CardsHold, CardKeys, Shows, NoSnap, CardNames
    <2> QED BY <1>1, <2>1, <2>5 DEF CardInv
  <1>7. CASE RefusePage
    <2>1. UNCHANGED <<cardDay, rateState, fetches, claims, keys>> /\ snap' = NoSnap /\ rows' = << >>
      BY <1>7 DEF RefusePage, siteVars
    <2>2. CardsHold'
      BY <1>0, <2>1 DEF CardsHold, NoSnap, CardNames
    <2> QED BY <1>1, <2>1, <2>2 DEF CardInv
  <1>8. CASE CardDayPasses
    <2>1. cardDay' = cardDay + 1 /\ UNCHANGED <<rateState, fetches, claims, snap, rows, keys>>
      BY <1>8 DEF CardDayPasses
    <2>2. RatesHold'
      BY <1>0, <2>1 DEF RatesHold
    <2> QED BY <1>2, <2>1, <2>2 DEF CardInv, RatesGoOn
  <1>9. CASE SiteChanges \/ UNCHANGED cardVars
    <2>1. UNCHANGED <<cardDay, rateState, fetches, claims, snap, rows, keys>>
      BY <1>9 DEF SiteChanges, cardVars
    <2> QED BY <1>1, <1>2, <2>1 DEF CardInv
  <1> QED BY <1>3, <1>4, <1>5, <1>6, <1>7, <1>8, <1>9 DEF CardNext

\* Without a snapshot there are no rows and nothing is known of them.
LEMMA HiddenHasNone == CardInv => HiddenHasNoCard
  <1> SUFFICES ASSUME CardInv, NEW k \in VisibleCards
               PROVE  IF snap = NoSnap THEN \A G \in CardGroups : k = "onlineNodes" \/ CardValue(k, G) = NaN
                      ELSE SectionOf(k) = "" \/ Shows(snap, SectionOf(k))
    BY DEF HiddenHasNoCard
  <1>1. /\ k \in CardNames /\ (k = "remainingValue" => PriceVisible)
        /\ keys # {} => k \in keys
    BY DEF CardInv, CardsHold, VisibleCards, GeneralCardOrder, ParseKeyList, DefaultCardOrder, CardNames
  <1>2. CASE snap = NoSnap
    <2> SUFFICES ASSUME NEW G \in CardGroups, k # "onlineNodes" PROVE CardValue(k, G) = NaN
      BY <1>2
    <2>1. G = {}
      BY <1>2 DEF CardGroups, CardInv, CardsHold
    <2>2. k \in {"memory", "totalTraffic", "uploadSpeed"}
      BY <1>1, <1>2 DEF PriceVisible, CardNames
    <2>3. MemoryCard(G) = NaN /\ SpeedCard(G) = NaN /\ TrafficCard(G) = NaN
      BY <2>1 DEF MemoryCard, SpeedCard, TrafficCard
    <2> QED BY <2>2, <2>3 DEF CardValue
  <1>3. CASE snap # NoSnap
    <2>1. keys = CardKeys(snap) /\ keys # {}
      BY <1>3 DEF CardInv, CardsHold, CardKeys
    <2>2. k \in CardKeys(snap)
      BY <1>1, <2>1
    <2>3. \/ k = "memory" /\ Shows(snap, "memory")
          \/ k = "remainingValue" /\ Shows(snap, "info")
          \/ k = "onlineNodes"
          \/ k = "totalTraffic" /\ Shows(snap, "traffic")
          \/ k = "uploadSpeed" /\ Shows(snap, "network")
      BY <2>2 DEF CardKeys
    <2> QED BY <1>3, <2>3 DEF SectionOf
  <1> QED BY <1>2, <1>3

-----------------------------------------------------------------------------
(* The parts side by side.                                                   *)
LEMMA PageImpliesEvidence == PageSpec => EvidenceSpec
  <1>1. PageInit => EvidenceInit
    BY DEF PageInit
  <1>2. [PageNext]_pageVars => [EvidenceNext]_evidenceVars
    BY DEF PageNext, Only, pageVars
  <1> QED BY <1>1, <1>2, PTL DEF PageSpec, EvidenceSpec

LEMMA PageImpliesLoad == PageSpec => LoadSpec
  <1>1. PageInit => LoadInit
    BY DEF PageInit
  <1>2. [PageNext]_pageVars => [LoadNext]_loadVars
    BY DEF PageNext, Only, pageVars
  <1> QED BY <1>1, <1>2, PTL DEF PageSpec, LoadSpec

LEMMA PageImpliesPanel == PageSpec => PanelSpec
  <1>1. PageInit => PanelInit
    BY DEF PageInit
  <1>2. [PageNext]_pageVars => [PanelNext]_panelVars
    BY DEF PageNext, Only, pageVars
  <1> QED BY <1>1, <1>2, PTL DEF PageSpec, PanelSpec

LEMMA PageImpliesReview == PageSpec => ReviewSpec
  <1>1. PageInit => ReviewInit
    BY DEF PageInit
  <1>2. [PageNext]_pageVars => [ReviewNext]_reviewVars
    BY DEF PageNext, Only, pageVars
  <1> QED BY <1>1, <1>2, PTL DEF PageSpec, ReviewSpec

\* After every step of a release, and of a second one that leads back from any
\* point of it, what forwards is connected, every path entries can be bound to is
\* installed on all its servers, and a plan that is done has left nothing behind
\* (the sort of prepareLineRolloutTx, publication in advanceLineRolloutTx,
\* CompensateLineRollout), for all servers, ports and paths.
THEOREM LineStaysConnected == PageSpec => []StepsKeepTheLine
  <1> DEFINE Inv == moving = "line" => LineInv
  <1>1. PageInit => Inv
    BY LineStarts DEF PageInit
  <1>2. Inv /\ [PageNext]_pageVars => Inv'
    <2> SUFFICES ASSUME Inv, [PageNext]_pageVars, moving' = "line" PROVE LineInv'
      OBVIOUS
    <2>1. moving = "line" /\ [Next]_vars
      BY DEF PageNext, Only, pageVars
    <2> QED BY <2>1, LineStep
  <1>3. Inv => StepsKeepTheLine
    BY LineConnected, LineIsServed DEF StepsKeepTheLine
  <1> QED BY <1>1, <1>2, <1>3, PTL DEF PageSpec

\* Whatever a page calls current is current by the server's own count, through
\* slow answers, sleep and clocks that were moved, and what was found too old does
\* not become current again (evidence-freshness.ts, observed-request.ts and the
\* pages that use them), for every lifetime and any number of requests and saves.
THEOREM CurrentStaysTrue == PageSpec => []CurrentIsCurrent
  <1>1. EvidenceInv => CurrentIsCurrent
    BY CurrentByTheServer, LateIsNeverCurrent, TooOldStays DEF CurrentIsCurrent
  <1> QED BY <1>1, PageImpliesEvidence, EvidenceInvariant, PTL

\* What is carried out is what was reviewed, once, and the price shown is that of
\* the choice, on every page of the consoles that shows a change before it is made;
\* a DNS sync writes what its own reading of the records found as reviewed.
THEOREM ReviewedStaysDone == PageSpec => ReviewedIsDone
  <1>1. QuoteIsOfTheChoice => (moving = "review" => QuoteIsOfTheChoice)
    OBVIOUS
  <1> QED BY <1>1, PageImpliesReview, ApprovedIsCarriedOut, ReviewRunsOnce, QuoteFollowsTheChoice, PTL
          DEF ReviewedIsDone

\* Every line of the load charts shows what was measured at its times by the server
\* its rows were read for, and a gap where nothing was, the network lines' unmeasured
\* times excepted; unless an answer to an earlier call came after the latest one, the
\* rows are those of the open server and the chosen range; nothing of a section that
\* is not published is in a row; and the head of a card is of its last time
\* (charts/load.ts, LoadChart.tsx, captain.ts), for any history, any ranges and any
\* order of the answers.
THEOREM DrawnStaysMeasured == PageSpec => []DrawnIsMeasured
  <1>1. LoadInv => DrawnIsMeasured
    BY RowsAreMeasured, LatestStaysDrawn, RangeStaysShown, HiddenStaysHidden, HeadIsOfTheLast DEF DrawnIsMeasured
  <1> QED BY <1>1, PageImpliesLoad, LoadInvariant, PTL

\* No edit is lost in silence by any editor of the consoles, whatever reads,
\* failures, conflicts and late answers came in between (SettingsForm.tsx and the
\* panels), for any set of editors that keeps the rules of PanelRules.
THEOREM EditsAlwaysSurvive == PageSpec => []EditsSurvive
  <1>1. EditsAreKept => EditsSurvive
    BY DEF EditsSurvive
  <1> QED BY <1>1, PageImpliesPanel, EditsStayKept, PTL

\* A save does no harm in any of them: it overwrites nobody unseen, undoes none of
\* the person's own saves, creates nothing twice, and no older read is shown after
\* it (the onSuccess handlers, cancelQueries, and the revisions the server compares),
\* the gaps named in a profile excepted.
THEOREM SavesStaySafe == PageSpec => SavesAreSafe
  BY PageImpliesPanel, NothingOverwrittenUnseen, OldReadsAreDropped, SavedStays, NothingCreatedTwice, PTL
  DEF SavesAreSafe

LEMMA PageKeepsRenewal ==
  /\ PageInit => RenewalInv
  /\ [PageNext]_pageVars => [RenewalNext]_renewalVars
  <1>1. ASSUME PageInit PROVE RenewalInv
    <2>1. CASE moving = "renewal"
      BY <1>1, <2>1, RenewalStarts DEF PageInit
    <2>2. CASE moving # "renewal"
      <3>1. RenewalRests
        BY <1>1, <2>2 DEF PageInit
      <3> DEFINE d == Day(2023, 2, 28)
      <3>2. d \in CalendarDates /\ d # NoDate
        BY DEF Day, CalendarDates, NoDate
      <3>3. /\ today = d /\ linked = FALSE
            /\ server = [expiry |-> d, months |-> 1, enabled |-> FALSE, anchorDate |-> NoDate, anchorDay |-> 0]
            /\ bill = [due |-> d, period |-> 1, anchorDay |-> d.d, rev |-> 1]
            /\ samples = {} /\ cursor = 0 /\ payment = NoPayment /\ paid = << >> /\ dateEdits = 0 /\ sent = 0
        BY <3>1 DEF RenewalRests
      <3> HIDE DEF d
      <3>4. server \in ServerDates /\ Anchored(server)
        BY <3>2, <3>3 DEF ServerDates, Anchored
      <3>5. bill \in BillDates
        BY <3>2, <3>3 DEF BillDates, CalendarDates
      <3>6. RenewalTyped
        <4>1. << >> \in Seq([key : Nat, request : OpenPayments \cup {NoPayment}])
          OBVIOUS
        <4>2. linked \in BOOLEAN /\ samples \subseteq [seq : Nat, on : CalendarDates] /\ cursor \in Nat /\ dateEdits \in Nat /\ sent \in Nat
          BY <3>3
        <4>3. today \in CalendarDates /\ payment = NoPayment /\ paid = << >>
          BY <3>2, <3>3
        <4> QED BY <3>4, <3>5, <4>1, <4>2, <4>3 DEF RenewalTyped
      <3>7. ShownAsIs
        BY <3>3 DEF ShownAsIs, NoPayment
      <3> QED BY <3>3, <3>4, <3>6, <3>7 DEF RenewalInv, BillFollowsServer
    <2> QED BY <2>1, <2>2
  <1>2. [PageNext]_pageVars => [RenewalNext]_renewalVars
    BY DEF PageNext, Only, pageVars
  <1> QED BY <1>1, <1>2

\* Renewal, billing day, traffic period and payment agree about the calendar: the
\* bill and the server tell one date, a renewal ends the first period ahead and the
\* page prorates over it, a short month never changes the billing day, a payment
\* does as its dialog showed, and periods tile (node_auto_renewal.go,
\* infra_assets.go, node_infrastructure.go, node_cost.go, node-cost.ts), for every
\* calendar date, cycle and billing day and any number of edits and payments.
THEOREM CalendarIsKept == PageSpec => RenewalsKeepTheCalendar
  <1>1. RenewalInv => (moving = "renewal" => BillFollowsServer /\ PeriodsTile)
    BY PeriodsStayTiled DEF RenewalInv
  <1>2. RenewalInv /\ [RenewalNext]_renewalVars =>
          [ Renewed => LET ahead(k) == Earlier(today, NodeExpiryAt(server.expiry, k * server.months, BillingDay(server)))
                                k0 == CHOOSE k \in 1..(today.m - server.expiry.m + 1) : ahead(k) /\ \A j \in 1..(k - 1) : ~ahead(j)
                            IN server'.expiry = NodeExpiryAt(server.expiry, k0 * server.months, BillingDay(server)) ]_renewalVars
    BY RenewedIsTheNext
  <1>3. RenewalInv /\ [RenewalNext]_renewalVars =>
          [ Renewed /\ OnCadence(server) =>
                   LET start == CycleStart(server')
                   IN start # NoDate /\ ~Earlier(today, start) /\ ~Earlier(start, server.expiry) ]_renewalVars
    BY RenewedIsWhole
  <1>4. RenewalInv /\ [RenewalNext]_renewalVars =>
          [ BillingDay(server') # BillingDay(server) =>
                   \/ dateEdits' # dateEdits /\ (server'.expiry # server.expiry \/ server'.months # server.months \/ bill' # bill)
                   \/ paid' # paid /\ OffCadence(server, server'.expiry) ]_renewalVars
    BY DayIsKept
  <1>5. RenewalInv /\ [RenewalNext]_renewalVars =>
          [ paid' # paid => bill'.due = IF payment.keeps THEN payment.due ELSE payment.next ]_renewalVars
    BY PaidAsShown
  <1> QED BY <1>1, <1>2, <1>3, <1>4, <1>5, PageKeepsRenewal, RenewalStep, PTL
          DEF PageSpec, RenewalsKeepTheCalendar, RenewedToTheNext, RenewedPeriodIsWhole, BillingDayKept, PaymentDoesAsShown

LEMMA PageKeepsDrafts ==
  /\ PageInit => DraftInv /\ DesignInv
  /\ [PageNext]_pageVars => [DraftNext]_draftVars /\ [DesignNext]_designVars
  <1>1. PageInit => DraftInv /\ DesignInv
    BY DraftStarts, DesignStarts DEF PageInit
  <1>2. [PageNext]_pageVars => [DraftNext]_draftVars
    BY DEF PageNext, Only, pageVars
  <1>3. [PageNext]_pageVars => [DesignNext]_designVars
    BY DEF PageNext, Only, pageVars
  <1> QED BY <1>1, <1>2, <1>3

\* A draft means what its author wrote, whoever saves it and whatever is answered
\* when: no save of the form is refused as a change of fixed settings, a created
\* inbound is stored with settings that were typed, what was omitted stays
\* omitted, references resolve and an answer takes back nothing typed after its
\* save was sent (reconcileChangesetSave, SaveTopologyChangeset); a design offers
\* exactly the policies no chain of groups leads from to DIRECT, keeps what its
\* references mean through renames, and changes its rules only by a preset or by
\* the review of the draft as it is (designPolicyCanDirect, renameDesignGroup,
\* the rules review), for designs of any length and any policy names.
THEOREM DraftsStayMeant == PageSpec => DraftsKeepTheirMeaning
  <1>1. DraftInv /\ [DraftNext]_draftVars => DraftInv'
    BY DraftSteps
  <1>2. DraftInv => (moving = "changeset" => NeverRefusedAsFixed /\ SettingsAreTyped /\ OmittedStaysOmitted /\ ReferencesResolve)
    BY DEF DraftInv, NeverRefusedAsFixed, OmittedStaysOmitted, ReferencesResolve, RefersWell
  <1>3. DraftInv /\ [DraftNext]_draftVars =>
          [ \A k \in Key : saving # << >> /\ saving' = << >> /\ model[k] # saving[1].sent[k] =>
              /\ model'[k].on = model[k].on
              /\ model[k].on /\ k = "n" =>
                   model'[k].key = model[k].key /\ model'[k].tag = model[k].tag /\ model'[k].edit = model[k].edit
              /\ model[k].on /\ k # "n" => model'[k] = model[k] ]_draftVars
    BY DraftSteps DEF TypedStays
  <1>4. DesignInv /\ [DesignNext]_designVars => DesignInv'
    BY DesignSteps
  <1>5. DesignInv => (moving = "design" => OfferedIsProtected)
    BY OfferedAlways DEF DesignInv
  <1>6. DesignInv =>
          [ design' # design /\ Renames(design') /\ OwnNames(design) /\ AllDefined(design) /\ OwnNames(design') =>
              Resolved(design') = Resolved(design) ]_designVars
    BY DesignRenames
  <1>7. DesignInv /\ [DesignNext]_designVars =>
          [ DraftClaudeRules(design') # DraftClaudeRules(design) =>
              \/ design' = presetAsked
              \/ rulesReview.kind = "draft" /\ rulesReview.of = DraftClaudeRules(design)
                 /\ design' = [rulesReview.expected EXCEPT !.claudeRules = rulesReview.version] ]_designVars
    BY DesignSteps DEF ByReview
  <1> QED BY <1>1, <1>2, <1>3, <1>4, <1>5, <1>6, <1>7, PageKeepsDrafts, PTL
          DEF PageSpec, DraftsKeepTheirMeaning, LaterEditsSurvive, RenameKeepsReferences, RulesChangeByReview

LEMMA PageKeepsCards ==
  /\ PageInit => CardInv /\ CacheInv
  /\ [PageNext]_pageVars => [CardNext]_cardVars /\ [CacheNext]_cacheVars
  <1>1. PageInit => CardInv /\ CacheInv
    BY CardStarts, CacheStarts DEF PageInit
  <1>2. [PageNext]_pageVars => [CardNext]_cardVars
    BY DEF PageNext, Only, pageVars
  <1>3. [PageNext]_pageVars => [CacheNext]_cacheVars
    BY DEF PageNext, Only, pageVars
  <1> QED BY <1>1, <1>2, <1>3

\* A section the site hides has no card, whatever was published before, and rates
\* never go back, however many refreshes overtake each other, for any servers,
\* quotes, lifetimes and numbers of claims (init.ts, generalCards.ts,
\* probe_exchange_rates.go).
THEOREM CardsStayHonest == PageSpec => [](moving = "cards" => HiddenHasNoCard) /\ RatesNeverGoBack
  <1>1. CardInv /\ [CardNext]_cardVars => CardInv'
    BY CardSteps
  <1>2. CardInv => (moving = "cards" => HiddenHasNoCard)
    BY HiddenHasNone
  <1>3. CardInv /\ [CardNext]_cardVars =>
          [ rateState'.snapshot # rateState.snapshot =>
              /\ FinanceEnabled /\ rateState'.snapshot.of > rateState.snapshot.of
              /\ rateState'.snapshot.fetched >= rateState.snapshot.fetched ]_cardVars
    BY CardSteps DEF RatesGoOn
  <1> QED BY <1>1, <1>2, <1>3, PageKeepsCards, PTL DEF PageSpec, RatesNeverGoBack

\* The cache of the provider badges is bounded except for what is in use, throws
\* nothing away under a view that subscribed to it, and has one entry for all views
\* of a fingerprint as long as every entry made did fit, for any size, lifetime,
\* fingerprints and views (cache.service.ts, providerMetadata.ts).
THEOREM CacheKeepsItsPromises ==
  PageSpec => [](moving = "cache" => CacheIsBounded /\ SharedByFingerprint) /\ UsedStaysCached
  <1>1. CacheInv /\ [CacheNext]_cacheVars => CacheInv'
    BY CacheSteps
  <1>2. CacheInv => (moving = "cache" => CacheIsBounded /\ SharedByFingerprint)
    BY DEF CacheInv, HookHolds, SharedByFingerprint
  <1>3. CacheInv /\ [CacheNext]_cacheVars =>
          [ \A k \in DOMAIN cache : Subscribed(hooks, cache[k].id) /\ Subscribed(hooks', cache[k].id) =>
              k \in DOMAIN cache' /\ cache'[k].id = cache[k].id ]_cacheVars
    BY CacheSteps DEF UsedStays
  <1> QED BY <1>1, <1>2, <1>3, PageKeepsCards, PTL DEF PageSpec, UsedStaysCached
=============================================================================
