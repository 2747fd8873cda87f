--------------------------- MODULE LinePlanProofs ---------------------------
(***************************************************************************)
(* What a plan of a release is: its targets, and the order they are put    *)
(* into, for every set of servers, every pair of paths and whatever the    *)
(* servers hold.                                                           *)
(***************************************************************************)
EXTENDS LinePlan, ProofFacts

-----------------------------------------------------------------------------
(* The order of the targets (prepareLineRolloutTx).                        *)

Path == Seq(SUBSET Listeners)
RuleMap == [Nodes -> SUBSET Rule]
PlanTarget == [node : Nodes, phase : {"expand", "cleanup"}, depth : Nat, expect : SUBSET Rule]

\* Compiling a path gives well-formed rules.
LEMMA RulesTyped ==
  ASSUME NEW path \in Path, NEW n \in Nodes
  PROVE  RulesOn(path, n) \in SUBSET Rule
  <1>0. Len(path) \in Nat /\ \A i \in 1..Len(path) : path[i] \subseteq Listeners
    BY LenProperties, ElementOfSeq DEF Path
  <1> SUFFICES ASSUME NEW i \in 1..Len(path), NEW l \in {m \in path[i] : m[1] = n}
               PROVE  [port |-> l[2], to |-> IF i = Len(path) THEN {} ELSE path[i + 1]] \in Rule
    BY DEF RulesOn
  <1>1. l \in Nodes \X Ports
    BY <1>0 DEF Listeners
  <1>2. l[2] \in Ports
    BY <1>1
  <1>3. (IF i = Len(path) THEN {} ELSE path[i + 1]) \subseteq Listeners
    <2>1. CASE i = Len(path)
      BY <2>1
    <2>2. CASE i # Len(path)
      <3>1. i + 1 \in 1..Len(path)
        BY <1>0, <2>2
      <3> QED BY <1>0, <2>2, <3>1
    <2> QED BY <2>1, <2>2
  <1> QED BY <1>2, <1>3 DEF Rule

LEMMA DepthTyped ==
  ASSUME NEW path \in Path, NEW n \in Nodes
  PROVE  DepthOn(path, n) \in Nat
  <1>0. Len(path) \in Nat
    BY LenProperties DEF Path
  <1>1. CASE \E i \in 1..Len(path) : n \in ServersOf(path[i])
    <2>1. (CHOOSE i \in 1..Len(path) : n \in ServersOf(path[i])) \in 1..Len(path)
      BY <1>1
    <2> QED BY <1>0, <1>1, <2>1 DEF DepthOn
  <1>2. CASE ~\E i \in 1..Len(path) : n \in ServersOf(path[i])
    BY <1>2 DEF DepthOn
  <1> QED BY <1>1, <1>2

\* A server has at most one target of each phase, and the targets are finitely many.
LEMMA TargetsTyped ==
  ASSUME NEW old \in RuleMap, NEW new \in RuleMap, NEW before \in Path, NEW after \in Path
  PROVE  LET all == Targets(old, new, before, after)
         IN  /\ all \subseteq PlanTarget
             /\ IsFiniteSet(all)
             /\ \A a, b \in all : a.node = b.node /\ a.phase = b.phase => a = b
  <1> DEFINE E == {k \in Nodes : old[k] \cup new[k] # old[k]}
             C == {k \in Nodes : old[k] \cup new[k] # new[k]}
             grow(n) == [node |-> n, phase |-> "expand", depth |-> DepthOn(after, n), expect |-> old[n] \cup new[n]]
             trim(n) == [node |-> n, phase |-> "cleanup", depth |-> DepthOn(before, n), expect |-> new[n]]
             es == {grow(n) : n \in E}
             cs == {trim(n) : n \in C}
             all == Targets(old, new, before, after)
  <1>1. all = es \cup cs
    BY DEF Targets
  <1>2. \A n \in Nodes : grow(n) \in PlanTarget /\ trim(n) \in PlanTarget
    BY DepthTyped DEF PlanTarget, RuleMap
  <1>3. IsFiniteSet(es) /\ IsFiniteSet(cs)
    <2>1. IsFiniteSet(E) /\ IsFiniteSet(C)
      BY LinePlanConstants, FS_Subset
    <2>2. [n \in E |-> grow(n)] \in Surjection(E, es)
      BY Zenon DEF Surjection
    <2>3. [n \in C |-> trim(n)] \in Surjection(C, cs)
      BY Zenon DEF Surjection
    <2> HIDE DEF E, C, es, cs
    <2> QED BY <2>1, <2>2, <2>3, FS_Surjection
  <1>4. IsFiniteSet(es \cup cs)
    BY <1>3, FS_Union
  <1>5. es \cup cs \subseteq PlanTarget
    BY <1>2
  <1>6. \A a \in es : a.phase = "expand" /\ a.node \in E /\ a = grow(a.node)
    OBVIOUS
  <1>7. \A a \in cs : a.phase = "cleanup" /\ a.node \in C /\ a = trim(a.node)
    OBVIOUS
  <1>8. \A a, b \in es \cup cs : a.node = b.node /\ a.phase = b.phase => a = b
    <2> HIDE DEF es, cs, grow, trim
    <2> QED BY <1>6, <1>7
  <1> QED BY <1>1, <1>4, <1>5, <1>8

\* The sort is by a strict total order.
LEMMA PrecedesOrders ==
  ASSUME NEW all \in SUBSET PlanTarget,
         \A a, b \in all : a.node = b.node /\ a.phase = b.phase => a = b
  PROVE  /\ \A a \in all : ~Precedes(a, a)
         /\ \A a, b \in all : a # b => Precedes(a, b) \/ Precedes(b, a)
         /\ \A a, b \in all : ~(Precedes(a, b) /\ Precedes(b, a))
         /\ \A a, b, c \in all : Precedes(a, b) /\ Precedes(b, c) => Precedes(a, c)
  <1>0. \A a \in all : a.node \in Nat /\ a.depth \in Nat /\ a.phase \in {"expand", "cleanup"}
    BY LinePlanConstants DEF PlanTarget
  <1>1. \A a \in all : ~Precedes(a, a)
    BY <1>0 DEF Precedes
  <1>2. \A a, b \in all : a # b => Precedes(a, b) \/ Precedes(b, a)
    BY <1>0 DEF Precedes
  <1>3. \A a, b \in all : ~(Precedes(a, b) /\ Precedes(b, a))
    BY <1>0 DEF Precedes
  <1>4. \A a, b, c \in all : Precedes(a, b) /\ Precedes(b, c) => Precedes(a, c)
    BY <1>0 DEF Precedes
  <1> QED BY <1>1, <1>2, <1>3, <1>4

\* Every place is taken, by the one target that as many others precede.
LEMMA PlacesTaken ==
  ASSUME NEW all, IsFiniteSet(all),
         \A a \in all : ~Precedes(a, a),
         \A a, b \in all : a # b => Precedes(a, b) \/ Precedes(b, a),
         \A a, b, c \in all : Precedes(a, b) /\ Precedes(b, c) => Precedes(a, c)
  PROVE  LET ahead(t) == Cardinality({u \in all : Precedes(u, t)})
         IN  /\ Cardinality(all) \in Nat
             /\ \A a, b \in all : Precedes(a, b) => ahead(a) < ahead(b)
             /\ \A a \in all : ahead(a) \in Nat
             /\ \A k \in 1..Cardinality(all) : \E t \in all : ahead(t) = k - 1
             /\ \A t \in all : \E k \in 1..Cardinality(all) : ahead(t) = k - 1
  <1> DEFINE N == Cardinality(all)
             before(t) == {u \in all : Precedes(u, t)}
             ahead(t) == Cardinality(before(t))
  <1>0. N \in Nat
    BY FS_CardinalityType
  <1>1. \A t \in all : IsFiniteSet(before(t)) /\ ahead(t) \in Nat
    <2> TAKE t \in all
    <2>1. IsFiniteSet(before(t))
      BY FS_Subset
    <2> QED BY <2>1, FS_CardinalityType
  <1>2. \A t \in all : ahead(t) + 1 \in 1..N
    <2> TAKE t \in all
    <2>1. before(t) \subseteq all \ {t}
      OBVIOUS
    <2>2. IsFiniteSet(all \ {t}) /\ Cardinality(all \ {t}) = N - 1
      BY FS_RemoveElement
    <2>3. ahead(t) <= N - 1
      BY <2>1, <2>2, FS_Subset
    <2>4. ahead(t) \in Nat
      BY <1>1
    <2> QED BY <1>0, <2>3, <2>4
  <1>3. \A a, b \in all : Precedes(a, b) => ahead(a) < ahead(b)
    <2> SUFFICES ASSUME NEW a \in all, NEW b \in all, Precedes(a, b)
                 PROVE  ahead(a) < ahead(b)
      OBVIOUS
    <2>1. before(a) \cup {a} \subseteq before(b) /\ a \notin before(a)
      OBVIOUS
    <2>2. Cardinality(before(a) \cup {a}) = ahead(a) + 1
      BY <1>1, <2>1, FS_AddElement
    <2>3. Cardinality(before(a) \cup {a}) <= ahead(b)
      BY <1>1, <2>1, FS_Subset
    <2>4. ahead(a) \in Nat /\ ahead(b) \in Nat
      BY <1>1
    <2> QED BY <2>2, <2>3, <2>4
  <1> DEFINE rank == [t \in all |-> ahead(t) + 1]
  <1>4. rank \in Injection(all, 1..N)
    <2>1. rank \in [all -> 1..N]
      BY <1>2
    <2>2. ASSUME NEW a \in all, NEW b \in all, rank[a] = rank[b] PROVE a = b
      <3> SUFFICES ASSUME a # b PROVE FALSE
        OBVIOUS
      <3>1. ahead(a) + 1 = ahead(b) + 1
        BY <2>2
      <3>2. ahead(a) < ahead(b) \/ ahead(b) < ahead(a)
        BY <1>3
      <3>3. ahead(a) \in Nat /\ ahead(b) \in Nat
        BY <1>1
      <3> QED BY <3>1, <3>2, <3>3
    <2> HIDE DEF rank
    <2> QED BY <2>1, <2>2 DEF Injection, IsInjective
  <1>5. rank \in Surjection(all, 1..N)
    <2>1. IsFiniteSet(1..N) /\ Cardinality(1..N) = N
      BY <1>0, FS_Interval
    <2> HIDE DEF rank
    <2> QED BY <1>4, <2>1, FS_Injection
  <1>6. \A k \in 1..N : \E t \in all : ahead(t) = k - 1
    <2> TAKE k \in 1..N
    <2>1. PICK t \in all : rank[t] = k
      BY <1>5 DEF Surjection
    <2>2. ahead(t) + 1 = k
      BY <2>1
    <2>3. ahead(t) \in Nat
      BY <1>1
    <2> QED BY <2>2, <2>3
  <1>7. \A t \in all : \E k \in 1..N : ahead(t) = k - 1
    <2> TAKE t \in all
    <2>1. ahead(t) \in Nat /\ ahead(t) + 1 \in 1..N
      BY <1>1, <1>2
    <2>2. ahead(t) = (ahead(t) + 1) - 1
      BY <2>1
    <2> QED BY <2>1, <2>2
  <1> QED BY <1>0, <1>1, <1>3, <1>6, <1>7

\* A plan installs each of its targets once: expansions from downstream to entry,
\* then cleanups from entry to downstream, by the depths the plan was given
\* (the sort in prepareLineRolloutTx).
THEOREM PlanIsOrdered ==
  ASSUME NEW old \in RuleMap, NEW new \in RuleMap, NEW before \in Path, NEW after \in Path
  PROVE  LET all == Targets(old, new, before, after)
             t == OrderedTargets(old, new, before, after)
         IN  /\ t \in Seq(PlanTarget) /\ Len(t) = Cardinality(all)
             /\ \A i \in 1..Len(t) : t[i] \in all
             /\ \A x \in all : \E i \in 1..Len(t) : t[i] = x
             /\ \A i, j \in 1..Len(t) : i < j => Precedes(t[i], t[j])
  <1> DEFINE all == Targets(old, new, before, after)
             t == OrderedTargets(old, new, before, after)
             ahead(x) == Cardinality({u \in all : Precedes(u, x)})
             N == Cardinality(all)
  <1>1. /\ all \subseteq PlanTarget /\ IsFiniteSet(all)
        /\ \A a, b \in all : a.node = b.node /\ a.phase = b.phase => a = b
    BY TargetsTyped
  <1>2. t = [k \in 1..N |-> CHOOSE x \in all : ahead(x) = k - 1]
    BY DEF OrderedTargets
  <1> HIDE DEF all, t
  <1>3. /\ \A a \in all : ~Precedes(a, a)
        /\ \A a, b \in all : a # b => Precedes(a, b) \/ Precedes(b, a)
        /\ \A a, b \in all : ~(Precedes(a, b) /\ Precedes(b, a))
        /\ \A a, b, c \in all : Precedes(a, b) /\ Precedes(b, c) => Precedes(a, c)
    BY <1>1, PrecedesOrders
  <1>4. /\ N \in Nat
        /\ \A a, b \in all : Precedes(a, b) => ahead(a) < ahead(b)
        /\ \A a \in all : ahead(a) \in Nat
        /\ \A k \in 1..N : \E x \in all : ahead(x) = k - 1
        /\ \A x \in all : \E k \in 1..N : ahead(x) = k - 1
    BY <1>1, <1>3, PlacesTaken
  <1>5. \A k \in 1..N : t[k] \in all /\ ahead(t[k]) = k - 1
    <2> TAKE k \in 1..N
    <2>1. t[k] = CHOOSE x \in all : ahead(x) = k - 1
      BY <1>2
    <2>2. \E x \in all : ahead(x) = k - 1
      BY <1>4
    <2> QED BY <2>1, <2>2
  <1>6. t \in Seq(PlanTarget) /\ Len(t) = N
    <2>1. \A k \in 1..N : t[k] \in PlanTarget
      BY <1>1, <1>5
    <2> DEFINE at(k) == CHOOSE x \in all : ahead(x) = k - 1
    <2>2. t = [k \in 1..N |-> at(k)]
      BY <1>2
    <2> HIDE DEF at
    <2>3. t \in [1..N -> PlanTarget]
      BY <2>1, <2>2
    <2> QED BY <1>4, <2>3, RowsAreSeq
  <1>7. ASSUME NEW i \in 1..N, NEW j \in 1..N, i < j PROVE Precedes(t[i], t[j])
    <2>1. ahead(t[i]) < ahead(t[j]) /\ t[i] \in all /\ t[j] \in all
      BY <1>4, <1>5, <1>7
    <2>2. t[i] # t[j]
      BY <1>4, <2>1
    <2>3. ~Precedes(t[j], t[i])
      <3>1. ahead(t[i]) \in Nat /\ ahead(t[j]) \in Nat
        BY <1>4, <2>1
      <3>2. Precedes(t[j], t[i]) => ahead(t[j]) < ahead(t[i])
        BY <1>4, <2>1
      <3> HIDE DEF ahead
      <3> QED BY <2>1, <3>1, <3>2
    <2> QED BY <1>3, <2>1, <2>2, <2>3
  <1>8. ASSUME NEW x \in all PROVE \E i \in 1..N : t[i] = x
    <2>1. PICK k \in 1..N : ahead(x) = k - 1
      BY <1>4
    <2>2. t[k] \in all /\ ahead(t[k]) = ahead(x)
      BY <1>5, <2>1
    <2>3. t[k] = x
      <3> SUFFICES ASSUME t[k] # x PROVE FALSE
        OBVIOUS
      <3>1. ahead(t[k]) < ahead(x) \/ ahead(x) < ahead(t[k])
        BY <1>3, <1>4, <2>2
      <3>2. ahead(x) \in Nat
        BY <1>4
      <3> QED BY <2>2, <3>1, <3>2
    <2> QED BY <2>3
  <1> QED BY <1>5, <1>6, <1>7, <1>8 DEF all, t
=============================================================================
