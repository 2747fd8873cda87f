------------------------------ MODULE LinePlan ------------------------------
(***************************************************************************)
(* What a staged line release installs, and in which order                 *)
(* (prepareLineRolloutTx and its helpers, internal/store/line_rollouts.go).*)
(*                                                                         *)
(* A line is a path: a sequence of groups from the entry to the hop before *)
(* the landing server, each group a set of listeners <<server, port>>.     *)
(* Compiling it gives every listener one forwarding rule, to all the       *)
(* listeners of the next group or, from the last group, to the landing     *)
(* (an empty set of targets).  Servers are their database ids.             *)
(***************************************************************************)
EXTENDS Naturals, FiniteSets, Sequences, SequencesExt

CONSTANTS Nodes,    \* server ids
          Ports     \* ports the operator picks from

ASSUME LinePlanConstants == Nodes \subseteq Nat /\ IsFiniteSet(Nodes)

Listeners == Nodes \X Ports
Rule == [port : Ports, to : SUBSET Listeners]
NoLine == << >>     \* the intent of a line that is not there

ServersOf(group) == {l[1] : l \in group}

\* normalizeLine: at least one group, no empty group, a server occurs once.
IsPath(p) ==
  /\ Len(p) >= 1
  /\ \A i \in 1..Len(p) : p[i] # {} /\ Cardinality(ServersOf(p[i])) = Cardinality(p[i])
  /\ \A i, j \in 1..Len(p) : i # j => ServersOf(p[i]) \cap ServersOf(p[j]) = {}

\* The rules compiling a path gives a server.
RulesOn(path, n) ==
  UNION {{[port |-> l[2], to |-> IF i = Len(path) THEN {} ELSE path[i + 1]] :
            l \in {m \in path[i] : m[1] = n}} : i \in 1..Len(path)}

\* lineRolloutDepths; a server the path does not visit reads the map's zero.
DepthOn(path, n) ==
  IF \E i \in 1..Len(path) : n \in ServersOf(path[i])
  THEN (CHOOSE i \in 1..Len(path) : n \in ServersOf(path[i])) - 1
  ELSE 0

\* lineRolloutUnion refuses two different rules for one listener.
Coexist(rules) == \A r, s \in rules : r.port = s.port => r = s

\* Mutants: a sort that forgets the stage's direction; a cleanup only of the
\* servers the new path leaves.
PrecedesAscending(a, b) ==
  IF a.phase # b.phase THEN a.phase = "expand"
  ELSE IF a.depth # b.depth THEN a.depth < b.depth ELSE a.node < b.node
TargetsOfLeavers(old, new, before, after) ==
  {[node |-> n, phase |-> "expand", depth |-> DepthOn(after, n), expect |-> old[n] \cup new[n]] :
     n \in {k \in Nodes : old[k] \cup new[k] # old[k]}}
  \cup
  {[node |-> n, phase |-> "cleanup", depth |-> DepthOn(before, n), expect |-> {}] :
     n \in {k \in Nodes : old[k] # {} /\ new[k] = {}}}

\* The sort of the targets: expansions from downstream to entry, then cleanups
\* from entry to downstream, equal depths by server id.
Precedes(a, b) ==
  IF a.phase # b.phase THEN a.phase = "expand"
  ELSE IF a.depth # b.depth
       THEN IF a.phase = "expand" THEN a.depth > b.depth ELSE a.depth < b.depth
       ELSE a.node < b.node

\* One expansion to the union where that adds something, one cleanup to the
\* new rules where that removes something.
Targets(old, new, before, after) ==
  {[node |-> n, phase |-> "expand", depth |-> DepthOn(after, n), expect |-> old[n] \cup new[n]] :
     n \in {k \in Nodes : old[k] \cup new[k] # old[k]}}
  \cup
  {[node |-> n, phase |-> "cleanup", depth |-> DepthOn(before, n), expect |-> new[n]] :
     n \in {k \in Nodes : old[k] \cup new[k] # new[k]}}

\* The target at a place is the one that as many others precede.
OrderedTargets(old, new, before, after) ==
  LET all == Targets(old, new, before, after)
  IN  [k \in 1..Cardinality(all) |-> CHOOSE t \in all : Cardinality({u \in all : Precedes(u, t)}) = k - 1]

\* No target of an installed rule is missing its own listener.
Connected(rules) ==
  \A n \in Nodes : \A r \in rules[n] : \A l \in r.to :
    \E s \in rules[l[1]] : s.port = l[2]
=============================================================================
