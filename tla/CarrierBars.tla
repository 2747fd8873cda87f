---------------------------- MODULE CarrierBars ----------------------------
(***************************************************************************)
(* The ping bars of a server on the probe page: selectPings picks the      *)
(* configured targets from the snapshot (three carriers by address family, *)
(* or one target), one useNodePingStats hook per place reads the history,  *)
(* historyFor shares a read between the hooks for ten seconds, and         *)
(* summarizePings turns the points of the hook's own target into bars.     *)
(* React renders a snapshot first and runs the hooks' effects later; the   *)
(* answer of a read may land in between.                                   *)
(***************************************************************************)
EXTENDS Integers, Sequences, FiniteSets, SequencesExt, FiniteSetsExt

CONSTANTS
  Carriers,       \* CU, CT and CM in the code
  PingSetups,     \* what a snapshot may say of the server's targets
  Measurements,   \* sequence of what the server has measured: to, points
  BarCount,       \* 20 in the code
  BarWidth,       \* seconds per bar: the hour by the number of bars
  MaxSetups,      \* bound: snapshots that change the targets
  MaxReadFaults,  \* bound: failed reads
  MaxOut          \* bound: reads under way or kept at once

ASSUME BarBounds == BarCount \in Nat \ {0} /\ BarWidth \in Nat \ {0} /\ Len(Measurements) > 0

VARIABLES
  setup,          \* the snapshot that is rendered
  hooks,          \* per place: the state of its useNodePingStats
  histories,      \* reads of the history's URL and their answers
  keptRead,       \* the entry of the cache: the read and whether it is fresh
  measured,       \* index of what the server has measured
  setupsSeen, readFaults

barVars == <<setup, hooks, histories, keptRead, measured, setupsSeen, readFaults>>

Places == (Carriers \X {1, 2}) \union {<<"first", 1>>}
ReadIds == 1..MaxOut
First(seq) == IF seq = << >> THEN << >> ELSE <<seq[1]>>

-----------------------------------------------------------------------------
(* selectPings: a missing target is the empty sequence.                      *)
CarrierTasks(su) == IF su.carrierPing THEN SelectSeq(su.tasks, LAMBDA p : p.id = 0) ELSE << >>

Families(su) ==
  LET seen == SelectSeq(<<"ipv4", "ipv6">>, LAMBDA f : \E p \in Range(CarrierTasks(su)) : p.family = f)
  IN IF seen = << >> THEN <<"">> ELSE seen

CarrierSource(su, c, slot) ==
  IF slot > Len(Families(su)) THEN << >>
  ELSE First(SelectSeq(CarrierTasks(su), LAMBDA p : p.name = c /\ p.family = Families(su)[slot]))

ThreeNetwork(su) ==
  su.carrierPing /\ \A c \in Carriers : \E slot \in {1, 2} : CarrierSource(su, c, slot) # << >>

FirstSource(su) ==
  LET custom == {p \in Range(su.tasks) : p.id > 0}
  IN IF custom # {} THEN << CHOOSE p \in custom : \A q \in custom : p.id <= q.id >>
     ELSE First(CarrierTasks(su))

\* What each hook is asked for under a setup: a change of it restarts the hook.
Asked ==
  [su \in PingSetups |-> [place \in Places |->
     IF place[1] = "first" THEN [enabled |-> su.on /\ ~ThreeNetwork(su), source |-> FirstSource(su)]
     ELSE [enabled |-> su.on /\ ThreeNetwork(su), source |-> CarrierSource(su, place[1], place[2])]]]
ResolvedSetup(place, su) == Asked[su][place]

-----------------------------------------------------------------------------
(* selectedHistory, summarizePings and the bars.                             *)
Matches(p, task) == p.id = task.id /\ p.name = task.name /\ p.series = task.series

BarOf(m, p) == Min({BarCount, 1 + (p.ts - (m.to - BarCount * BarWidth)) \div BarWidth})

Summarize(m, source) ==
  LET used == {p \in m.points : /\ source # << >> /\ Matches(p, source[1])
                                /\ p.ts >= m.to - BarCount * BarWidth /\ p.ts <= m.to /\ p.n > 0}
      bar(i) == LET own == {p \in used : BarOf(m, p) = i}
                IN [total |-> MapThenSumSet(LAMBDA p : p.n, own),
                    lost |-> MapThenSumSet(LAMBDA p : p.lost, own),
                    sum |-> MapThenSumSet(LAMBDA p : (p.n - p.lost) * p.avg, own)]
  IN IF used = {} THEN << >> ELSE [i \in 1..BarCount |-> bar(i)]

Targets == UNION {{Asked[su][place].source : place \in Places} : su \in PingSetups}
BarsOf == [w \in DOMAIN Measurements |-> [source \in Targets |-> Summarize(Measurements[w], source)]]

\* The colour of a bar: 0 is grey, 1 the best, 5 the worst.
Tone(value, of, limits) == 1 + Cardinality({i \in 1..4 : value > limits[i] * of})
LatencyTone(b) == IF b.total > b.lost THEN Tone(b.sum, b.total - b.lost, <<60, 100, 160, 200>>) ELSE 0
LossTone(b) == IF b.total > 0 THEN Tone(100 * b.lost, b.total, <<1, 3, 6, 9>>) ELSE 0

\* A carrier that cannot be probed from the server shows no measurement.
CarrierUnavailable(su, source) ==
  source # << >> /\ source[1].id = 0 /\ (~source[1].usable \/ source[1].name \in su.unreachable)

\* The bars in a place; the empty sequence stands for the grey ones.
Shown(place) ==
  LET r == ResolvedSetup(place, setup)
      got == hooks[place].got
  IN IF got = << >> \/ (place[1] # "first" /\ CarrierUnavailable(setup, r.source)) THEN << >>
     ELSE IF got[1].of = r THEN got[1].bars ELSE << >>

-----------------------------------------------------------------------------
(* The hooks.                                                               *)
NoHook == [of |-> [enabled |-> FALSE, source |-> << >>], waits |-> {}, got |-> << >>,
           loading |-> FALSE, error |-> FALSE, timer |-> "off"]

BarInit ==
  /\ setup \in PingSetups
  /\ hooks = [place \in Places |-> NoHook]
  /\ histories = [r \in ReadIds |-> 0]        \* 0: under way or unused
  /\ keptRead = [read |-> 0, fresh |-> FALSE]
  /\ measured = 1 /\ setupsSeen = 0 /\ readFaults = 0

Waiting(r) == \E place \in Places : \E w \in hooks[place].waits : w.read = r
Unused == {r \in ReadIds : ~Waiting(r) /\ ~(keptRead.fresh /\ keptRead.read = r)}
Wants(of) == of.enabled /\ of.source # << >> /\ of.source[1].usable

\* refresh of the hooks in "which", each for what "of" says: an entry of the
\* cache that is not ten seconds old serves all, otherwise the first of them
\* starts a read.  Without a target, or when the page shows no history any
\* more, nothing is read.
RefreshHooks(which, of, got) ==
  LET asks == {p \in which : Wants(of[p]) /\ setup.on}
      waitOn(r) == [p \in Places |->
        IF p \notin which THEN hooks[p]
        ELSE LET old == {[w EXCEPT !.live = FALSE] : w \in hooks[p].waits}
             IN IF p \in asks
                THEN [hooks[p] EXCEPT !.of = of[p], !.got = got[p], !.loading = TRUE, !.timer = "off",
                                      !.waits = old \union {[read |-> r, of |-> of[p], live |-> TRUE]}]
                ELSE [NoHook EXCEPT !.of = of[p], !.waits = old, !.error = Wants(of[p]),
                                    !.timer = IF Wants(of[p]) THEN "armed" ELSE "off"]]
  IN IF asks = {} \/ keptRead.fresh
     THEN hooks' = waitOn(keptRead.read) /\ UNCHANGED <<histories, keptRead>>
     ELSE \E r \in Unused : /\ \A q \in Unused : r <= q
                            /\ hooks' = waitOn(r)
                            /\ keptRead' = [read |-> r, fresh |-> TRUE]
                            /\ histories' = [histories EXCEPT ![r] = 0]

\* A snapshot is rendered.
NewSetup ==
  /\ setupsSeen < MaxSetups /\ setupsSeen' = setupsSeen + 1
  /\ \E su \in PingSetups \ {setup} : setup' = su
  /\ UNCHANGED <<hooks, histories, keptRead, measured, readFaults>>

Moved == {p \in Places : hooks[p].of # ResolvedSetup(p, setup)}

\* The effects after a render: hooks with another request start over.
RunEffects ==
  /\ Moved # {}
  /\ RefreshHooks(Moved, [p \in Places |-> ResolvedSetup(p, setup)], [p \in Places |-> << >>])
  /\ UNCHANGED <<setup, measured, setupsSeen, readFaults>>

\* The timers that ran out: they were set in the turn the shared read landed.
RefreshTimers ==
  LET due == {p \in Places : hooks[p].timer = "due"}
  IN /\ due # {}
     /\ RefreshHooks(due, [p \in Places |-> hooks[p].of], [p \in Places |-> hooks[p].got])
     /\ UNCHANGED <<setup, measured, setupsSeen, readFaults>>

\* A minute passes (effects do not wait that long): the timers that run are
\* due, the cache is old.
MinutePasses ==
  /\ Moved = {}
  /\ keptRead.fresh \/ \E p \in Places : hooks[p].timer = "armed"
  /\ keptRead' = [keptRead EXCEPT !.fresh = FALSE]
  /\ hooks' = [p \in Places |-> IF hooks[p].timer = "armed" THEN [hooks[p] EXCEPT !.timer = "due"] ELSE hooks[p]]
  /\ UNCHANGED <<setup, histories, measured, setupsSeen, readFaults>>

ServeHistory(r) ==
  /\ Waiting(r) /\ histories[r] = 0
  /\ histories' = [histories EXCEPT ![r] = measured]
  /\ UNCHANGED <<setup, hooks, keptRead, measured, setupsSeen, readFaults>>

\* Every hook that waits for the read goes on; one that started over since
\* leaves the answer alone.
Landed(p, r, failed) ==
  LET live == {w \in hooks[p].waits : w.read = r /\ w.live}
      rest == {w \in hooks[p].waits : w.read # r}
      of == (CHOOSE w \in live : TRUE).of
  IN IF live = {} THEN [hooks[p] EXCEPT !.waits = rest]
     ELSE [hooks[p] EXCEPT !.waits = rest, !.loading = FALSE, !.error = failed, !.timer = "armed",
                           !.got = IF failed THEN << >>
                                   ELSE << [of |-> of, bars |-> BarsOf[histories[r]][of.source]] >>]

LandHistory(r) ==
  /\ Waiting(r) /\ histories[r] > 0
  /\ hooks' = [p \in Places |-> Landed(p, r, FALSE)]
  /\ UNCHANGED <<setup, histories, keptRead, measured, setupsSeen, readFaults>>

\* A failure removes the entry of the URL, whichever read it holds by now.
FailHistory(r) ==
  /\ Waiting(r) /\ histories[r] = 0 /\ readFaults < MaxReadFaults
  /\ readFaults' = readFaults + 1
  /\ hooks' = [p \in Places |-> Landed(p, r, TRUE)]
  /\ keptRead' = [read |-> 0, fresh |-> FALSE]
  /\ UNCHANGED <<setup, histories, measured, setupsSeen>>

MeasureMore ==
  /\ measured < Len(Measurements) /\ measured' = measured + 1
  /\ UNCHANGED <<setup, hooks, histories, keptRead, setupsSeen, readFaults>>

BarNext ==
  \/ NewSetup \/ RunEffects \/ RefreshTimers \/ MinutePasses \/ MeasureMore
  \/ \E r \in ReadIds : ServeHistory(r) \/ LandHistory(r) \/ FailHistory(r)

\* React runs the effects of a render, timers run out, and a read is answered
\* or given up after fifteen seconds.
BarFairness ==
  /\ WF_barVars(RunEffects) /\ WF_barVars(MinutePasses) /\ WF_barVars(RefreshTimers)
  /\ \A r \in ReadIds : WF_barVars(ServeHistory(r)) /\ WF_barVars(LandHistory(r))

-----------------------------------------------------------------------------
\* The targets the snapshot says for a place, straight from its list.
TargetOf(place) ==
  IF place[1] = "first" THEN Range(FirstSource(setup))
  ELSE {p \in Range(CarrierTasks(setup)) :
          /\ p.name = place[1]
          /\ place[2] = IF p.family = "ipv6" /\ \E q \in Range(CarrierTasks(setup)) : q.family = "ipv4"
                        THEN 2 ELSE 1}

\* The bars in a place are of the target that the snapshot now says for it, in
\* its own address family and with its present identity, and of a target that
\* can be probed: a read that lands after the snapshot changed, a kept read or
\* a family without samples never lends bars to another target.
BarsAreOfTheTarget ==
  \A place \in Places : Shown(place) # << >> =>
    \E task \in TargetOf(place) :
      /\ task.usable /\ setup.on /\ (task.id = 0 /\ place[1] # "first" => task.name \notin setup.unreachable)
      /\ \E w \in 1..measured : Shown(place) = Summarize(Measurements[w], <<task>>)

InSpan(m, p, i) ==
  /\ p.ts >= m.to - (BarCount - i + 1) * BarWidth
  /\ p.ts < m.to - (BarCount - i) * BarWidth \/ (i = BarCount /\ p.ts <= m.to)

\* A bar is grey exactly when nothing was measured in its time, and otherwise
\* coloured no better than the best and no worse than the worst point there;
\* a point at either end of the hour is in a bar too.
ToneIsOfTheSpan ==
  \A place \in Places :
    LET bars == Shown(place)
        task == ResolvedSetup(place, setup).source[1]
        own(m, i) == {p \in m.points : Matches(p, task) /\ InSpan(m, p, i) /\ p.n > 0}
        of(p) == [total |-> p.n, lost |-> p.lost, sum |-> (p.n - p.lost) * p.avg]
        within(tone, tones) ==
          IF tones = {} THEN tone = 0
          ELSE (\E x \in tones : x <= tone) /\ (\E x \in tones : x >= tone)
    IN bars # << >> => \E w \in 1..measured : \A i \in 1..BarCount :
         LET points == own(Measurements[w], i)
         IN /\ within(LatencyTone(bars[i]), {LatencyTone(of(p)) : p \in {q \in points : q.n > q.lost}})
            /\ within(LossTone(bars[i]), {LossTone(of(p)) : p \in points})

UpToDate ==
  \A place \in Places :
    LET r == ResolvedSetup(place, setup)
    IN /\ hooks[place].of = r
       /\ Wants(r) => /\ hooks[place].got # << >>
                      /\ hooks[place].got[1].bars = BarsOf[measured][r.source]

\* The bars come to show the latest measurements of the targets, whatever was
\* read, changed or failed before.
BarsCatchUp == <>[]UpToDate
============================================================================
