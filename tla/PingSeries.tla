----------------------------- MODULE PingSeries -----------------------------
(***************************************************************************)
(* From the buckets of the server's ping history to the lines, the table   *)
(* and the smoothed lines of the probe page's ping chart: pingMetrics      *)
(* groups the buckets of the configured tasks on the server's grid,        *)
(* loadMetricPingPayload accepts the lines only with exact statistics for  *)
(* each, mergePingRecords puts records that are close in time in one row,  *)
(* and cutPeakValues drops spikes and smooths.  Every history over a small *)
(* grid is drawn.  Time is in seconds, latencies are whole milliseconds.   *)
(*                                                                         *)
(* Two clocks cut the history: the statistics, and the lines at first, end *)
(* where the server's answer does; the lines are then cut once more by the *)
(* browser's clock, which may be off and reads a history that is cached.   *)
(***************************************************************************)
EXTENDS Integers, Sequences, FiniteSets, SequencesExt, FiniteSetsExt

CONSTANTS
  PingSources,    \* identities of configured tasks
  GridStep,       \* seconds per bucket of the server's answer
  GridTimes,      \* start times of the buckets
  Buckets,        \* the buckets the server may have stored: n, lost, avg
  PingWindows     \* what may be asked for: start, end and how far the browser's clock is ahead

ASSUME PingGrid == /\ GridStep \in Nat \ {0} /\ \A t \in GridTimes : t % GridStep = 0
                   /\ PingWindows \subseteq [start : Int, end : Int, ahead : Int]

VARIABLES
  pings,          \* the history: per task and bucket, a set of at most one bucket
  shownTasks,     \* configured tasks whose state is not "unsupported"
  window,         \* start and end by the server's clock, and the lead of the browser's
  drawn           \* the chart: << >> until it is drawn

pingVars == <<pings, shownTasks, window, drawn>>

-----------------------------------------------------------------------------
(* The answer of captainCall.                                               *)
\* Buckets that are counted: inside the window, with samples, of a task that
\* is still configured.
Counted(k) ==
  {t \in GridTimes : t >= window.start /\ t <= window.end /\ k \in shownTasks
                     /\ \E b \in pings[k][t] : b.n > 0}
BucketAt(k, t) == CHOOSE b \in pings[k][t] : TRUE
Series == {k \in PingSources : Counted(k) # {}}

\* public:queryMetrics keeps of a line what the browser's clock puts in the range.
InBrowserRange(t) == t >= window.start + window.ahead /\ t <= window.end + window.ahead

\* The grid that every line is drawn on; a time without a bucket has no value.
Grid == {t \in window.start..window.end : t % GridStep = 0 /\ InBrowserRange(t)}
LineValue(k, t) == {BucketAt(k, t).avg : u \in {u \in Counted(k) : u = t /\ BucketAt(k, t).n > BucketAt(k, t).lost}}

PingStats(k) ==
  LET total == MapThenSumSet(LAMBDA t : BucketAt(k, t).n, Counted(k))
      lost == MapThenSumSet(LAMBDA t : BucketAt(k, t).lost, Counted(k))
  IN [total |-> total, valid |-> total - lost,
      weighted |-> MapThenSumSet(LAMBDA t : (BucketAt(k, t).n - BucketAt(k, t).lost) * BucketAt(k, t).avg,
                                 Counted(k))]

-----------------------------------------------------------------------------
(* Records, rows and the table.                                             *)
\* buildMetricRecords: one record per task and grid time, in the order of time.
Records ==
  LET lines == SetToSeq(Series)
      m == Len(lines)
      first == Min(Grid)
      at(i) == first + GridStep * ((i - 1) \div m)
      of(i) == lines[((i - 1) % m) + 1]
  IN [i \in 1..(m * Cardinality(Grid)) |-> [task |-> of(i), time |-> at(i), value |-> LineValue(of(i), at(i))]]

\* The payload is used only when every line has exact statistics.
AcceptedRecords(records) == records # << >> /\ \A k \in Series : PingStats(k).total > 0

\* A quarter of the interval, between 800 ms and 6 s; the statistics carry no
\* interval, so it is that of 60 s.
MergeTolerance == LET quarter == 60 \div 4 IN IF quarter > 6 THEN 6 ELSE quarter

NewRow(t) == [time |-> t, value |-> [k \in PingSources |-> {}]]

\* mergePingRecords: the latest anchor within the tolerance takes the record.
MergeOne(rows, r) ==
  LET near == Len(rows) > 0 /\ r.time - rows[Len(rows)].time <= MergeTolerance
      list == IF near THEN rows ELSE Append(rows, NewRow(r.time))
  IN [list EXCEPT ![Len(list)].value[r.task] = r.value]

MergedRows(records) == FoldLeft(MergeOne, << >>, records)

\* buildLatestValues: the last record of the task with a value.
LatestOf(k, records) ==
  LET own == SelectSeq(records, LAMBDA r : r.task = k /\ r.value # {})
  IN IF own = << >> THEN {} ELSE own[Len(own)].value

-----------------------------------------------------------------------------
(* cutPeakValues, one column.  A cell is a set of at most one value.         *)
Cell(c) == CHOOSE v \in c : TRUE
AbsOf(x) == IF x < 0 THEN -x ELSE x

\* A value that differs from the mean of its neighbours (as they are by now)
\* by more than 30 % is dropped; with a mean of 0, by more than 10.
Spike(col, i) ==
  LET others == {j \in DOMAIN col : j # i /\ col[j] # {}}
      sum == MapThenSumSet(LAMBDA j : Cell(col[j]), others)
      n == Cardinality(others)
  IN /\ col[i] # {} /\ n >= 2
     /\ IF sum > 0 THEN 10 * AbsOf(Cell(col[i]) * n - sum) > 3 * sum ELSE AbsOf(Cell(col[i])) > 10

WithoutSpikes(col) == FoldLeft(LAMBDA c, i : IF Spike(c, i) THEN [c EXCEPT ![i] = {}] ELSE c,
                               col, [i \in DOMAIN col |-> i])

\* The weighted average (weight 0.3) of what is left; a gap takes the average
\* so far.  Values are scaled so that the divisions are exact.
Smooth(col) ==
  LET one(acc, c) ==
        LET e == IF c = {} THEN acc.e
                 ELSE IF acc.e = {} THEN c ELSE {(3 * Cell(c) + 7 * Cell(acc.e)) \div 10}
        IN [e |-> e, out |-> Append(acc.out, e)]
  IN FoldLeft(one, [e |-> {}, out |-> << >>], col).out

Scale == 10000
CutPeakValues(k, rows) ==
  LET col == [i \in DOMAIN rows |-> rows[i].value[k]]
      kept == WithoutSpikes(col)
  IN Smooth([i \in DOMAIN col |-> {Scale * v : v \in kept[i]}])

-----------------------------------------------------------------------------
\* Every history of the grid, and every window of PingWindows.
PingInit ==
  /\ pings \in [PingSources -> [GridTimes -> {{b} : b \in Buckets} \union {{}}]]
  /\ shownTasks \in SUBSET PingSources
  /\ window \in PingWindows
  /\ drawn = << >>

Draw ==
  /\ drawn = << >>
  /\ LET records == Records
         accepted == AcceptedRecords(records)
         rows == IF accepted THEN MergedRows(records) ELSE << >>
     IN drawn' = << [rows |-> rows,
                     latest |-> [k \in PingSources |-> IF accepted THEN LatestOf(k, records) ELSE {}],
                     stats |-> [k \in Series |-> PingStats(k)],
                     cut |-> IF accepted THEN [k \in Series |-> CutPeakValues(k, rows)] ELSE << >>] >>
  /\ UNCHANGED <<pings, shownTasks, window>>

PingNext == Draw

-----------------------------------------------------------------------------
Chart == drawn[1]
Line(k) == {<<Chart.rows[i].time, Cell(Chart.rows[i].value[k])>> :
              i \in {i \in DOMAIN Chart.rows : Chart.rows[i].value[k] # {}}}
AnsweredTimes(k) ==
  {t \in GridTimes : k \in shownTasks /\ t >= window.start /\ t <= window.end /\ \E b \in pings[k][t] : b.n > b.lost}

\* A line has a point for each bucket with an answer that both clocks put in the
\* range, at the bucket's own time and with its average, and no other: nothing is
\* lost in the merging of records, put under another task, or made up where every
\* attempt failed.
DrawnAsMeasured ==
  drawn # << >> =>
    \A k \in PingSources :
      Line(k) = {<<t, BucketAt(k, t).avg>> : t \in {u \in AnsweredTimes(k) : InBrowserRange(u)}}

\* The average in the table lies between the lowest and the highest point of the
\* line above it, and there is one exactly when the line has points, unless the
\* browser's clock took an answered bucket off the line: the table still counts it.
AverageIsOfTheLine ==
  drawn # << >> => \A k \in {j \in DOMAIN Chart.stats : \A t \in AnsweredTimes(j) : InBrowserRange(t)} :
    LET s == Chart.stats[k]
        values == {p[2] : p \in Line(k)}
    IN IF values = {} THEN s.valid = 0
       ELSE Min(values) * s.valid <= s.weighted /\ s.weighted <= Max(values) * s.valid

\* The latest value in the table is the end of the line.
LatestIsTheEnd ==
  drawn # << >> => \A k \in PingSources :
    IF Line(k) = {} THEN Chart.latest[k] = {}
    ELSE \E p \in Line(k) : Chart.latest[k] = {p[2]} /\ \A q \in Line(k) : q[1] <= p[1]

\* Smoothing stays between the lowest and the highest point of the line and
\* shows nothing before the first one.
CutStaysInside ==
  drawn # << >> /\ Chart.rows # << >> =>
    \A k \in DOMAIN Chart.cut : \A i \in DOMAIN Chart.cut[k] : \A v \in Chart.cut[k][i] :
      /\ \E p \in Line(k) : p[1] <= Chart.rows[i].time
      /\ \E p, q \in Line(k) : Scale * p[2] <= v /\ v <= Scale * q[2]
=============================================================================
