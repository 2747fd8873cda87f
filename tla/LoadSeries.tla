----------------------------- MODULE LoadSeries -----------------------------
(***************************************************************************)
(* The load charts of a server on the public page: from the minutes the    *)
(* server keeps (a minute may be missing, and each measure in it invalid), *)
(* through the series of the query (captain.ts), the rows of the chart     *)
(* model (glass-shared/charts/load.ts) and the two ways LoadChart fills    *)
(* them, to the lines and the latest value of every card.                  *)
(*                                                                         *)
(* Reads are awaited and carry no generation: the answer to an earlier     *)
(* choice, or of the server that was open before, lands like any other.    *)
(* A value names the server and the minute it was measured in.             *)
(***************************************************************************)
EXTENDS Integers, Sequences, FiniteSets, FiniteSetsExt

CONSTANTS
  LoadServers,    \* the servers of the page
  MinuteReports,  \* what a minute may bring: server -> the families measured, for those that reported
  SectionSets,    \* what a site may publish
  TemplateCards,  \* the cards of the site's chart template
  LoadSpans,      \* lengths of the preset ranges
  MaxSpan,        \* the longest range the history is read for (720 hours)
  PastMinutes,    \* minutes of history before the page is opened
  MaxMinutes, MaxLooks

Families == {"cpu", "load", "memory", "swap", "disk", "network", "processes", "connections"}

ASSUME LoadAssumption ==
  /\ LoadSpans \subseteq Nat \ {0} /\ MaxSpan \in Nat \ {0} /\ PastMinutes \in Nat /\ MaxMinutes \in Nat /\ MaxLooks \in Nat
  /\ \A r \in MinuteReports : \A s \in DOMAIN r : s \in LoadServers /\ r[s] \subseteq Families

VARIABLES
  minutes,     \* the history: minute -> the reports of that minute
  clockNow,    \* the latest minute
  published,   \* public_sections
  uuid,        \* uuid of the chart
  view,        \* selectedView with its custom range: [kind, span] or [kind, from, until]
  turn,        \* how many times fetchData was called
  reads,     \* reads on the way: [n, of, view, at, leg, failed]
  metricData,  \* the rows of the query, << >> for null: <<a read and its rows>>
  remoteData,  \* the rows of the records: a read and its rows
  strayed      \* an answer to an earlier call landed after the latest call

loadVars == <<minutes, clockNow, published, uuid, view, turn, reads, metricData, remoteData, strayed>>
historyVars == <<minutes, clockNow, published>>

Void == << >>         \* null, and the NaN of a figure that is not published: nothing is drawn
Zero == <<0>>
OrElse(v, other) == IF v = Void THEN other ELSE v   \* v ?? other

\* loadFields: section and validity of every measure that has a series.
LoadFields ==
  [cpu |-> [section |-> "cpu", valid |-> "cpu"],
   ram |-> [section |-> "memory", valid |-> "memory"], ram_total |-> [section |-> "memory", valid |-> "memory"],
   swap |-> [section |-> "memory", valid |-> "swap"],
   disk |-> [section |-> "disk", valid |-> "disk"], disk_total |-> [section |-> "disk", valid |-> "disk"],
   net_in |-> [section |-> "network", valid |-> "network"], net_out |-> [section |-> "network", valid |-> "network"],
   load |-> [section |-> "system", valid |-> "load"], process |-> [section |-> "system", valid |-> "processes"],
   connections |-> [section |-> "system", valid |-> "connections"],
   connections_udp |-> [section |-> "system", valid |-> "connections"]]
Measures == DOMAIN LoadFields

\* The other fields of a row (RecordFormat, without the GPU): there is no series for them.
Unfed == {"swap_total", "temp", "net_total_up", "net_total_down", "traffic_up", "traffic_down"}
RecordFields == Measures \cup Unfed

\* mem_total, swap_total and disk_total as server s reports them now (clientFor).
Capacities == [ram_total |-> "memory", swap_total |-> "memory", disk_total |-> "disk"]
Capacity(s, field) == IF Capacities[field] \in published THEN <<s, 0>> ELSE Void

Measured(s, t, key) ==
  IF t \in DOMAIN minutes /\ s \in DOMAIN minutes[t] /\ LoadFields[key].valid \in minutes[t][s] THEN <<s, t>> ELSE Void

-----------------------------------------------------------------------------
(* captain.ts: series on the grid of the history, as it was at minute `at`.  *)

LoadMetrics(s, at, hours, keys_) ==
  [k \in {key \in keys_ : LoadFields[key].section \in published} |->
     [t \in {u \in 1..at : u >= at - hours} |-> Measured(s, t, k)]]

\* public:listMetricDefinitions.
MetricDefinitions == {key \in Measures : LoadFields[key].section \in published}

\* requestedHours: a range that starts in the past is read up to now, and no
\* answer goes back further than the longest range.
Bounded(hours) == IF hours < 1 THEN 1 ELSE IF hours > MaxSpan THEN MaxSpan ELSE hours
RequestedHours(v, at) == Bounded(IF v.kind = "custom" THEN at - v.from ELSE v.span)

\* public:queryMetrics: only the points inside the bounds.
QueryMetrics(s, v, at) ==
  LET series == LoadMetrics(s, at, RequestedHours(v, at), MetricDefinitions)
  IN [k \in DOMAIN series |->
        [t \in {u \in DOMAIN series[k] : v.kind = "custom" => u >= v.from /\ u <= v.until} |-> series[k][t]]]

\* loadRecords: a record per point of time, without what is not published.
LoadRecords(s, at, hours) ==
  LET series == LoadMetrics(s, at, hours, Measures)
  IN [t \in UNION {DOMAIN series[k] : k \in DOMAIN series} |-> [k \in DOMAIN series |-> series[k][t]]]

-----------------------------------------------------------------------------
(* charts/load.ts: rows.                                                    *)
\* ensureMetricRow: nothing measured, and today's capacity of the server of the chart.
EnsureMetricRow == [f \in RecordFields |-> IF f \in DOMAIN Capacities THEN Capacity(uuid, f) ELSE Void]

\* applyMetricPoint, of the points of one time: a point sets the field of its key.
ApplyMetricPoint(row, series, t) ==
  [f \in RecordFields |-> IF f \in DOMAIN series /\ t \in DOMAIN series[f] THEN series[f][t] ELSE row[f]]

\* metricSeriesToRecordFormat: the points of all series by their time.
MetricSeriesToRecordFormat(series) ==
  [t \in UNION {DOMAIN series[k] : k \in DOMAIN series} |-> ApplyMetricPoint(EnsureMetricRow, series, t)]

\* Mutant: a missing number is zero.
StatusToZero(records) ==
  [t \in DOMAIN records |-> [f \in RecordFields |-> IF f \in DOMAIN records[t] THEN OrElse(records[t][f], Zero) ELSE Zero]]

\* metricValue, statusToRecordFormat: what a record does not have is null.
StatusToRecordFormat(records) ==
  [t \in DOMAIN records |-> [f \in RecordFields |-> IF f \in DOMAIN records[t] THEN records[t][f] ELSE Void]]

-----------------------------------------------------------------------------
(* LoadChart: the rows of an answer, and where they go.                     *)
NoRows == [n |-> 0, rows |-> << >>]
Landed(q, rows_) == [n |-> q.n, of |-> q.of, view |-> q.view, at |-> q.at, failed |-> q.failed, rows |-> rows_]

QueriedRows(q) == MetricSeriesToRecordFormat(QueryMetrics(q.of, q.view, q.at))
HasCpuHistory(rows_) == \E t \in DOMAIN rows_ : rows_[t]["cpu"] # Void

\* The hour of the realtime view, or the length of the range.
HoursOf(v) ==
  IF v.kind = "realtime" THEN 1 ELSE Bounded(IF v.kind = "custom" THEN v.until - v.from ELSE v.span)
RecordRowsOf(q) == StatusToRecordFormat(LoadRecords(q.of, q.at, HoursOf(q.view)))

\* chartData.
ChartData == IF metricData = << >> THEN remoteData ELSE metricData[1]
ChartRows == ChartData.rows

\* isChartCardEnabled, without the GPU and ping cards: published, on the template
\* and, for two of them, with something to draw.
ChartCards ==
  [cpu |-> "cpu", memory |-> "memory", disk |-> "disk", network |-> "network", traffic |-> "network",
   connections |-> "system", process |-> "system", temperature |-> "system"]
SeriesHaveData(fields) == \E t \in DOMAIN ChartRows, f \in fields : ChartRows[t][f] # Void
IsChartCardEnabled(card) ==
  /\ ChartCards[card] \in published /\ card \in TemplateCards
  /\ card = "traffic" => SeriesHaveData({"net_total_up", "net_total_down", "traffic_up", "traffic_down"})
  /\ card = "temperature" => SeriesHaveData({"temp"})

\* The lines of the cards at a row.
CpuChartOption(row) == <<row["cpu"], row["load"]>>
MemoryChartOption(row) ==
  <<row["ram"], OrElse(row["ram_total"], Capacity(uuid, "ram_total")), row["swap"], OrElse(row["swap_total"], Capacity(uuid, "swap_total"))>>
NetworkChartOption(row) == <<OrElse(row["net_in"], Zero), OrElse(row["net_out"], Zero)>>
ConnectionsChartOption(row) == <<row["connections"], row["connections_udp"]>>
ProcessChartOption(row) == <<row["process"]>>

\* latestStatus: the last row, measured or not.
LatestStatus(key) == IF DOMAIN ChartRows = {} THEN Void ELSE ChartRows[Max(DOMAIN ChartRows)][key]

-----------------------------------------------------------------------------
\* fetchData for server s: the realtime read drops the rows of a query at once, the
\* others leave the chart as it is until they land; a custom range that is not
\* filled in is not read, and clears the chart.
FetchData(s, v) ==
  /\ turn < MaxLooks /\ turn' = turn + 1 /\ strayed' = FALSE
  /\ reads' = IF v.kind = "unset" THEN reads
              ELSE reads \cup {[n |-> turn', of |-> s, view |-> v, at |-> clockNow, failed |-> FALSE,
                               leg |-> IF v.kind = "realtime" THEN "recent" ELSE "query"]}

\* A range is chosen, a custom one applied, or the realtime view polls.
LookAt(v) ==
  /\ v.kind = "preset" => v # view
  /\ view' = v /\ FetchData(uuid, v)
  /\ metricData' = IF v.kind = "realtime" THEN << >> ELSE metricData
  /\ UNCHANGED <<historyVars, uuid, remoteData>>

\* The custom tab without a range: nothing is read.
ChooseCustom ==
  /\ view.kind # "unset" /\ view' = [kind |-> "unset"]
  /\ UNCHANGED <<historyVars, uuid, turn, reads, metricData, remoteData, strayed>>

\* Another server is opened in the same page.
OpenServer(s) ==
  /\ s # uuid /\ uuid' = s
  /\ metricData' = << >> /\ remoteData' = NoRows
  /\ FetchData(s, view)
  /\ UNCHANGED <<historyVars, view>>

\* An answer that lands leaves the wire; whether it is that of the latest call is not asked.
Lands(q) == q \in reads /\ strayed' = (strayed \/ q.n # turn)

\* fetchRecentData, and the records read when the query had nothing to show.
RecordsLand(q) ==
  /\ q.leg # "query" /\ Lands(q) /\ reads' = reads \ {q}
  /\ remoteData' = Landed(q, RecordRowsOf(q))
  /\ UNCHANGED <<historyVars, uuid, view, turn, metricData>>

RecordsFail(q) ==
  /\ q.leg # "query" /\ Lands(q) /\ reads' = reads \ {q}
  /\ remoteData' = NoRows
  /\ metricData' = IF q.leg = "records" THEN << >> ELSE metricData
  /\ UNCHANGED <<historyVars, uuid, view, turn>>

\* fetchHistoryData: the query has a CPU to show.
QueryLands(q) ==
  /\ q.leg = "query" /\ HasCpuHistory(QueriedRows(q)) /\ Lands(q) /\ reads' = reads \ {q}
  /\ metricData' = <<Landed(q, QueriedRows(q))>> /\ remoteData' = NoRows
  /\ UNCHANGED <<historyVars, uuid, view, turn>>

\* It has not, or failed: the records are read instead.
QueryFallsBack(q, fails) ==
  /\ q.leg = "query" /\ (fails \/ ~HasCpuHistory(QueriedRows(q))) /\ Lands(q)
  /\ reads' = (reads \ {q}) \cup {[q EXCEPT !.leg = "records", !.failed = fails, !.at = clockNow]}
  /\ metricData' = << >>
  /\ UNCHANGED <<historyVars, uuid, view, turn, remoteData>>

\* A minute passes, with the reports that came in it; what is kept goes on.
MinutePasses(report) ==
  /\ clockNow < MaxMinutes /\ clockNow' = clockNow + 1
  /\ minutes' = [t \in 1..clockNow' |-> IF t = clockNow' THEN report ELSE minutes[t]]
  /\ UNCHANGED <<published, uuid, view, turn, reads, metricData, remoteData, strayed>>

\* The page opens with the realtime view, whose first read is LookAt's.
LoadInit ==
  /\ clockNow = PastMinutes /\ minutes \in [1..PastMinutes -> MinuteReports]
  /\ published \in SectionSets /\ uuid \in LoadServers
  /\ view = [kind |-> "realtime"] /\ turn = 0 /\ reads = {}
  /\ metricData = << >> /\ remoteData = NoRows /\ strayed = FALSE

LoadNext ==
  \/ \E r \in MinuteReports : MinutePasses(r)
  \/ LookAt([kind |-> "realtime"]) \/ \E s \in LoadSpans : LookAt([kind |-> "preset", span |-> s])
  \/ \E a, b \in 1..clockNow : a < b /\ LookAt([kind |-> "custom", from |-> a, until |-> b])
  \/ ChooseCustom
  \/ \E s \in LoadServers : OpenServer(s)
  \/ \E q \in reads : RecordsLand(q) \/ RecordsFail(q) \/ QueryLands(q) \/ \E fails \in BOOLEAN : QueryFallsBack(q, fails)

LoadSpec == LoadInit /\ [][LoadNext]_loadVars

-----------------------------------------------------------------------------
\* Whichever way the rows came and whenever they landed, a line of the CPU,
\* memory, connection and process cards shows at each of its times what the server
\* the rows were read for measured then, and a gap where nothing was: no zero, no
\* neighbour's value. A network line shows what was measured; nothing is said of
\* its unmeasured times, which the code draws as zero.
LoadIsMeasured ==
  \A t \in DOMAIN ChartRows :
    LET row == ChartRows[t]
        M(key) == Measured(ChartData.of, t, key)
    IN
    /\ IsChartCardEnabled("cpu") => CpuChartOption(row)[1] = M("cpu")
    /\ IsChartCardEnabled("cpu") /\ "system" \in published => CpuChartOption(row)[2] = M("load")
    /\ IsChartCardEnabled("memory") =>
         /\ MemoryChartOption(row)[1] = M("ram") /\ MemoryChartOption(row)[3] = M("swap")
         /\ MemoryChartOption(row)[2] = OrElse(M("ram_total"), Capacity(uuid, "ram_total"))
    /\ IsChartCardEnabled("network") =>
         /\ M("net_in") # Void => NetworkChartOption(row)[1] = M("net_in")
         /\ M("net_out") # Void => NetworkChartOption(row)[2] = M("net_out")
    /\ IsChartCardEnabled("connections") =>
         ConnectionsChartOption(row) = <<M("connections"), M("connections_udp")>>
    /\ IsChartCardEnabled("process") => ProcessChartOption(row) = <<M("process")>>

\* Once the latest call has landed, and unless the answer to an earlier one came
\* after that call, the chart holds the rows of that call: of the server that is
\* open and the range that is chosen.
LatestCallIsDrawn ==
  ~strayed /\ (\A q \in reads : q.n # turn) /\ DOMAIN ChartRows # {} =>
    /\ ChartData.n = turn /\ ChartData.of = uuid
    /\ ChartData.view = view \/ view.kind = "unset"

\* A custom range with a CPU measured in it is shown as it was chosen, every time
\* of it and none outside, as far back as the history was read, unless the query failed.
RangeIsShown ==
  ChartData # NoRows /\ ChartData.view.kind = "custom" /\ ~ChartData.failed /\ IsChartCardEnabled("cpu") =>
    LET read_ == {t \in ChartData.view.from..ChartData.view.until : t >= ChartData.at - MaxSpan} IN
    (\E t \in read_ : Measured(ChartData.of, t, "cpu") # Void) => DOMAIN ChartRows = read_

\* No row holds a figure of a section the site does not publish.
HiddenIsNotDrawn ==
  \A t \in DOMAIN ChartRows, f \in RecordFields :
    (IF f \in Measures THEN LoadFields[f].section \notin published
     ELSE f \notin DOMAIN Capacities \/ Capacities[f] \notin published) => ChartRows[t][f] = Void

\* The value at the head of a card is of the last time drawn; when that was
\* not measured, the head says so rather than show an older one.
LatestIsTheLast ==
  \A k \in Measures \ DOMAIN Capacities :
    LatestStatus(k) # Void => LatestStatus(k) = <<ChartData.of, Max(DOMAIN ChartRows)>>
=============================================================================
