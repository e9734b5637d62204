--------------------------- MODULE Observability ---------------------------
(***************************************************************************)
(* What the process knows of its projects: the collector's task            *)
(* (app/collectors) fills the metric windows and the trace cache in memory *)
(* and the recent logs in Redis, while requests read them: the topology    *)
(* (app/topology/service.py), through a graph cached in Redis, and the     *)
(* agent's analyses (app/agent/graph.py), one store after the other.       *)
(*                                                                         *)
(* All are tasks of one event loop: an action is what a task does from one *)
(* await to the next, and any other task may run between two actions.      *)
(***************************************************************************)
EXTENDS AgentAnalysis

CONSTANTS
  ProjectOrder,  \* the enabled projects, in the order of the configuration
  Setups,        \* what the projects may have configured
  MetricOrder,   \* DEFAULT_CANONICAL_METRICS
  Values,        \* per project and metric, what Prometheus may answer
  MaxLen,        \* samples in a window
  MinSamples,    \* samples before a z-score is computed
  Threshold,     \* z-scores beyond it are anomalies
  LogBatches,    \* per project, the errors and warnings Loki may answer
  RecentBatches, \* per project, the logs of all levels Loki may answer
  TraceBodies,   \* per trace, what Tempo may answer: sequences of spans
  Seeds,         \* per project, the traces seeded in Redis
  MaxTraces,     \* traces in a project's cache
  QueryLimit,    \* traces asked for in one cycle
  LinkedAlerts,  \* alerts an analysis may be linked to
  Requests,      \* each for a topology or for an analysis
  Faults         \* "fail": a call fails; "restart": the process ends

Projects == ToSet(ProjectOrder)

Sources == {"prometheus", "loki", "tempo", "broken"}

LogLine ==
  [error : BOOLEAN, oom : BOOLEAN, service : Services \cup {Nothing},
   trace : TraceIds \cup {Nothing}]

ASSUME ObservabilityAssumption ==
  /\ ProjectOrder \in Seq(Projects)
  /\ \A n, m \in DOMAIN ProjectOrder : ProjectOrder[n] = ProjectOrder[m] => n = m
  /\ Setups \subseteq [Projects -> SUBSET Sources]
  /\ MetricOrder \in Seq(Metrics)
  /\ \A n, m \in DOMAIN MetricOrder : MetricOrder[n] = MetricOrder[m] => n = m
  /\ Values \in [Projects -> [Metrics -> SUBSET Int]]
  /\ MaxLen \in Nat \ {0} /\ MinSamples \in Nat \ {0} /\ Threshold \in Nat
  /\ MaxTraces \in Nat /\ QueryLimit \in Nat
  /\ LogBatches \in [Projects -> SUBSET Seq(LogLine)]
  /\ RecentBatches \in [Projects -> SUBSET Seq(LogLine)]
  /\ TraceBodies \in [TraceIds -> SUBSET Seq(Span)]
  /\ Seeds \in [Projects -> Seq(Trace)]
  /\ LinkedAlerts \subseteq Alert

VARIABLES
  setup,    \* project -> the datasources it has configured
  window,   \* project, metric -> the window, and how long its value has not changed
  latest,   \* project -> the latest samples, in the order of first appearance
  traces,   \* project -> the trace cache, oldest first
  errors,   \* project -> recent errors in Redis
  recent,   \* project -> recent logs in Redis
  col,      \* where the collector's task stands
  topo,     \* project -> the base graph cached in Redis, or Nothing
  view,     \* requests for a topology
  run       \* requests for an analysis

collected == <<window, latest, traces, errors, recent>>

vars == <<setup, window, latest, traces, errors, recent, col, topo, view, run>>

-----------------------------------------------------------------------------

Sample == [metric : Metrics, anomaly : BOOLEAN]

Window == [values : Seq(Int), same : 0..(MaxLen + 1)]

Collector ==
  [pc      : {"waiting", "starting", "metrics", "logs", "recent", "traces", "publishing", "down"},
   at      : 1..(Len(ProjectOrder) + 1),
   metric  : 1..(Len(MetricOrder) + 1),
   samples : Seq(Sample),
   ids     : SUBSET TraceIds]

WaitingCollector == [pc |-> "waiting", at |-> 1, metric |-> 1, samples |-> <<>>, ids |-> {}]

View ==
  [pc      : {"idle", "loading", "building", "seeding", "caching", "answered", "cut"},
   project : Projects \cup {Nothing},
   base    : Graph \cup {Nothing}]

IdleView == [pc |-> "idle", project |-> Nothing, base |-> Nothing]

\* A slow or failed span of the trace cache, and where it stands there.
SpanItem ==
  [trace : Nat, place : Nat, service : Services \cup {Nothing}, error : BOOLEAN, slow : BOOLEAN]

Evidence == [metrics : Seq(Sample), logs : Seq(LogLine), spans : SUBSET SpanItem]

Run ==
  [pc       : {"idle", "metrics", "logs", "traces", "detecting", "retrieving", "concluding",
               "deciding", "completed", "raised", "cut"},
   project  : Projects \cup {Nothing},
   linked   : BOOLEAN,
   evidence : Evidence,
   alert    : Alert,
   detected : BOOLEAN,
   type     : AnomalyTypes \cup {Nothing},
   service  : Services \cup {UnknownService, Nothing},
   severity : {"info", "warning", "critical", Nothing},
   asked    : (AnomalyTypes \cup {Nothing}) \X (Services \cup {UnknownService, Nothing}),
   action   : Actions \cup {Nothing}]

NoAlert == [active |-> FALSE, critical |-> FALSE, name |-> "UnknownAnomaly", service |-> Nothing]

IdleRun ==
  [pc |-> "idle", project |-> Nothing, linked |-> FALSE,
   evidence |-> [metrics |-> <<>>, logs |-> <<>>, spans |-> {}],
   alert |-> NoAlert, detected |-> FALSE, type |-> Nothing, service |-> Nothing,
   severity |-> Nothing,
   asked |-> <<Nothing, Nothing>>, action |-> Nothing]

Current == ProjectOrder[col.at]

Has(source) == source \in setup[Current]

MayFail == "fail" \in Faults

GoTo(stage) == col' = [col EXCEPT !.pc = stage]

-----------------------------------------------------------------------------
(* The metric windows. *)

Total(w) == MapThenSumSet(LAMBDA n : w[n], DOMAIN w)

Squares(w) == MapThenSumSet(LAMBDA n : w[n] * w[n], DOMAIN w)

\* pstdev(w) = 0: the mean is then the one value there is.
Flat(w) == \A n \in DOMAIN w : w[n] = w[1]

\* |v - mean| > Threshold * pstdev, both sides multiplied by Len(w) and squared.
IsFarOff(w, v) ==
  LET spread == Len(w) * Squares(w) - Total(w) * Total(w)
      away == Len(w) * v - Total(w)
  IN away * away > Threshold * Threshold * spread

\* Variant: whatever comes after equal values is an anomaly.
IsAnomalyWhenFlat(w, v) == Len(w) >= MinSamples /\ (Flat(w) \/ IsFarOff(w, v))

\* After equal values any other value is an anomaly.
IsAnomaly(w, v) ==
  /\ Len(w) >= MinSamples
  /\ IF Flat(w) THEN v # w[1] ELSE IsFarOff(w, v)

\* A deque of MaxLen.
Slide(w, v) == IF Len(w) < MaxLen THEN Append(w, v) ELSE Append(Tail(w), v)

\* same counts the equal values in a row, up to the new one.
CountSame(j, m, v) ==
  LET w == window[j][m]
  IN IF w.values # <<>> /\ v = w.values[Len(w.values)] /\ w.same > 0
     THEN IF w.same > MaxLen THEN w.same ELSE w.same + 1
     ELSE 1

\* A dict: an entry keeps its place when it is replaced.
Replace(samples, s) ==
  IF \E n \in DOMAIN samples : samples[n].metric = s.metric
  THEN [n \in DOMAIN samples |-> IF samples[n].metric = s.metric THEN s ELSE samples[n]]
  ELSE Append(samples, s)

SampleOf(j, m, v) == [metric |-> m, anomaly |-> IsAnomaly(window[j][m].values, v)]

\* MetricWindowStore.add.
Add(j, m, v) ==
  /\ window' = [window EXCEPT ![j][m] =
       [values |-> Slide(@.values, v), same |-> CountSame(j, m, v)]]
  /\ latest' = [latest EXCEPT ![j] = Replace(@, SampleOf(j, m, v))]

-----------------------------------------------------------------------------
(* The collector: one project after the other, and for each the stages     *)
(* metrics, logs, recent logs, traces, publish, those that it has          *)
(* configured; what fails is logged and the next stage begins.             *)

BeginCycle ==
  /\ col.pc = "waiting"
  /\ col' = [WaitingCollector EXCEPT !.pc = "starting"]
  /\ UNCHANGED <<setup, collected, topo, view, run>>

\* Variant: what the previous project left is not cleared.
StartProjectUncleared ==
  /\ col.pc = "starting"
  /\ col.at <= Len(ProjectOrder)
  /\ ~Has("broken")
  /\ col' = [col EXCEPT !.pc = "metrics", !.metric = 1]
  /\ UNCHANGED <<setup, window, latest, traces, errors, recent, topo, view, run>>

StartProject ==
  /\ col.pc = "starting"
  /\ col.at <= Len(ProjectOrder)
  /\ ~Has("broken")
  /\ col' = [WaitingCollector EXCEPT !.pc = "metrics", !.at = col.at]
  /\ UNCHANGED <<setup, window, latest, traces, errors, recent, topo, view, run>>

\* Variant: the exception of a project ends the cycle.
AbandonCycle ==
  /\ col.pc = "starting"
  /\ col.at <= Len(ProjectOrder)
  /\ Has("broken")
  /\ col' = WaitingCollector
  /\ UNCHANGED <<setup, collected, topo, view, run>>

\* The providers of the project cannot be built.
SkipProject ==
  /\ col.pc = "starting"
  /\ col.at <= Len(ProjectOrder)
  /\ Has("broken")
  /\ col' = [col EXCEPT !.at = @ + 1]
  /\ UNCHANGED <<setup, collected, topo, view, run>>

EndCycle ==
  /\ col.pc = "starting"
  /\ col.at > Len(ProjectOrder)
  /\ col' = WaitingCollector
  /\ UNCHANGED <<setup, collected, topo, view, run>>

\* A query fails or answers no value: the metric is left out.
CollectMetric ==
  /\ col.pc = "metrics" /\ Has("prometheus")
  /\ col.metric <= Len(MetricOrder)
  /\ LET m == MetricOrder[col.metric]
     IN \/ \E v \in Values[Current][m] :
             /\ Add(Current, m, v)
             /\ col' = [col EXCEPT !.metric = @ + 1,
                                   !.samples = Append(@, SampleOf(Current, m, v))]
        \/ /\ MayFail
           /\ col' = [col EXCEPT !.metric = @ + 1]
           /\ UNCHANGED <<window, latest>>
  /\ UNCHANGED <<setup, traces, errors, recent, topo, view, run>>

MetricsDone ==
  /\ col.pc = "metrics"
  /\ Has("prometheus") => col.metric > Len(MetricOrder)
  /\ GoTo("logs")
  /\ UNCHANGED <<setup, collected, topo, view, run>>

TracesNamed(batch) == {batch[n].trace : n \in DOMAIN batch} \ {Nothing}

\* The first QueryLimit of a set, whose order is arbitrary.
Chosen(ids) ==
  {S \in SUBSET ids :
     Cardinality(S) = IF Cardinality(ids) < QueryLimit THEN Cardinality(ids) ELSE QueryLimit}

\* The query, and the SET.  When Loki or Redis fails no trace is asked for;
\* the SET may have taken place all the same.
CollectLogs ==
  /\ col.pc = "logs" /\ Has("loki")
  /\ \/ \E batch \in LogBatches[Current] :
          /\ errors' = [errors EXCEPT ![Current] = batch]
          /\ \E ids \in Chosen(TracesNamed(batch)) \cup (IF MayFail THEN {{}} ELSE {}) :
               col' = [col EXCEPT !.pc = "recent", !.ids = ids]
     \/ /\ MayFail
        /\ GoTo("recent")
        /\ UNCHANGED errors
  /\ UNCHANGED <<setup, window, latest, traces, recent, topo, view, run>>

CollectRecent ==
  /\ col.pc = "recent" /\ Has("loki")
  /\ \/ \E batch \in RecentBatches[Current] : recent' = [recent EXCEPT ![Current] = batch]
     \/ MayFail /\ UNCHANGED recent
  /\ GoTo("traces")
  /\ UNCHANGED <<setup, window, latest, traces, errors, topo, view, run>>

SkipLogs ==
  /\ col.pc = "logs" /\ ~Has("loki")
  /\ GoTo("traces")
  /\ UNCHANGED <<setup, collected, topo, view, run>>

\* Variant: nothing is evicted.
PutUnbounded(cache, t, spans) == Append(cache, [id |-> t, spans |-> spans])

\* TraceCache.put: a trace that is there keeps its place, else the oldest go.
Put(cache, t, spans) ==
  LET new == [id |-> t, spans |-> spans]
      longer == IF \E n \in DOMAIN cache : cache[n].id = t
                THEN [n \in DOMAIN cache |-> IF cache[n].id = t THEN new ELSE cache[n]]
                ELSE Append(cache, new)
  IN IF Len(longer) > MaxTraces THEN Tail(longer) ELSE longer

\* A query that fails, or a trace without spans, leaves the cache alone.
CollectTrace(t) ==
  /\ col.pc = "traces" /\ Has("tempo")
  /\ t \in col.ids
  /\ \/ \E spans \in TraceBodies[t] :
          traces' = IF spans = <<>> THEN traces
                    ELSE [traces EXCEPT ![Current] = Put(@, t, spans)]
     \/ MayFail /\ UNCHANGED traces
  /\ col' = [col EXCEPT !.ids = @ \ {t}]
  /\ UNCHANGED <<setup, window, latest, errors, recent, topo, view, run>>

TracesDone ==
  /\ col.pc = "traces"
  /\ Has("tempo") => col.ids = {}
  /\ GoTo("publishing")
  /\ UNCHANGED <<setup, collected, topo, view, run>>

\* Samples, if there are any, are published, or cannot be: Redis keeps
\* nothing of them.
Publish ==
  /\ col.pc = "publishing"
  /\ col' = [col EXCEPT !.pc = "starting", !.at = @ + 1]
  /\ UNCHANGED <<setup, collected, topo, view, run>>

-----------------------------------------------------------------------------
(* The topology. *)

ReceiveView(q, j) ==
  /\ view[q].pc = "idle" /\ run[q].pc = "idle"
  /\ view' = [view EXCEPT ![q] = [IdleView EXCEPT !.pc = "loading", !.project = j]]
  /\ UNCHANGED <<setup, collected, col, topo, run>>

\* _load_base_graph: Redis fails, or has no graph.
Load(q) ==
  /\ view[q].pc = "loading"
  /\ LET cached == topo[view[q].project]
     IN \/ /\ cached # Nothing
           /\ view' = [view EXCEPT ![q].pc = "answered", ![q].base = cached]
        \/ /\ cached = Nothing \/ MayFail
           /\ view' = [view EXCEPT ![q].pc = "building"]
  /\ UNCHANGED <<setup, collected, col, topo, run>>

\* load_trace_snapshot: the memory, or else the seed in Redis.
Build(q) ==
  /\ view[q].pc = "building"
  /\ LET cache == traces[view[q].project]
     IN view' = [view EXCEPT
          ![q].pc = IF cache = <<>> THEN "seeding" ELSE "caching",
          ![q].base = IF cache = <<>> THEN Nothing ELSE BaseGraph(cache)]
  /\ UNCHANGED <<setup, collected, col, topo, run>>

BuildFromSeed(q) ==
  /\ view[q].pc = "seeding"
  /\ \E seed \in {Seeds[view[q].project]} \cup (IF MayFail THEN {<<>>} ELSE {}) :
       view' = [view EXCEPT ![q].pc = "caching", ![q].base = BaseGraph(seed)]
  /\ UNCHANGED <<setup, collected, col, topo, run>>

\* _cache_base_graph.
CacheGraph(q) ==
  /\ view[q].pc = "caching"
  /\ \/ topo' = [topo EXCEPT ![view[q].project] = view[q].base]
     \/ MayFail /\ UNCHANGED topo
  /\ view' = [view EXCEPT ![q].pc = "answered"]
  /\ UNCHANGED <<setup, collected, col, run>>

\* A refresh deletes the cached graph; so does its time to live.
Refresh(j) ==
  /\ topo[j] # Nothing
  /\ topo' = [topo EXCEPT ![j] = Nothing]
  /\ UNCHANGED <<setup, collected, col, view, run>>

-----------------------------------------------------------------------------
(* An analysis: the nodes of the graph, in their order. *)

Analyse(n, j, linked) ==
  /\ view[n].pc = "idle" /\ run[n].pc = "idle"
  /\ run' = [run EXCEPT ![n] =
       [IdleRun EXCEPT !.pc = "metrics", !.project = j, !.linked = linked]]
  /\ UNCHANGED <<setup, collected, col, topo, view>>

FetchMetrics(n) ==
  /\ run[n].pc = "metrics"
  /\ run' = [run EXCEPT ![n].pc = "logs", ![n].evidence.metrics = latest[run[n].project]]
  /\ UNCHANGED <<setup, collected, col, topo, view>>

FetchLogs(n) ==
  /\ run[n].pc = "logs"
  /\ run' = [run EXCEPT ![n].pc = "traces", ![n].evidence.logs = errors[run[n].project]]
  /\ UNCHANGED <<setup, collected, col, topo, view>>

\* Redis fails in fetch_logs_node, or the database in rag_retrieve_node.
Raise(n) ==
  /\ MayFail
  /\ run[n].pc \in {"logs", "retrieving"}
  /\ run' = [run EXCEPT ![n].pc = "raised"]
  /\ UNCHANGED <<setup, collected, col, topo, view>>

ItemsOf(cache, k) ==
  {[trace |-> k, place |-> n, service |-> cache[k].spans[n].service,
    error |-> cache[k].spans[n].error, slow |-> cache[k].spans[n].slow] :
   n \in {m \in DOMAIN cache[k].spans : cache[k].spans[m].slow \/ cache[k].spans[m].error}}

AnomalousSpans(cache) == UNION {ItemsOf(cache, k) : k \in DOMAIN cache}

FetchTraces(n) ==
  /\ run[n].pc = "traces"
  /\ run' = [run EXCEPT ![n].pc = "detecting",
                        ![n].evidence.spans = AnomalousSpans(traces[run[n].project])]
  /\ UNCHANGED <<setup, collected, col, topo, view>>

\* The alert as it is now, or none when it cannot be loaded.
AlertsNow(n) == {NoAlert} \cup (IF run[n].linked THEN LinkedAlerts ELSE {})

\* anomaly_detect_node, and where route_after_anomaly goes.
Detect(n) ==
  /\ run[n].pc = "detecting"
  /\ \E alert \in AlertsNow(n) :
       LET found == AnomalyDetected(run[n].evidence, alert)
       IN run' = [run EXCEPT
            ![n].pc = IF found THEN "retrieving" ELSE "completed",
            ![n].alert = alert,
            ![n].detected = found,
            ![n].severity = IF found THEN Severity(run[n].evidence, alert) ELSE "info",
            ![n].type = IF alert.active THEN alert.name ELSE Nothing,
            ![n].service = IF alert.active THEN alert.service ELSE Nothing]
  /\ UNCHANGED <<setup, collected, col, topo, view>>

\* rag_retrieve_node asks for similar cases of a type in a service.
Retrieve(n) ==
  /\ run[n].pc = "retrieving"
  /\ run' = [run EXCEPT ![n].pc = "concluding",
       ![n].asked = <<TypeOr(run[n].type, run[n].evidence),
                      ServiceOr(run[n].service, run[n].evidence)>>]
  /\ UNCHANGED <<setup, collected, col, topo, view>>

\* Variant: what the linked alert said is not used.
ConcludeFromEvidence(n) ==
  /\ run[n].pc = "concluding"
  /\ run' = [run EXCEPT ![n].pc = "deciding",
       ![n].type = PickAnomalyType(run[n].evidence),
       ![n].service = PickFaultService(run[n].evidence)]
  /\ UNCHANGED <<setup, collected, col, topo, view>>

\* root_cause_node.
Conclude(n) ==
  /\ run[n].pc = "concluding"
  /\ run' = [run EXCEPT ![n].pc = "deciding",
       ![n].type = TypeOr(@, run[n].evidence),
       ![n].service = ServiceOr(@, run[n].evidence)]
  /\ UNCHANGED <<setup, collected, col, topo, view>>

\* decide_heal_node, and assemble_evidence_node, which decides nothing.
DecideHeal(n) ==
  /\ run[n].pc = "deciding"
  /\ run' = [run EXCEPT ![n].pc = "completed", ![n].action = PickActionType(run[n].type)]
  /\ UNCHANGED <<setup, collected, col, topo, view>>

-----------------------------------------------------------------------------
(* The process. *)

\* Memory is lost, Redis is not, and requests are cut off.
Stop ==
  /\ "restart" \in Faults
  /\ col.pc # "down"
  /\ col' = [WaitingCollector EXCEPT !.pc = "down"]
  /\ window' = [j \in Projects |-> [m \in Metrics |-> [values |-> <<>>, same |-> 0]]]
  /\ latest' = [j \in Projects |-> <<>>]
  /\ traces' = [j \in Projects |-> <<>>]
  /\ view' = [q \in Requests |->
       IF view[q].pc \in {"idle", "answered"} THEN view[q] ELSE [view[q] EXCEPT !.pc = "cut"]]
  /\ run' = [n \in Requests |->
       IF run[n].pc \in {"idle", "completed", "raised"} THEN run[n]
       ELSE [run[n] EXCEPT !.pc = "cut"]]
  /\ UNCHANGED <<setup, errors, recent, topo>>

Start ==
  /\ col.pc = "down"
  /\ col' = WaitingCollector
  /\ UNCHANGED <<setup, collected, topo, view, run>>

\* The time to live of the recent errors, or logs, of a project is over.
ExpireLogs(j) ==
  /\ \/ /\ errors[j] # <<>>
        /\ errors' = [errors EXCEPT ![j] = <<>>]
        /\ UNCHANGED recent
     \/ /\ recent[j] # <<>>
        /\ recent' = [recent EXCEPT ![j] = <<>>]
        /\ UNCHANGED errors
  /\ UNCHANGED <<setup, window, latest, traces, col, topo, view, run>>

-----------------------------------------------------------------------------

Init ==
  /\ setup \in Setups
  /\ window = [j \in Projects |-> [m \in Metrics |-> [values |-> <<>>, same |-> 0]]]
  /\ latest = [j \in Projects |-> <<>>]
  /\ traces = [j \in Projects |-> <<>>]
  /\ errors = [j \in Projects |-> <<>>]
  /\ recent = [j \in Projects |-> <<>>]
  /\ col = WaitingCollector
  /\ topo = [j \in Projects |-> Nothing]
  /\ view = [q \in Requests |-> IdleView]
  /\ run = [n \in Requests |-> IdleRun]

CollectorStep ==
  \/ Start \/ BeginCycle \/ StartProject \/ SkipProject \/ EndCycle
  \/ CollectMetric \/ MetricsDone
  \/ CollectLogs \/ CollectRecent \/ SkipLogs
  \/ \E t \in TraceIds : CollectTrace(t)
  \/ TracesDone \/ Publish

ViewStep(q) == Load(q) \/ Build(q) \/ BuildFromSeed(q) \/ CacheGraph(q)

RunStep(n) ==
  \/ FetchMetrics(n) \/ FetchLogs(n) \/ FetchTraces(n) \/ Raise(n)
  \/ Detect(n) \/ Retrieve(n) \/ Conclude(n) \/ DecideHeal(n)

Next ==
  \/ CollectorStep
  \/ \E q \in Requests :
       \/ ViewStep(q) \/ RunStep(q)
       \/ /\ col.pc # "down"
          /\ \E j \in Projects : ReceiveView(q, j) \/ Analyse(q, j, TRUE) \/ Analyse(q, j, FALSE)
  \/ \E j \in Projects : Refresh(j) \/ ExpireLogs(j)
  \/ Stop

Spec == Init /\ [][Next]_vars

\* The collector's task runs on: its calls return or raise, those to the
\* providers at the latest when their timeout is over.
Fairness == WF_vars(CollectorStep)

FairSpec == Spec /\ Fairness

-----------------------------------------------------------------------------
(* Properties. *)

\* Every variable has its type, and a collector at work is at a project.
ObservabilityTypeOK ==
  /\ setup \in [Projects -> SUBSET Sources]
  /\ window \in [Projects -> [Metrics -> Window]]
  /\ \A j \in Projects, m \in Metrics : Len(window[j][m].values) <= MaxLen
  /\ latest \in [Projects -> Seq(Sample)]
  /\ traces \in [Projects -> Seq(Trace)]
  /\ \A j \in Projects : Len(traces[j]) <= MaxTraces
  /\ errors \in [Projects -> Seq(LogLine)]
  /\ recent \in [Projects -> Seq(LogLine)]
  /\ col \in Collector
  /\ col.pc \notin {"waiting", "starting", "down"} => col.at <= Len(ProjectOrder)
  /\ topo \in [Projects -> Graph \cup {Nothing}]
  /\ view \in [Requests -> View]
  /\ run \in [Requests -> Run]

OwnTraces(j) == UNION {TracesNamed(batch) : batch \in LogBatches[j]}

OwnServices(j) ==
  BaseGraph(Seeds[j]).nodes
    \cup UNION {ServicesIn(spans) : spans \in UNION {TraceBodies[t] : t \in OwnTraces(j)}}

\* Nothing crosses from one project to another, although one task collects
\* them all: a project's cache holds traces its own logs have named, what is
\* published for it are its own latest samples, and its topology, also one
\* cached before a restart, shows services of its own traces.
NothingCrosses ==
  /\ \A j \in Projects : \A n \in DOMAIN traces[j] : traces[j][n].id \in OwnTraces(j)
  /\ col.pc = "publishing" => ToSet(col.samples) \subseteq ToSet(latest[Current])
  /\ \A j \in Projects : topo[j] # Nothing => topo[j].nodes \subseteq OwnServices(j)
  /\ \A q \in Requests :
       view[q].base # Nothing => view[q].base.nodes \subseteq OwnServices(view[q].project)

\* A new level of a metric is no anomaly for ever: once a value has filled the
\* window it is the baseline (collectors/windows.py add).
FlagsFade ==
  \A j \in Projects, m \in Metrics :
    window[j][m].same > MaxLen =>
      \A n \in DOMAIN latest[j] : latest[j][n].metric = m => ~latest[j][n].anomaly

\* Whatever graph a request was given, cached or built, whichever services
\* alert meanwhile: no answer has an edge without its nodes, the filter for
\* alerts leaves no alerting service out, the one for anomalies shows red nodes
\* only, and a service that is not in the graph has no edges.
AnswersClosed ==
  \A q \in Requests : view[q].base # Nothing =>
    /\ \A alerted \in SUBSET Services, filter \in Filters :
         LET answer == Answer(view[q].base, alerted, filter)
         IN /\ ClosedAnswer(answer)
            /\ filter = "alert" => alerted \subseteq {n.id : n \in answer.nodes}
            /\ filter = "anomaly" => \A n \in answer.nodes : n.red
    /\ \A alerted \in SUBSET Services, s \in Services :
         LET detail == ServiceDetail(view[q].base, alerted, s)
         IN ~detail.known => detail.upstream \cup detail.downstream = {}

\* An analysis proposes what its evidence, fetched from three stores at three
\* moments, or the linked alert as it then was, gives a reason for; without an
\* anomaly it concludes nothing, and no action of high risk heals by itself.
ProposalBacked ==
  \A n \in Requests : run[n].pc = "completed" =>
    /\ ~run[n].detected => run[n].action = Nothing /\ run[n].type = Nothing
    /\ run[n].action = "hpa_scale" => run[n].alert.active \/ AnyAnomaly(run[n].evidence)
    /\ run[n].action = "pod_restart" =>
         run[n].alert.active \/ \E l \in ToSet(run[n].evidence.logs) : l.oom
    /\ run[n].action = "node_evict" => run[n].alert.active /\ run[n].alert.name = "NodeNotReady"
    /\ AutoHeal(run[n].action) => RiskLevel(run[n].action) = "medium"

\* The similar cases shown with a conclusion were retrieved for it: what
\* rag_retrieve_node asked for and what root_cause_node concludes is the same.
CasesMatchConclusion ==
  \A n \in Requests :
    run[n].pc \in {"deciding", "completed"} /\ run[n].detected =>
      run[n].asked = <<run[n].type, run[n].service>>

\* While the process runs, every project whose providers can be built is
\* collected again and again, whatever fails for it and for the others.
EveryProjectCollected ==
  \A j \in Projects :
    <>[](col.pc # "down") =>
      []<>("broken" \in setup[j] \/ (col.pc = "publishing" /\ Current = j))

=============================================================================
