------------------------ MODULE ObservabilityProofs ------------------------
(***************************************************************************)
(* What requests are shown of the projects, for any traces, logs, values,  *)
(* seeds, projects, requests and failures, and whatever is cached when:    *)
(* topologies are closed, nothing crosses from one project to another, a   *)
(* value that fills its window is no anomaly, what an analysis proposes is *)
(* backed by what it has read, and everything keeps its type.              *)
(***************************************************************************)
EXTENDS Observability, TLAPS

-----------------------------------------------------------------------------
(* The graphs that TopologyService computes. *)

\* _build_base_graph puts both services of a call among the nodes.
LEMMA BaseGraphClosed ==
  ASSUME NEW snapshot
  PROVE  ClosedGraph(BaseGraph(snapshot))
<1> SUFFICES ASSUME NEW e \in BaseGraph(snapshot).edges
             PROVE  e.from \in BaseGraph(snapshot).nodes /\ e.to \in BaseGraph(snapshot).nodes
  BY DEF ClosedGraph, EndsOf
<1>1. PICK c \in Calls(snapshot) : e.from = c.from /\ e.to = c.to
  BY DEF BaseGraph
<1>2. PICK n \in DOMAIN snapshot : c \in CallsIn(snapshot[n].spans)
  BY <1>1 DEF Calls
<1> DEFINE spans == snapshot[n].spans
<1>3. PICK q \in (DOMAIN spans) \X (DOMAIN spans) :
        /\ Called(spans, q[1], q[2])
        /\ c.from = spans[q[1]].service /\ c.to = spans[q[2]].service
  BY <1>2 DEF CallsIn
<1>4. {c.from, c.to} \subseteq ServicesIn(spans)
  BY <1>3 DEF Called, ServicesIn
<1> QED
  BY <1>1, <1>2, <1>4 DEF BaseGraph

\* The nodes of an answer before it is filtered.
LEMMA NodesOfAnswer ==
  ASSUME NEW base, NEW alerted
  PROVE  LET graph == WithAlertCounts(base, alerted)
         IN /\ graph.edges = base.edges
            /\ {n.id : n \in graph.nodes} = base.nodes \cup alerted
            /\ \A n \in graph.nodes :
                 /\ n.alert <=> n.id \in alerted
                 /\ n.red <=> n.id \in alerted \/ OnRedEdge(base.edges, n.id)
<1> DEFINE graph == WithAlertCounts(base, alerted)
           node(s) == [id |-> s, red |-> s \in alerted \/ OnRedEdge(base.edges, s),
                       alert |-> s \in alerted]
<1>1. /\ graph.edges = base.edges
      /\ graph.nodes = {node(s) : s \in base.nodes \cup alerted}
  BY Zenon DEF WithAlertCounts
<1>2. ASSUME NEW s
      PROVE  /\ node(s).id = s
             /\ node(s).alert <=> s \in alerted
             /\ node(s).red <=> s \in alerted \/ OnRedEdge(base.edges, s)
  BY Zenon
<1> HIDE DEF node, graph
<1>3. {n.id : n \in graph.nodes} = base.nodes \cup alerted
  BY <1>1, <1>2
<1>4. ASSUME NEW n \in graph.nodes
      PROVE  /\ n.alert <=> n.id \in alerted
             /\ n.red <=> n.id \in alerted \/ OnRedEdge(base.edges, n.id)
  <2>1. PICK s \in base.nodes \cup alerted : n = node(s)
    BY <1>1
  <2> QED
    BY <2>1, <1>2, Zenon
<1> QED
  BY <1>1, <1>3, <1>4 DEF graph

\* No filter leaves an edge without its nodes, an alert without its service
\* under the filter for alerts, or a green node under the one for anomalies.
LEMMA AnswerIsClosed ==
  ASSUME NEW base, ClosedGraph(base), NEW alerted, NEW filter \in Filters
  PROVE  LET answer == Answer(base, alerted, filter)
         IN /\ ClosedAnswer(answer)
            /\ filter = "alert" => alerted \subseteq {n.id : n \in answer.nodes}
            /\ filter = "anomaly" => \A n \in answer.nodes : n.red
<1> DEFINE graph == WithAlertCounts(base, alerted)
           ids == {n.id : n \in graph.nodes}
<1>1. /\ graph.edges = base.edges
      /\ ids = base.nodes \cup alerted
      /\ \A n \in graph.nodes :
           /\ n.alert <=> n.id \in alerted
           /\ n.red <=> n.id \in alerted \/ OnRedEdge(base.edges, n.id)
  BY NodesOfAnswer
<1>2. EndsOf(graph.edges) \subseteq ids
  BY <1>1 DEF ClosedGraph
<1>a. filter = "all" \/ filter = "anomaly" \/ filter = "alert"
  BY DEF Filters
<1>3. CASE filter = "all"
  BY <1>2, <1>3 DEF Answer, ApplyFilter, ClosedAnswer
<1>4. CASE filter = "anomaly"
  <2>1. Answer(base, alerted, filter) = OnlyAnomaly(graph)
    BY <1>4 DEF Answer, ApplyFilter
  <2> DEFINE edges == {e \in graph.edges : e.red}
  <2>2. EndsOf(edges) \subseteq ids
    BY <1>2 DEF EndsOf
  <2>3. ClosedAnswer(OnlyAnomaly(graph))
    BY <2>2 DEF ClosedAnswer, OnlyAnomaly
  <2>4. ASSUME NEW n \in OnlyAnomaly(graph).nodes PROVE n.red
    <3>1. n \in graph.nodes /\ n.id \in EndsOf(edges)
      BY DEF OnlyAnomaly
    <3>2. OnRedEdge(base.edges, n.id)
      BY <1>1, <3>1 DEF OnRedEdge, EndsOf
    <3> QED
      BY <1>1, <3>1, <3>2
  <2> QED
    BY <1>4, <2>1, <2>3, <2>4
<1>5. CASE filter = "alert"
  <2>1. Answer(base, alerted, filter) = OnlyAlert(graph)
    BY <1>5 DEF Answer, ApplyFilter
  <2> DEFINE alerting == {n.id : n \in {m \in graph.nodes : m.alert}}
             edges == {e \in graph.edges : e.from \in alerting \/ e.to \in alerting}
  <2>2. EndsOf(edges) \subseteq ids
    BY <1>2 DEF EndsOf
  <2>3. OnlyAlert(graph) =
          [nodes |-> {n \in graph.nodes : n.id \in alerting \cup EndsOf(edges)}, edges |-> edges]
    BY DEF OnlyAlert
  <2>4. ClosedAnswer(OnlyAlert(graph))
    BY <2>2, <2>3 DEF ClosedAnswer
  <2>5. alerted \subseteq alerting
    BY <1>1
  <2>6. alerted \subseteq {n.id : n \in OnlyAlert(graph).nodes}
    BY <1>1, <2>3, <2>5
  <2> QED
    BY <1>5, <2>1, <2>4, <2>6
<1> QED
  BY <1>a, <1>3, <1>4, <1>5

\* The edges shown with a service are those of a known one.
LEMMA DetailIsClosed ==
  ASSUME NEW base, ClosedGraph(base), NEW alerted, NEW s
  PROVE  LET detail == ServiceDetail(base, alerted, s)
         IN ~detail.known => detail.upstream \cup detail.downstream = {}
  BY DEF ClosedGraph, EndsOf, ServiceDetail

-----------------------------------------------------------------------------
(* The graphs in Redis and in the requests. *)

ViewClosed(v) ==
  /\ {"pc", "project", "base"} \subseteq DOMAIN v
  /\ v.pc # "idle" => v.project \in Projects
  /\ v.base # Nothing => ClosedGraph(v.base)

GraphsClosed ==
  /\ DOMAIN topo = Projects
  /\ \A j \in Projects : topo[j] # Nothing => ClosedGraph(topo[j])
  /\ DOMAIN view = Requests
  /\ \A q \in Requests : ViewClosed(view[q])

\* What a step of a request may do to its view.
LEMMA ViewAdvances ==
  ASSUME NEW v, ViewClosed(v), v.pc # "idle", NEW stage
  PROVE  /\ ViewClosed([v EXCEPT !.pc = stage])
         /\ \A g : (g # Nothing => ClosedGraph(g)) =>
              ViewClosed([v EXCEPT !.pc = stage, !.base = g])
  BY DEF ViewClosed

LEMMA InitGraphsClosed == Init => GraphsClosed
  BY DEF Init, GraphsClosed, ViewClosed, IdleView

LEMMA ViewReplaced ==
  ASSUME GraphsClosed, NEW q \in Requests, NEW v, ViewClosed(v),
         view' = [view EXCEPT ![q] = v], UNCHANGED topo
  PROVE  GraphsClosed'
  BY DEF GraphsClosed, ViewClosed

LEMMA LoadClosed ==
  ASSUME GraphsClosed, NEW q \in Requests, Load(q)
  PROVE  GraphsClosed'
<1>1. ViewClosed(view[q]) /\ view[q].pc # "idle" /\ q \in DOMAIN view
  BY DEF GraphsClosed, Load
<1>2. UNCHANGED topo
  BY DEF Load
<1> DEFINE cached == topo[view[q].project]
<1>3. CASE /\ cached # Nothing
           /\ view' = [view EXCEPT ![q].pc = "answered", ![q].base = cached]
  <2>1. view' = [view EXCEPT ![q] = [view[q] EXCEPT !.pc = "answered", !.base = cached]]
    BY <1>1, <1>3, Zenon
  <2>2. ClosedGraph(cached)
    BY <1>1, <1>3 DEF GraphsClosed, ViewClosed
  <2> QED
    BY <1>1, <1>2, <2>1, <2>2, ViewAdvances, ViewReplaced
<1>4. CASE view' = [view EXCEPT ![q].pc = "building"]
  <2>1. view' = [view EXCEPT ![q] = [view[q] EXCEPT !.pc = "building"]]
    BY <1>1, <1>4, Zenon
  <2> QED
    BY <1>1, <1>2, <2>1, ViewAdvances, ViewReplaced
<1> QED
  BY <1>3, <1>4 DEF Load

LEMMA BuildClosed ==
  ASSUME GraphsClosed, NEW q \in Requests, Build(q)
  PROVE  GraphsClosed'
<1>1. ViewClosed(view[q]) /\ view[q].pc # "idle" /\ q \in DOMAIN view
  BY DEF GraphsClosed, Build
<1>2. UNCHANGED topo
  BY DEF Build
<1>3. PICK stage, g : /\ view' = [view EXCEPT ![q].pc = stage, ![q].base = g]
                      /\ g = Nothing \/ g = BaseGraph(traces[view[q].project])
  BY Zenon DEF Build
<1>4. view' = [view EXCEPT ![q] = [view[q] EXCEPT !.pc = stage, !.base = g]]
  BY <1>1, <1>3, Zenon
<1>5. g # Nothing => ClosedGraph(g)
  BY <1>3, BaseGraphClosed
<1> QED
  BY <1>1, <1>2, <1>4, <1>5, ViewAdvances, ViewReplaced

LEMMA BuildFromSeedClosed ==
  ASSUME GraphsClosed, NEW q \in Requests, BuildFromSeed(q)
  PROVE  GraphsClosed'
<1>1. ViewClosed(view[q]) /\ view[q].pc # "idle" /\ q \in DOMAIN view
  BY DEF GraphsClosed, BuildFromSeed
<1>2. UNCHANGED topo
  BY DEF BuildFromSeed
<1>3. PICK seed : view' = [view EXCEPT ![q].pc = "caching", ![q].base = BaseGraph(seed)]
  BY Zenon DEF BuildFromSeed
<1>4. view' = [view EXCEPT ![q] = [view[q] EXCEPT !.pc = "caching", !.base = BaseGraph(seed)]]
  BY <1>1, <1>3, Zenon
<1>5. ClosedGraph(BaseGraph(seed))
  BY BaseGraphClosed
<1> QED
  BY <1>1, <1>2, <1>4, <1>5, ViewAdvances, ViewReplaced

\* What a request caches is the graph it has built.
LEMMA CacheGraphClosed ==
  ASSUME GraphsClosed, NEW q \in Requests, CacheGraph(q)
  PROVE  GraphsClosed'
<1>1. ViewClosed(view[q]) /\ view[q].pc # "idle" /\ q \in DOMAIN view
  BY DEF GraphsClosed, CacheGraph
<1>2. view' = [view EXCEPT ![q] = [view[q] EXCEPT !.pc = "answered"]]
  <2>1. view' = [view EXCEPT ![q].pc = "answered"]
    BY DEF CacheGraph
  <2> QED
    BY <1>1, <2>1, Zenon
<1>3. ViewClosed([view[q] EXCEPT !.pc = "answered"])
  BY <1>1, ViewAdvances
<1>4. \A r \in Requests : ViewClosed(view'[r])
  BY <1>2, <1>3 DEF GraphsClosed
<1>5. \/ topo' = [topo EXCEPT ![view[q].project] = view[q].base]
      \/ UNCHANGED topo
  BY DEF CacheGraph
<1>6. DOMAIN topo' = Projects /\ DOMAIN view' = Requests
  BY <1>2, <1>5 DEF GraphsClosed
<1>7. \A j \in Projects : topo'[j] # Nothing => ClosedGraph(topo'[j])
  BY <1>1, <1>5 DEF GraphsClosed, ViewClosed
<1> QED
  BY <1>4, <1>6, <1>7 DEF GraphsClosed, ViewClosed

LEMMA StopClosed ==
  ASSUME GraphsClosed, Stop
  PROVE  GraphsClosed'
<1>1. UNCHANGED topo
  BY DEF Stop
<1>2. view' = [q \in Requests |->
        IF view[q].pc \in {"idle", "answered"} THEN view[q] ELSE [view[q] EXCEPT !.pc = "cut"]]
  BY DEF Stop
<1>3. ASSUME NEW q \in Requests PROVE ViewClosed(view'[q])
  <2>1. ViewClosed(view[q])
    BY DEF GraphsClosed
  <2>2. CASE view[q].pc \in {"idle", "answered"}
    BY <1>2, <2>1, <2>2
  <2>3. CASE view[q].pc \notin {"idle", "answered"}
    <3>1. view'[q] = [view[q] EXCEPT !.pc = "cut"]
      BY <1>2, <2>3
    <3>2. view[q].pc # "idle"
      BY <2>3
    <3>3. ViewClosed([view[q] EXCEPT !.pc = "cut"])
      BY <2>1, <3>2, ViewAdvances
    <3> QED
      BY <3>1, <3>3, Zenon
  <2> QED
    BY <2>2, <2>3
<1> QED
  BY <1>1, <1>2, <1>3 DEF GraphsClosed, ViewClosed

LEMMA NextGraphsClosed == GraphsClosed /\ [Next]_vars => GraphsClosed'
<1> SUFFICES ASSUME GraphsClosed, [Next]_vars PROVE GraphsClosed'
  OBVIOUS
<1>u. ASSUME UNCHANGED <<topo, view>> PROVE GraphsClosed'
  BY <1>u DEF GraphsClosed, ViewClosed
<1>1. CASE CollectorStep
  BY <1>1, <1>u DEF CollectorStep, Start, BeginCycle, StartProject, SkipProject, EndCycle,
    CollectMetric, MetricsDone, CollectLogs, CollectRecent, SkipLogs, CollectTrace, TracesDone,
    Publish
<1>2. ASSUME NEW q \in Requests, RunStep(q) PROVE GraphsClosed'
  BY <1>2, <1>u DEF RunStep, FetchMetrics, FetchLogs, FetchTraces, Raise, Detect, Retrieve,
    Conclude, DecideHeal
<1>3. ASSUME NEW q \in Requests, ViewStep(q) PROVE GraphsClosed'
  BY <1>3, LoadClosed, BuildClosed, BuildFromSeedClosed, CacheGraphClosed DEF ViewStep
<1>4. ASSUME NEW q \in Requests, NEW j \in Projects, ReceiveView(q, j) PROVE GraphsClosed'
  <2>1. ViewClosed([IdleView EXCEPT !.pc = "loading", !.project = j])
    BY DEF ViewClosed, IdleView
  <2> QED
    BY <1>4, <2>1, ViewReplaced DEF ReceiveView
<1>5. ASSUME NEW q \in Requests, NEW j \in Projects, Analyse(q, j, TRUE) \/ Analyse(q, j, FALSE)
      PROVE  GraphsClosed'
  BY <1>5, <1>u DEF Analyse
<1>6. ASSUME NEW j \in Projects, Refresh(j) PROVE GraphsClosed'
  BY <1>6 DEF Refresh, GraphsClosed, ViewClosed
<1>7. ASSUME NEW j \in Projects, ExpireLogs(j) PROVE GraphsClosed'
  BY <1>7, <1>u DEF ExpireLogs
<1>8. CASE Stop
  BY <1>8, StopClosed
<1>9. CASE UNCHANGED vars
  BY <1>9, <1>u DEF vars
<1> QED
  BY <1>1, <1>2, <1>3, <1>4, <1>5, <1>6, <1>7, <1>8, <1>9 DEF Next

LEMMA GraphsClosedSuffices == GraphsClosed => AnswersClosed
  BY AnswerIsClosed, DetailIsClosed DEF GraphsClosed, ViewClosed, AnswersClosed

\* AnswersClosed for any traces, seeds and projects: whatever graph a request
\* of the topology API was given, built or cached, whichever services alert.
THEOREM AnswersAreClosed == Spec => []AnswersClosed
<1>1. Init => GraphsClosed
  BY InitGraphsClosed
<1>2. GraphsClosed /\ [Next]_vars => GraphsClosed'
  BY NextGraphsClosed
<1>3. GraphsClosed => AnswersClosed
  BY GraphsClosedSuffices
<1> QED
  BY <1>1, <1>2, <1>3, PTL DEF Spec

-----------------------------------------------------------------------------
(* The metric windows, and what they last said. *)

\* The last values of a window, as many as same counts, are equal.
WindowSound(x) ==
  /\ x \in Window
  /\ Len(x.values) <= MaxLen
  /\ \A k \in 1..Len(x.values) :
       k > Len(x.values) - x.same => x.values[k] = x.values[Len(x.values)]

MetricsSound ==
  /\ window \in [Projects -> [Metrics -> Window]]
  /\ \A j \in Projects, m \in Metrics : WindowSound(window[j][m])
  /\ latest \in [Projects -> Seq(Sample)]
  /\ FlagsFade

\* A deque of MaxLen drops its oldest value, if it must, for the newest.
LEMMA Slid ==
  ASSUME NEW w \in Seq(Int), NEW v \in Int, Len(w) <= MaxLen
  PROVE  LET u == Slide(w, v)
         IN /\ u \in Seq(Int)
            /\ Len(u) \in {Len(w), Len(w) + 1} /\ Len(u) \in 1..MaxLen
            /\ u[Len(u)] = v
            /\ \A k \in 1..Len(u) : k < Len(u) => u[k] = w[k + (Len(w) + 1 - Len(u))]
<1> DEFINE u == Slide(w, v)
<1>0. MaxLen \in Nat /\ MaxLen > 0 /\ Len(w) \in Nat
  BY ObservabilityAssumption
<1>1. CASE Len(w) < MaxLen
  <2>1. u = Append(w, v)
    BY <1>1 DEF Slide
  <2>2. u \in Seq(Int) /\ Len(u) = Len(w) + 1 /\ u[Len(u)] = v
    BY <2>1
  <2>3. \A k \in 1..Len(w) : u[k] = w[k]
    BY <1>0, <2>1
  <2> HIDE DEF u
  <2>4. ASSUME NEW k \in 1..Len(u), k < Len(u)
        PROVE  u[k] = w[k + (Len(w) + 1 - Len(u))]
    <3>1. k + (Len(w) + 1 - Len(u)) = k /\ k \in 1..Len(w)
      BY <1>0, <2>2, <2>4
    <3> QED
      BY <2>3, <3>1
  <2>5. Len(u) \in 1..MaxLen
    BY <1>0, <1>1, <2>2
  <2> QED
    BY <2>2, <2>4, <2>5 DEF u
<1>2. CASE Len(w) = MaxLen
  <2>1. u = Append(Tail(w), v)
    BY <1>2 DEF Slide
  <2> DEFINE tail == Tail(w)
  <2>2. /\ tail \in Seq(Int) /\ Len(tail) = Len(w) - 1
        /\ \A k \in 1..Len(tail) : tail[k] = w[k + 1]
    BY <1>0, <1>2
  <2> HIDE DEF tail
  <2>3. /\ u \in Seq(Int) /\ Len(u) = Len(tail) + 1 /\ u[Len(tail) + 1] = v
        /\ \A k \in 1..Len(tail) : u[k] = tail[k]
    BY <2>1, <2>2 DEF tail
  <2> HIDE DEF u
  <2>4. Len(u) = Len(w) /\ u[Len(u)] = v
    BY <1>0, <2>2, <2>3
  <2>5. ASSUME NEW k \in 1..Len(u), k < Len(u)
        PROVE  u[k] = w[k + (Len(w) + 1 - Len(u))]
    <3>1. k + (Len(w) + 1 - Len(u)) = k + 1 /\ k \in 1..Len(tail)
      BY <1>0, <2>2, <2>4, <2>5
    <3> QED
      BY <2>2, <2>3, <3>1
  <2>6. Len(u) \in 1..MaxLen
    BY <1>0, <1>2, <2>4
  <2> QED
    BY <2>3, <2>4, <2>5, <2>6 DEF u
<1> QED
  BY <1>0, <1>1, <1>2

\* Once a value has filled the window, it is no anomaly.
LEMMA AddedWindow ==
  ASSUME NEW x, WindowSound(x), NEW v \in Int, NEW same,
         same = IF x.values # <<>> /\ v = x.values[Len(x.values)] /\ x.same > 0
                THEN IF x.same > MaxLen THEN x.same ELSE x.same + 1
                ELSE 1
  PROVE  /\ WindowSound([values |-> Slide(x.values, v), same |-> same])
         /\ same > MaxLen => ~IsAnomaly(x.values, v)
<1> DEFINE w == x.values
           u == Slide(w, v)
<1>0. MaxLen \in Nat /\ MaxLen > 0
  BY ObservabilityAssumption
<1>1. /\ w \in Seq(Int) /\ Len(w) \in Nat /\ Len(w) <= MaxLen
      /\ x.same \in Int /\ 0 <= x.same /\ x.same <= MaxLen + 1
  BY <1>0 DEF WindowSound, Window
<1>2. \A k \in 1..Len(w) : k > Len(w) - x.same => w[k] = w[Len(w)]
  BY DEF WindowSound
<1>3. /\ u \in Seq(Int)
      /\ Len(u) \in {Len(w), Len(w) + 1} /\ Len(u) \in 1..MaxLen
      /\ u[Len(u)] = v
      /\ \A k \in 1..Len(u) : k < Len(u) => u[k] = w[k + (Len(w) + 1 - Len(u))]
  BY <1>1, Slid
<1>4. same \in Int /\ 0 < same /\ same <= MaxLen + 1
  BY <1>0, <1>1
<1>5. [values |-> u, same |-> same] \in Window
  BY <1>0, <1>3, <1>4 DEF Window
<1>6. same # 1 => Len(w) > 0 /\ v = w[Len(w)] /\ x.same >= same - 1
  BY <1>0, <1>1
<1>7. ASSUME NEW k \in 1..Len(u), k > Len(u) - same
      PROVE  u[k] = v
  <2> HIDE DEF u, w
  <2>1. CASE k = Len(u)
    BY <1>3, <2>1
  <2>2. CASE k < Len(u)
    <3> DEFINE i == k + (Len(w) + 1 - Len(u))
    <3>1. same # 1
      BY <1>1, <1>3, <1>4, <1>7, <2>2
    <3>2. /\ k \in Int /\ 1 <= k /\ k < Len(u) /\ k > Len(u) - same
          /\ Len(u) = Len(w) \/ Len(u) = Len(w) + 1
          /\ x.same >= same - 1
      BY <1>3, <1>6, <1>7, <2>2, <3>1
    <3>4. i \in 1..Len(w) /\ i > Len(w) - x.same
      <4>1. CASE Len(u) = Len(w)
        <5>1. i = k + 1
          BY <1>1, <3>2, <4>1
        <5> QED
          <6>a. Len(w) \in Int /\ x.same \in Int /\ same \in Int /\ k \in Int
            BY <1>1, <1>4, <3>2
          <6>b. k < Len(w) /\ k > Len(w) - same /\ x.same >= same - 1
            BY <3>2, <4>1
          <6>1. k + 1 <= Len(w) /\ k + 1 > Len(w) - x.same
            BY <6>a, <6>b
          <6> QED
            BY <1>1, <3>2, <5>1, <6>1
      <4>2. CASE Len(u) = Len(w) + 1
        <5>1. i = k
          BY <1>1, <3>2, <4>2
        <5> QED
          BY <1>1, <1>4, <3>2, <4>2, <5>1
      <4> QED
        BY <3>2, <4>1, <4>2
    <3>3. w[i] = w[Len(w)]
      BY <1>2, <3>4
    <3> QED
      BY <1>3, <1>6, <2>2, <3>1, <3>3
  <2> QED
    BY <1>3, <2>1, <2>2
<1>8. WindowSound([values |-> u, same |-> same])
  <2> HIDE DEF u
  <2> QED
    BY <1>3, <1>5, <1>7 DEF WindowSound
<1>9. ASSUME same > MaxLen PROVE ~IsAnomaly(w, v)
  <2>1. same # 1
    BY <1>0, <1>9
  <2>2. x.same >= MaxLen
    BY <1>0, <1>1, <1>4, <1>6, <1>9, <2>1
  <2>3. \A k \in 1..Len(w) : w[k] = v
    <3> SUFFICES ASSUME NEW k \in 1..Len(w) PROVE w[k] = v
      OBVIOUS
    <3>1. k > Len(w) - x.same
      BY <1>0, <1>1, <2>2
    <3> QED
      BY <1>2, <1>6, <2>1, <3>1
  <2>4. DOMAIN w = 1..Len(w) /\ 1 \in 1..Len(w)
    BY <1>1, <1>6, <2>1
  <2> HIDE DEF w
  <2>5. Flat(w) /\ w[1] = v
    BY <2>3, <2>4 DEF Flat
  <2> QED
    BY <2>5 DEF IsAnomaly
<1> QED
  BY <1>8, <1>9

\* A dict holds one sample of a metric, the one last put there.
LEMMA Replaced ==
  ASSUME NEW samples \in Seq(Sample), NEW s \in Sample
  PROVE  LET new == Replace(samples, s)
         IN /\ new \in Seq(Sample)
            /\ s \in ToSet(new)
            /\ \A x \in ToSet(samples) : x.metric # s.metric => x \in ToSet(new)
            /\ \A n \in DOMAIN new :
                 \/ new[n] = s
                 \/ new[n].metric # s.metric /\ n \in DOMAIN samples /\ new[n] = samples[n]
<1> DEFINE new == Replace(samples, s)
<1>1. CASE \E n \in DOMAIN samples : samples[n].metric = s.metric
  <2>1. new = [n \in DOMAIN samples |-> IF samples[n].metric = s.metric THEN s ELSE samples[n]]
    BY <1>1 DEF Replace
  <2>2. DOMAIN samples = 1..Len(samples) /\ Len(samples) \in Nat
        /\ \A n \in DOMAIN samples : samples[n] \in Sample
    OBVIOUS
  <2>3. new \in Seq(Sample)
    BY <2>1, <2>2
  <2>4. DOMAIN new = DOMAIN samples
    BY <2>1
  <2>5. \A n \in DOMAIN new : new[n] = IF samples[n].metric = s.metric THEN s ELSE samples[n]
    BY <2>1
  <2> HIDE DEF new
  <2>6. PICK n \in DOMAIN samples : samples[n].metric = s.metric
    BY <1>1
  <2>7. new[n] = s /\ n \in DOMAIN new
    BY <2>4, <2>5, <2>6
  <2>8. ASSUME NEW x \in ToSet(samples), x.metric # s.metric PROVE x \in ToSet(new)
    <3>1. PICK k \in DOMAIN samples : x = samples[k]
      BY DEF ToSet
    <3>2. new[k] = x /\ k \in DOMAIN new
      BY <2>4, <2>5, <2>8, <3>1
    <3> QED
      BY <3>2 DEF ToSet
  <2>9. ASSUME NEW k \in DOMAIN new
        PROVE  \/ new[k] = s
               \/ new[k].metric # s.metric /\ k \in DOMAIN samples /\ new[k] = samples[k]
    BY <2>4, <2>5
  <2>10. s \in ToSet(new)
    BY <2>7 DEF ToSet
  <2> QED
    BY <2>3, <2>8, <2>9, <2>10 DEF new
<1>2. CASE ~\E n \in DOMAIN samples : samples[n].metric = s.metric
  <2>1. new = Append(samples, s)
    BY <1>2 DEF Replace
  <2>2. /\ new \in Seq(Sample)
        /\ DOMAIN new = 1..(Len(samples) + 1) /\ DOMAIN samples = 1..Len(samples)
        /\ Len(samples) \in Nat
        /\ new[Len(samples) + 1] = s
        /\ \A n \in DOMAIN samples : new[n] = samples[n]
    BY <2>1
  <2> HIDE DEF new
  <2>3. \A n \in DOMAIN new : n = Len(samples) + 1 \/ n \in DOMAIN samples
    BY <2>2
  <2>4. DOMAIN samples \subseteq DOMAIN new /\ Len(samples) + 1 \in DOMAIN new
    BY <2>2
  <2>5. s \in ToSet(new)
    BY <2>2, <2>4 DEF ToSet
  <2>6. \A x \in ToSet(samples) : x \in ToSet(new)
    BY <2>2, <2>4 DEF ToSet
  <2>7. ASSUME NEW n \in DOMAIN new
        PROVE  \/ new[n] = s
               \/ new[n].metric # s.metric /\ n \in DOMAIN samples /\ new[n] = samples[n]
    <3>1. CASE n = Len(samples) + 1
      BY <2>2, <3>1
    <3>2. CASE n \in DOMAIN samples
      <4>1. new[n] = samples[n] /\ samples[n].metric # s.metric
        BY <1>2, <2>2, <3>2
      <4> QED
        BY <3>2, <4>1
    <3> QED
      BY <2>3, <3>1, <3>2
  <2> QED
    BY <2>2, <2>5, <2>6, <2>7 DEF new
<1> QED
  BY <1>1, <1>2

LEMMA InitMetricsSound == Init => MetricsSound
<1> SUFFICES ASSUME Init PROVE MetricsSound
  OBVIOUS
<1> DEFINE empty == [values |-> <<>>, same |-> 0]
<1>1. MaxLen \in Nat
  BY ObservabilityAssumption
<1>2. empty \in Window /\ WindowSound(empty)
  BY <1>1 DEF Window, WindowSound
<1>3. window = [j \in Projects |-> [m \in Metrics |-> empty]]
  BY DEF Init
<1>4. latest = [j \in Projects |-> <<>>]
  BY DEF Init
<1>5. \A j \in Projects, m \in Metrics : window[j][m] = empty
  BY <1>3
<1>6. FlagsFade
  BY <1>1, <1>4 DEF FlagsFade
<1> HIDE DEF empty
<1>7. window \in [Projects -> [Metrics -> Window]]
  BY <1>2, <1>3
<1> QED
  BY <1>2, <1>4, <1>5, <1>6, <1>7 DEF MetricsSound

\* MetricWindowStore.add.
LEMMA AddSound ==
  ASSUME MetricsSound, NEW j \in Projects, NEW m \in Metrics, NEW v \in Int, Add(j, m, v)
  PROVE  /\ MetricsSound'
         /\ SampleOf(j, m, v) \in Sample
         /\ SampleOf(j, m, v).metric = m
         /\ SampleOf(j, m, v) \in ToSet(latest'[j])
         /\ \A x \in ToSet(latest[j]) : x.metric # m => x \in ToSet(latest'[j])
<1> DEFINE x == window[j][m]
           s == SampleOf(j, m, v)
           same == CountSame(j, m, v)
           new == [values |-> Slide(x.values, v), same |-> same]
           samples == Replace(latest[j], s)
<1>0. /\ window \in [Projects -> [Metrics -> Window]] /\ latest \in [Projects -> Seq(Sample)]
      /\ WindowSound(x) /\ latest[j] \in Seq(Sample)
  BY DEF MetricsSound
<1>1. /\ s \in Sample /\ s.metric = m /\ s.anomaly = IsAnomaly(x.values, v)
  BY DEF SampleOf, Sample, IsAnomaly
<1>2. same = IF x.values # <<>> /\ v = x.values[Len(x.values)] /\ x.same > 0
             THEN IF x.same > MaxLen THEN x.same ELSE x.same + 1
             ELSE 1
  BY DEF CountSame
<1>3. WindowSound(new) /\ (same > MaxLen => ~IsAnomaly(x.values, v))
  <2> HIDE DEF same
  <2> QED
    BY <1>0, <1>2, AddedWindow
<1>4. /\ window' = [window EXCEPT ![j][m] = new]
      /\ latest' = [latest EXCEPT ![j] = samples]
  BY Zenon DEF Add
<1> HIDE DEF s
<1>5. /\ samples \in Seq(Sample)
      /\ s \in ToSet(samples)
      /\ \A y \in ToSet(latest[j]) : y.metric # s.metric => y \in ToSet(samples)
      /\ \A n \in DOMAIN samples :
           \/ samples[n] = s
           \/ samples[n].metric # s.metric /\ n \in DOMAIN latest[j] /\ samples[n] = latest[j][n]
  BY <1>0, <1>1, Replaced
<1>6. new \in Window /\ new.same = same
  BY <1>3 DEF WindowSound
<1> HIDE DEF new, samples, same
<1>7. /\ window' \in [Projects -> [Metrics -> Window]]
      /\ \A i \in Projects, l \in Metrics :
           window'[i][l] = IF i = j /\ l = m THEN new ELSE window[i][l]
  BY <1>0, <1>4, <1>6
<1>8. /\ latest' \in [Projects -> Seq(Sample)]
      /\ \A i \in Projects : latest'[i] = IF i = j THEN samples ELSE latest[i]
  BY <1>0, <1>4, <1>5
<1>9. \A i \in Projects, l \in Metrics : WindowSound(window'[i][l])
  BY <1>3, <1>7 DEF MetricsSound
<1>10. ASSUME NEW i \in Projects, NEW l \in Metrics, window'[i][l].same > MaxLen,
              NEW n \in DOMAIN latest'[i], latest'[i][n].metric = l
       PROVE  ~latest'[i][n].anomaly
  <2>1. CASE i # j
    BY <1>7, <1>8, <1>10, <2>1 DEF MetricsSound, FlagsFade
  <2>2. CASE i = j /\ l = m
    <3>1. samples[n] = s
      BY <1>1, <1>5, <1>8, <1>10, <2>2
    <3>2. same > MaxLen
      BY <1>6, <1>7, <1>10, <2>2
    <3> QED
      BY <1>1, <1>3, <1>8, <2>2, <3>1, <3>2
  <2>3. CASE i = j /\ l # m
    <3>1. n \in DOMAIN latest[j] /\ samples[n] = latest[j][n]
      BY <1>1, <1>5, <1>8, <1>10, <2>3
    <3> QED
      BY <1>7, <1>8, <1>10, <2>3, <3>1 DEF MetricsSound, FlagsFade
  <2> QED
    BY <2>1, <2>2, <2>3
<1>11. MetricsSound'
  BY <1>7, <1>8, <1>9, <1>10 DEF MetricsSound, FlagsFade, WindowSound
<1> QED
  BY <1>1, <1>5, <1>8, <1>11 DEF s

-----------------------------------------------------------------------------
(* The collector at work. *)

Working(c) == c.pc \in {"metrics", "logs", "recent", "traces", "publishing"}

\* c collects for a project what its own logs name, and its samples are the
\* latest of that project; no later metric has replaced one.
CycleSound(c, shown) ==
  /\ c \in Collector
  /\ Working(c) =>
       /\ c.at <= Len(ProjectOrder)
       /\ ToSet(c.samples) \subseteq ToSet(shown[ProjectOrder[c.at]])
  /\ Working(c) /\ c.pc # "publishing" => c.ids \subseteq OwnTraces(ProjectOrder[c.at])
  /\ c.pc = "metrics" =>
       \A s \in ToSet(c.samples) : \E k \in 1..Len(MetricOrder) :
         k < c.metric /\ s.metric = MetricOrder[k]

CollectorSound == CycleSound(col, latest)

LEMMA CollectorFields ==
  ASSUME NEW c \in Collector
  PROVE  /\ c.pc \in {"waiting", "starting", "metrics", "logs", "recent", "traces",
                      "publishing", "down"}
         /\ c.at \in 1..(Len(ProjectOrder) + 1) /\ c.metric \in 1..(Len(MetricOrder) + 1)
         /\ c.samples \in Seq(Sample) /\ c.ids \subseteq TraceIds
  BY DEF Collector

\* The project a collector at work is at.
LEMMA CurrentProject ==
  ASSUME NEW c \in Collector, c.at <= Len(ProjectOrder)
  PROVE  ProjectOrder[c.at] \in Projects
<1>1. ProjectOrder \in Seq(Projects) /\ Len(ProjectOrder) \in Nat
  BY ObservabilityAssumption
<1>2. c.at \in 1..Len(ProjectOrder)
  BY <1>1, CollectorFields
<1> QED
  BY <1>1, <1>2

LEMMA WaitingCollectorType ==
  /\ WaitingCollector \in Collector
  /\ WaitingCollector.samples = <<>> /\ WaitingCollector.ids = {}
<1>1. /\ Len(MetricOrder) \in Nat /\ Len(ProjectOrder) \in Nat
  BY ObservabilityAssumption
<1>2. 1 \in 1..(Len(MetricOrder) + 1) /\ 1 \in 1..(Len(ProjectOrder) + 1)
  BY <1>1
<1> QED
  BY <1>2 DEF WaitingCollector, Collector

\* A cycle, or a project in it, begins with nothing collected.
LEMMA FreshCollector ==
  ASSUME NEW c \in Collector, c.samples = <<>>, c.ids = {},
         c.pc \in {"waiting", "starting", "metrics", "down"},
         c.pc = "metrics" => c.at <= Len(ProjectOrder), NEW shown
  PROVE  CycleSound(c, shown)
<1>1. ToSet(c.samples) = {}
  BY DEF ToSet
<1> QED
  BY <1>1 DEF CycleSound, Working

\* From one stage to the next.
LEMMA StageDone ==
  ASSUME NEW c, NEW shown, CycleSound(c, shown), Working(c), c.pc # "publishing",
         NEW stage \in {"logs", "recent", "traces", "publishing"}
  PROVE  CycleSound([c EXCEPT !.pc = stage], shown)
<1> DEFINE d == [c EXCEPT !.pc = stage]
<1>1. c \in Collector
  BY DEF CycleSound
<1>2. stage \in {"waiting", "starting", "metrics", "logs", "recent", "traces", "publishing", "down"}
  OBVIOUS
<1>3. d \in Collector
  BY <1>1, <1>2, Zenon DEF Collector
<1>4. d.pc = stage /\ d.at = c.at /\ d.metric = c.metric /\ d.samples = c.samples /\ d.ids = c.ids
  BY <1>1 DEF Collector
<1> HIDE DEF d
<1> QED
  BY <1>3, <1>4 DEF CycleSound, Working, d

LEMMA NextProject ==
  ASSUME NEW c \in Collector, c.at <= Len(ProjectOrder), NEW shown
  PROVE  CycleSound([c EXCEPT !.pc = "starting", !.at = c.at + 1], shown)
<1> DEFINE d == [c EXCEPT !.pc = "starting", !.at = c.at + 1]
<1>1. Len(ProjectOrder) \in Nat
  BY ObservabilityAssumption
<1>2. c.at + 1 \in 1..(Len(ProjectOrder) + 1)
  BY <1>1, CollectorFields
<1>3. "starting" \in {"waiting", "starting", "metrics", "logs", "recent", "traces", "publishing", "down"}
  OBVIOUS
<1>4. d \in Collector
  BY <1>2, <1>3, Zenon DEF Collector
<1>5. d.pc = "starting"
  BY DEF Collector
<1> HIDE DEF d
<1> QED
  BY <1>4, <1>5 DEF CycleSound, Working, d

LEMMA StartProjectSound ==
  ASSUME CollectorSound, StartProject
  PROVE  CollectorSound'
<1>1. col \in Collector /\ col.at <= Len(ProjectOrder)
  BY DEF CollectorSound, CycleSound, StartProject
<1> DEFINE at == col.at
           c == [WaitingCollector EXCEPT !.pc = "metrics", !.at = at]
<1>2. at \in 1..(Len(ProjectOrder) + 1)
  BY <1>1, CollectorFields
<1> HIDE DEF at
<1>3. "metrics" \in {"waiting", "starting", "metrics", "logs", "recent", "traces", "publishing", "down"}
  OBVIOUS
<1>4. c \in Collector
  BY <1>2, <1>3, WaitingCollectorType, Zenon DEF Collector
<1>5. /\ c.pc = "metrics" /\ c.at = at
      /\ c.samples = WaitingCollector.samples /\ c.ids = WaitingCollector.ids
  BY WaitingCollectorType DEF Collector
<1>6. col' = c /\ UNCHANGED latest
  BY DEF StartProject, at
<1> HIDE DEF c
<1>7. CycleSound(c, latest)
  BY <1>1, <1>4, <1>5, WaitingCollectorType, FreshCollector DEF at
<1> QED
  BY <1>6, <1>7 DEF CollectorSound

\* What is added is the latest, and replaces no sample of this cycle.
LEMMA CollectMetricSound ==
  ASSUME CollectorSound, MetricsSound, CollectMetric
  PROVE  CollectorSound' /\ MetricsSound'
<1>0. /\ col \in Collector /\ col.pc = "metrics" /\ col.metric <= Len(MetricOrder)
      /\ col.at <= Len(ProjectOrder)
  BY DEF CollectorSound, CycleSound, Working, CollectMetric
<1>a. /\ MetricOrder \in Seq(Metrics) /\ Len(MetricOrder) \in Nat
      /\ \A n, k \in DOMAIN MetricOrder : MetricOrder[n] = MetricOrder[k] => n = k
      /\ DOMAIN MetricOrder = 1..Len(MetricOrder)
  BY ObservabilityAssumption
<1>b. Current \in Projects
  BY <1>0, CurrentProject DEF Current
<1>c. /\ col.metric \in 1..Len(MetricOrder) /\ col.metric + 1 \in 1..(Len(MetricOrder) + 1)
      /\ col.samples \in Seq(Sample) /\ col.ids \subseteq TraceIds
  BY <1>0, <1>a, CollectorFields
<1> DEFINE m == MetricOrder[col.metric]
<1>d. m \in Metrics
  BY <1>a, <1>c
<1>e. /\ ToSet(col.samples) \subseteq ToSet(latest[Current])
      /\ col.ids \subseteq OwnTraces(Current)
      /\ \A s \in ToSet(col.samples) : \E k \in 1..Len(MetricOrder) :
           k < col.metric /\ s.metric = MetricOrder[k]
  BY <1>0 DEF CollectorSound, CycleSound, Working, Current
<1>1. ASSUME NEW v \in Values[Current][m], Add(Current, m, v),
             col' = [col EXCEPT !.metric = col.metric + 1,
                                !.samples = Append(col.samples, SampleOf(Current, m, v))]
      PROVE  CollectorSound' /\ MetricsSound'
  <2> DEFINE s == SampleOf(Current, m, v)
             metric == col.metric + 1
             samples == Append(col.samples, s)
  <2>1. v \in Int
    BY <1>b, <1>d, ObservabilityAssumption
  <2>2. /\ MetricsSound'
        /\ s \in Sample /\ s.metric = m
        /\ s \in ToSet(latest'[Current])
        /\ \A x \in ToSet(latest[Current]) : x.metric # m => x \in ToSet(latest'[Current])
    BY <1>1, <1>b, <1>d, <2>1, AddSound
  <2> HIDE DEF s
  <2>3. /\ samples \in Seq(Sample)
        /\ \A x \in ToSet(samples) : x \in ToSet(col.samples) \/ x = s
    BY <1>c, <2>2 DEF ToSet
  <2>4. col' = [col EXCEPT !.metric = metric, !.samples = samples]
    BY <1>1 DEF s
  <2> HIDE DEF samples, metric
  <2>5. col' \in Collector
    <3>1. metric \in 1..(Len(MetricOrder) + 1)
      BY <1>c DEF metric
    <3> QED
      BY <1>0, <2>3, <2>4, <3>1, Zenon DEF Collector
  <2>6. /\ col'.pc = "metrics" /\ col'.at = col.at /\ col'.metric = metric
        /\ col'.samples = samples /\ col'.ids = col.ids
    BY <1>0, <2>4 DEF Collector
  <2>7. \A x \in ToSet(col.samples) : x.metric # m
    BY <1>a, <1>c, <1>e
  <2>8. ToSet(samples) \subseteq ToSet(latest'[Current])
    BY <1>e, <2>2, <2>3, <2>7
  <2>9. \A x \in ToSet(samples) : \E k \in 1..Len(MetricOrder) :
          k < metric /\ x.metric = MetricOrder[k]
    BY <1>c, <1>e, <2>2, <2>3 DEF metric
  <2> QED
    BY <1>0, <1>e, <2>2, <2>5, <2>6, <2>8, <2>9 DEF CollectorSound, CycleSound, Working, Current
<1>2. ASSUME col' = [col EXCEPT !.metric = col.metric + 1], UNCHANGED <<window, latest>>
      PROVE  CollectorSound' /\ MetricsSound'
  <2> DEFINE metric == col.metric + 1
  <2>1. metric \in 1..(Len(MetricOrder) + 1)
    BY <1>c
  <2>2. col' = [col EXCEPT !.metric = metric]
    BY <1>2
  <2>a. metric > col.metric
    BY <1>c
  <2> HIDE DEF metric
  <2>3. col' \in Collector
    BY <1>0, <2>1, <2>2, Zenon DEF Collector
  <2>4. /\ col'.pc = "metrics" /\ col'.at = col.at /\ col'.metric = metric
        /\ col'.samples = col.samples /\ col'.ids = col.ids
    BY <1>0, <2>2 DEF Collector
  <2>5. \A s \in ToSet(col.samples) : \E k \in 1..Len(MetricOrder) :
          k < metric /\ s.metric = MetricOrder[k]
    BY <1>c, <1>e, <2>1, <2>a
  <2>6. CollectorSound'
    BY <1>0, <1>2, <1>e, <2>3, <2>4, <2>5 DEF CollectorSound, CycleSound, Working, Current
  <2>7. MetricsSound'
    BY <1>2 DEF MetricsSound, FlagsFade
  <2> QED
    BY <2>6, <2>7
<1> QED
  BY <1>1, <1>2 DEF CollectMetric

\* The traces asked for are among those the project's own logs name.
LEMMA CollectLogsSound ==
  ASSUME CollectorSound, CollectLogs
  PROVE  CollectorSound'
<1>0. /\ CycleSound(col, latest) /\ col \in Collector /\ col.pc = "logs" /\ Working(col)
      /\ col.at <= Len(ProjectOrder) /\ UNCHANGED latest
  BY DEF CollectorSound, CycleSound, Working, CollectLogs
<1>1. Current \in Projects
  BY <1>0, CurrentProject DEF Current
<1>2. ASSUME NEW batch \in LogBatches[Current],
             NEW ids \in Chosen(TracesNamed(batch)) \cup (IF MayFail THEN {{}} ELSE {}),
             col' = [col EXCEPT !.pc = "recent", !.ids = ids]
      PROVE  CollectorSound'
  <2>1. ids \subseteq TracesNamed(batch)
    BY DEF Chosen
  <2>2. TracesNamed(batch) \subseteq OwnTraces(Current)
    BY DEF OwnTraces
  <2>3. batch \in Seq(LogLine)
    BY <1>1, ObservabilityAssumption
  <2>a. \A l \in LogLine : l.trace \in TraceIds \cup {Nothing}
    BY DEF LogLine
  <2>b. \A n \in DOMAIN batch : batch[n] \in LogLine
    BY <2>3
  <2>4. \A n \in DOMAIN batch : batch[n].trace \in TraceIds \cup {Nothing}
    BY <2>a, <2>b
  <2>5. ids \in SUBSET TraceIds
    BY <2>1, <2>4 DEF TracesNamed
  <2>6. "recent" \in {"waiting", "starting", "metrics", "logs", "recent", "traces", "publishing", "down"}
    OBVIOUS
  <2>7. col' \in Collector
    BY <1>0, <1>2, <2>5, <2>6, Zenon DEF Collector
  <2>8. /\ col'.pc = "recent" /\ col'.at = col.at /\ col'.samples = col.samples /\ col'.ids = ids
    BY <1>0, <1>2 DEF Collector
  <2> QED
    BY <1>0, <2>1, <2>2, <2>7, <2>8 DEF CollectorSound, CycleSound, Working, Current
<1>3. CASE GoTo("recent")
  BY <1>0, <1>3, StageDone DEF GoTo, CollectorSound
<1> QED
  BY <1>2, <1>3 DEF CollectLogs

-----------------------------------------------------------------------------
(* The trace caches. *)

\* What Tempo may answer about a trace that the project's logs name.
OwnBodies(j) ==
  UNION {{[id |-> t, spans |-> spans] : spans \in TraceBodies[t]} : t \in OwnTraces(j)}

TracesSound ==
  /\ DOMAIN traces = Projects
  /\ \A j \in Projects : traces[j] \in Seq(OwnBodies(j))

\* TraceCache.put replaces, appends and evicts, and puts nothing else there.
LEMMA PutSound ==
  ASSUME NEW S, NEW cache \in Seq(S), NEW t, NEW spans, [id |-> t, spans |-> spans] \in S
  PROVE  Put(cache, t, spans) \in Seq(S)
<1> DEFINE new == [id |-> t, spans |-> spans]
           replaced == [n \in DOMAIN cache |-> IF cache[n].id = t THEN new ELSE cache[n]]
           longer == IF \E n \in DOMAIN cache : cache[n].id = t THEN replaced ELSE Append(cache, new)
<1> HIDE DEF new
<1>1. new \in S
  BY DEF new
<1>2. replaced \in Seq(S)
  <2>1. DOMAIN cache = 1..Len(cache) /\ Len(cache) \in Nat /\ \A n \in DOMAIN cache : cache[n] \in S
    OBVIOUS
  <2> QED
    BY <1>1, <2>1
<1>3. longer \in Seq(S)
  BY <1>1, <1>2
<1> HIDE DEF longer
<1>4. MaxTraces \in Nat
  BY ObservabilityAssumption
<1>5. Len(longer) > MaxTraces => Tail(longer) \in Seq(S)
  <2>1. SUFFICES ASSUME Len(longer) > MaxTraces PROVE longer # <<>>
    BY <1>3
  <2> QED
    BY <1>3, <1>4, <2>1
<1>6. Put(cache, t, spans) = IF Len(longer) > MaxTraces THEN Tail(longer) ELSE longer
  BY DEF Put, longer, new
<1> QED
  BY <1>3, <1>5, <1>6

LEMMA CollectTraceSound ==
  ASSUME CollectorSound, TracesSound, NEW t \in TraceIds, CollectTrace(t)
  PROVE  CollectorSound' /\ TracesSound'
<1>0. /\ col \in Collector /\ col.pc = "traces" /\ t \in col.ids
      /\ col.at <= Len(ProjectOrder) /\ UNCHANGED latest
      /\ col.ids \subseteq OwnTraces(Current)
      /\ col' = [col EXCEPT !.ids = col.ids \ {t}]
  BY DEF CollectorSound, CycleSound, Working, CollectTrace, Current
<1> DEFINE ids == col.ids \ {t}
<1>1. ids \in SUBSET TraceIds /\ ids \subseteq OwnTraces(Current)
  BY <1>0, CollectorFields
<1>2. col' = [col EXCEPT !.ids = ids]
  BY <1>0
<1> HIDE DEF ids
<1>3. col' \in Collector
  BY <1>0, <1>1, <1>2, Zenon DEF Collector
<1>4. /\ col'.pc = "traces" /\ col'.at = col.at /\ col'.samples = col.samples /\ col'.ids = ids
  BY <1>0, <1>2 DEF Collector
<1>5. CollectorSound'
  BY <1>0, <1>1, <1>3, <1>4 DEF CollectorSound, CycleSound, Working, Current
<1>6. Current \in Projects
  BY <1>0, CurrentProject DEF Current
<1>7. ASSUME NEW spans \in TraceBodies[t],
             traces' = [traces EXCEPT ![Current] = Put(traces[Current], t, spans)]
      PROVE  TracesSound'
  <2>1. [id |-> t, spans |-> spans] \in OwnBodies(Current)
    BY <1>0 DEF OwnBodies
  <2>2. traces[Current] \in Seq(OwnBodies(Current))
    BY <1>6 DEF TracesSound
  <2>3. Put(traces[Current], t, spans) \in Seq(OwnBodies(Current))
    BY <2>1, <2>2, PutSound
  <2> QED
    BY <1>6, <1>7, <2>3 DEF TracesSound
<1>8. ASSUME UNCHANGED traces PROVE TracesSound'
  BY <1>8 DEF TracesSound
<1> QED
  BY <1>5, <1>7, <1>8 DEF CollectTrace

-----------------------------------------------------------------------------
(* The graphs. *)

ViewOwn(v) == v.base # Nothing => v.base.nodes \subseteq OwnServices(v.project)

GraphsOwn ==
  /\ \A j \in Projects : topo[j] # Nothing => topo[j].nodes \subseteq OwnServices(j)
  /\ \A q \in Requests : ViewOwn(view[q])

LEMMA OwnBaseGraph ==
  ASSUME NEW j, NEW cache \in Seq(OwnBodies(j))
  PROVE  BaseGraph(cache).nodes \subseteq OwnServices(j)
<1> SUFFICES ASSUME NEW s \in BaseGraph(cache).nodes PROVE s \in OwnServices(j)
  OBVIOUS
<1>1. PICK n \in DOMAIN cache : s \in ServicesIn(cache[n].spans)
  BY DEF BaseGraph
<1>2. cache[n] \in OwnBodies(j)
  OBVIOUS
<1>3. PICK t \in OwnTraces(j) :
        cache[n] \in {[id |-> t, spans |-> spans] : spans \in TraceBodies[t]}
  BY <1>2 DEF OwnBodies
<1>4. cache[n].spans \in TraceBodies[t]
  BY <1>3
<1> QED
  BY <1>1, <1>3, <1>4 DEF OwnServices

\* What a request is given for a project it keeps.
LEMMA ViewGiven ==
  ASSUME NEW v, ViewClosed(v), NEW stage, NEW g, g # Nothing => g.nodes \subseteq OwnServices(v.project)
  PROVE  ViewOwn([v EXCEPT !.pc = stage, !.base = g])
  BY DEF ViewOwn, ViewClosed

LEMMA ViewMoved ==
  ASSUME NEW v, ViewClosed(v), ViewOwn(v), NEW stage
  PROVE  ViewOwn([v EXCEPT !.pc = stage])
  BY DEF ViewOwn, ViewClosed

LEMMA OwnViewReplaced ==
  ASSUME GraphsClosed, GraphsOwn, NEW q \in Requests, NEW v, ViewOwn(v),
         view' = [view EXCEPT ![q] = v], UNCHANGED topo
  PROVE  GraphsOwn'
  BY DEF GraphsClosed, GraphsOwn, ViewOwn

LEMMA LoadOwn ==
  ASSUME GraphsClosed, GraphsOwn, NEW q \in Requests, Load(q)
  PROVE  GraphsOwn'
<1>1. ViewClosed(view[q]) /\ ViewOwn(view[q]) /\ view[q].pc # "idle" /\ q \in DOMAIN view
  BY DEF GraphsClosed, GraphsOwn, Load
<1>2. UNCHANGED topo
  BY DEF Load
<1> DEFINE cached == topo[view[q].project]
<1>3. CASE /\ cached # Nothing
           /\ view' = [view EXCEPT ![q].pc = "answered", ![q].base = cached]
  <2>1. view' = [view EXCEPT ![q] = [view[q] EXCEPT !.pc = "answered", !.base = cached]]
    BY <1>1, <1>3, Zenon
  <2>2. cached.nodes \subseteq OwnServices(view[q].project)
    BY <1>1, <1>3 DEF GraphsOwn, ViewClosed
  <2>3. ViewOwn([view[q] EXCEPT !.pc = "answered", !.base = cached])
    BY <1>1, <2>2, ViewGiven
  <2> QED
    BY <1>2, <2>1, <2>3, OwnViewReplaced
<1>4. CASE view' = [view EXCEPT ![q].pc = "building"]
  <2>1. view' = [view EXCEPT ![q] = [view[q] EXCEPT !.pc = "building"]]
    BY <1>1, <1>4, Zenon
  <2>2. ViewOwn([view[q] EXCEPT !.pc = "building"])
    BY <1>1, ViewMoved
  <2> QED
    BY <1>2, <2>1, <2>2, OwnViewReplaced
<1> QED
  BY <1>3, <1>4 DEF Load

LEMMA BuildOwn ==
  ASSUME GraphsClosed, GraphsOwn, TracesSound, NEW q \in Requests, Build(q)
  PROVE  GraphsOwn'
<1>1. ViewClosed(view[q]) /\ ViewOwn(view[q]) /\ view[q].pc # "idle" /\ q \in DOMAIN view
  BY DEF GraphsClosed, GraphsOwn, Build
<1>2. UNCHANGED topo
  BY DEF Build
<1>3. view[q].project \in Projects
  BY <1>1 DEF ViewClosed
<1>4. PICK stage, g : /\ view' = [view EXCEPT ![q].pc = stage, ![q].base = g]
                      /\ g = Nothing \/ g = BaseGraph(traces[view[q].project])
  BY Zenon DEF Build
<1>5. view' = [view EXCEPT ![q] = [view[q] EXCEPT !.pc = stage, !.base = g]]
  BY <1>1, <1>4, Zenon
<1>6. traces[view[q].project] \in Seq(OwnBodies(view[q].project))
  BY <1>3 DEF TracesSound
<1>7. g # Nothing => g.nodes \subseteq OwnServices(view[q].project)
  BY <1>4, <1>6, OwnBaseGraph
<1>8. ViewOwn([view[q] EXCEPT !.pc = stage, !.base = g])
  BY <1>1, <1>7, ViewGiven
<1> QED
  BY <1>2, <1>5, <1>8, OwnViewReplaced

LEMMA BuildFromSeedOwn ==
  ASSUME GraphsClosed, GraphsOwn, NEW q \in Requests, BuildFromSeed(q)
  PROVE  GraphsOwn'
<1>1. ViewClosed(view[q]) /\ ViewOwn(view[q]) /\ view[q].pc # "idle" /\ q \in DOMAIN view
  BY DEF GraphsClosed, GraphsOwn, BuildFromSeed
<1>2. UNCHANGED topo
  BY DEF BuildFromSeed
<1>3. PICK seed \in {Seeds[view[q].project]} \cup (IF MayFail THEN {<<>>} ELSE {}) :
        view' = [view EXCEPT ![q].pc = "caching", ![q].base = BaseGraph(seed)]
  BY Zenon DEF BuildFromSeed
<1> DEFINE g == BaseGraph(seed)
<1>4. view' = [view EXCEPT ![q] = [view[q] EXCEPT !.pc = "caching", !.base = g]]
  BY <1>1, <1>3, Zenon
<1>5. g.nodes \subseteq OwnServices(view[q].project)
  <2>1. seed = Seeds[view[q].project] \/ seed = <<>>
    BY <1>3
  <2>2. CASE seed = <<>>
    BY <2>2 DEF BaseGraph
  <2>3. CASE seed = Seeds[view[q].project]
    <3>1. BaseGraph(Seeds[view[q].project]).nodes \subseteq OwnServices(view[q].project)
      BY Zenon DEF OwnServices
    <3> QED
      BY <2>3, <3>1
  <2> QED
    BY <2>1, <2>2, <2>3
<1> HIDE DEF g
<1>6. ViewOwn([view[q] EXCEPT !.pc = "caching", !.base = g])
  BY <1>1, <1>5, ViewGiven
<1> QED
  BY <1>2, <1>4, <1>6, OwnViewReplaced

LEMMA CacheGraphOwn ==
  ASSUME GraphsClosed, GraphsOwn, NEW q \in Requests, CacheGraph(q)
  PROVE  GraphsOwn'
<1>1. ViewClosed(view[q]) /\ ViewOwn(view[q]) /\ view[q].pc # "idle" /\ q \in DOMAIN view
  BY DEF GraphsClosed, GraphsOwn, CacheGraph
<1>2. view' = [view EXCEPT ![q] = [view[q] EXCEPT !.pc = "answered"]]
  <2>1. view' = [view EXCEPT ![q].pc = "answered"]
    BY DEF CacheGraph
  <2> QED
    BY <1>1, <2>1, Zenon
<1>3. ViewOwn([view[q] EXCEPT !.pc = "answered"])
  BY <1>1, ViewMoved
<1>4. \A r \in Requests : ViewOwn(view'[r])
  BY <1>1, <1>2, <1>3 DEF GraphsClosed, GraphsOwn
<1>5. \/ topo' = [topo EXCEPT ![view[q].project] = view[q].base]
      \/ UNCHANGED topo
  BY DEF CacheGraph
<1>6. \A j \in Projects : topo'[j] # Nothing => topo'[j].nodes \subseteq OwnServices(j)
  BY <1>1, <1>5 DEF GraphsClosed, GraphsOwn, ViewClosed, ViewOwn
<1> QED
  BY <1>4, <1>6 DEF GraphsOwn, ViewOwn

-----------------------------------------------------------------------------
(* All of it together. *)

StoresSound ==
  /\ MetricsSound
  /\ CollectorSound
  /\ TracesSound
  /\ GraphsClosed
  /\ GraphsOwn

LEMMA InitStoresSound == Init => StoresSound
<1> SUFFICES ASSUME Init PROVE StoresSound
  OBVIOUS
<1>1. MetricsSound /\ GraphsClosed
  BY InitMetricsSound, InitGraphsClosed
<1>2. CollectorSound
  <2>1. col = WaitingCollector
    BY DEF Init
  <2>2. WaitingCollector.pc = "waiting"
    BY DEF WaitingCollector
  <2> QED
    BY <2>1, <2>2, WaitingCollectorType, FreshCollector DEF CollectorSound
<1>3. TracesSound
  BY DEF Init, TracesSound
<1>4. GraphsOwn
  BY DEF Init, GraphsOwn, ViewOwn, IdleView
<1> QED
  BY <1>1, <1>2, <1>3, <1>4 DEF StoresSound

LEMMA Restarted ==
  ASSUME NEW stage \in {"waiting", "starting", "down"}, NEW shown
  PROVE  CycleSound([WaitingCollector EXCEPT !.pc = stage], shown)
<1> DEFINE c == [WaitingCollector EXCEPT !.pc = stage]
<1>1. stage \in {"waiting", "starting", "metrics", "logs", "recent", "traces", "publishing", "down"}
  OBVIOUS
<1>2. c \in Collector
  BY <1>1, WaitingCollectorType, Zenon DEF Collector
<1>3. c.pc = stage /\ c.samples = WaitingCollector.samples /\ c.ids = WaitingCollector.ids
  BY WaitingCollectorType DEF Collector
<1> HIDE DEF c
<1>4. CycleSound(c, shown)
  BY <1>2, <1>3, WaitingCollectorType, FreshCollector
<1> QED
  BY <1>4 DEF c

LEMMA CollectorStepSound ==
  ASSUME CollectorSound, MetricsSound, TracesSound, CollectorStep
  PROVE  CollectorSound' /\ MetricsSound' /\ TracesSound'
<1>c. CycleSound(col, latest) /\ col \in Collector
  BY DEF CollectorSound, CycleSound
<1>m. ASSUME UNCHANGED <<window, latest>> PROVE MetricsSound'
  BY <1>m DEF MetricsSound, FlagsFade
<1>t. ASSUME UNCHANGED traces PROVE TracesSound'
  BY <1>t DEF TracesSound
<1>w. WaitingCollector.pc = "waiting"
  BY DEF WaitingCollector
<1>1. CASE Start \/ EndCycle
  <2>1. CycleSound(WaitingCollector, latest)
    BY <1>w, WaitingCollectorType, FreshCollector
  <2> QED
    BY <1>1, <1>m, <1>t, <2>1 DEF Start, EndCycle, CollectorSound, collected
<1>2. CASE BeginCycle
  <2>1. CycleSound([WaitingCollector EXCEPT !.pc = "starting"], latest)
    BY Restarted
  <2> QED
    BY <1>2, <1>m, <1>t, <2>1 DEF BeginCycle, CollectorSound, collected
<1>3. CASE StartProject
  BY <1>3, <1>m, <1>t, StartProjectSound DEF StartProject
<1>4. CASE SkipProject
  <2>1. /\ col.at <= Len(ProjectOrder) /\ UNCHANGED <<window, latest, traces>>
        /\ col' = [col EXCEPT !.at = col.at + 1]
        /\ col.pc = "starting"
    BY <1>4 DEF SkipProject, collected
  <2>2. col' = [col EXCEPT !.pc = "starting", !.at = col.at + 1]
    BY <1>c, <2>1 DEF Collector
  <2>3. CycleSound([col EXCEPT !.pc = "starting", !.at = col.at + 1], latest)
    BY <1>c, <2>1, NextProject
  <2> QED
    BY <1>m, <1>t, <2>1, <2>2, <2>3 DEF CollectorSound
<1>5. CASE CollectMetric
  BY <1>5, <1>t, CollectMetricSound DEF CollectMetric
<1>6. CASE CollectLogs
  BY <1>6, <1>m, <1>t, CollectLogsSound DEF CollectLogs
<1>7. ASSUME NEW stage \in {"logs", "recent", "traces", "publishing"}, GoTo(stage),
             Working(col), col.pc # "publishing", UNCHANGED <<window, latest, traces>>
      PROVE  CollectorSound' /\ MetricsSound' /\ TracesSound'
  <2>1. CycleSound([col EXCEPT !.pc = stage], latest)
    BY <1>c, <1>7, StageDone
  <2> QED
    BY <1>7, <1>m, <1>t, <2>1 DEF GoTo, CollectorSound
<1>8. CASE MetricsDone \/ CollectRecent \/ SkipLogs \/ TracesDone
  BY <1>8, <1>7 DEF MetricsDone, CollectRecent, SkipLogs, TracesDone, Working, collected
<1>9. ASSUME NEW t \in TraceIds, CollectTrace(t)
      PROVE  CollectorSound' /\ MetricsSound' /\ TracesSound'
  BY <1>9, <1>m, CollectTraceSound DEF CollectTrace
<1>10. CASE Publish
  <2>1. /\ col.at <= Len(ProjectOrder) /\ UNCHANGED <<window, latest, traces>>
        /\ col' = [col EXCEPT !.pc = "starting", !.at = col.at + 1]
    BY <1>10, <1>c DEF Publish, collected, CycleSound, Working
  <2>2. CycleSound([col EXCEPT !.pc = "starting", !.at = col.at + 1], latest)
    BY <1>c, <2>1, NextProject
  <2> QED
    BY <1>m, <1>t, <2>1, <2>2 DEF CollectorSound
<1> QED
  BY <1>1, <1>2, <1>3, <1>4, <1>5, <1>6, <1>8, <1>9, <1>10 DEF CollectorStep

LEMMA StopSound ==
  ASSUME StoresSound, Stop
  PROVE  StoresSound'
<1> DEFINE empty == [values |-> <<>>, same |-> 0]
<1>1. /\ col' = [WaitingCollector EXCEPT !.pc = "down"]
      /\ window' = [j \in Projects |-> [m \in Metrics |-> empty]]
      /\ latest' = [j \in Projects |-> <<>>]
      /\ traces' = [j \in Projects |-> <<>>]
      /\ UNCHANGED topo
  BY DEF Stop
<1>2. CollectorSound'
  BY <1>1, Restarted DEF CollectorSound
<1>3. MetricsSound'
  <2>1. MaxLen \in Nat
    BY ObservabilityAssumption
  <2>2. empty \in Window /\ WindowSound(empty)
    BY <2>1 DEF Window, WindowSound
  <2>3. \A j \in Projects, m \in Metrics : window'[j][m] = empty
    BY <1>1
  <2>4. FlagsFade'
    BY <1>1 DEF FlagsFade
  <2> HIDE DEF empty
  <2>5. window' \in [Projects -> [Metrics -> Window]]
    BY <1>1, <2>2
  <2> QED
    BY <1>1, <2>2, <2>3, <2>4, <2>5 DEF MetricsSound, WindowSound
<1>4. TracesSound'
  BY <1>1 DEF TracesSound
<1>5. GraphsClosed'
  BY StopClosed DEF StoresSound
<1>6. GraphsOwn'
  <2>1. view' = [q \in Requests |->
          IF view[q].pc \in {"idle", "answered"} THEN view[q] ELSE [view[q] EXCEPT !.pc = "cut"]]
    BY DEF Stop
  <2>2. ASSUME NEW q \in Requests PROVE ViewOwn(view'[q])
    <3>1. ViewClosed(view[q]) /\ ViewOwn(view[q])
      BY DEF StoresSound, GraphsClosed, GraphsOwn
    <3>2. ViewOwn([view[q] EXCEPT !.pc = "cut"])
      BY <3>1, ViewMoved
    <3>3. view'[q] = view[q] \/ view'[q] = [view[q] EXCEPT !.pc = "cut"]
      BY <2>1
    <3> QED
      BY <3>1, <3>2, <3>3, Zenon
  <2> QED
    BY <1>1, <2>2 DEF StoresSound, GraphsOwn, ViewOwn
<1> QED
  BY <1>2, <1>3, <1>4, <1>5, <1>6 DEF StoresSound

LEMMA NextStoresSound == StoresSound /\ [Next]_vars => StoresSound'
<1> SUFFICES ASSUME StoresSound, [Next]_vars PROVE StoresSound'
  OBVIOUS
<1>0. MetricsSound /\ CollectorSound /\ TracesSound /\ GraphsClosed /\ GraphsOwn
  BY DEF StoresSound
<1>g. GraphsClosed'
  BY <1>0, NextGraphsClosed
<1>c. ASSUME UNCHANGED <<window, latest, traces, col>>
      PROVE  MetricsSound' /\ CollectorSound' /\ TracesSound'
  BY <1>0, <1>c DEF MetricsSound, FlagsFade, CollectorSound, TracesSound
<1>v. ASSUME UNCHANGED <<topo, view>> PROVE GraphsOwn'
  BY <1>0, <1>v DEF GraphsOwn, ViewOwn
<1>1. CASE CollectorStep
  <2>1. UNCHANGED <<topo, view>>
    BY <1>1 DEF CollectorStep, Start, BeginCycle, StartProject, SkipProject, EndCycle,
      CollectMetric, MetricsDone, CollectLogs, CollectRecent, SkipLogs, CollectTrace, TracesDone,
      Publish
  <2> QED
    BY <1>0, <1>1, <1>g, <1>v, <2>1, CollectorStepSound DEF StoresSound
<1>2. ASSUME NEW q \in Requests, RunStep(q) PROVE StoresSound'
  <2>1. UNCHANGED <<window, latest, traces, col, topo, view>>
    BY <1>2 DEF RunStep, FetchMetrics, FetchLogs, FetchTraces, Raise, Detect, Retrieve, Conclude,
      DecideHeal, collected
  <2> QED
    BY <1>c, <1>g, <1>v, <2>1 DEF StoresSound
<1>3. ASSUME NEW q \in Requests, ViewStep(q) PROVE StoresSound'
  <2>1. UNCHANGED <<window, latest, traces, col>>
    BY <1>3 DEF ViewStep, Load, Build, BuildFromSeed, CacheGraph, collected
  <2>2. GraphsOwn'
    BY <1>0, <1>3, LoadOwn, BuildOwn, BuildFromSeedOwn, CacheGraphOwn DEF ViewStep
  <2> QED
    BY <1>c, <1>g, <2>1, <2>2 DEF StoresSound
<1>4. ASSUME NEW q \in Requests, NEW j \in Projects, ReceiveView(q, j) PROVE StoresSound'
  <2>1. UNCHANGED <<window, latest, traces, col, topo>>
    BY <1>4 DEF ReceiveView, collected
  <2>2. ViewOwn([IdleView EXCEPT !.pc = "loading", !.project = j])
    BY DEF ViewOwn, IdleView
  <2>3. GraphsOwn'
    BY <1>0, <1>4, <2>1, <2>2, OwnViewReplaced DEF ReceiveView
  <2> QED
    BY <1>c, <1>g, <2>1, <2>3 DEF StoresSound
<1>5. ASSUME NEW q \in Requests, NEW j \in Projects, NEW linked, Analyse(q, j, linked)
      PROVE  StoresSound'
  <2>1. UNCHANGED <<window, latest, traces, col, topo, view>>
    BY <1>5 DEF Analyse, collected
  <2> QED
    BY <1>c, <1>g, <1>v, <2>1 DEF StoresSound
<1>6. ASSUME NEW j \in Projects, Refresh(j) PROVE StoresSound'
  <2>1. /\ UNCHANGED <<window, latest, traces, col, view>>
        /\ topo' = [topo EXCEPT ![j] = Nothing]
    BY <1>6 DEF Refresh, collected
  <2>2. GraphsOwn'
    BY <1>0, <2>1 DEF GraphsClosed, GraphsOwn, ViewOwn
  <2> QED
    BY <1>c, <1>g, <2>1, <2>2 DEF StoresSound
<1>7. ASSUME NEW j \in Projects, ExpireLogs(j) PROVE StoresSound'
  <2>1. UNCHANGED <<window, latest, traces, col, topo, view>>
    BY <1>7 DEF ExpireLogs
  <2> QED
    BY <1>c, <1>g, <1>v, <2>1 DEF StoresSound
<1>8. CASE Stop
  BY <1>8, StopSound
<1>9. CASE UNCHANGED vars
  BY <1>9, <1>c, <1>g, <1>v DEF vars, StoresSound
<1> QED
  BY <1>1, <1>2, <1>3, <1>4, <1>5, <1>6, <1>7, <1>8, <1>9 DEF Next

LEMMA StoresSoundSuffices == StoresSound => NothingCrosses /\ FlagsFade
<1> SUFFICES ASSUME StoresSound PROVE NothingCrosses /\ FlagsFade
  OBVIOUS
<1>1. FlagsFade
  BY DEF StoresSound, MetricsSound
<1>2. ASSUME NEW j \in Projects, NEW n \in DOMAIN traces[j]
      PROVE  traces[j][n].id \in OwnTraces(j)
  <2>1. traces[j] \in Seq(OwnBodies(j))
    BY DEF StoresSound, TracesSound
  <2>2. traces[j][n] \in OwnBodies(j)
    BY <2>1
  <2>3. PICK t \in OwnTraces(j) :
          traces[j][n] \in {[id |-> t, spans |-> spans] : spans \in TraceBodies[t]}
    BY <2>2 DEF OwnBodies
  <2> QED
    BY <2>3
<1>3. col.pc = "publishing" => ToSet(col.samples) \subseteq ToSet(latest[Current])
  BY DEF StoresSound, CollectorSound, CycleSound, Working, Current
<1>4. \A j \in Projects : topo[j] # Nothing => topo[j].nodes \subseteq OwnServices(j)
  BY DEF StoresSound, GraphsOwn
<1>5. \A q \in Requests :
        view[q].base # Nothing => view[q].base.nodes \subseteq OwnServices(view[q].project)
  BY DEF StoresSound, GraphsOwn, ViewOwn
<1> QED
  BY <1>1, <1>2, <1>3, <1>4, <1>5 DEF NothingCrosses

\* NothingCrosses for any projects, logs, traces and seeds, whatever fails and
\* whenever the process is restarted.
THEOREM ProjectsStayApart == Spec => []NothingCrosses
  BY InitStoresSound, NextStoresSound, StoresSoundSuffices, PTL DEF Spec

\* FlagsFade for any values, and windows of any length.
THEOREM AnomaliesFade == Spec => []FlagsFade
  BY InitStoresSound, NextStoresSound, StoresSoundSuffices, PTL DEF Spec

-----------------------------------------------------------------------------
(* What an analysis has decided so far. *)

\* The evidence, or the linked alert, gives a reason for what the anomaly is
\* called.
TypeBacked(r) ==
  /\ r.type \in {"HighCPU", "HighMemory", "HighMQBacklog"} =>
       r.alert.active \/ AnyAnomaly(r.evidence)
  /\ r.type \in {"OOMKilled", "CrashLoopBackOff"} =>
       r.alert.active \/ \E l \in ToSet(r.evidence.logs) : l.oom
  /\ r.type = "NodeNotReady" => r.alert.active /\ r.alert.name = "NodeNotReady"

RunFields ==
  {"pc", "evidence", "alert", "detected", "type", "service", "severity", "asked", "action"}

\* Between detecting an anomaly and concluding, only the alert has named it.
Detected(r) == r.detected /\ r.type = IF r.alert.active THEN r.alert.name ELSE Nothing

AskedFor(r) ==
  r.asked = <<TypeOr(r.type, r.evidence), ServiceOr(r.service, r.evidence)>>

Concluded(r) == r.asked = <<r.type, r.service>> /\ TypeBacked(r)

Completed(r) ==
  IF r.detected THEN Concluded(r) /\ r.action = PickActionType(r.type)
  ELSE r.action = Nothing /\ r.type = Nothing

RunSound(r) ==
  /\ RunFields \subseteq DOMAIN r
  /\ r.pc \notin {"completed", "raised", "cut"} => r.action = Nothing
  /\ r.pc \in {"retrieving", "concluding"} => Detected(r)
  /\ r.pc = "concluding" => AskedFor(r)
  /\ r.pc = "deciding" => r.detected /\ Concluded(r)
  /\ r.pc = "completed" => Completed(r)

RunsSound ==
  /\ DOMAIN run = Requests
  /\ \A n \in Requests : RunSound(run[n])

\* _pick_anomaly_type names what is there.
LEMMA PickedTypeBacked ==
  ASSUME NEW evidence, NEW type, type = PickAnomalyType(evidence)
  PROVE  /\ type \in {"HighCPU", "HighMemory", "HighMQBacklog"} => AnyAnomaly(evidence)
         /\ type \in {"OOMKilled", "CrashLoopBackOff"} =>
              \E l \in ToSet(evidence.logs) : l.oom
         /\ type # "NodeNotReady"
<1>1. NamedByFirstMetric(evidence) \in {"HighCPU", "HighMQBacklog", "UnknownAnomaly"}
  BY DEF NamedByFirstMetric
<1>2. (\E m \in ToSet(evidence.metrics) : m.anomaly /\ KindOf[m.metric] = "memory")
        => AnyAnomaly(evidence)
  BY DEF AnyAnomaly
<1> QED
  BY <1>1, <1>2 DEF PickAnomalyType

LEMMA InitRunsSound == Init => RunsSound
  BY DEF Init, RunsSound, RunSound, RunFields, IdleRun

LEMMA RunReplaced ==
  ASSUME RunsSound, NEW n \in Requests, NEW r, RunSound(r), run' = [run EXCEPT ![n] = r]
  PROVE  RunsSound'
  BY DEF RunsSound, RunSound

\* A step that has not decided anything.
LEMMA RunGoesOn ==
  ASSUME NEW r, RunFields \subseteq DOMAIN r, r.action = Nothing,
         NEW e, NEW stage \in {"logs", "traces", "detecting", "raised"}
  PROVE  RunSound([r EXCEPT !.pc = stage, !.evidence = e])
  BY DEF RunSound, RunFields

LEMMA FetchMetricsSound ==
  ASSUME RunsSound, NEW n \in Requests, FetchMetrics(n)
  PROVE  RunsSound'
<1>1. RunSound(run[n]) /\ n \in DOMAIN run /\ run[n].pc = "metrics"
  BY DEF RunsSound, FetchMetrics
<1>2. PICK x : run' = [run EXCEPT ![n].pc = "logs", ![n].evidence.metrics = x]
  BY Zenon DEF FetchMetrics
<1> DEFINE e == [run[n].evidence EXCEPT !.metrics = x]
<1>3. run' = [run EXCEPT ![n] = [run[n] EXCEPT !.pc = "logs", !.evidence = e]]
  BY <1>2, Zenon
<1>4. RunFields \subseteq DOMAIN run[n] /\ run[n].action = Nothing
  BY <1>1 DEF RunSound
<1> HIDE DEF e
<1>5. RunSound([run[n] EXCEPT !.pc = "logs", !.evidence = e])
  BY <1>4, RunGoesOn
<1> QED
  BY <1>3, <1>5, RunReplaced

LEMMA FetchLogsSound ==
  ASSUME RunsSound, NEW n \in Requests, FetchLogs(n)
  PROVE  RunsSound'
<1>1. RunSound(run[n]) /\ n \in DOMAIN run /\ run[n].pc = "logs"
  BY DEF RunsSound, FetchLogs
<1>2. PICK x : run' = [run EXCEPT ![n].pc = "traces", ![n].evidence.logs = x]
  BY Zenon DEF FetchLogs
<1> DEFINE e == [run[n].evidence EXCEPT !.logs = x]
<1>3. run' = [run EXCEPT ![n] = [run[n] EXCEPT !.pc = "traces", !.evidence = e]]
  BY <1>2, Zenon
<1>4. RunFields \subseteq DOMAIN run[n] /\ run[n].action = Nothing
  BY <1>1 DEF RunSound
<1> HIDE DEF e
<1>5. RunSound([run[n] EXCEPT !.pc = "traces", !.evidence = e])
  BY <1>4, RunGoesOn
<1> QED
  BY <1>3, <1>5, RunReplaced

LEMMA FetchTracesSound ==
  ASSUME RunsSound, NEW n \in Requests, FetchTraces(n)
  PROVE  RunsSound'
<1>1. RunSound(run[n]) /\ n \in DOMAIN run /\ run[n].pc = "traces"
  BY DEF RunsSound, FetchTraces
<1>2. PICK x : run' = [run EXCEPT ![n].pc = "detecting", ![n].evidence.spans = x]
  BY Zenon DEF FetchTraces
<1> DEFINE e == [run[n].evidence EXCEPT !.spans = x]
<1>3. run' = [run EXCEPT ![n] = [run[n] EXCEPT !.pc = "detecting", !.evidence = e]]
  BY <1>2, Zenon
<1>4. RunFields \subseteq DOMAIN run[n] /\ run[n].action = Nothing
  BY <1>1 DEF RunSound
<1> HIDE DEF e
<1>5. RunSound([run[n] EXCEPT !.pc = "detecting", !.evidence = e])
  BY <1>4, RunGoesOn
<1> QED
  BY <1>3, <1>5, RunReplaced

LEMMA RaiseSound ==
  ASSUME RunsSound, NEW n \in Requests, Raise(n)
  PROVE  RunsSound'
<1>1. RunSound(run[n]) /\ n \in DOMAIN run
  BY DEF RunsSound
<1>2. run' = [run EXCEPT ![n] = [run[n] EXCEPT !.pc = "raised"]]
  BY <1>1, Zenon DEF Raise
<1>3. RunSound([run[n] EXCEPT !.pc = "raised"])
  BY <1>1 DEF RunSound, RunFields
<1> QED
  BY <1>2, <1>3, RunReplaced

\* Without an anomaly there is no active alert that could have named one.
LEMMA DetectSound ==
  ASSUME RunsSound, NEW n \in Requests, Detect(n)
  PROVE  RunsSound'
<1> DEFINE r == run[n]
<1>1. RunSound(r) /\ n \in DOMAIN run /\ r.pc = "detecting"
  BY DEF RunsSound, Detect
<1>2. PICK alert :
        LET found == AnomalyDetected(run[n].evidence, alert)
        IN run' = [run EXCEPT
             ![n].pc = IF found THEN "retrieving" ELSE "completed",
             ![n].alert = alert,
             ![n].detected = found,
             ![n].severity = IF found THEN Severity(run[n].evidence, alert) ELSE "info",
             ![n].type = IF alert.active THEN alert.name ELSE Nothing,
             ![n].service = IF alert.active THEN alert.service ELSE Nothing]
  BY DEF Detect
<1> DEFINE found == AnomalyDetected(r.evidence, alert)
           type == IF alert.active THEN alert.name ELSE Nothing
           severity == IF found THEN Severity(r.evidence, alert) ELSE "info"
           service == IF alert.active THEN alert.service ELSE Nothing
           new == [r EXCEPT !.pc = IF found THEN "retrieving" ELSE "completed",
                            !.alert = alert, !.detected = found, !.severity = severity,
                            !.type = type, !.service = service]
<1>3. run' = [run EXCEPT ![n] = new]
  BY <1>2, Zenon
<1>4. RunFields \subseteq DOMAIN r /\ r.action = Nothing
  BY <1>1 DEF RunSound
<1>5. /\ DOMAIN new = DOMAIN r
      /\ new.pc = IF found THEN "retrieving" ELSE "completed"
      /\ new.alert = alert /\ new.detected = found /\ new.type = type
      /\ new.action = r.action
  BY <1>4 DEF RunFields
<1>6. alert.active => found
  BY DEF AnomalyDetected
<1>7. RunSound(new)
  <2> HIDE DEF new, found
  <2>1. CASE found
    BY <1>4, <1>5, <2>1 DEF RunSound, Detected
  <2>2. CASE ~found
    BY <1>4, <1>5, <1>6, <2>2 DEF RunSound, Completed
  <2> QED
    BY <2>1, <2>2
<1> HIDE DEF new
<1> QED
  BY <1>3, <1>7, RunReplaced

LEMMA RetrieveSound ==
  ASSUME RunsSound, NEW n \in Requests, Retrieve(n)
  PROVE  RunsSound'
<1> DEFINE r == run[n]
           asked == <<TypeOr(r.type, r.evidence), ServiceOr(r.service, r.evidence)>>
           new == [r EXCEPT !.pc = "concluding", !.asked = asked]
<1>1. RunSound(r) /\ n \in DOMAIN run /\ r.pc = "retrieving"
  BY DEF RunsSound, Retrieve
<1>2. run' = [run EXCEPT ![n] = new]
  BY Zenon DEF Retrieve
<1> HIDE DEF asked
<1>3. /\ DOMAIN new = DOMAIN r
      /\ new.pc = "concluding" /\ new.asked = asked
      /\ new.evidence = r.evidence /\ new.alert = r.alert /\ new.detected = r.detected
      /\ new.type = r.type /\ new.service = r.service /\ new.action = r.action
  BY <1>1 DEF RunSound, RunFields
<1>4. RunSound(new)
  <2> HIDE DEF new
  <2> QED
    BY <1>1, <1>3 DEF RunSound, Detected, AskedFor, asked
<1> HIDE DEF new
<1> QED
  BY <1>2, <1>4, RunReplaced

\* What is concluded from the evidence is what was asked for.
LEMMA ConcludeSound ==
  ASSUME RunsSound, NEW n \in Requests, Conclude(n)
  PROVE  RunsSound'
<1> DEFINE r == run[n]
           new == [r EXCEPT !.pc = "deciding", !.type = TypeOr(r.type, r.evidence),
                            !.service = ServiceOr(r.service, r.evidence)]
<1>1. RunSound(r) /\ n \in DOMAIN run /\ r.pc = "concluding"
  BY DEF RunsSound, Conclude
<1>2. run' = [run EXCEPT ![n] = new]
  BY Zenon DEF Conclude
<1>3. /\ DOMAIN new = DOMAIN r
      /\ new.pc = "deciding"
      /\ new.type = TypeOr(r.type, r.evidence)
      /\ new.service = ServiceOr(r.service, r.evidence)
      /\ new.evidence = r.evidence /\ new.alert = r.alert /\ new.detected = r.detected
      /\ new.asked = r.asked /\ new.action = r.action
  BY <1>1 DEF RunSound, RunFields
<1> HIDE DEF new
<1>4. new.asked = <<new.type, new.service>>
  BY <1>1, <1>3 DEF RunSound, AskedFor
<1>5. TypeBacked(new)
  <2>1. r.type = IF r.alert.active THEN r.alert.name ELSE Nothing
    BY <1>1 DEF RunSound, Detected
  <2>2. CASE r.type = Nothing
    <3>1. new.type = PickAnomalyType(r.evidence)
      BY <1>3, <2>2 DEF TypeOr
    <3> QED
      BY <1>3, <3>1, PickedTypeBacked DEF TypeBacked
  <2>3. CASE r.type # Nothing
    <3>1. r.alert.active /\ new.type = r.alert.name
      BY <1>3, <2>1, <2>3 DEF TypeOr
    <3> QED
      BY <1>3, <3>1 DEF TypeBacked
  <2> QED
    BY <2>2, <2>3
<1>6. RunSound(new)
  BY <1>1, <1>3, <1>4, <1>5 DEF RunSound, Concluded, Detected
<1> QED
  BY <1>2, <1>6, RunReplaced

LEMMA DecideHealSound ==
  ASSUME RunsSound, NEW n \in Requests, DecideHeal(n)
  PROVE  RunsSound'
<1> DEFINE r == run[n]
           new == [r EXCEPT !.pc = "completed", !.action = PickActionType(r.type)]
<1>1. RunSound(r) /\ n \in DOMAIN run /\ r.pc = "deciding"
  BY DEF RunsSound, DecideHeal
<1>2. run' = [run EXCEPT ![n] = new]
  BY Zenon DEF DecideHeal
<1>3. /\ DOMAIN new = DOMAIN r
      /\ new.pc = "completed"
      /\ new.type = r.type /\ new.service = r.service
      /\ new.evidence = r.evidence /\ new.alert = r.alert /\ new.detected = r.detected
      /\ new.asked = r.asked /\ new.action = PickActionType(r.type)
  BY <1>1 DEF RunSound, RunFields
<1> HIDE DEF new
<1>4. RunSound(new)
  BY <1>1, <1>3 DEF RunSound, Completed, Concluded, TypeBacked
<1> QED
  BY <1>2, <1>4, RunReplaced

LEMMA StopRunsSound ==
  ASSUME RunsSound, Stop
  PROVE  RunsSound'
<1>1. run' = [n \in Requests |->
        IF run[n].pc \in {"idle", "completed", "raised"} THEN run[n]
        ELSE [run[n] EXCEPT !.pc = "cut"]]
  BY DEF Stop
<1>2. ASSUME NEW n \in Requests PROVE RunSound(run'[n])
  <2>1. RunSound(run[n])
    BY DEF RunsSound
  <2>2. RunSound([run[n] EXCEPT !.pc = "cut"])
    BY <2>1 DEF RunSound, RunFields
  <2>3. run'[n] = run[n] \/ run'[n] = [run[n] EXCEPT !.pc = "cut"]
    BY <1>1
  <2> QED
    BY <2>1, <2>2, <2>3, Zenon
<1> QED
  BY <1>1, <1>2 DEF RunsSound, RunSound

LEMMA NextRunsSound == RunsSound /\ [Next]_vars => RunsSound'
<1> SUFFICES ASSUME RunsSound, [Next]_vars PROVE RunsSound'
  OBVIOUS
<1>u. ASSUME UNCHANGED run PROVE RunsSound'
  BY <1>u DEF RunsSound, RunSound
<1>1. CASE CollectorStep
  BY <1>1, <1>u DEF CollectorStep, Start, BeginCycle, StartProject, SkipProject, EndCycle,
    CollectMetric, MetricsDone, CollectLogs, CollectRecent, SkipLogs, CollectTrace, TracesDone,
    Publish
<1>2. ASSUME NEW q \in Requests, RunStep(q) PROVE RunsSound'
  BY <1>2, FetchMetricsSound, FetchLogsSound, FetchTracesSound, RaiseSound, DetectSound,
    RetrieveSound, ConcludeSound, DecideHealSound DEF RunStep
<1>3. ASSUME NEW q \in Requests, ViewStep(q) PROVE RunsSound'
  BY <1>3, <1>u DEF ViewStep, Load, Build, BuildFromSeed, CacheGraph
<1>4. ASSUME NEW q \in Requests, NEW j \in Projects, ReceiveView(q, j) PROVE RunsSound'
  BY <1>4, <1>u DEF ReceiveView
<1>5. ASSUME NEW q \in Requests, NEW j \in Projects, NEW linked, Analyse(q, j, linked)
      PROVE  RunsSound'
  <2>1. RunSound([IdleRun EXCEPT !.pc = "metrics", !.project = j, !.linked = linked])
    BY DEF RunSound, RunFields, IdleRun
  <2> QED
    BY <1>5, <2>1, RunReplaced DEF Analyse
<1>6. ASSUME NEW j \in Projects, Refresh(j) \/ ExpireLogs(j) PROVE RunsSound'
  BY <1>6, <1>u DEF Refresh, ExpireLogs
<1>7. CASE Stop
  BY <1>7, StopRunsSound
<1>8. CASE UNCHANGED vars
  BY <1>8, <1>u DEF vars
<1> QED
  BY <1>1, <1>2, <1>3, <1>4, <1>5, <1>6, <1>7, <1>8 DEF Next

LEMMA RunsSoundSuffices == RunsSound => ProposalBacked /\ CasesMatchConclusion
<1> SUFFICES ASSUME RunsSound PROVE ProposalBacked /\ CasesMatchConclusion
  OBVIOUS
<1>1. Nothing \notin Actions
  BY AnalysisAssumption
<1>2. ASSUME NEW n \in Requests, run[n].pc \in {"deciding", "completed"}, run[n].detected
      PROVE  run[n].asked = <<run[n].type, run[n].service>>
  BY <1>2 DEF RunsSound, RunSound, Completed, Concluded
<1>3. ASSUME NEW n \in Requests, run[n].pc = "completed"
      PROVE  /\ ~run[n].detected => run[n].action = Nothing /\ run[n].type = Nothing
             /\ run[n].action = "hpa_scale" =>
                  run[n].alert.active \/ AnyAnomaly(run[n].evidence)
             /\ run[n].action = "pod_restart" =>
                  run[n].alert.active \/ \E l \in ToSet(run[n].evidence.logs) : l.oom
             /\ run[n].action = "node_evict" =>
                  run[n].alert.active /\ run[n].alert.name = "NodeNotReady"
             /\ AutoHeal(run[n].action) => RiskLevel(run[n].action) = "medium"
  <2>1. Completed(run[n])
    BY <1>3 DEF RunsSound, RunSound
  <2>2. CASE run[n].detected
    BY <2>1, <2>2 DEF Completed, Concluded, TypeBacked, PickActionType, AutoHeal, RiskLevel
  <2>3. CASE ~run[n].detected
    BY <1>1, <2>1, <2>3 DEF Completed, Actions, AutoHeal
  <2> QED
    BY <2>2, <2>3
<1> QED
  BY <1>2, <1>3 DEF ProposalBacked, CasesMatchConclusion

\* ProposalBacked for any evidence, alerts, interleavings and failures.
THEOREM ProposalsAreBacked == Spec => []ProposalBacked
  BY InitRunsSound, NextRunsSound, RunsSoundSuffices, PTL DEF Spec

\* CasesMatchConclusion for any evidence and alerts.
THEOREM CasesAreForTheConclusion == Spec => []CasesMatchConclusion
  BY InitRunsSound, NextRunsSound, RunsSoundSuffices, PTL DEF Spec

-----------------------------------------------------------------------------
(* The types of what the process holds. *)

\* CollectorSound and MetricsSound have the types of the other variables.
TypesSound ==
  /\ setup \in [Projects -> SUBSET Sources]
  /\ traces \in [Projects -> Seq(Trace)]
  /\ \A j \in Projects : Len(traces[j]) <= MaxTraces
  /\ errors \in [Projects -> Seq(LogLine)]
  /\ recent \in [Projects -> Seq(LogLine)]
  /\ topo \in [Projects -> Graph \cup {Nothing}]
  /\ view \in [Requests -> View]
  /\ run \in [Requests -> Run]
  /\ \A n \in Requests : run[n].pc # "idle" => run[n].project \in Projects

LEMMA OwnBodiesTyped ==
  ASSUME NEW j \in Projects
  PROVE  OwnBodies(j) \subseteq Trace
<1> SUFFICES ASSUME NEW b \in OwnBodies(j) PROVE b \in Trace
  OBVIOUS
<1>1. PICK t \in OwnTraces(j) :
        b \in {[id |-> t, spans |-> spans] : spans \in TraceBodies[t]}
  BY DEF OwnBodies
<1>2. PICK batch \in LogBatches[j] : t \in TracesNamed(batch)
  BY DEF OwnTraces
<1>3. PICK n \in DOMAIN batch : t = batch[n].trace /\ t # Nothing
  BY <1>2 DEF TracesNamed
<1>4. batch \in Seq(LogLine)
  BY ObservabilityAssumption
<1>5. batch[n] \in LogLine
  BY <1>4
<1>6. t \in TraceIds
  BY <1>3, <1>5 DEF LogLine
<1>7. PICK spans \in TraceBodies[t] : b = [id |-> t, spans |-> spans]
  BY <1>1
<1>8. spans \in Seq(Span)
  BY <1>6, ObservabilityAssumption
<1> QED
  BY <1>6, <1>7, <1>8 DEF Trace

LEMMA BaseGraphTyped ==
  ASSUME NEW cache \in Seq(Trace)
  PROVE  BaseGraph(cache) \in Graph
<1>1. \A k \in DOMAIN cache : cache[k] \in Trace
  OBVIOUS
<1>2. \A k \in DOMAIN cache : cache[k].spans \in Seq(Span)
  BY <1>1 DEF Trace
<1>3. ASSUME NEW spans \in Seq(Span), NEW n \in DOMAIN spans
      PROVE  spans[n].service \in Services \cup {Nothing}
  <2>1. spans[n] \in Span
    BY <1>3
  <2> QED
    BY <2>1 DEF Span
<1>4. \A spans \in Seq(Span) : ServicesIn(spans) \subseteq Services
  BY <1>3 DEF ServicesIn
<1>5. BaseGraph(cache).nodes \subseteq Services
  BY <1>2, <1>4 DEF BaseGraph
<1>6. ASSUME NEW spans \in Seq(Span), NEW c \in CallsIn(spans)
      PROVE  c.from \in Services /\ c.to \in Services
  <2>1. PICK q \in (DOMAIN spans) \X (DOMAIN spans) :
          /\ Called(spans, q[1], q[2])
          /\ c.from = spans[q[1]].service /\ c.to = spans[q[2]].service
    BY <1>6 DEF CallsIn
  <2> QED
    BY <1>3, <2>1 DEF Called
<1>7. \A c \in Calls(cache) : c.from \in Services /\ c.to \in Services
  BY <1>2, <1>6 DEF Calls
<1> DEFINE edges ==
      {[from |-> c.from, to |-> c.to,
        red |-> \E d \in Calls(cache) : d.from = c.from /\ d.to = c.to /\ d.error] :
       c \in Calls(cache)}
<1>8. ASSUME NEW e \in edges PROVE e \in Edge
  <2>1. PICK c \in Calls(cache) :
          e = [from |-> c.from, to |-> c.to,
               red |-> \E d \in Calls(cache) : d.from = c.from /\ d.to = c.to /\ d.error]
    BY <1>8
  <2> DEFINE red == \E d \in Calls(cache) : d.from = c.from /\ d.to = c.to /\ d.error
  <2>2. red \in BOOLEAN
    OBVIOUS
  <2>3. e = [from |-> c.from, to |-> c.to, red |-> red]
    BY <2>1
  <2> HIDE DEF red
  <2> QED
    BY <1>7, <2>2, <2>3 DEF Edge
<1>9. BaseGraph(cache) = [nodes |-> BaseGraph(cache).nodes, edges |-> edges]
  BY DEF BaseGraph
<1> HIDE DEF edges
<1>10. edges \subseteq Edge
  BY <1>8
<1> QED
  BY <1>5, <1>9, <1>10 DEF Graph

\* TraceCache.put evicts what is too much.
LEMMA PutBounded ==
  ASSUME NEW S, NEW cache \in Seq(S), Len(cache) <= MaxTraces, NEW t, NEW spans,
         [id |-> t, spans |-> spans] \in S
  PROVE  Len(Put(cache, t, spans)) <= MaxTraces
<1> DEFINE new == [id |-> t, spans |-> spans]
           replaced == [n \in DOMAIN cache |-> IF cache[n].id = t THEN new ELSE cache[n]]
           longer == IF \E n \in DOMAIN cache : cache[n].id = t THEN replaced ELSE Append(cache, new)
<1> HIDE DEF new
<1>1. new \in S
  BY DEF new
<1>2. Len(cache) \in Nat /\ DOMAIN cache = 1..Len(cache) /\ MaxTraces \in Nat
  BY ObservabilityAssumption
<1>3. replaced \in Seq(S) /\ Len(replaced) = Len(cache)
  <2>1. \A n \in DOMAIN cache : cache[n] \in S
    OBVIOUS
  <2>2. replaced \in Seq(S) /\ DOMAIN replaced = 1..Len(cache)
    BY <1>1, <1>2, <2>1
  <2> HIDE DEF replaced
  <2> QED
    BY <1>2, <2>2
<1>4. Append(cache, new) \in Seq(S) /\ Len(Append(cache, new)) = Len(cache) + 1
  BY <1>1
<1>5. longer \in Seq(S) /\ Len(longer) <= Len(cache) + 1
  BY <1>2, <1>3, <1>4
<1> HIDE DEF longer
<1>6. Len(longer) > MaxTraces => Len(Tail(longer)) <= MaxTraces
  <2>1. Len(longer) \in Nat /\ Len(longer) <= MaxTraces + 1
    BY <1>2, <1>5
  <2>2. ASSUME Len(longer) > MaxTraces PROVE Len(Tail(longer)) = Len(longer) - 1
    <3>1. longer # <<>>
      BY <1>2, <1>5, <2>2
    <3> QED
      BY <1>5, <3>1
  <2> QED
    BY <1>2, <2>1, <2>2
<1>7. Put(cache, t, spans) = IF Len(longer) > MaxTraces THEN Tail(longer) ELSE longer
  BY DEF Put, longer, new
<1> QED
  BY <1>2, <1>5, <1>6, <1>7

LEMMA CollectTraceTyped ==
  ASSUME CollectorSound, TracesSound, TypesSound, NEW t \in TraceIds, CollectTrace(t)
  PROVE  /\ traces' \in [Projects -> Seq(Trace)]
         /\ \A j \in Projects : Len(traces'[j]) <= MaxTraces
<1>0. traces \in [Projects -> Seq(Trace)] /\ \A j \in Projects : Len(traces[j]) <= MaxTraces
  BY DEF TypesSound
<1>1. /\ col \in Collector /\ col.at <= Len(ProjectOrder)
      /\ t \in OwnTraces(Current)
  BY DEF CollectorSound, CycleSound, Working, CollectTrace, Current
<1>2. Current \in Projects
  BY <1>1, CurrentProject DEF Current
<1>3. ASSUME NEW spans \in TraceBodies[t],
             traces' = [traces EXCEPT ![Current] = Put(traces[Current], t, spans)]
      PROVE  /\ traces' \in [Projects -> Seq(Trace)]
             /\ \A j \in Projects : Len(traces'[j]) <= MaxTraces
  <2>1. [id |-> t, spans |-> spans] \in OwnBodies(Current)
    BY <1>1 DEF OwnBodies
  <2>2. [id |-> t, spans |-> spans] \in Trace
    BY <1>2, <2>1, OwnBodiesTyped
  <2>3. /\ Put(traces[Current], t, spans) \in Seq(Trace)
        /\ Len(Put(traces[Current], t, spans)) <= MaxTraces
    BY <1>0, <1>2, <2>2, PutSound, PutBounded
  <2>4. \A j \in Projects :
          traces'[j] = IF j = Current THEN Put(traces[Current], t, spans) ELSE traces[j]
    BY <1>0, <1>3
  <2> QED
    BY <1>0, <1>3, <2>3, <2>4
<1>4. CASE UNCHANGED traces
  BY <1>0, <1>4
<1> QED
  BY <1>3, <1>4 DEF CollectTrace

\* A step of the collector leaves the graphs and the requests alone.
LEMMA CollectorStepTyped ==
  ASSUME CollectorSound, TracesSound, TypesSound, CollectorStep
  PROVE  TypesSound'
<1>0. UNCHANGED <<setup, topo, view, run>>
  BY DEF CollectorStep, Start, BeginCycle, StartProject, SkipProject, EndCycle,
    CollectMetric, MetricsDone, CollectLogs, CollectRecent, SkipLogs, CollectTrace, TracesDone,
    Publish
<1>1. /\ traces' \in [Projects -> Seq(Trace)]
      /\ \A j \in Projects : Len(traces'[j]) <= MaxTraces
  <2>1. CASE UNCHANGED traces
    BY <2>1 DEF TypesSound
  <2>2. CASE \E t \in TraceIds : CollectTrace(t)
    BY <2>2, CollectTraceTyped
  <2> QED
    BY <2>1, <2>2 DEF CollectorStep, Start, BeginCycle, StartProject, SkipProject, EndCycle,
      CollectMetric, MetricsDone, CollectLogs, CollectRecent, SkipLogs, TracesDone, Publish,
      collected
<1>c. col \in Collector /\ (Working(col) => col.at <= Len(ProjectOrder))
  BY DEF CollectorSound, CycleSound
<1>p. Working(col) => Current \in Projects
  BY <1>c, CurrentProject DEF Current
<1>2. errors' \in [Projects -> Seq(LogLine)]
  <2>1. CASE UNCHANGED errors
    BY <2>1 DEF TypesSound
  <2>2. CASE CollectLogs
    <3>1. Current \in Projects
      BY <1>p, <2>2 DEF CollectLogs, Working
    <3>2. LogBatches[Current] \subseteq Seq(LogLine)
      BY <3>1, ObservabilityAssumption
    <3> QED
      BY <2>2, <3>1, <3>2 DEF CollectLogs, TypesSound
  <2> QED
    BY <2>1, <2>2 DEF CollectorStep, Start, BeginCycle, StartProject, SkipProject, EndCycle,
      CollectMetric, MetricsDone, CollectRecent, SkipLogs, CollectTrace, TracesDone, Publish,
      collected
<1>3. recent' \in [Projects -> Seq(LogLine)]
  <2>1. CASE UNCHANGED recent
    BY <2>1 DEF TypesSound
  <2>2. CASE CollectRecent
    <3>1. Current \in Projects
      BY <1>p, <2>2 DEF CollectRecent, Working
    <3>2. RecentBatches[Current] \subseteq Seq(LogLine)
      BY <3>1, ObservabilityAssumption
    <3> QED
      BY <2>2, <3>1, <3>2 DEF CollectRecent, TypesSound
  <2> QED
    BY <2>1, <2>2 DEF CollectorStep, Start, BeginCycle, StartProject, SkipProject, EndCycle,
      CollectMetric, MetricsDone, CollectLogs, SkipLogs, CollectTrace, TracesDone, Publish,
      collected
<1> QED
  BY <1>0, <1>1, <1>2, <1>3 DEF TypesSound

-----------------------------------------------------------------------------
(* Types: the views. *)

LEMMA ViewTyped ==
  ASSUME NEW v \in View, NEW stage \in {"building", "seeding", "caching", "answered", "cut"},
         NEW g \in Graph \cup {Nothing}
  PROVE  /\ [v EXCEPT !.pc = stage] \in View
         /\ [v EXCEPT !.pc = stage, !.base = g] \in View
<1>1. stage \in {"idle", "loading", "building", "seeding", "caching", "answered", "cut"}
  OBVIOUS
<1> QED
  BY <1>1, Zenon DEF View

LEMMA TypedViewReplaced ==
  ASSUME TypesSound, NEW q \in Requests, NEW v \in View, view' = [view EXCEPT ![q] = v],
         topo' \in [Projects -> Graph \cup {Nothing}],
         UNCHANGED <<setup, traces, errors, recent, run>>
  PROVE  TypesSound'
<1>1. view \in [Requests -> View]
  BY DEF TypesSound
<1>2. view' \in [Requests -> View]
  BY <1>1
<1> QED
  BY <1>2 DEF TypesSound

LEMMA ViewStepTyped ==
  ASSUME GraphsClosed, TracesSound, TypesSound, NEW q \in Requests, ViewStep(q)
  PROVE  TypesSound'
<1>1. /\ view \in [Requests -> View] /\ view[q] \in View
      /\ topo \in [Projects -> Graph \cup {Nothing}]
  BY DEF TypesSound
<1>2. view[q].pc # "idle" /\ view[q].project \in Projects
  BY DEF GraphsClosed, ViewClosed, ViewStep, Load, Build, BuildFromSeed, CacheGraph
<1>3. UNCHANGED <<setup, traces, errors, recent, run>>
  BY DEF ViewStep, Load, Build, BuildFromSeed, CacheGraph, collected
<1> DEFINE j == view[q].project
           v == view[q]
<1>4. ASSUME NEW stage \in {"building", "seeding", "caching", "answered", "cut"},
             NEW g \in Graph \cup {Nothing}, UNCHANGED topo,
             \/ view' = [view EXCEPT ![q].pc = stage]
             \/ view' = [view EXCEPT ![q].pc = stage, ![q].base = g]
      PROVE  TypesSound'
  <2>1. /\ [v EXCEPT !.pc = stage] \in View
        /\ [v EXCEPT !.pc = stage, !.base = g] \in View
    BY <1>1, ViewTyped
  <2>2. \/ view' = [view EXCEPT ![q] = [v EXCEPT !.pc = stage]]
        \/ view' = [view EXCEPT ![q] = [v EXCEPT !.pc = stage, !.base = g]]
    BY <1>1, <1>4, Zenon
  <2>3. topo' \in [Projects -> Graph \cup {Nothing}]
    BY <1>1, <1>4
  <2> HIDE DEF v
  <2> QED
    BY <1>3, <2>1, <2>2, <2>3, TypedViewReplaced
<1>5. CASE Load(q)
  <2>1. UNCHANGED topo /\ topo[j] \in Graph \cup {Nothing}
    BY <1>1, <1>2, <1>5 DEF Load
  <2> QED
    BY <1>4, <1>5, <2>1 DEF Load
<1>6. CASE Build(q)
  <2>1. BaseGraph(traces[j]) \in Graph
    BY <1>2, BaseGraphTyped DEF TypesSound
  <2>2. UNCHANGED topo
    BY <1>6 DEF Build
  <2> DEFINE cache == traces[j]
             stage == IF cache = <<>> THEN "seeding" ELSE "caching"
             g == IF cache = <<>> THEN Nothing ELSE BaseGraph(cache)
  <2>3. view' = [view EXCEPT ![q].pc = stage, ![q].base = g]
    BY <1>6 DEF Build
  <2>4. /\ stage \in {"building", "seeding", "caching", "answered", "cut"}
        /\ g \in Graph \cup {Nothing}
    BY <2>1
  <2> HIDE DEF stage, g
  <2> QED
    BY <1>4, <2>2, <2>3, <2>4
<1>7. CASE BuildFromSeed(q)
  <2>1. Seeds[j] \in Seq(Trace) /\ <<>> \in Seq(Trace)
    BY <1>2, ObservabilityAssumption
  <2>2. PICK seed \in {Seeds[j]} \cup (IF MayFail THEN {<<>>} ELSE {}) :
          view' = [view EXCEPT ![q].pc = "caching", ![q].base = BaseGraph(seed)]
    BY <1>7, Zenon DEF BuildFromSeed
  <2>3. seed \in Seq(Trace)
    BY <2>1, <2>2
  <2>4. BaseGraph(seed) \in Graph
    BY <2>3, BaseGraphTyped
  <2>5. UNCHANGED topo
    BY <1>7 DEF BuildFromSeed
  <2> QED
    BY <1>4, <2>2, <2>4, <2>5
<1>8. CASE CacheGraph(q)
  <2>1. view[q].base \in Graph \cup {Nothing}
    BY <1>1 DEF View
  <2>2. topo' \in [Projects -> Graph \cup {Nothing}]
    BY <1>1, <1>2, <1>8, <2>1 DEF CacheGraph
  <2>3. [v EXCEPT !.pc = "answered"] \in View
    BY <1>1, <2>1, ViewTyped
  <2>4. view' = [view EXCEPT ![q] = [v EXCEPT !.pc = "answered"]]
    <3>1. view' = [view EXCEPT ![q].pc = "answered"]
      BY <1>8 DEF CacheGraph
    <3> QED
      BY <1>1, <3>1, Zenon
  <2> HIDE DEF v
  <2> QED
    BY <1>3, <2>2, <2>3, <2>4, TypedViewReplaced
<1> QED
  BY <1>5, <1>6, <1>7, <1>8 DEF ViewStep

-----------------------------------------------------------------------------
(* Types: the analyses. *)

\* A slow or failed span is shown with what the cache has of it.
LEMMA ItemsTyped ==
  ASSUME NEW cache \in Seq(Trace)
  PROVE  AnomalousSpans(cache) \subseteq SpanItem
<1> SUFFICES ASSUME NEW k \in DOMAIN cache, NEW s \in ItemsOf(cache, k) PROVE s \in SpanItem
  BY DEF AnomalousSpans
<1>1. k \in Nat /\ cache[k] \in Trace
  OBVIOUS
<1>2. cache[k].spans \in Seq(Span)
  BY <1>1 DEF Trace
<1> DEFINE spans == cache[k].spans
<1>3. PICK n \in DOMAIN spans :
        s = [trace |-> k, place |-> n, service |-> spans[n].service,
             error |-> spans[n].error, slow |-> spans[n].slow]
  BY DEF ItemsOf
<1>4. n \in Nat /\ spans[n] \in Span
  BY <1>2
<1>5. spans[n].service \in Services \cup {Nothing} /\ spans[n].error \in BOOLEAN
      /\ spans[n].slow \in BOOLEAN
  BY <1>4 DEF Span
<1> HIDE DEF spans
<1> QED
  BY <1>1, <1>3, <1>4, <1>5 DEF SpanItem

\* _pick_fault_service names a service of the evidence, or none it knows.
LEMMA PickedServiceTyped ==
  ASSUME NEW e \in Evidence
  PROVE  PickFaultService(e) \in Services \cup {UnknownService}
<1>1. e.logs \in Seq(LogLine) /\ e.spans \subseteq SpanItem
  BY DEF Evidence
<1>2. LogService(e.logs) \in Services \cup {Nothing}
  <2> DEFINE logs == e.logs
             First(n) == /\ logs[n].service # Nothing
                         /\ \A m \in DOMAIN logs : m < n => logs[m].service = Nothing
             first == CHOOSE n \in DOMAIN logs : First(n)
  <2>1. CASE \E n \in DOMAIN logs : First(n)
    <3>1. first \in DOMAIN logs
      BY <2>1
    <3>2. LogService(logs) = logs[first].service
      BY <2>1 DEF LogService
    <3> HIDE DEF first
    <3>3. logs[first] \in LogLine
      BY <1>1, <3>1
    <3> QED
      BY <3>2, <3>3 DEF LogLine
  <2>2. CASE ~\E n \in DOMAIN logs : First(n)
    <3>1. LogService(logs) = Nothing
      BY <2>2 DEF LogService
    <3> QED
      BY <3>1
  <2> QED
    BY <2>1, <2>2
<1>3. SpanService(e.spans) \in Services \cup {Nothing}
  <2> DEFINE spans == e.spans
             First(s) == /\ s.service # Nothing
                         /\ \A t \in spans : Earlier(t, s) => t.service = Nothing
             first == CHOOSE s \in spans : First(s)
  <2>1. CASE \E s \in spans : First(s)
    <3>1. first \in spans
      BY <2>1
    <3>2. SpanService(spans) = first.service
      BY <2>1 DEF SpanService
    <3> HIDE DEF first
    <3>3. first \in SpanItem
      BY <1>1, <3>1
    <3> QED
      BY <3>2, <3>3 DEF SpanItem
  <2>2. CASE ~\E s \in spans : First(s)
    <3>1. SpanService(spans) = Nothing
      BY <2>2 DEF SpanService
    <3> QED
      BY <3>1
  <2> QED
    BY <2>1, <2>2
<1> QED
  BY <1>2, <1>3 DEF PickFaultService

LEMMA PickedTypeTyped ==
  ASSUME NEW e
  PROVE  PickAnomalyType(e) \in AnomalyTypes
<1>1. NamedByFirstMetric(e) \in AnomalyTypes
  BY DEF NamedByFirstMetric, AnomalyTypes
<1> QED
  BY <1>1 DEF PickAnomalyType, AnomalyTypes

LEMMA ConclusionTyped ==
  ASSUME NEW r \in Run
  PROVE  /\ TypeOr(r.type, r.evidence) \in AnomalyTypes
         /\ ServiceOr(r.service, r.evidence) \in Services \cup {UnknownService}
<1>1. /\ r.type \in AnomalyTypes \cup {Nothing} /\ r.evidence \in Evidence
      /\ r.service \in Services \cup {UnknownService, Nothing}
  BY DEF Run
<1>2. PickAnomalyType(r.evidence) \in AnomalyTypes
  BY PickedTypeTyped
<1>3. PickFaultService(r.evidence) \in Services \cup {UnknownService}
  BY <1>1, PickedServiceTyped
<1> QED
  BY <1>1, <1>2, <1>3 DEF TypeOr, ServiceOr

\* What a run is, apart from its place in run.
RunTyped(r) == r \in Run /\ (r.pc # "idle" => r.project \in Projects)

LEMMA IdleRunTyped == IdleRun \in Run
<1>1. NoAlert \in Alert
  BY DEF NoAlert, Alert, AnomalyTypes
<1>2. [metrics |-> <<>>, logs |-> <<>>, spans |-> {}] \in Evidence
  BY DEF Evidence
<1>3. <<Nothing, Nothing>> \in
        (AnomalyTypes \cup {Nothing}) \X (Services \cup {UnknownService, Nothing})
  OBVIOUS
<1> QED
  BY <1>1, <1>2, <1>3 DEF IdleRun, Run

LEMMA TypedRunReplaced ==
  ASSUME TypesSound, NEW n \in Requests, NEW r, RunTyped(r), run' = [run EXCEPT ![n] = r],
         UNCHANGED <<setup, traces, errors, recent, topo, view>>
  PROVE  TypesSound'
<1>1. run \in [Requests -> Run] /\ \A q \in Requests : run[q].pc # "idle" => run[q].project \in Projects
  BY DEF TypesSound
<1>2. run' \in [Requests -> Run] /\ \A q \in Requests : run'[q] = IF q = n THEN r ELSE run[q]
  BY <1>1 DEF RunTyped
<1>3. \A q \in Requests : run'[q].pc # "idle" => run'[q].project \in Projects
  BY <1>1, <1>2 DEF RunTyped
<1> QED
  BY <1>2, <1>3 DEF TypesSound

Stages ==
  {"metrics", "logs", "traces", "detecting", "retrieving", "concluding", "deciding", "completed",
   "raised", "cut"}

LEMMA RunMoved ==
  ASSUME NEW r \in Run, r.project \in Projects, NEW stage \in Stages
  PROVE  RunTyped([r EXCEPT !.pc = stage])
<1>1. stage \in {"idle", "metrics", "logs", "traces", "detecting", "retrieving", "concluding",
                 "deciding", "completed", "raised", "cut"}
  BY DEF Stages
<1>2. [r EXCEPT !.pc = stage] \in Run
  BY <1>1, Zenon DEF Run
<1>3. [r EXCEPT !.pc = stage].project = r.project
  BY DEF Run
<1> QED
  BY <1>2, <1>3 DEF RunTyped

\* What a store answers becomes part of the evidence.
LEMMA EvidenceRead ==
  ASSUME NEW r \in Run, r.project \in Projects, NEW stage \in Stages, NEW e \in Evidence
  PROVE  RunTyped([r EXCEPT !.pc = stage, !.evidence = e])
<1>1. stage \in {"idle", "metrics", "logs", "traces", "detecting", "retrieving", "concluding",
                 "deciding", "completed", "raised", "cut"}
  BY DEF Stages
<1>2. [r EXCEPT !.pc = stage, !.evidence = e] \in Run
  BY <1>1, Zenon DEF Run
<1>3. [r EXCEPT !.pc = stage, !.evidence = e].project = r.project
  BY DEF Run
<1> QED
  BY <1>2, <1>3 DEF RunTyped

LEMMA EvidenceTyped ==
  ASSUME NEW e \in Evidence
  PROVE  /\ \A x \in Seq(Sample) : [e EXCEPT !.metrics = x] \in Evidence
         /\ \A x \in Seq(LogLine) : [e EXCEPT !.logs = x] \in Evidence
         /\ \A x \in SUBSET SpanItem : [e EXCEPT !.spans = x] \in Evidence
  BY Zenon DEF Evidence

LEMMA FetchTyped ==
  ASSUME MetricsSound, TracesSound, TypesSound, NEW n \in Requests,
         FetchMetrics(n) \/ FetchLogs(n) \/ FetchTraces(n)
  PROVE  TypesSound'
<1> DEFINE r == run[n]
           j == r.project
<1>0. run \in [Requests -> Run]
  BY DEF TypesSound
<1>1. r \in Run /\ j \in Projects
  BY <1>0 DEF TypesSound, FetchMetrics, FetchLogs, FetchTraces
<1>2. r.evidence \in Evidence
  BY <1>1 DEF Run
<1>3. UNCHANGED <<setup, traces, errors, recent, topo, view>>
  BY DEF FetchMetrics, FetchLogs, FetchTraces, collected
<1>4. ASSUME NEW stage \in Stages, NEW e \in Evidence,
             run' = [run EXCEPT ![n] = [r EXCEPT !.pc = stage, !.evidence = e]]
      PROVE  TypesSound'
  <2>1. RunTyped([r EXCEPT !.pc = stage, !.evidence = e])
    BY <1>1, EvidenceRead
  <2> HIDE DEF r
  <2> QED
    BY <1>3, <1>4, <2>1, TypedRunReplaced
<1>5. CASE FetchMetrics(n)
  <2> DEFINE x == latest[j]
             e == [r.evidence EXCEPT !.metrics = x]
  <2>1. x \in Seq(Sample)
    BY <1>1 DEF MetricsSound
  <2>2. run' = [run EXCEPT ![n] = [r EXCEPT !.pc = "logs", !.evidence = e]]
    <3>1. run' = [run EXCEPT ![n].pc = "logs", ![n].evidence.metrics = x]
      BY <1>5 DEF FetchMetrics
    <3> HIDE DEF x
    <3> QED
      BY <1>0, <3>1, Zenon
  <2>3. e \in Evidence
    BY <1>2, <2>1, EvidenceTyped
  <2>4. "logs" \in Stages
    BY DEF Stages
  <2> HIDE DEF e
  <2> QED
    BY <1>4, <2>2, <2>3, <2>4
<1>6. CASE FetchLogs(n)
  <2> DEFINE x == errors[j]
             e == [r.evidence EXCEPT !.logs = x]
  <2>1. x \in Seq(LogLine)
    BY <1>1 DEF TypesSound
  <2>2. run' = [run EXCEPT ![n] = [r EXCEPT !.pc = "traces", !.evidence = e]]
    <3>1. run' = [run EXCEPT ![n].pc = "traces", ![n].evidence.logs = x]
      BY <1>6 DEF FetchLogs
    <3> HIDE DEF x
    <3> QED
      BY <1>0, <3>1, Zenon
  <2>3. e \in Evidence
    BY <1>2, <2>1, EvidenceTyped
  <2>4. "traces" \in Stages
    BY DEF Stages
  <2> HIDE DEF e
  <2> QED
    BY <1>4, <2>2, <2>3, <2>4
<1>7. CASE FetchTraces(n)
  <2> DEFINE x == AnomalousSpans(traces[j])
             e == [r.evidence EXCEPT !.spans = x]
  <2>1. x \in SUBSET SpanItem
    BY <1>1, ItemsTyped DEF TypesSound
  <2>2. run' = [run EXCEPT ![n] = [r EXCEPT !.pc = "detecting", !.evidence = e]]
    <3>1. run' = [run EXCEPT ![n].pc = "detecting", ![n].evidence.spans = x]
      BY <1>7 DEF FetchTraces
    <3> HIDE DEF x
    <3> QED
      BY <1>0, <3>1, Zenon
  <2> HIDE DEF x
  <2>3. e \in Evidence
    BY <1>2, <2>1, EvidenceTyped
  <2>4. "detecting" \in Stages
    BY DEF Stages
  <2> HIDE DEF e
  <2> QED
    BY <1>4, <2>2, <2>3, <2>4
<1> QED
  BY <1>5, <1>6, <1>7

LEMMA DetectTyped ==
  ASSUME TypesSound, NEW n \in Requests, Detect(n)
  PROVE  TypesSound'
<1> DEFINE r == run[n]
<1>0. run \in [Requests -> Run] /\ r \in Run /\ r.project \in Projects
  BY DEF TypesSound, Detect
<1>1. UNCHANGED <<setup, traces, errors, recent, topo, view>>
  BY DEF Detect, collected
<1>2. PICK alert \in AlertsNow(n) :
        LET found == AnomalyDetected(run[n].evidence, alert)
        IN run' = [run EXCEPT
             ![n].pc = IF found THEN "retrieving" ELSE "completed",
             ![n].alert = alert,
             ![n].detected = found,
             ![n].severity = IF found THEN Severity(run[n].evidence, alert) ELSE "info",
             ![n].type = IF alert.active THEN alert.name ELSE Nothing,
             ![n].service = IF alert.active THEN alert.service ELSE Nothing]
  BY DEF Detect
<1>3. alert \in Alert
  <2>1. NoAlert \in Alert
    BY DEF NoAlert, Alert, AnomalyTypes
  <2> QED
    BY <2>1, ObservabilityAssumption DEF AlertsNow
<1>4. alert.name \in AnomalyTypes /\ alert.service \in Services \cup {Nothing}
  BY <1>3 DEF Alert
<1> DEFINE found == AnomalyDetected(r.evidence, alert)
           stage == IF found THEN "retrieving" ELSE "completed"
           severity == IF found THEN Severity(r.evidence, alert) ELSE "info"
           type == IF alert.active THEN alert.name ELSE Nothing
           service == IF alert.active THEN alert.service ELSE Nothing
           new == [r EXCEPT !.pc = stage, !.alert = alert, !.detected = found,
                            !.severity = severity, !.type = type, !.service = service]
<1>5. run' = [run EXCEPT ![n] = new]
  BY <1>2, Zenon
<1>6. found \in BOOLEAN
  BY DEF AnomalyDetected
<1>7. /\ stage \in {"idle", "metrics", "logs", "traces", "detecting", "retrieving",
                    "concluding", "deciding", "completed", "raised", "cut"}
      /\ stage # "idle"
  OBVIOUS
<1>8. severity \in {"info", "warning", "critical", Nothing}
  BY DEF Severity
<1>9. type \in AnomalyTypes \cup {Nothing}
      /\ service \in Services \cup {UnknownService, Nothing}
  BY <1>4
<1> HIDE DEF found, stage, severity, type, service
<1>10. new \in Run
  <2> DEFINE known == [r EXCEPT !.pc = stage, !.alert = alert, !.detected = found]
  <2>1. known \in Run
    <3>1. [r EXCEPT !.pc = stage] \in Run
      BY <1>0, <1>7, Zenon DEF Run
    <3>2. \A x \in Run : [x EXCEPT !.alert = alert] \in Run
      BY <1>3, Zenon DEF Run
    <3>3. \A x \in Run : [x EXCEPT !.detected = found] \in Run
      <4>1. SUFFICES ASSUME NEW b \in BOOLEAN, NEW x \in Run
                     PROVE  [x EXCEPT !.detected = b] \in Run
        BY <1>6
      <4> QED
        BY Zenon DEF Run
    <3>4. known = [[[r EXCEPT !.pc = stage] EXCEPT !.alert = alert] EXCEPT !.detected = found]
      OBVIOUS
    <3> HIDE DEF known
    <3> QED
      BY <3>1, <3>2, <3>3, <3>4, Zenon
  <2>2. new = [known EXCEPT !.severity = severity, !.type = type, !.service = service]
    OBVIOUS
  <2> HIDE DEF known, new
  <2> QED
    BY <1>8, <1>9, <2>1, <2>2, Zenon DEF Run
<1>11. new.project = r.project
  BY <1>0 DEF Run
<1> HIDE DEF new
<1>12. RunTyped(new)
  BY <1>0, <1>10, <1>11 DEF RunTyped
<1> QED
  BY <1>1, <1>5, <1>12, TypedRunReplaced

LEMMA RetrieveTyped ==
  ASSUME TypesSound, NEW n \in Requests, Retrieve(n)
  PROVE  TypesSound'
<1> DEFINE r == run[n]
           asked == <<TypeOr(r.type, r.evidence), ServiceOr(r.service, r.evidence)>>
           new == [r EXCEPT !.pc = "concluding", !.asked = asked]
<1>0. run \in [Requests -> Run] /\ r \in Run /\ r.project \in Projects
  BY DEF TypesSound, Retrieve
<1>1. UNCHANGED <<setup, traces, errors, recent, topo, view>>
  BY DEF Retrieve, collected
<1>2. run' = [run EXCEPT ![n] = new]
  BY Zenon DEF Retrieve
<1>3. asked \in (AnomalyTypes \cup {Nothing}) \X (Services \cup {UnknownService, Nothing})
  BY <1>0, ConclusionTyped
<1>4. "concluding" \in {"idle", "metrics", "logs", "traces", "detecting", "retrieving",
                        "concluding", "deciding", "completed", "raised", "cut"}
  OBVIOUS
<1> HIDE DEF asked
<1>5. new \in Run
  BY <1>0, <1>3, <1>4, Zenon DEF Run
<1>6. new.project = r.project
  BY <1>0 DEF Run
<1> HIDE DEF new
<1>7. RunTyped(new)
  BY <1>0, <1>5, <1>6 DEF RunTyped
<1> QED
  BY <1>1, <1>2, <1>7, TypedRunReplaced

LEMMA ConcludeTyped ==
  ASSUME TypesSound, NEW n \in Requests, Conclude(n)
  PROVE  TypesSound'
<1> DEFINE r == run[n]
           type == TypeOr(r.type, r.evidence)
           service == ServiceOr(r.service, r.evidence)
           new == [r EXCEPT !.pc = "deciding", !.type = type, !.service = service]
<1>0. run \in [Requests -> Run] /\ r \in Run /\ r.project \in Projects
  BY DEF TypesSound, Conclude
<1>1. UNCHANGED <<setup, traces, errors, recent, topo, view>>
  BY DEF Conclude, collected
<1>2. run' = [run EXCEPT ![n] = new]
  BY Zenon DEF Conclude
<1>3. type \in AnomalyTypes \cup {Nothing} /\ service \in Services \cup {UnknownService, Nothing}
  BY <1>0, ConclusionTyped
<1>4. "deciding" \in {"idle", "metrics", "logs", "traces", "detecting", "retrieving",
                      "concluding", "deciding", "completed", "raised", "cut"}
  OBVIOUS
<1> HIDE DEF type, service
<1>5. new \in Run
  BY <1>0, <1>3, <1>4, Zenon DEF Run
<1>6. new.project = r.project
  BY <1>0 DEF Run
<1> HIDE DEF new
<1>7. RunTyped(new)
  BY <1>0, <1>5, <1>6 DEF RunTyped
<1> QED
  BY <1>1, <1>2, <1>7, TypedRunReplaced

LEMMA DecideHealTyped ==
  ASSUME TypesSound, NEW n \in Requests, DecideHeal(n)
  PROVE  TypesSound'
<1> DEFINE r == run[n]
           action == PickActionType(r.type)
           new == [r EXCEPT !.pc = "completed", !.action = action]
<1>0. run \in [Requests -> Run] /\ r \in Run /\ r.project \in Projects
  BY DEF TypesSound, DecideHeal
<1>1. UNCHANGED <<setup, traces, errors, recent, topo, view>>
  BY DEF DecideHeal, collected
<1>2. run' = [run EXCEPT ![n] = new]
  BY Zenon DEF DecideHeal
<1>3. action \in Actions \cup {Nothing}
  BY DEF PickActionType, Actions
<1>4. "completed" \in {"idle", "metrics", "logs", "traces", "detecting", "retrieving",
                       "concluding", "deciding", "completed", "raised", "cut"}
  OBVIOUS
<1> HIDE DEF action
<1>5. new \in Run
  BY <1>0, <1>3, <1>4, Zenon DEF Run
<1>6. new.project = r.project
  BY <1>0 DEF Run
<1> HIDE DEF new
<1>7. RunTyped(new)
  BY <1>0, <1>5, <1>6 DEF RunTyped
<1> QED
  BY <1>1, <1>2, <1>7, TypedRunReplaced

LEMMA RaiseTyped ==
  ASSUME TypesSound, NEW n \in Requests, Raise(n)
  PROVE  TypesSound'
<1> DEFINE r == run[n]
<1>0. run \in [Requests -> Run] /\ r \in Run /\ r.project \in Projects
  BY DEF TypesSound, Raise
<1>1. UNCHANGED <<setup, traces, errors, recent, topo, view>>
  BY DEF Raise, collected
<1>2. run' = [run EXCEPT ![n] = [r EXCEPT !.pc = "raised"]]
  <2>1. run' = [run EXCEPT ![n].pc = "raised"]
    BY DEF Raise
  <2> QED
    BY <1>0, <2>1, Zenon
<1>3. RunTyped([r EXCEPT !.pc = "raised"])
  BY <1>0, RunMoved DEF Stages
<1> HIDE DEF r
<1> QED
  BY <1>1, <1>2, <1>3, TypedRunReplaced

-----------------------------------------------------------------------------
(* Types: all steps. *)

LEMMA InitTypesSound == Init => TypesSound
<1> SUFFICES ASSUME Init PROVE TypesSound
  OBVIOUS
<1>1. setup \in [Projects -> SUBSET Sources]
  BY ObservabilityAssumption DEF Init
<1>2. traces \in [Projects -> Seq(Trace)] /\ \A j \in Projects : Len(traces[j]) <= MaxTraces
  <2>1. traces = [j \in Projects |-> <<>>]
    BY DEF Init
  <2>2. MaxTraces \in Nat /\ Len(<<>>) = 0
    BY ObservabilityAssumption
  <2> QED
    BY <2>1, <2>2
<1>3. errors \in [Projects -> Seq(LogLine)] /\ recent \in [Projects -> Seq(LogLine)]
  BY DEF Init
<1>4. topo \in [Projects -> Graph \cup {Nothing}]
  BY DEF Init
<1>5. view \in [Requests -> View]
  BY DEF Init, IdleView, View
<1>6. run \in [Requests -> Run] /\ \A n \in Requests : run[n].pc = "idle"
  <2>1. IdleRun.pc = "idle"
    BY DEF IdleRun
  <2> QED
    BY <2>1, IdleRunTyped DEF Init
<1> QED
  BY <1>1, <1>2, <1>3, <1>4, <1>5, <1>6 DEF TypesSound

LEMMA AnalyseTyped ==
  ASSUME TypesSound, NEW n \in Requests, NEW j \in Projects, NEW linked \in BOOLEAN,
         Analyse(n, j, linked)
  PROVE  TypesSound'
<1> DEFINE new == [IdleRun EXCEPT !.pc = "metrics", !.project = j, !.linked = linked]
<1>1. UNCHANGED <<setup, traces, errors, recent, topo, view>> /\ run' = [run EXCEPT ![n] = new]
  BY DEF Analyse, collected
<1>2. "metrics" \in {"idle", "metrics", "logs", "traces", "detecting", "retrieving",
                     "concluding", "deciding", "completed", "raised", "cut"}
      /\ j \in Projects \cup {Nothing}
  OBVIOUS
<1>3. new \in Run
  BY <1>2, IdleRunTyped, Zenon DEF Run
<1>4. new.project = j
  BY IdleRunTyped DEF Run
<1> HIDE DEF new
<1>5. RunTyped(new)
  BY <1>3, <1>4 DEF RunTyped
<1> QED
  BY <1>1, <1>5, TypedRunReplaced

LEMMA ReceiveViewTyped ==
  ASSUME TypesSound, NEW q \in Requests, NEW j \in Projects, ReceiveView(q, j)
  PROVE  TypesSound'
<1> DEFINE new == [IdleView EXCEPT !.pc = "loading", !.project = j]
<1>1. /\ UNCHANGED <<setup, traces, errors, recent, topo, run>>
      /\ view' = [view EXCEPT ![q] = new]
  BY DEF ReceiveView, collected
<1>2. new \in View
  BY DEF IdleView, View
<1>3. topo' \in [Projects -> Graph \cup {Nothing}]
  BY <1>1 DEF TypesSound
<1> HIDE DEF new
<1> QED
  BY <1>1, <1>2, <1>3, TypedViewReplaced

\* What is cut off keeps all but its stage.
LEMMA StopTyped ==
  ASSUME TypesSound, Stop
  PROVE  TypesSound'
<1>1. /\ UNCHANGED <<setup, errors, recent, topo>>
      /\ traces' = [j \in Projects |-> <<>>]
      /\ view' = [q \in Requests |->
           IF view[q].pc \in {"idle", "answered"} THEN view[q] ELSE [view[q] EXCEPT !.pc = "cut"]]
      /\ run' = [n \in Requests |->
           IF run[n].pc \in {"idle", "completed", "raised"} THEN run[n]
           ELSE [run[n] EXCEPT !.pc = "cut"]]
  BY DEF Stop
<1>2. traces' \in [Projects -> Seq(Trace)] /\ \A j \in Projects : Len(traces'[j]) <= MaxTraces
  <2>1. traces' = [j \in Projects |-> <<>>]
    BY <1>1
  <2>2. MaxTraces \in Nat /\ Len(<<>>) = 0
    BY ObservabilityAssumption
  <2> QED
    BY <2>1, <2>2
<1>3. view' \in [Requests -> View]
  <2>1. ASSUME NEW q \in Requests
        PROVE  view[q] \in View /\ [view[q] EXCEPT !.pc = "cut"] \in View
    <3>1. view[q] \in View
      BY DEF TypesSound
    <3> QED
      BY <3>1, ViewTyped
  <2> QED
    BY <1>1, <2>1
<1>4. ASSUME NEW n \in Requests PROVE RunTyped(run'[n])
  <2>1. run[n] \in Run /\ (run[n].pc # "idle" => run[n].project \in Projects)
    BY DEF TypesSound
  <2>2. CASE run[n].pc \in {"idle", "completed", "raised"}
    BY <1>1, <2>1, <2>2 DEF RunTyped
  <2>3. CASE run[n].pc \notin {"idle", "completed", "raised"}
    <3>1. RunTyped([run[n] EXCEPT !.pc = "cut"])
      BY <2>1, <2>3, RunMoved DEF Stages
    <3>2. run'[n] = [run[n] EXCEPT !.pc = "cut"]
      BY <1>1, <2>3
    <3> QED
      BY <3>1, <3>2, Zenon
  <2> QED
    BY <2>2, <2>3
<1>5. run' \in [Requests -> Run] /\ \A n \in Requests : run'[n].pc # "idle" => run'[n].project \in Projects
  <2>1. DOMAIN run' = Requests /\ run' = [n \in Requests |-> run'[n]]
    BY <1>1
  <2> QED
    BY <1>4, <2>1 DEF RunTyped
<1> QED
  BY <1>1, <1>2, <1>3, <1>5 DEF TypesSound

\* Nothing has another type than it had.
LEMMA NextTypesSound == StoresSound /\ TypesSound /\ [Next]_vars => TypesSound'
<1> SUFFICES ASSUME StoresSound, TypesSound, [Next]_vars PROVE TypesSound'
  OBVIOUS
<1>0. MetricsSound /\ CollectorSound /\ TracesSound /\ GraphsClosed
  BY DEF StoresSound
<1>1. CASE CollectorStep
  BY <1>0, <1>1, CollectorStepTyped
<1>2. ASSUME NEW q \in Requests, ViewStep(q) PROVE TypesSound'
  BY <1>0, <1>2, ViewStepTyped
<1>3. ASSUME NEW n \in Requests, RunStep(n) PROVE TypesSound'
  BY <1>0, <1>3, FetchTyped, DetectTyped, RetrieveTyped, ConcludeTyped, DecideHealTyped, RaiseTyped
    DEF RunStep
<1>4. ASSUME NEW q \in Requests, NEW j \in Projects,
             ReceiveView(q, j) \/ Analyse(q, j, TRUE) \/ Analyse(q, j, FALSE)
      PROVE  TypesSound'
  BY <1>4, ReceiveViewTyped, AnalyseTyped
<1>5. ASSUME NEW j \in Projects, Refresh(j) PROVE TypesSound'
  BY <1>5 DEF Refresh, TypesSound, collected
<1>6. ASSUME NEW j \in Projects, ExpireLogs(j) PROVE TypesSound'
  <2>1. UNCHANGED <<setup, traces, topo, view, run>>
    BY <1>6 DEF ExpireLogs
  <2>2. errors' \in [Projects -> Seq(LogLine)] /\ recent' \in [Projects -> Seq(LogLine)]
    <3>1. <<>> \in Seq(LogLine)
      OBVIOUS
    <3>2. errors \in [Projects -> Seq(LogLine)] /\ recent \in [Projects -> Seq(LogLine)]
      BY DEF TypesSound
    <3>3. errors' = errors \/ errors' = [errors EXCEPT ![j] = <<>>]
      BY <1>6 DEF ExpireLogs
    <3>4. recent' = recent \/ recent' = [recent EXCEPT ![j] = <<>>]
      BY <1>6 DEF ExpireLogs
    <3>5. errors' \in [Projects -> Seq(LogLine)]
      BY <3>1, <3>2, <3>3
    <3>6. recent' \in [Projects -> Seq(LogLine)]
      BY <3>1, <3>2, <3>4
    <3> QED
      BY <3>5, <3>6
  <2> QED
    BY <2>1, <2>2 DEF TypesSound
<1>7. CASE Stop
  BY <1>7, StopTyped
<1>8. CASE UNCHANGED vars
  BY <1>8 DEF vars, TypesSound
<1> QED
  BY <1>1, <1>2, <1>3, <1>4, <1>5, <1>6, <1>7, <1>8 DEF Next

LEMMA TypesSoundSuffices == StoresSound /\ TypesSound => ObservabilityTypeOK
<1> SUFFICES ASSUME StoresSound, TypesSound PROVE ObservabilityTypeOK
  OBVIOUS
<1>1. /\ window \in [Projects -> [Metrics -> Window]]
      /\ \A j \in Projects, m \in Metrics : Len(window[j][m].values) <= MaxLen
      /\ latest \in [Projects -> Seq(Sample)]
  BY DEF StoresSound, MetricsSound, WindowSound
<1>2. /\ col \in Collector
      /\ col.pc \notin {"waiting", "starting", "down"} => col.at <= Len(ProjectOrder)
  BY DEF StoresSound, CollectorSound, CycleSound, Working, Collector
<1> QED
  BY <1>1, <1>2 DEF ObservabilityTypeOK, TypesSound

\* ObservabilityTypeOK for any projects, stores, requests and failures, with
\* what TypesSound says of requests that have begun.
THEOREM ObservabilityTypesHold == Spec => []ObservabilityTypeOK
  BY InitStoresSound, InitTypesSound, NextStoresSound, NextTypesSound, TypesSoundSuffices, PTL
  DEF Spec

=============================================================================
