--------------------------- MODULE TopologyGraph ---------------------------
(***************************************************************************)
(* What TopologyService (app/topology/service.py) computes from the traces *)
(* of a project and its active alerts: the base graph it caches, and the   *)
(* answer it makes of it for a filter.  A snapshot is a sequence of traces *)
(* in the order of the trace cache; latencies and counts are left out.     *)
(***************************************************************************)
EXTENDS Naturals, Sequences

CONSTANTS
  Services,   \* service names
  SpanIds,    \* ids of spans, unique within a trace or not
  TraceIds,
  Nothing     \* no service, no parent, no trace id, no graph

ASSUME TopologyAssumption ==
  Nothing \notin Services \cup SpanIds \cup TraceIds

Span ==
  [id : SpanIds, parent : SpanIds \cup {Nothing}, service : Services \cup {Nothing},
   error : BOOLEAN, slow : BOOLEAN]

Trace == [id : TraceIds, spans : Seq(Span)]

Edge == [from : Services, to : Services, red : BOOLEAN]

Graph == [nodes : SUBSET Services, edges : SUBSET Edge]

Filters == {"all", "anomaly", "alert"}

-----------------------------------------------------------------------------

\* Span c of a trace was called by span p: span_by_id keeps the last span of
\* an id, and both must name their service.
Called(spans, p, c) ==
  /\ spans[p].id = spans[c].parent
  /\ \A k \in DOMAIN spans : spans[k].id = spans[p].id => k <= p
  /\ spans[p].service # Nothing
  /\ spans[c].service # Nothing

CallsIn(spans) ==
  {[from |-> spans[call[1]].service, to |-> spans[call[2]].service,
    error |-> spans[call[1]].error \/ spans[call[2]].error] :
   call \in {q \in (DOMAIN spans) \X (DOMAIN spans) : Called(spans, q[1], q[2])}}

Calls(snapshot) == UNION {CallsIn(snapshot[n].spans) : n \in DOMAIN snapshot}

ServicesIn(spans) == {spans[k].service : k \in DOMAIN spans} \ {Nothing}

\* _build_base_graph: an edge is red when one of its calls has an error.
BaseGraph(snapshot) ==
  [nodes |-> UNION {ServicesIn(snapshot[n].spans) : n \in DOMAIN snapshot},
   edges |-> {[from |-> c.from, to |-> c.to,
               red |-> \E d \in Calls(snapshot) :
                         d.from = c.from /\ d.to = c.to /\ d.error] :
              c \in Calls(snapshot)}]

OnRedEdge(edges, s) == \E e \in edges : e.red /\ s \in {e.from, e.to}

\* _with_alert_counts: alerted are the services with an active alert.
WithAlertCounts(graph, alerted) ==
  [nodes |-> {[id |-> s, red |-> s \in alerted \/ OnRedEdge(graph.edges, s),
               alert |-> s \in alerted] : s \in graph.nodes \cup alerted},
   edges |-> graph.edges]

EndsOf(edges) == {e.from : e \in edges} \cup {e.to : e \in edges}

OnlyAnomaly(graph) ==
  LET edges == {e \in graph.edges : e.red}
  IN [nodes |-> {n \in graph.nodes : n.id \in EndsOf(edges)}, edges |-> edges]

\* Variant: the neighbours of the alerting services are not added.
OnlyAlertWithoutNeighbours(graph) ==
  LET ids == {n.id : n \in {m \in graph.nodes : m.alert}}
  IN [nodes |-> {n \in graph.nodes : n.id \in ids},
      edges |-> {e \in graph.edges : e.from \in ids \/ e.to \in ids}]

\* The services that alert, their edges, and the services at the other ends.
OnlyAlert(graph) ==
  LET ids == {n.id : n \in {m \in graph.nodes : m.alert}}
      edges == {e \in graph.edges : e.from \in ids \/ e.to \in ids}
  IN [nodes |-> {n \in graph.nodes : n.id \in ids \cup EndsOf(edges)}, edges |-> edges]

ApplyFilter(graph, filter) ==
  CASE filter = "all" -> graph
    [] filter = "anomaly" -> OnlyAnomaly(graph)
    [] filter = "alert" -> OnlyAlert(graph)

\* What GET /topology/graph answers for a base graph.
Answer(base, alerted, filter) == ApplyFilter(WithAlertCounts(base, alerted), filter)

\* What GET /topology/services/{id} answers, also for a service that is not
\* known: edges into the service and out of it.
ServiceDetail(base, alerted, service) ==
  [known      |-> service \in base.nodes \cup alerted,
   upstream   |-> {e \in base.edges : e.to = service},
   downstream |-> {e \in base.edges : e.from = service}]

-----------------------------------------------------------------------------

\* No edge without its two nodes.
ClosedGraph(base) == EndsOf(base.edges) \subseteq base.nodes

ClosedAnswer(answer) == EndsOf(answer.edges) \subseteq {n.id : n \in answer.nodes}

=============================================================================
