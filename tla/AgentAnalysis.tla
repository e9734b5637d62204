--------------------------- MODULE AgentAnalysis ---------------------------
(***************************************************************************)
(* The decisions of the agent's nodes (app/agent/nodes.py) as operators on *)
(* the evidence an analysis has fetched: whether there is an anomaly, what *)
(* it is called, which service it is in, and what to do about it.          *)
(*                                                                         *)
(* Evidence is a record: metrics and logs are sequences, in the order of   *)
(* the window store and of Loki, spans a set of slow and failed spans,     *)
(* each with its place in the trace cache.  Texts are reduced to what the  *)
(* decisions look for in them: oom is a message about running out of       *)
(* memory.                                                                 *)
(***************************************************************************)
EXTENDS TopologyGraph, SequencesExt

CONSTANTS
  Metrics,     \* canonical metrics
  KindOf       \* "memory" is runtime.memory_used_ratio alone; the name of "cpu"
               \* contains cpu, that of "mq" mq or backlog; or "other"

AnomalyTypes ==
  {"OOMKilled", "HighMemory", "HighErrorRate", "HighLatency", "HighCPU", "HighMQBacklog",
   "UnknownAnomaly", "CrashLoopBackOff", "NodeNotReady"}

UnknownService == "unknown-service"

Actions == {"pod_restart", "hpa_scale", "node_evict", "none"}

ASSUME AnalysisAssumption ==
  /\ KindOf \in [Metrics -> {"memory", "cpu", "mq", "other"}]
  /\ Nothing \notin AnomalyTypes \cup Actions

\* The linked alert, active when its status is one of _alert_is_active.  A name
\* that no decision looks for is UnknownAnomaly.
Alert ==
  [active : BOOLEAN, critical : BOOLEAN, name : AnomalyTypes, service : Services \cup {Nothing}]

-----------------------------------------------------------------------------

AnyAnomaly(evidence) == \E m \in ToSet(evidence.metrics) : m.anomaly

AnyError(evidence) ==
  \/ \E l \in ToSet(evidence.logs) : l.error
  \/ \E s \in evidence.spans : s.error

\* anomaly_detect_node; a span is evidence only when it is slow or failed.
AnomalyDetected(evidence, alert) ==
  \/ alert.active
  \/ AnyAnomaly(evidence)
  \/ \E l \in ToSet(evidence.logs) : l.error
  \/ evidence.spans # {}

Severity(evidence, alert) ==
  IF alert.critical \/ AnyError(evidence) THEN "critical" ELSE "warning"

\* The service of the first log that names one.
LogService(logs) ==
  LET First(n) == /\ logs[n].service # Nothing
                  /\ \A m \in DOMAIN logs : m < n => logs[m].service = Nothing
  IN IF \E n \in DOMAIN logs : First(n)
     THEN logs[CHOOSE n \in DOMAIN logs : First(n)].service
     ELSE Nothing

Earlier(s, t) == s.trace < t.trace \/ (s.trace = t.trace /\ s.place < t.place)

\* The service of the first span that names one.
SpanService(spans) ==
  LET First(s) == /\ s.service # Nothing
                  /\ \A t \in spans : Earlier(t, s) => t.service = Nothing
  IN IF \E s \in spans : First(s) THEN (CHOOSE s \in spans : First(s)).service ELSE Nothing

PickFaultService(evidence) ==
  IF LogService(evidence.logs) # Nothing THEN LogService(evidence.logs)
  ELSE IF SpanService(evidence.spans) # Nothing THEN SpanService(evidence.spans)
  ELSE UnknownService

\* Variant: a memory metric that is shown at all counts.
PickAnomalyTypeOfAnyMemory(evidence) ==
  CASE \E l \in ToSet(evidence.logs) : l.oom -> "OOMKilled"
    [] \E m \in ToSet(evidence.metrics) : KindOf[m.metric] = "memory" -> "HighMemory"
    [] AnyError(evidence) -> "HighErrorRate"
    [] \E s \in evidence.spans : s.slow -> "HighLatency"
    [] OTHER -> "UnknownAnomaly"

\* What a metric that is not memory is called goes by the first metric in the
\* evidence, whichever of them is anomalous.
NamedByFirstMetric(evidence) ==
  CASE KindOf[evidence.metrics[1].metric] = "cpu" -> "HighCPU"
    [] KindOf[evidence.metrics[1].metric] = "mq" -> "HighMQBacklog"
    [] OTHER -> "UnknownAnomaly"

\* _pick_anomaly_type: the first signal that is there decides.
PickAnomalyType(evidence) ==
  IF \E l \in ToSet(evidence.logs) : l.oom THEN "OOMKilled"
  ELSE IF \E m \in ToSet(evidence.metrics) : m.anomaly /\ KindOf[m.metric] = "memory"
       THEN "HighMemory"
  ELSE IF AnyError(evidence) THEN "HighErrorRate"
  ELSE IF \E s \in evidence.spans : s.slow THEN "HighLatency"
  ELSE IF AnyAnomaly(evidence) THEN NamedByFirstMetric(evidence)
  ELSE "UnknownAnomaly"

\* What is already known from the alert, or else what the evidence says.
TypeOr(known, evidence) == IF known = Nothing THEN PickAnomalyType(evidence) ELSE known

ServiceOr(known, evidence) == IF known = Nothing THEN PickFaultService(evidence) ELSE known

-----------------------------------------------------------------------------

PickActionType(type) ==
  CASE type \in {"OOMKilled", "CrashLoopBackOff"} -> "pod_restart"
    [] type \in {"HighCPU", "HighMemory", "HighMQBacklog"} -> "hpa_scale"
    [] type = "NodeNotReady" -> "node_evict"
    [] OTHER -> "none"

RiskLevel(action) ==
  CASE action = "node_evict" -> "high"
    [] action \in {"pod_restart", "hpa_scale"} -> "medium"
    [] OTHER -> "none"

AutoHeal(action) == action \in {"pod_restart", "hpa_scale"}

=============================================================================
