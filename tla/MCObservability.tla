-------------------------- MODULE MCObservability --------------------------
(***************************************************************************)
(* Instances of Observability for TLC.  The logs of j1 name t1 and t2, of  *)
(* which the cache has room for one; t1 is a call from sa to sb.  The logs *)
(* of j2 name t3, which is also its seed.                                  *)
(***************************************************************************)
EXTENDS Observability

CONSTANTS j1, j2, sa, sb, sc, i1, i2, t1, t2, t3, cpu, mem

MCKindOf == [m \in Metrics |-> IF m = mem THEN "memory" ELSE "cpu"]

MCProjectOrder == <<j1, j2>>

MCMetricOrder == <<cpu, mem>>

MCSetup(first, second) == [j \in {j1, j2} |-> IF j = j1 THEN first ELSE second]

MCSetups ==
  {MCSetup({"loki", "tempo"}, {"tempo"}),
   MCSetup({"loki"}, {"loki", "tempo"}),
   MCSetup({"prometheus"}, {"tempo"}),
   MCSetup({"broken"}, {"prometheus", "loki"})}

MCValues ==
  MCSetup([m \in Metrics |-> IF m = cpu THEN {0, 1, 5} ELSE {}],
          [m \in Metrics |-> IF m = mem THEN {0, 1} ELSE {}])

Line(error, oom, service, trace) ==
  [error |-> error, oom |-> oom, service |-> service, trace |-> trace]

MCLogBatches ==
  MCSetup({<<>>, <<Line(TRUE, FALSE, Nothing, t1), Line(TRUE, TRUE, sb, t2)>>},
          {<<Line(TRUE, FALSE, sc, t3)>>})

MCRecentBatches == MCSetup({<<Line(FALSE, FALSE, sa, Nothing)>>}, {<<>>})

SpanOf(id, parent, service, error, slow) ==
  [id |-> id, parent |-> parent, service |-> service, error |-> error, slow |-> slow]

MCTraceBodies ==
  [t \in TraceIds |->
     CASE t = t1 -> {<<>>, <<SpanOf(i1, Nothing, sa, FALSE, FALSE), SpanOf(i2, i1, sb, TRUE, FALSE)>>}
       [] t = t2 -> {<<SpanOf(i1, Nothing, sb, FALSE, TRUE), SpanOf(i2, i1, Nothing, FALSE, FALSE)>>}
       [] t = t3 -> {<<SpanOf(i1, Nothing, sc, FALSE, TRUE)>>}]

MCSeeds == MCSetup(<<>>, <<[id |-> t3, spans |-> <<SpanOf(i1, Nothing, sc, FALSE, TRUE)>>]>>)

MCLinkedAlerts ==
  {[active |-> TRUE, critical |-> TRUE, name |-> "NodeNotReady", service |-> sa],
   [active |-> TRUE, critical |-> FALSE, name |-> "HighCPU", service |-> Nothing]}

=============================================================================
