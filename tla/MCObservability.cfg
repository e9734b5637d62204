SPECIFICATION FairSpec
CONSTANTS
  j1 = j1
  j2 = j2
  sa = sa
  sb = sb
  sc = sc
  i1 = i1
  i2 = i2
  t1 = t1
  t2 = t2
  t3 = t3
  cpu = cpu
  mem = mem
  Nothing = Nothing
  Services = {sa, sb, sc}
  SpanIds = {i1, i2}
  TraceIds = {t1, t2, t3}
  Metrics = {cpu, mem}
  KindOf <- MCKindOf
  ProjectOrder <- MCProjectOrder
  Setups <- MCSetups
  MetricOrder <- MCMetricOrder
  Values <- MCValues
  MaxLen = 2
  MinSamples = 2
  Threshold = 3
  LogBatches <- MCLogBatches
  RecentBatches <- MCRecentBatches
  TraceBodies <- MCTraceBodies
  Seeds <- MCSeeds
  MaxTraces = 1
  QueryLimit = 1
  LinkedAlerts <- MCLinkedAlerts
  Requests = {q1}
  Faults = {"fail", "restart"}
INVARIANTS ObservabilityTypeOK NothingCrosses FlagsFade AnswersClosed ProposalBacked CasesMatchConclusion
PROPERTIES EveryProjectCollected
