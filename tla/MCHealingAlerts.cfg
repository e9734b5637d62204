SPECIFICATION Spec
CONSTANTS
  a1 = a1
  b1 = b1
  fpA = fpA
  fpB = fpB
  h3 = h3
  restart = restart
  scale = scale
  Nobody = Nobody
  AlertIds = {a1, a2}
  Fingerprints = {fpA, fpB}
  FingerprintOf <- MCFingerprintOf
  HealIds = {h1}
  AlertOf <- MCAlertOf
  TypeOf <- MCTypeOf
  HealRequests = {s1, s2, s3, s4}
  AlertRequests = {r1, r2}
  Sessions = {s1, s2, s3, s4, r1, r2}
  IdLists <- MCIdLists
  SeedStatuses = {"absent", "firing"}
  MaxRetries = 0
SYMMETRY MCSymmetry
INVARIANTS TreatedAlertsWereCalled
PROPERTIES ResolutionExplained
CHECK_DEADLOCK FALSE
