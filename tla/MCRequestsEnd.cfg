SPECIFICATION FairSpec
CONSTANTS
  a1 = a1
  b1 = b1
  fpA = fpA
  fpB = fpB
  h3 = h3
  restart = restart
  scale = scale
  Nobody = Nobody
  AlertIds = {a1, b1}
  Fingerprints = {fpA, fpB}
  FingerprintOf <- MCFingerprintOf
  HealIds = {h1}
  AlertOf <- MCAlertOf
  TypeOf <- MCTypeOf
  HealRequests = {s1, s2}
  AlertRequests = {r1, r2}
  Sessions = {s1, s2, s3, s4, r1, r2}
  IdLists <- MCBatches
  SeedStatuses = {"firing"}
  MaxRetries = 1
PROPERTIES EveryRequestEnds EveryHealRequestEnds
CHECK_DEADLOCK FALSE
