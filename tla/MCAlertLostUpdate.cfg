SPECIFICATION AlertSpec
CONSTANTS
  a1 = a1
  a2 = a2
  b1 = b1
  fpA = fpA
  fpB = fpB
  Nobody = Nobody
  AlertIds = {a1, a2, b1}
  Fingerprints = {fpA, fpB}
  FingerprintOf <- MCFingerprintOf
  AlertRequests = {r1, r2}
  Sessions = {r1, r2}
  IdLists <- MCSingles
  SeedStatuses = {"absent", "firing", "processing"}
PROPERTIES TransitionsValidated
CHECK_DEADLOCK FALSE
