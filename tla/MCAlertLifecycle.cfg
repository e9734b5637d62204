SPECIFICATION AlertSpec
CONSTANTS
  a1 = a1
  a2 = a2
  b1 = b1
  fpA = fpA
  fpB = fpB
  Nobody = Nobody
  AlertIds = {a1, a2, b1}
  Fingerprints = {fpA, fpB}
  FingerprintOf <- MCFingerprintOf
  AlertRequests = {r1, r2, r3}
  Sessions = {r1, r2, r3}
  IdLists <- MCIdLists
  SeedStatuses = {"absent", "firing", "processing"}
SYMMETRY MCSymmetry
INVARIANTS AlertTypeOK OneActiveRow BatchAllOrNothing
PROPERTIES ClosedRowsStayClosed NoIngestLost TransitionsAudited
CHECK_DEADLOCK FALSE
