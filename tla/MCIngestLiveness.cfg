SPECIFICATION FairSpec
CONSTANTS
  a1 = a1
  a2 = a2
  b1 = b1
  b2 = b2
  fpA = fpA
  fpB = fpB
  j1 = j1
  j2 = j2
  p1 = p1
  p2 = p2
  p3 = p3
  p4 = p4
  Nobody = Nobody
  NoPayload = NoPayload
  Ignored = Ignored
  Rejected = Rejected
  AlertIds = {a1, a2, b1, b2}
  Fingerprints = {fpA, fpB}
  FingerprintOf <- MCFingerprintOf
  Sessions = {r1, r2, w1, w2}
  AlertRequests = {r1}
  IdLists <- MCSingles
  SeedStatuses = {"absent", "firing"}
  Payloads = {p1, p3, p4}
  ContentOf <- MCContentOf
  Projects = {j1, j2}
  ProjectOf <- MCProjectOf
  KeyOrder <- MCKeyOrder
  Workers = {w1}
  Faults = {}
PROPERTIES AcceptedIsStored
CHECK_DEADLOCK FALSE
