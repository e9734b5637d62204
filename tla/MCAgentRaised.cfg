SPECIFICATION Spec
CONSTANTS
  x = x
  y = y
  Nobody = Nobody
  Runs = {n1}
  Actions = {x, y}
  ProposalOf <- MCProposalOf
  FixLists <- MCFixLists
  Runners = {r1}
  Deciders = {d1}
  Fixers = {}
  SeedStatuses = {"absent", "completed"}
INVARIANTS RaisedRunIsFailed
CHECK_DEADLOCK FALSE
