SPECIFICATION FairSpec
CONSTANTS
  x = x
  y = y
  Nobody = Nobody
  Runs = {n1}
  Actions = {x, y}
  ProposalOf <- MCProposalOf
  FixLists <- MCFixLists
  Runners = {r1}
  Deciders = {d1}
  Fixers = {f1, f2}
  SeedStatuses = {"absent", "running", "completed"}
INVARIANTS AgentTypeOK DecisionExplained FixAllOrNothing
PROPERTIES FinishedRunsStay EveryAgentRequestEnds
CHECK_DEADLOCK FALSE
