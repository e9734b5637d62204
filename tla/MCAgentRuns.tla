----------------------------- MODULE MCAgentRuns -----------------------------
(***************************************************************************)
(* Instances of AgentRuns for TLC.  n1 proposes x; a fix may select x and  *)
(* y in either order, so that two fixes can deadlock.                      *)
(***************************************************************************)
EXTENDS AgentRuns

CONSTANTS x, y

MCProposalOf == [n \in Runs |-> x]

MCFixLists == {<<x, y>>, <<y, x>>}

=============================================================================
