------------------------------ MODULE AgentRuns ------------------------------
(***************************************************************************)
(* The rows of agent_runs under the runner that analyses (app/agent/       *)
(* runs.py), the users who accept or reject its suggestion (app/api/       *)
(* agent.py) and those who execute its fix (app/rca/service.py), with the  *)
(* unique keys of the heal actions that accept and fix create.             *)
(*                                                                         *)
(* Sessions are READ COMMITTED, as in AlertLifecycle.  The runner writes   *)
(* from what its object in memory says, and the users decide on a row they *)
(* read without a lock.                                                    *)
(***************************************************************************)
EXTENDS Naturals, Sequences, FiniteSets

CONSTANTS
  Runs,          \* the row ids of agent_runs that may be used
  Actions,       \* the keys of heal_actions: an alert and an action type
  ProposalOf,    \* the action an analysis of the run proposes
  FixLists,      \* the action lists a fix may select
  Runners,       \* the sessions that trigger an analysis
  Deciders,      \* the sessions that accept or reject a suggestion
  Fixers,        \* the sessions that execute a fix
  SeedStatuses,  \* statuses of the rows present at the start
  Nobody

Sessions == Runners \cup Deciders \cup Fixers

ASSUME AgentAssumption ==
  /\ ProposalOf \in [Runs -> Actions]
  /\ FixLists \subseteq Seq(Actions)
  /\ \A f \in FixLists : \A n, m \in DOMAIN f : f[n] = f[m] => n = m
  /\ Runners \cap Deciders = {}
  /\ Runners \cap Fixers = {}
  /\ Deciders \cap Fixers = {}
  /\ Nobody \notin Sessions
  /\ SeedStatuses \subseteq {"absent", "running", "completed"}

VARIABLES
  runs,     \* committed rows of agent_runs
  draft,    \* their uncommitted versions and who owns them
  creator,  \* who created the committed heal action of a key
  hold,     \* who has inserted it without a commit
  req,      \* where each session stands
  trail     \* committed audit rows: a run and what was decided

vars == <<runs, draft, creator, hold, req, trail>>

-----------------------------------------------------------------------------

Verdicts == {"accepted", "rejected"}

\* proposed: the row names an action.  nodes and decision are what the one
\* column node_states holds: the steps of the analysis, and suggestionStatus.
Run ==
  [status   : {"absent", "running", "completed", "failed"},
   proposed : BOOLEAN,
   nodes    : BOOLEAN,
   decision : Verdicts \cup {"none"}]

SeedRun(status) ==
  [status |-> status, proposed |-> status = "completed",
   nodes |-> status = "completed", decision |-> "none"]

NoDraft == [owner |-> Nobody, row |-> SeedRun("absent")]

Places ==
  {"idle", "analysing", "failing", "marking", "creating", "inserting",
   "deciding", "committing", "done", "raised", "refused"}

\* read is the row as the request loaded it, todo what it will create, next
\* the position in it.  tx: a transaction is open; loaded: the attributes of
\* the run in memory have not been expired by its rollback.
Request ==
  [pc      : Places,
   run     : Runs \cup {Nobody},
   verdict : Verdicts \cup {"none"},
   read    : Run,
   todo    : Seq(Actions),
   next    : Nat,
   tx      : BOOLEAN,
   loaded  : BOOLEAN]

IdleRequest ==
  [pc |-> "idle", run |-> Nobody, verdict |-> "none", read |-> SeedRun("absent"),
   todo |-> <<>>, next |-> 1, tx |-> FALSE, loaded |-> FALSE]

MyRun(s) == req[s].run

GoTo(s, label) == req' = [req EXCEPT ![s].pc = label]

WriteRun(s, n, row) ==
  /\ draft[n].owner \in {Nobody, s}
  /\ draft' = [draft EXCEPT ![n] = [owner |-> s, row |-> row]]

DropDrafts(s) ==
  /\ draft' = [n \in Runs |-> IF draft[n].owner = s THEN NoDraft ELSE draft[n]]
  /\ hold' = [a \in Actions |-> IF hold[a] = s THEN Nobody ELSE hold[a]]

PublishDrafts(s) ==
  /\ runs' = [n \in Runs |-> IF draft[n].owner = s THEN draft[n].row ELSE runs[n]]
  /\ creator' = [a \in Actions |-> IF hold[a] = s THEN s ELSE creator[a]]
  /\ DropDrafts(s)

\* The session is rolled back and the request answered with an error.
EndWith(s, label) ==
  /\ DropDrafts(s)
  /\ GoTo(s, label)
  /\ UNCHANGED <<runs, creator, trail>>

-----------------------------------------------------------------------------
(* The runner. *)

\* The row is inserted and committed before the analysis begins.
Trigger(s, n) ==
  /\ req[s].pc = "idle"
  /\ runs[n].status = "absent"
  /\ runs' = [runs EXCEPT ![n] = SeedRun("running")]
  /\ req' = [req EXCEPT ![s] =
       [IdleRequest EXCEPT !.pc = "analysing", !.run = n, !.loaded = TRUE]]
  /\ UNCHANGED <<draft, creator, hold, trail>>

\* A node of the graph reads: the linked alert, or similar runs.
QueryDatabase(s) ==
  /\ req[s].pc = "analysing"
  /\ req' = [req EXCEPT ![s].tx = TRUE]
  /\ UNCHANGED <<runs, draft, creator, hold, trail>>

\* The UPDATE waits for a decision that is not committed and then replaces
\* node_states whole.
Finish(s) ==
  /\ req[s].pc = "analysing"
  /\ \E proposed \in BOOLEAN :
       WriteRun(s, MyRun(s),
         [status |-> "completed", proposed |-> proposed, nodes |-> TRUE, decision |-> "none"])
  /\ req' = [req EXCEPT ![s].pc = "committing", ![s].tx = TRUE]
  /\ UNCHANGED <<runs, creator, hold, trail>>

\* A node or the UPDATE raises.  The rollback expires the run in memory, if
\* there was a transaction to roll back.
Fail(s) ==
  /\ s \in Runners
  /\ req[s].pc \in {"analysing", "committing"}
  /\ req' = [req EXCEPT ![s].pc = "failing", ![s].tx = FALSE,
                        ![s].loaded = ~req[s].tx]
  /\ DropDrafts(s)
  /\ UNCHANGED <<runs, creator, trail>>

\* finish(status="failed").  node_states is {} in memory already, so the
\* column is not in the UPDATE.
MarkFailed(s) ==
  /\ req[s].pc = "failing"
  /\ req[s].loaded
  /\ WriteRun(s, MyRun(s), [runs[MyRun(s)] EXCEPT !.status = "failed"])
  /\ req' = [req EXCEPT ![s].pc = "marking", ![s].tx = TRUE]
  /\ UNCHANGED <<runs, creator, hold, trail>>

\* run.id of an expired object: MissingGreenlet, in the handler and again in
\* the handler's own except clause.
LoseRun(s) ==
  /\ req[s].pc = "failing"
  /\ ~req[s].loaded
  /\ EndWith(s, "raised")

-----------------------------------------------------------------------------
(* Accept, reject and fix. *)

ReadRun(s, n, verdict) ==
  /\ s \in Deciders
  /\ req[s].pc = "idle"
  /\ runs[n].status # "absent"
  /\ verdict = "accepted" => runs[n].proposed
  /\ req' = [req EXCEPT ![s] =
       [IdleRequest EXCEPT
          !.pc = IF verdict = "accepted" THEN "creating" ELSE "deciding",
          !.run = n, !.verdict = verdict, !.read = runs[n], !.tx = TRUE,
          !.todo = IF verdict = "accepted" THEN <<ProposalOf[n]>> ELSE <<>>]]
  /\ UNCHANGED <<runs, draft, creator, hold, trail>>

ReadFix(s, n, list) ==
  /\ s \in Fixers
  /\ req[s].pc = "idle"
  /\ runs[n].status # "absent" /\ runs[n].proposed
  /\ list # <<>>
  /\ req' = [req EXCEPT ![s] =
       [IdleRequest EXCEPT !.pc = "creating", !.run = n, !.read = runs[n],
                           !.todo = list, !.tx = TRUE]]
  /\ UNCHANGED <<runs, draft, creator, hold, trail>>

HasNext(s) == req[s].next <= Len(req[s].todo)

NextAction(s) == req[s].todo[req[s].next]

\* get_or_create: the SELECT finds a committed row, or none.
SelectAction(s) ==
  /\ req[s].pc = "creating" /\ HasNext(s)
  /\ IF creator[NextAction(s)] # Nobody
     THEN req' = [req EXCEPT ![s].next = @ + 1]
     ELSE GoTo(s, "inserting")
  /\ UNCHANGED <<runs, draft, creator, hold, trail>>

\* Variant: each action is committed when it is created.
InsertAndCommit(s) ==
  /\ req[s].pc = "inserting"
  /\ creator[NextAction(s)] = Nobody
  /\ hold[NextAction(s)] = Nobody
  /\ creator' = [creator EXCEPT ![NextAction(s)] = s]
  /\ req' = [req EXCEPT ![s].pc = "creating", ![s].next = @ + 1]
  /\ UNCHANGED <<runs, draft, hold, trail>>

\* Variant: the next action is inserted without looking for it.
InsertWithoutLooking(s) ==
  /\ req[s].pc = "inserting"
  /\ creator[NextAction(s)] = Nobody
  /\ hold[NextAction(s)] = Nobody
  /\ hold' = [hold EXCEPT ![NextAction(s)] = s]
  /\ req' = [req EXCEPT ![s].next = @ + 1]
  /\ UNCHANGED <<runs, draft, creator, trail>>

\* The INSERT waits for another session's uncommitted row of the same key.
InsertAction(s) ==
  /\ req[s].pc = "inserting"
  /\ creator[NextAction(s)] = Nobody
  /\ hold[NextAction(s)] = Nobody
  /\ hold' = [hold EXCEPT ![NextAction(s)] = s]
  /\ req' = [req EXCEPT ![s].pc = "creating", ![s].next = @ + 1]
  /\ UNCHANGED <<runs, draft, creator, trail>>

\* Variant: a refused request leaves its session open.
ConflictWithoutRollback(s) ==
  /\ req[s].pc = "inserting"
  /\ creator[NextAction(s)] # Nobody
  /\ GoTo(s, "refused")
  /\ UNCHANGED <<runs, draft, creator, hold, trail>>

\* IntegrityError: the other session has committed it meanwhile.
InsertConflict(s) ==
  /\ req[s].pc = "inserting"
  /\ creator[NextAction(s)] # Nobody
  /\ EndWith(s, "refused")

ActionsCreated(s) ==
  /\ req[s].pc = "creating" /\ ~HasNext(s)
  /\ GoTo(s, IF s \in Fixers THEN "committing" ELSE "deciding")
  /\ UNCHANGED <<runs, draft, creator, hold, trail>>

\* Variant: the UPDATE names every column, not only those that changed.
DecideWholeRow(s) ==
  /\ req[s].pc = "deciding"
  /\ WriteRun(s, MyRun(s), [req[s].read EXCEPT !.decision = req[s].verdict])
  /\ GoTo(s, "committing")
  /\ UNCHANGED <<runs, creator, hold, trail>>

\* _set_suggestion_status on the node_states that were read; no UPDATE when
\* they show the verdict already.
Decide(s) ==
  /\ req[s].pc = "deciding"
  /\ IF req[s].read.decision = req[s].verdict
     THEN UNCHANGED draft
     ELSE WriteRun(s, MyRun(s),
            [runs[MyRun(s)] EXCEPT !.nodes = req[s].read.nodes, !.decision = req[s].verdict])
  /\ GoTo(s, "committing")
  /\ UNCHANGED <<runs, creator, hold, trail>>

\* Variant: only an acceptance is audited.
AuditAccepted(s) ==
  IF s \in Deciders /\ req[s].verdict = "accepted" THEN {<<MyRun(s), "accepted">>} ELSE {}

AuditRow(s) == IF s \in Deciders THEN {<<MyRun(s), req[s].verdict>>} ELSE {}

Commit(s) ==
  /\ req[s].pc \in {"committing", "marking"}
  /\ PublishDrafts(s)
  /\ trail' = trail \cup AuditRow(s)
  /\ GoTo(s, IF req[s].pc = "marking" THEN "raised" ELSE "done")

Ended == {"done", "raised", "refused"}

\* The handler is cancelled, the connection is lost or the process ends.
Abort(s) ==
  /\ req[s].pc \notin Ended \cup {"idle"}
  /\ EndWith(s, "refused")

\* s waits for q: for its row of a key, or for its version of the run.
WaitsFor(s, q) ==
  /\ s # q
  /\ \/ req[s].pc = "inserting" /\ hold[NextAction(s)] = q
     \/ req[s].pc \in {"analysing", "failing", "deciding"} /\ draft[MyRun(s)].owner = q

Waiting == {p \in Sessions : \E q \in Sessions : WaitsFor(p, q)}

\* s is one of a circle of sessions that wait for each other.
DeadlockVictim(s) ==
  /\ \E D \in SUBSET Waiting :
       /\ s \in D
       /\ \A p \in D : (\E q \in D : WaitsFor(p, q)) /\ (\E q \in D : WaitsFor(q, p))
  /\ EndWith(s, "refused")

-----------------------------------------------------------------------------

Init ==
  /\ \E st \in [Runs -> SeedStatuses] : runs = [n \in Runs |-> SeedRun(st[n])]
  /\ draft = [n \in Runs |-> NoDraft]
  /\ creator = [a \in Actions |-> Nobody]
  /\ hold = [a \in Actions |-> Nobody]
  /\ req = [s \in Sessions |-> IdleRequest]
  /\ trail = {}

Receive(s) ==
  \/ /\ s \in Runners
     /\ \E n \in Runs : Trigger(s, n)
  \/ \E n \in Runs, verdict \in Verdicts : ReadRun(s, n, verdict)
  \/ \E n \in Runs, list \in FixLists : ReadFix(s, n, list)

Serve(s) ==
  \/ Finish(s) \/ MarkFailed(s) \/ LoseRun(s)
  \/ SelectAction(s) \/ InsertAction(s) \/ InsertConflict(s)
  \/ ActionsCreated(s) \/ Decide(s) \/ Commit(s) \/ DeadlockVictim(s)

Next ==
  \E s \in Sessions : Receive(s) \/ Serve(s) \/ QueryDatabase(s) \/ Fail(s) \/ Abort(s)

Spec == Init /\ [][Next]_vars

\* Handlers run on when nothing blocks them; the analysis returns or raises.
Fairness == \A s \in Sessions : WF_vars(Serve(s))

FairSpec == Spec /\ Fairness

-----------------------------------------------------------------------------
(* Properties. *)

\* Every variable has its type, and a request that has read is about a run.
AgentTypeOK ==
  /\ runs \in [Runs -> Run]
  /\ draft \in [Runs -> [owner : Sessions \cup {Nobody}, row : Run]]
  /\ creator \in [Actions -> Sessions \cup {Nobody}]
  /\ hold \in [Actions -> Sessions \cup {Nobody}]
  /\ req \in [Sessions -> Request]
  /\ \A s \in Sessions :
       /\ req[s].pc # "idle" => MyRun(s) \in Runs
       /\ req[s].next \in 1..(Len(req[s].todo) + 1)
       /\ req[s].pc = "inserting" => HasNext(s)
  /\ trail \subseteq Runs \X Verdicts

\* What a run shows as decided was decided: it is in the audit log, and an
\* accepted suggestion has its heal action (api/agent.py accept_suggestion),
\* whatever the runner and other users wrote in between.
DecisionExplained ==
  \A n \in Runs :
    /\ runs[n].decision # "none" => <<n, runs[n].decision>> \in trail
    /\ runs[n].decision = "accepted" => creator[ProposalOf[n]] # Nobody

\* execute_fix creates the actions of all selected steps or none: a request
\* that was not answered with success has created nothing, also when it lost
\* a race for one of the keys or a deadlock.
FixAllOrNothing ==
  \A s \in Fixers :
    /\ req[s].pc = "done" => \A k \in DOMAIN req[s].todo : creator[req[s].todo[k]] # Nobody
    /\ req[s].pc # "done" => \A a \in Actions : creator[a] # s

\* A finished run keeps its status and its proposal: a decision that was made
\* on what the row said before must not bring them back.
FinishedRunsStay ==
  [][\A n \in Runs : runs[n].status \in {"completed", "failed"} =>
       runs'[n].status = runs[n].status /\ runs'[n].proposed = runs[n].proposed]_vars

\* Every trigger, decision and fix that was received is answered, also when
\* two fixes name the same actions in opposite orders.
EveryAgentRequestEnds ==
  \A s \in Sessions : req[s].pc # "idle" ~> req[s].pc \in Ended

\* After run_once has raised, its run is marked failed
\* (tests/test_agent_api.py, test_agent_runner_marks_failed_run_and_preserves_
\* original_error).
RaisedRunIsFailed ==
  \A s \in Runners : req[s].pc = "raised" => runs[MyRun(s)].status = "failed"

=============================================================================
