--------------------------- MODULE AlertLifecycle ---------------------------
(***************************************************************************)
(* The rows of alert_events under the two writers the API process has: the *)
(* HTTP transitions (acknowledge, suppress, resolve and batch-suppress,    *)
(* app/api/alerts.py) and the upsert of an ingested alert                  *)
(* (app/repositories/alerts.py).                                           *)
(*                                                                         *)
(* Each request runs in a database session of its own under READ           *)
(* COMMITTED.  A SELECT sees committed rows, or the session's own writes,  *)
(* and takes no lock.  A flushed UPDATE or INSERT leaves an uncommitted    *)
(* row version, a draft; whoever else wants to write that row waits until  *)
(* the owner's transaction ends.  COMMIT publishes the owner's drafts, a   *)
(* rollback drops them.                                                    *)
(***************************************************************************)
EXTENDS AlertStates, Naturals, Sequences, FiniteSets

CONSTANTS
  AlertIds,       \* the row ids of alert_events that may be used
  Fingerprints,   \* (project, fingerprint) pairs
  FingerprintOf,  \* the fingerprint a row id is used for
  Sessions,       \* all database sessions
  AlertRequests,  \* the sessions that serve alert transitions and ingestion
  IdLists,        \* the lists of ids a transition request may carry
  SeedStatuses,   \* statuses of the rows present at the start
  Nobody          \* the owner of a row that has no draft

ASSUME AlertAssumption ==
  /\ FingerprintOf \in [AlertIds -> Fingerprints]
  /\ AlertRequests \subseteq Sessions
  /\ Nobody \notin Sessions
  /\ IdLists \subseteq Seq(AlertIds) \ {<<>>}
  /\ SeedStatuses \subseteq AlertStatuses \cup {Absent}

VARIABLES
  alerts,   \* committed rows
  draft,    \* uncommitted row versions and who owns them
  req,      \* the state of each alert request
  trail     \* committed audit_logs rows of alert transitions

alertVars == <<alerts, draft, req, trail>>

-----------------------------------------------------------------------------

UserTargets == {"acknowledged", "suppressed", "resolved"}

RowStatuses == AlertStatuses \cup {Absent}

\* resolved stands for resolved_at IS NOT NULL, count for alert_count.
AlertRow == [status : RowStatuses, resolved : BOOLEAN, count : Nat]

NoRow == [status |-> Absent, resolved |-> FALSE, count |-> 0]

NoDraft == [owner |-> Nobody, row |-> NoRow]

\* seen holds, for each id already read, the status the session decided on.
Request ==
  [pc     : {"idle", "reading", "flushing", "ready", "done", "failed"},
   target : UserTargets \cup {"firing"},
   ids    : Seq(AlertIds),
   seen   : Seq(AlertStatuses)]

IdleRequest == [pc |-> "idle", target |-> "firing", ids |-> <<>>, seen |-> <<>>]

AuditEntry ==
  [req : AlertRequests, id : AlertIds, before : AlertStatuses, after : UserTargets]

-----------------------------------------------------------------------------
(* Rows, drafts and the partial unique index. *)

Active(row) == row.status \in ACTIVE_ALERT_STATUSES

Drafted(i) == draft[i].owner # Nobody

\* What session s sees of row i: the identity map keeps its own writes.
Visible(s, i) == IF draft[i].owner = s THEN draft[i].row ELSE alerts[i]

OthersOf(i) == {j \in AlertIds \ {i} : FingerprintOf[j] = FingerprintOf[i]}

\* Variant: the uniqueness check looks at committed rows only.
IndexFreeCommittedOnly(i) == \A j \in OthersOf(i) : ~Active(alerts[j])

\* uq_alert_events_active_project_fingerprint lets row i become active now.
IndexFree(i) ==
  \A j \in OthersOf(i) : ~Active(alerts[j]) /\ ~(Drafted(j) /\ Active(draft[j].row))

\* ... or refuses it for good: another row is active and nobody is changing it.
IndexTaken(i) == \E j \in OthersOf(i) : Active(alerts[j]) /\ ~Drafted(j)

WriteRow(s, i, row) == draft' = [draft EXCEPT ![i] = [owner |-> s, row |-> row]]

PublishDrafts(s) ==
  /\ alerts' = [i \in AlertIds |-> Visible(s, i)]
  /\ draft' = [i \in AlertIds |-> IF draft[i].owner = s THEN NoDraft ELSE draft[i]]

DropDrafts(s) ==
  /\ draft' = [i \in AlertIds |-> IF draft[i].owner = s THEN NoDraft ELSE draft[i]]
  /\ UNCHANGED alerts

-----------------------------------------------------------------------------
(* HTTP transitions. *)

\* A request arrives; only batch-suppress carries more than one id.
ReceiveTransition(r) ==
  /\ req[r].pc = "idle"
  /\ \E target \in UserTargets, ids \in IdLists :
       /\ Len(ids) > 1 => target = "suppressed"
       /\ req' = [req EXCEPT ![r] =
                    [pc |-> "reading", target |-> target, ids |-> ids, seen |-> <<>>]]
  /\ UNCHANGED <<alerts, draft, trail>>

NextId(r) == req[r].ids[Len(req[r].seen) + 1]

CurrentId(r) == req[r].ids[Len(req[r].seen)]

\* Variant: the transition forgets that the row may not exist.
ReadWithoutDeciding(r) ==
  /\ req[r].pc = "reading"
  /\ req' = [req EXCEPT ![r].pc = "flushing",
                        ![r].seen = Append(@, Visible(r, NextId(r)).status)]
  /\ UNCHANGED <<alerts, draft, trail>>

\* repository.get, then transition_alert_status on what it returned.
ReadAndDecide(r) ==
  /\ req[r].pc = "reading"
  /\ LET status == Visible(r, NextId(r)).status
     IN  /\ TransitionAllowed(status, req[r].target)
         /\ req' = [req EXCEPT ![r].pc = "flushing", ![r].seen = Append(@, status)]
  /\ UNCHANGED <<alerts, draft, trail>>

\* Variant: the session is left open when the request is refused.
RefuseWithoutRollback(r) ==
  /\ req[r].pc = "reading"
  /\ ~TransitionAllowed(Visible(r, NextId(r)).status, req[r].target)
  /\ req' = [req EXCEPT ![r].pc = "failed"]
  /\ UNCHANGED <<alerts, draft, trail>>

\* NOT_FOUND or VALIDATION_ERROR: the session closes without a commit, so the
\* ids of a batch that were already written are rolled back too.
RefuseTransition(r) ==
  /\ req[r].pc = "reading"
  /\ ~TransitionAllowed(Visible(r, NextId(r)).status, req[r].target)
  /\ req' = [req EXCEPT ![r].pc = "failed"]
  /\ DropDrafts(r)
  /\ UNCHANGED trail

\* The audit row's flush sends the UPDATE: it waits for the row, then writes
\* only the changed columns onto the row's latest committed version.
FlushTransition(r) ==
  /\ req[r].pc = "flushing"
  /\ LET i == CurrentId(r)
     IN  /\ ~Drafted(i)
         /\ WriteRow(r, i, [alerts[i] EXCEPT !.status = req[r].target,
                                             !.resolved = @ \/ req[r].target = "resolved"])
  /\ req' = [req EXCEPT ![r].pc =
               IF Len(req[r].seen) < Len(req[r].ids) THEN "reading" ELSE "ready"]
  /\ UNCHANGED <<alerts, trail>>

-----------------------------------------------------------------------------
(* Ingestion: INSERT ... ON CONFLICT DO UPDATE on the active row. *)

UpsertRow(r, i, row) ==
  /\ WriteRow(r, i, row)
  /\ req' = [req EXCEPT ![r] =
               [pc |-> "ready", target |-> "firing", ids |-> <<i>>, seen |-> <<>>]]
  /\ UNCHANGED <<alerts, trail>>

\* Variant: the row that conflicts need not be active (no index_where).
UpsertAnyExisting(r, i) ==
  /\ req[r].pc = "idle"
  /\ alerts[i] # NoRow
  /\ ~Drafted(i)
  /\ IndexFree(i)
  /\ UpsertRow(r, i, [alerts[i] EXCEPT !.status = "firing", !.count = @ + 1])

\* Variant: the counter is written back from a value read without the row lock.
UpsertWithoutWaiting(r, i) ==
  /\ req[r].pc = "idle"
  /\ Active(alerts[i])
  /\ UpsertRow(r, i, [alerts[i] EXCEPT !.status = "firing", !.count = @ + 1])

\* The fingerprint has an active row: its status goes back to firing and
\* alert_count is incremented by the database.
UpsertExisting(r, i) ==
  /\ req[r].pc = "idle"
  /\ Active(alerts[i])
  /\ ~Drafted(i)
  /\ UpsertRow(r, i, [alerts[i] EXCEPT !.status = "firing", !.count = @ + 1])

\* No active row, and none in another transaction: a new row.
UpsertNew(r, i) ==
  /\ req[r].pc = "idle"
  /\ alerts[i] = NoRow
  /\ ~Drafted(i)
  /\ IndexFree(i)
  /\ UpsertRow(r, i, [status |-> "firing", resolved |-> FALSE, count |-> 1])

-----------------------------------------------------------------------------
(* The end of a session. *)

\* Variant: only the last id of a batch is audited.
LastAuditEntry(r) ==
  {[req |-> r, id |-> req[r].ids[n], before |-> req[r].seen[n], after |-> req[r].target] :
     n \in {m \in DOMAIN req[r].seen : m = Len(req[r].seen)}}

\* A transition wrote one audit row per id; the ingest worker writes none.
AuditEntries(r) ==
  {[req |-> r, id |-> req[r].ids[n], before |-> req[r].seen[n], after |-> req[r].target] :
     n \in DOMAIN req[r].seen}

\* Variant: a batch commits after each id.
CommitEachId(r) ==
  /\ req[r].pc \in {"reading", "ready"}
  /\ PublishDrafts(r)
  /\ trail' = trail \cup AuditEntries(r)
  /\ req' = [req EXCEPT ![r].pc = IF @ = "ready" THEN "done" ELSE @]

CommitRequest(r) ==
  /\ req[r].pc = "ready"
  /\ PublishDrafts(r)
  /\ trail' = trail \cup AuditEntries(r)
  /\ req' = [req EXCEPT ![r].pc = "done"]

\* The handler is cancelled, the connection is lost, or the process dies
\* before the commit: PostgreSQL rolls the transaction back.
AbortRequest(r) ==
  /\ req[r].pc \in {"reading", "flushing", "ready"}
  /\ req' = [req EXCEPT ![r].pc = "failed"]
  /\ DropDrafts(r)
  /\ UNCHANGED trail

WaitsFor(r, q) ==
  /\ r # q
  /\ req[r].pc = "flushing"
  /\ draft[CurrentId(r)].owner = q

\* PostgreSQL's deadlock detector: r is in a cycle, a set of sessions each of
\* which waits for another of the set and is waited for, and is the victim.
AbortDeadlockVictim(r) ==
  /\ \E D \in SUBSET AlertRequests :
       /\ r \in D
       /\ \A p \in D : (\E q \in D : WaitsFor(p, q)) /\ (\E q \in D : WaitsFor(q, p))
  /\ AbortRequest(r)

-----------------------------------------------------------------------------

AlertInit ==
  /\ \E seed \in [AlertIds -> SeedStatuses] :
       /\ alerts = [i \in AlertIds |->
            IF seed[i] = Absent THEN NoRow
            ELSE [status |-> seed[i], resolved |-> seed[i] = "resolved", count |-> 1]]
       /\ \A i \in AlertIds : Active(alerts[i]) => \A j \in OthersOf(i) : ~Active(alerts[j])
  /\ draft = [i \in AlertIds |-> NoDraft]
  /\ req = [r \in AlertRequests |-> IdleRequest]
  /\ trail = {}

\* What the handler of a received request does next when nothing blocks it.
ServeRequest(r) ==
  \/ ReadAndDecide(r) \/ RefuseTransition(r) \/ FlushTransition(r)
  \/ CommitRequest(r) \/ AbortDeadlockVictim(r)

AlertNext ==
  \E r \in AlertRequests :
    \/ ReceiveTransition(r)
    \/ \E i \in AlertIds : UpsertExisting(r, i) \/ UpsertNew(r, i)
    \/ ServeRequest(r)
    \/ AbortRequest(r)

AlertSpec == AlertInit /\ [][AlertNext]_alertVars

-----------------------------------------------------------------------------
(* Properties. *)

\* Every variable has its type.
AlertTypeOK ==
  /\ alerts \in [AlertIds -> AlertRow]
  /\ draft \in [AlertIds -> [owner : Sessions \cup {Nobody}, row : AlertRow]]
  /\ req \in [AlertRequests -> Request]
  /\ trail \subseteq AuditEntry

\* Deduplication (docs/codebase/data/README.md:49): however upserts and
\* transitions interleave, a fingerprint never has two active rows.
OneActiveRow ==
  \A i \in AlertIds : Active(alerts[i]) => \A j \in OthersOf(i) : ~Active(alerts[j])

ClosedStep ==
  \A i \in AlertIds :
    alerts[i].status # Absent /\ ~Active(alerts[i]) => ~Active(alerts'[i])

\* An acknowledged, suppressed, resolved or failed row is never made active
\* again by the API or the upsert: a re-fire opens a new row
\* (app/repositories/alerts.py, index_where of the upsert).
ClosedRowsStayClosed == [][ClosedStep]_alertVars

IngestsCommittedTo(i) ==
  {r \in AlertRequests : /\ req[r].target = "firing" /\ req[r].ids = <<i>>
                         /\ req[r].pc = "ready" /\ req'[r].pc = "done"}

\* alert_count of a row grows by one for every ingest committed onto it and
\* for nothing else, so concurrent ingests and transitions lose no occurrence
\* (tests/test_alerts_repository.py:139).
NoIngestLost ==
  [][\A i \in AlertIds :
       alerts'[i].count = alerts[i].count + Cardinality(IngestsCommittedTo(i))]_alertVars

\* A status a user set is committed together with the audit row that says so,
\* for every id of a batch (app/api/alerts.py:395 before the commit at 405).
TransitionsAudited ==
  [][\A i \in AlertIds :
       alerts'[i].status # alerts[i].status /\ alerts'[i].status \in UserTargets =>
         \E e \in trail' \ trail : e.id = i /\ e.after = alerts'[i].status]_alertVars

\* A batch that is refused or aborted halfway leaves no audit row and so no
\* change behind; one that is done has changed every id it named.
BatchAllOrNothing ==
  \A r \in AlertRequests :
    {e.id : e \in {x \in trail : x.req = r}} =
      IF req[r].pc = "done" /\ req[r].target \in UserTargets
      THEN {req[r].ids[n] : n \in DOMAIN req[r].ids} ELSE {}

\* Every received request is answered, also when two batches name the same
\* alerts in opposite orders.
EveryRequestEnds ==
  \A r \in AlertRequests :
    req[r].pc # "idle" ~> req[r].pc \in {"done", "failed"}

\* What AlertService.transition says of itself (app/alerts/service.py:83,
\* "Move an alert to a new status after state-machine validation"): a status
\* committed by a transition is an allowed successor of the committed one.
TransitionsValidated ==
  [][\A i \in AlertIds :
       alerts'[i].status # alerts[i].status /\ alerts'[i].status \in UserTargets =>
         TransitionAllowed(alerts[i].status, alerts'[i].status)]_alertVars

=============================================================================
