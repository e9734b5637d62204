------------------------------ MODULE Healing ------------------------------
(***************************************************************************)
(* The heal actions of app/healing/service.py on top of the alert rows of  *)
(* AlertLifecycle: create_from_decision, approve, reject, execute and      *)
(* verify, each in a session of its own, with the row locks, unique index  *)
(* and rollbacks of PostgreSQL under READ COMMITTED.                       *)
(*                                                                         *)
(* execute and verify are called by whoever drives the service; the calls  *)
(* to the executor act on the cluster at once and no rollback undoes them. *)
(***************************************************************************)
EXTENDS AlertLifecycle

CONSTANTS
  HealIds,       \* the row ids of heal_actions that may be used
  AlertOf,       \* the alert a row id is used for
  TypeOf,        \* the action_type a row id is used for
  HealRequests,  \* the sessions that serve the healing service
  MaxRetries     \* execute's max_retries

ASSUME HealAssumption ==
  /\ HealIds # {}
  /\ AlertOf \in [HealIds -> AlertIds]
  /\ HealRequests \subseteq Sessions
  /\ HealRequests \cap AlertRequests = {}
  /\ MaxRetries \in Nat

VARIABLES
  heal,    \* committed heal_actions rows
  hdraft,  \* their uncommitted versions
  hreq,    \* the state of each healing request
  calls,   \* how often the executor was called for an action
  audits   \* committed audit_logs rows of heal actions

healVars == <<heal, hdraft, hreq, calls, audits>>

vars == <<alertVars, healVars>>

-----------------------------------------------------------------------------

HealStatuses ==
  {"waiting_approval", "pending", "executing", "success", "failed", "verified"}

RiskLevels == {"low", "high"}   \* "medium" is handled like "low"

\* approved stands for approved_by IS NOT NULL.
HealRow == [status : HealStatuses \cup {Absent}, risk : RiskLevels, approved : BOOLEAN]

NoHealRow == [status |-> Absent, risk |-> "low", approved |-> FALSE]

NoHealDraft == [owner |-> Nobody, row |-> NoHealRow]

Operations == {"none", "create", "approve", "reject", "execute", "verify"}

\* seen is the alert status the session read; ok is the result of the executor
\* or of the recovery check.
HealRequest ==
  [pc    : {"idle", "inserting", "marking", "running", "checking",
            "settling", "ready", "done", "failed"},
   op    : Operations,
   id    : HealIds,
   seen  : RowStatuses,
   tries : 0..MaxRetries,
   ok    : BOOLEAN]

AuditActions == {"HEAL_APPROVE", "HEAL_CANCEL", "HEAL_EXECUTE"}

HealAudit ==
  [req : HealRequests, id : HealIds, action : AuditActions, result : {"success", "failed"}]

-----------------------------------------------------------------------------

HealDrafted(h) == hdraft[h].owner # Nobody

WriteHeal(s, h, row) == hdraft' = [hdraft EXCEPT ![h] = [owner |-> s, row |-> row]]

\* The rows uq_heal_actions_project_alert_action lets exist once.
Siblings(h) == {g \in HealIds : AlertOf[g] = AlertOf[h] /\ TypeOf[g] = TypeOf[h]}

DropHealDrafts(s) ==
  hdraft' = [h \in HealIds |-> IF hdraft[h].owner = s THEN NoHealDraft ELSE hdraft[h]]

\* Variant: the lock on the action row survives the rollback.
RollBackAlertOnly(s) ==
  /\ hreq' = [hreq EXCEPT ![s].pc = "failed"]
  /\ DropDrafts(s)
  /\ UNCHANGED <<req, trail, heal, hdraft, calls, audits>>

\* An exception leaves the handler, or the connection is lost: the session is
\* rolled back, on both tables.
RollBack(s) ==
  /\ hreq' = [hreq EXCEPT ![s].pc = "failed"]
  /\ DropHealDrafts(s)
  /\ DropDrafts(s)
  /\ UNCHANGED <<req, trail, heal, calls, audits>>

Begin(s, op, h, pc) ==
  /\ hreq[s].pc = "idle"
  /\ hreq' = [hreq EXCEPT ![s].op = op, ![s].id = h, ![s].pc = pc]

-----------------------------------------------------------------------------
(* create_from_decision, from accept_suggestion and from execute_fix. *)

\* get_or_create finds the row of this alert and type, whatever its risk.
ReturnExisting(s, h) ==
  /\ \E g \in Siblings(h) : heal[g].status # Absent
  /\ Begin(s, "create", h, "ready")
  /\ UNCHANGED <<alertVars, heal, hdraft, calls, audits>>

DecideToCreate(s, h) ==
  /\ alerts[AlertOf[h]].status # Absent
  /\ \A g \in Siblings(h) : heal[g].status = Absent
  /\ Begin(s, "create", h, "inserting")
  /\ UNCHANGED <<alertVars, heal, hdraft, calls, audits>>

\* Variant: the risk of the decision is ignored.
InsertUnchecked(s) ==
  LET h == hreq[s].id
  IN  /\ hreq[s].pc = "inserting"
      /\ \A g \in Siblings(h) : heal[g].status = Absent /\ ~HealDrafted(g)
      /\ \E risk \in RiskLevels :
           WriteHeal(s, h, [status |-> "pending", risk |-> risk, approved |-> FALSE])
      /\ hreq' = [hreq EXCEPT ![s].pc = "ready"]
      /\ UNCHANGED <<alertVars, heal, calls, audits>>

\* Variant: no unique index, the SELECT of get_or_create is the only check.
InsertDuplicate(s) ==
  LET h == hreq[s].id
  IN  /\ hreq[s].pc = "inserting"
      /\ heal[h].status = Absent /\ ~HealDrafted(h)
      /\ \E risk \in RiskLevels :
           WriteHeal(s, h,
             [status   |-> IF risk = "high" THEN "waiting_approval" ELSE "pending",
              risk     |-> risk,
              approved |-> FALSE])
      /\ hreq' = [hreq EXCEPT ![s].pc = "ready"]
      /\ UNCHANGED <<alertVars, heal, calls, audits>>

\* The INSERT waits for an uncommitted row with the same key.
InsertAction(s) ==
  LET h == hreq[s].id
  IN  /\ hreq[s].pc = "inserting"
      /\ \A g \in Siblings(h) : heal[g].status = Absent /\ ~HealDrafted(g)
      /\ \E risk \in RiskLevels :
           WriteHeal(s, h,
             [status   |-> IF risk = "high" THEN "waiting_approval" ELSE "pending",
              risk     |-> risk,
              approved |-> FALSE])
      /\ hreq' = [hreq EXCEPT ![s].pc = "ready"]
      /\ UNCHANGED <<alertVars, heal, calls, audits>>

\* Another session's row was committed after get_or_create looked: the INSERT
\* raises IntegrityError and the request fails.
InsertConflict(s) ==
  /\ hreq[s].pc = "inserting"
  /\ \E g \in Siblings(hreq[s].id) : heal[g].status # Absent
  /\ RollBack(s)

-----------------------------------------------------------------------------
(* approve and reject: SELECT ... FOR UPDATE, fresh state, then decide. *)

Decided(row, op) ==
  IF op = "approve" THEN [row EXCEPT !.status = "pending", !.approved = TRUE]
                    ELSE [row EXCEPT !.status = "failed"]

\* Variant: approve and reject read the row without FOR UPDATE.
DecideUnlocked(s, h, op) ==
  /\ heal[h].status = "waiting_approval"
  /\ Begin(s, op, h, "ready")
  /\ WriteHeal(s, h, Decided(heal[h], op))
  /\ UNCHANGED <<alertVars, heal, calls, audits>>

Decide(s, h, op) ==
  /\ ~HealDrafted(h)
  /\ heal[h].status = "waiting_approval"
  /\ Begin(s, op, h, "ready")
  /\ WriteHeal(s, h, Decided(heal[h], op))
  /\ UNCHANGED <<alertVars, heal, calls, audits>>

\* NOT_FOUND, or the action is not waiting (any more).
RefuseDecision(s, h, op) ==
  /\ ~HealDrafted(h)
  /\ heal[h].status # "waiting_approval"
  /\ Begin(s, op, h, "failed")
  /\ UNCHANGED <<alertVars, heal, hdraft, calls, audits>>

-----------------------------------------------------------------------------
(* execute. *)

\* Variant: a failed action may be started again.
StartFailedAgain(s, h) ==
  /\ heal[h].status \in {"pending", "failed"}
  /\ Begin(s, "execute", h, "marking")
  /\ UNCHANGED <<alertVars, heal, hdraft, calls, audits>>

\* _get_action is a plain SELECT: it neither waits nor locks.
StartExecute(s, h) ==
  /\ heal[h].status = "pending"
  /\ Begin(s, "execute", h, "marking")
  /\ UNCHANGED <<alertVars, heal, hdraft, calls, audits>>

RefuseExecute(s, h) ==
  /\ heal[h].status # "pending"
  /\ Begin(s, "execute", h, "failed")
  /\ UNCHANGED <<alertVars, heal, hdraft, calls, audits>>

\* Variant: range(1, max_retries + 1), one attempt too few.
MarkHealingOneShort(s) ==
  LET h == hreq[s].id
  IN  /\ hreq[s].pc = "marking"
      /\ ~HealDrafted(h)
      /\ WriteHeal(s, h, [heal[h] EXCEPT !.status = "executing"])
      /\ hreq' = [hreq EXCEPT ![s].pc = IF MaxRetries = 0 THEN "settling" ELSE "running",
                              ![s].seen = alerts[AlertOf[h]].status]
      /\ UNCHANGED <<alertVars, heal, calls, audits>>

\* _mark_alert_healing: its SELECT first flushes status = executing, which
\* waits for the row, and then reads the committed alert.
MarkHealing(s) ==
  LET h == hreq[s].id
  IN  /\ hreq[s].pc = "marking"
      /\ ~HealDrafted(h)
      /\ WriteHeal(s, h, [heal[h] EXCEPT !.status = "executing"])
      /\ hreq' = [hreq EXCEPT ![s].pc = "running", ![s].seen = alerts[AlertOf[h]].status]
      /\ UNCHANGED <<alertVars, heal, calls, audits>>

CallExecutor(s) ==
  /\ hreq[s].pc = "running"
  /\ calls' = [calls EXCEPT ![hreq[s].id] = @ + 1]
  /\ UNCHANGED <<alertVars, heal, hdraft, audits>>

CallSucceeds(s) ==
  /\ CallExecutor(s)
  /\ hreq' = [hreq EXCEPT ![s].pc = "settling", ![s].ok = TRUE]

\* Variant: range(1, max_retries + 3), one attempt too many.
CallFailsOneMore(s) ==
  /\ CallExecutor(s)
  /\ hreq' = IF hreq[s].tries <= MaxRetries
             THEN [hreq EXCEPT ![s].tries = @ + 1]
             ELSE [hreq EXCEPT ![s].pc = "settling", ![s].ok = FALSE]

\* Another attempt, up to max_retries of them after the first.
CallFails(s) ==
  /\ CallExecutor(s)
  /\ hreq' = IF hreq[s].tries < MaxRetries
             THEN [hreq EXCEPT ![s].tries = @ + 1]
             ELSE [hreq EXCEPT ![s].pc = "settling", ![s].ok = FALSE]

-----------------------------------------------------------------------------
(* verify. *)

StartVerify(s, h) ==
  /\ heal[h].status = "success"
  /\ Begin(s, "verify", h, "checking")
  /\ UNCHANGED <<alertVars, heal, hdraft, calls, audits>>

RefuseVerify(s, h) ==
  /\ heal[h].status # "success"
  /\ Begin(s, "verify", h, "failed")
  /\ UNCHANGED <<alertVars, heal, hdraft, calls, audits>>

Resolvable(status) == status = "resolved" \/ TransitionAllowed(status, "resolved")

\* Reading the alert flushes the action's new status first.
MarkVerified(s, recovered) ==
  LET h == hreq[s].id
      status == alerts[AlertOf[h]].status
  IN  /\ hreq[s].pc = "checking"
      /\ ~HealDrafted(h)
      /\ recovered => Resolvable(status)
      /\ WriteHeal(s, h, [heal[h] EXCEPT !.status = IF recovered THEN "verified" ELSE "failed"])
      /\ hreq' = [hreq EXCEPT ![s].pc = "settling", ![s].seen = status, ![s].ok = recovered]
      /\ UNCHANGED <<alertVars, heal, calls, audits>>

\* Recovered, but the alert was suppressed or has failed: InvalidAlertTransition.
RefuseRecovery(s) ==
  /\ hreq[s].pc = "checking"
  /\ ~HealDrafted(hreq[s].id)
  /\ ~Resolvable(alerts[AlertOf[hreq[s].id]].status)
  /\ RollBack(s)

-----------------------------------------------------------------------------
(* The flush of the alert row, and the end of a session. *)

Healed(status) == IF status \in {"firing", "processing"} THEN "healing" ELSE status

\* Variant: a successful execution resolves the alert at once.
EagerAlertTarget(s) == IF hreq[s].ok THEN "resolved" ELSE "failed"

\* The status of the session's alert object; _mark_alert_failed does not
\* consult the state machine.
AlertTarget(s) ==
  IF ~hreq[s].ok THEN "failed"
  ELSE IF hreq[s].op = "verify" THEN "resolved" ELSE Healed(hreq[s].seen)

\* The column is in the UPDATE only if it differs from what was loaded.
SettledAlert(s, row) ==
  [row EXCEPT !.status   = IF AlertTarget(s) = hreq[s].seen THEN @ ELSE AlertTarget(s),
              !.resolved = @ \/ (hreq[s].op = "verify" /\ hreq[s].ok)]

\* execute writes healing before anything else, also when it then fails.
MakesActive(s) == hreq[s].op = "execute" /\ Healed(hreq[s].seen) # hreq[s].seen

\* The alert's UPDATE waits for the row; execute's action row has its result.
Settle(s) ==
  LET h == hreq[s].id
      i == AlertOf[h]
  IN  /\ hreq[s].pc = "settling"
      /\ ~Drafted(i)
      /\ MakesActive(s) => IndexFree(i)
      /\ WriteRow(s, i, SettledAlert(s, alerts[i]))
      /\ IF hreq[s].op = "execute"
         THEN WriteHeal(s, h, [hdraft[h].row EXCEPT !.status =
                                 IF hreq[s].ok THEN "success" ELSE "failed"])
         ELSE UNCHANGED hdraft
      /\ hreq' = [hreq EXCEPT ![s].pc = "ready"]
      /\ UNCHANGED <<alerts, req, trail, heal, calls, audits>>

\* Meanwhile the alert was closed and its fingerprint fired again: making the
\* old row active violates the unique index, after the executor was called.
SettleConflict(s) ==
  /\ hreq[s].pc = "settling"
  /\ ~Drafted(AlertOf[hreq[s].id])
  /\ MakesActive(s)
  /\ IndexTaken(AlertOf[hreq[s].id])
  /\ RollBack(s)

AuditAction(op) ==
  IF op = "approve" THEN "HEAL_APPROVE"
  ELSE IF op = "reject" THEN "HEAL_CANCEL" ELSE "HEAL_EXECUTE"

AuditRow(s) ==
  [req    |-> s,
   id     |-> hreq[s].id,
   action |-> AuditAction(hreq[s].op),
   result |-> IF hreq[s].op = "execute" /\ ~hreq[s].ok THEN "failed" ELSE "success"]

\* Variant: only what an administrator does is audited.
AdminAuditsOf(s) ==
  IF hreq[s].op \in {"approve", "reject"} THEN {AuditRow(s)} ELSE {}

\* create and verify write no audit row.
AuditsOf(s) ==
  IF hreq[s].op \in {"approve", "reject", "execute"} THEN {AuditRow(s)} ELSE {}

Commit(s) ==
  /\ hreq[s].pc = "ready"
  /\ heal' = [h \in HealIds |-> IF hdraft[h].owner = s THEN hdraft[h].row ELSE heal[h]]
  /\ DropHealDrafts(s)
  /\ PublishDrafts(s)
  /\ audits' = audits \cup AuditsOf(s)
  /\ hreq' = [hreq EXCEPT ![s].pc = "done"]
  /\ UNCHANGED <<req, trail, calls>>

\* Cancellation, a lost connection or the death of the process before COMMIT.
Abort(s) ==
  /\ hreq[s].pc \notin {"idle", "done", "failed"}
  /\ RollBack(s)

-----------------------------------------------------------------------------

\* id has no meaning before the request names an action.
IdleHealRequest ==
  [pc |-> "idle", op |-> "none", id |-> CHOOSE h \in HealIds : TRUE,
   seen |-> "firing", tries |-> 0, ok |-> FALSE]

Init ==
  /\ AlertInit
  /\ heal = [h \in HealIds |-> NoHealRow]
  /\ hdraft = [h \in HealIds |-> NoHealDraft]
  /\ hreq = [s \in HealRequests |-> IdleHealRequest]
  /\ calls = [h \in HealIds |-> 0]
  /\ audits = {}

Call(s, h) ==
  \/ ReturnExisting(s, h) \/ DecideToCreate(s, h)
  \/ \E op \in {"approve", "reject"} : Decide(s, h, op) \/ RefuseDecision(s, h, op)
  \/ StartExecute(s, h) \/ RefuseExecute(s, h)
  \/ StartVerify(s, h) \/ RefuseVerify(s, h)

Serve(s) ==
  \/ InsertAction(s) \/ InsertConflict(s)
  \/ MarkHealing(s) \/ CallSucceeds(s) \/ CallFails(s)
  \/ \E recovered \in BOOLEAN : MarkVerified(s, recovered)
  \/ RefuseRecovery(s)
  \/ Settle(s) \/ SettleConflict(s) \/ Commit(s)

HealNext ==
  \E s \in HealRequests : (\E h \in HealIds : Call(s, h)) \/ Serve(s) \/ Abort(s)

Next == HealNext \/ (AlertNext /\ UNCHANGED healVars)

Spec == Init /\ [][Next]_vars

\* Handlers that are not blocked run on and the executor answers; nobody has
\* to send a request or to abort one.
Fairness ==
  /\ \A s \in HealRequests : WF_vars(Serve(s))
  /\ \A r \in AlertRequests : WF_vars(ServeRequest(r) /\ UNCHANGED healVars)

FairSpec == Spec /\ Fairness

-----------------------------------------------------------------------------
(* Properties. *)

\* Every variable has its type.
HealTypeOK ==
  /\ AlertTypeOK
  /\ heal \in [HealIds -> HealRow]
  /\ hdraft \in [HealIds -> [owner : HealRequests \cup {Nobody}, row : HealRow]]
  /\ hreq \in [HealRequests -> HealRequest]
  /\ calls \in [HealIds -> Nat]
  /\ audits \subseteq HealAudit

Audited(h, action) == \E e \in audits : e.id = h /\ e.action = action

Runnable == {"pending", "executing", "success", "verified"}

\* A high-risk action that can be executed, or ever was, carries its approver
\* and the audit row of the approval (healing/service.py:48 and 65-90).
ApprovalGate ==
  \A h \in HealIds :
    heal[h].risk = "high" /\ (heal[h].status \in Runnable \/ calls[h] > 0) =>
      heal[h].approved /\ Audited(h, "HEAL_APPROVE")

Decisions(h) == {e \in audits : e.id = h /\ e.action \in {"HEAL_APPROVE", "HEAL_CANCEL"}}

\* However approvals and rejections of an action race, one of them counts and
\* one is audited (tests/test_healing_service.py, approve and reject serialise).
OneDecision == \A h \in HealIds : \A d, e \in Decisions(h) : d = e

\* A rejected action stays failed and its executor is never called.
RejectionFinal ==
  \A h \in HealIds :
    Audited(h, "HEAL_CANCEL") => heal[h].status = "failed" /\ calls[h] = 0

\* The unique constraint on heal_actions (docs/codebase/data/README.md:50):
\* one action per alert and action type, however decisions race.
OneActionPerAlertAndType ==
  \A g, h \in HealIds :
    g \in Siblings(h) /\ heal[g].status # Absent /\ heal[h].status # Absent => g = h

\* A success on record was reached by calling the executor and has its
\* HEAL_EXECUTE audit row.
SuccessIsAudited ==
  \A h \in HealIds :
    heal[h].status \in {"success", "verified"} =>
      /\ calls[h] > 0
      /\ \E e \in audits : e.id = h /\ e.action = "HEAL_EXECUTE" /\ e.result = "success"

\* An alert is healing or failed only after the executor was called for it.
TreatedAlertsWereCalled ==
  \A i \in AlertIds :
    alerts[i].status \in {"healing", "failed"} =>
      \E h \in HealIds : AlertOf[h] = i /\ calls[h] > 0

\* Whatever the API, ingestion and healing commit in between: an alert becomes
\* resolved only in a transaction that audits a user's resolve or leaves an
\* action on it verified, never by a mere success of the executor, and verifying an
\* action leaves its alert with a resolved_at (healing/service.py:168-188).
ResolutionExplained ==
  [][/\ \A i \in AlertIds :
          alerts[i].status # "resolved" /\ alerts'[i].status = "resolved" =>
            \/ \E e \in trail' \ trail : e.id = i /\ e.after = "resolved"
            \/ \E h \in HealIds : AlertOf[h] = i /\ heal'[h].status = "verified"
     /\ \A h \in HealIds :
          heal[h].status # "verified" /\ heal'[h].status = "verified" =>
            alerts'[AlertOf[h]].resolved]_vars

\* Where an action stands with its approval, read off its row.
GateOf(row) ==
  IF row.status = Absent THEN "none"
  ELSE IF row.status = "waiting_approval" THEN "waiting"
  ELSE IF row.status = "failed" /\ row.risk = "high" /\ ~row.approved THEN "rejected"
  ELSE "cleared"

Gate == INSTANCE HealApproval WITH gate <- [h \in HealIds |-> GateOf(heal[h])]

\* The service with its sessions, locks, retries and crashes implements the
\* approval protocol of HealApproval.
ImplementsApproval == Gate!GateSpec

\* Every healing request that was started ends, whoever holds the rows it needs.
EveryHealRequestEnds ==
  \A s \in HealRequests :
    hreq[s].pc # "idle" ~> hreq[s].pc \in {"done", "failed"}

\* execute's docstring (healing/service.py:126), "retrying failures up to
\* max_retries times", read with docs/codebase/data/README.md:50: an action
\* is handed to the executor at most max_retries + 1 times.
CallsBounded == \A h \in HealIds : calls[h] <= MaxRetries + 1

=============================================================================
