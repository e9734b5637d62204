--------------------------- MODULE HealingProofs ---------------------------
(***************************************************************************)
(* Theorems about Healing, for any actions, alerts, sessions and number of *)
(* retries: its types and the approval gate first, then what it leaves on  *)
(* record: one action per alert and type, successes that were called for   *)
(* and audited, alerts that are treated or resolved only by what the rows  *)
(* say.                                                                    *)
(***************************************************************************)
EXTENDS Healing, AlertProofs

HealPcs ==
  {"idle", "inserting", "marking", "running", "checking",
   "settling", "ready", "done", "failed"}

HealRowsTyped ==
  /\ heal \in [HealIds -> HealRow]
  /\ hdraft \in [HealIds -> [owner : HealRequests \cup {Nobody}, row : HealRow]]

\* HealTypeOK, strengthened by what keeps the alert requests well typed.
TypeInv == HealTypeOK /\ PositionOK

-----------------------------------------------------------------------------
(* Rows of heal_actions. *)

LEMMA NoHealDraftTyped ==
  NoHealDraft \in [owner : HealRequests \cup {Nobody}, row : HealRow]
BY DEF NoHealDraft, NoHealRow, HealRow, RiskLevels

LEMMA DropHealDraftsTyped ==
  ASSUME HealRowsTyped, NEW s, DropHealDrafts(s), UNCHANGED heal
  PROVE  HealRowsTyped'
BY NoHealDraftTyped DEF HealRowsTyped, DropHealDrafts

LEMMA WriteHealTyped ==
  ASSUME HealRowsTyped, NEW s \in HealRequests, NEW h \in HealIds, NEW row \in HealRow,
         WriteHeal(s, h, row), UNCHANGED heal
  PROVE  HealRowsTyped'
BY DEF HealRowsTyped, WriteHeal

LEMMA StatusUpdateTyped ==
  ASSUME NEW row \in HealRow, NEW status \in HealStatuses
  PROVE  [row EXCEPT !.status = status] \in HealRow
BY DEF HealRow

LEMMA DecidedTyped ==
  ASSUME NEW row \in HealRow, NEW op
  PROVE  Decided(row, op) \in HealRow
<1>1. "failed" \in HealStatuses /\ "pending" \in HealStatuses
  BY DEF HealStatuses
<1>2. [row EXCEPT !.status = "failed"] \in HealRow
  BY <1>1, StatusUpdateTyped
<1>3. [row EXCEPT !.status = "pending", !.approved = TRUE] \in HealRow
  BY <1>1 DEF HealRow
<1>4. QED
  BY <1>2, <1>3 DEF Decided

LEMMA InsertedTyped ==
  ASSUME NEW risk \in RiskLevels
  PROVE  [status   |-> IF risk = "high" THEN "waiting_approval" ELSE "pending",
          risk     |-> risk,
          approved |-> FALSE] \in HealRow
BY DEF HealRow, HealStatuses

-----------------------------------------------------------------------------
(* Type correctness, one lemma per kind of action. *)

LEMMA InitTyped ==
  ASSUME AlertAssumption, HealAssumption, Init
  PROVE  TypeInv
<1>1. AlertInv
  BY AlertAssumption, InitInv DEF Init
<1>2. HealRowsTyped
  BY NoHealDraftTyped DEF Init, HealRowsTyped, NoHealRow, HealRow, RiskLevels
<1>3. hreq \in [HealRequests -> HealRequest]
  <2>1. (CHOOSE h \in HealIds : TRUE) \in HealIds
    BY HealAssumption DEF HealAssumption
  <2>2. "firing" \in RowStatuses /\ 0 \in 0..MaxRetries
    BY HealAssumption DEF RowStatuses, AlertStatuses, HealAssumption
  <2>3. IdleHealRequest \in HealRequest
    BY <2>1, <2>2 DEF IdleHealRequest, HealRequest, Operations
  <2>4. QED
    BY <2>3 DEF Init
<1>4. calls \in [HealIds -> Nat] /\ audits \subseteq HealAudit
  BY DEF Init
<1>5. QED
  BY <1>1, <1>2, <1>3, <1>4 DEF TypeInv, HealTypeOK, AlertInv, HealRowsTyped

LEMMA BeginTyped ==
  ASSUME hreq \in [HealRequests -> HealRequest],
         NEW s \in HealRequests, NEW h \in HealIds,
         NEW op \in Operations, NEW pc \in HealPcs, Begin(s, op, h, pc)
  PROVE  hreq' \in [HealRequests -> HealRequest]
<1> DEFINE q == [hreq[s] EXCEPT !.op = op, !.id = h, !.pc = pc]
<1>1. q \in HealRequest
  BY DEF HealRequest, HealPcs
<1>2. hreq' = [hreq EXCEPT ![s] = q]
  BY DEF Begin
<1>3. QED
  BY <1>1, <1>2

LEMMA MovedHealRequest ==
  ASSUME hreq \in [HealRequests -> HealRequest],
         NEW s \in HealRequests, NEW pc \in HealPcs, hreq' = [hreq EXCEPT ![s].pc = pc]
  PROVE  hreq' \in [HealRequests -> HealRequest]
BY DEF HealRequest, HealPcs

LEMMA RollBackTyped ==
  ASSUME TypeInv, NEW s \in HealRequests, RollBack(s)
  PROVE  TypeInv'
<1>1. RowsTyped'
  BY DropDraftsTyped DEF TypeInv, HealTypeOK, AlertTypeOK, RowsTyped, RollBack
<1>2. HealRowsTyped'
  BY DropHealDraftsTyped DEF TypeInv, HealTypeOK, HealRowsTyped, RollBack
<1>3. hreq' \in [HealRequests -> HealRequest]
  BY MovedHealRequest DEF TypeInv, HealTypeOK, RollBack, HealPcs
<1>4. QED
  BY <1>1, <1>2, <1>3
     DEF TypeInv, HealTypeOK, AlertTypeOK, RowsTyped, HealRowsTyped, RollBack,
         PositionOK, Positioned

LEMMA CallTyped ==
  ASSUME TypeInv, NEW s \in HealRequests, NEW h \in HealIds, Call(s, h)
  PROVE  TypeInv'
<1>1. UNCHANGED <<alertVars, heal, calls, audits>>
  BY DEF Call, ReturnExisting, DecideToCreate, Decide, RefuseDecision,
         StartExecute, RefuseExecute, StartVerify, RefuseVerify
<1>2. \E op \in Operations, pc \in HealPcs : Begin(s, op, h, pc)
  BY DEF Call, ReturnExisting, DecideToCreate, Decide, RefuseDecision,
         StartExecute, RefuseExecute, StartVerify, RefuseVerify, Operations, HealPcs
<1>3. hreq' \in [HealRequests -> HealRequest]
  BY <1>2, BeginTyped DEF TypeInv, HealTypeOK
<1>4. HealRowsTyped'
  <2>1. CASE UNCHANGED hdraft
    BY <1>1, <2>1 DEF TypeInv, HealTypeOK, HealRowsTyped
  <2>2. ASSUME NEW op, Decide(s, h, op)
        PROVE  HealRowsTyped'
    <3>1. heal[h] \in HealRow /\ HealRowsTyped
      BY DEF TypeInv, HealTypeOK, HealRowsTyped
    <3>2. Decided(heal[h], op) \in HealRow
      BY <3>1, DecidedTyped
    <3>3. WriteHeal(s, h, Decided(heal[h], op)) /\ UNCHANGED heal
      BY <2>2 DEF Decide
    <3>4. QED
      BY <3>1, <3>2, <3>3, WriteHealTyped
  <2>3. UNCHANGED hdraft \/ \E op : Decide(s, h, op)
    BY DEF Call, ReturnExisting, DecideToCreate, RefuseDecision,
           StartExecute, RefuseExecute, StartVerify, RefuseVerify
  <2>4. QED
    BY <2>1, <2>2, <2>3
<1>5. QED
  BY <1>1, <1>3, <1>4
     DEF TypeInv, HealTypeOK, AlertTypeOK, HealRowsTyped, PositionOK, Positioned, alertVars

LEMMA InsertTyped ==
  ASSUME TypeInv, NEW s \in HealRequests, InsertAction(s)
  PROVE  TypeInv'
<1> DEFINE h == hreq[s].id
<1>1. HealRowsTyped /\ hreq \in [HealRequests -> HealRequest] /\ h \in HealIds
  BY DEF TypeInv, HealTypeOK, HealRowsTyped, HealRequest
<1>2. PICK row \in HealRow : WriteHeal(s, h, row)
  BY InsertedTyped DEF InsertAction
<1>3. UNCHANGED <<alertVars, heal, calls, audits>> /\ hreq' = [hreq EXCEPT ![s].pc = "ready"]
  BY DEF InsertAction
<1> HIDE DEF h
<1>4. HealRowsTyped'
  BY <1>1, <1>2, <1>3, WriteHealTyped
<1>5. hreq' \in [HealRequests -> HealRequest]
  BY <1>1, <1>3, MovedHealRequest DEF HealPcs
<1>6. QED
  BY <1>3, <1>4, <1>5
     DEF TypeInv, HealTypeOK, AlertTypeOK, HealRowsTyped, PositionOK, Positioned, alertVars

LEMMA MarkHealingTyped ==
  ASSUME HealAssumption, TypeInv, NEW s \in HealRequests, MarkHealing(s)
  PROVE  TypeInv'
<1> DEFINE h == hreq[s].id
<1>1. HealRowsTyped /\ hreq \in [HealRequests -> HealRequest] /\ h \in HealIds
  BY DEF TypeInv, HealTypeOK, HealRowsTyped, HealRequest
<1>2. /\ WriteHeal(s, h, [heal[h] EXCEPT !.status = "executing"])
      /\ hreq' = [hreq EXCEPT ![s].pc = "running", ![s].seen = alerts[AlertOf[h]].status]
      /\ UNCHANGED <<alertVars, heal, calls, audits>>
  BY DEF MarkHealing
<1>3. alerts[AlertOf[h]].status \in RowStatuses
  BY <1>1, HealAssumption DEF HealAssumption, TypeInv, HealTypeOK, AlertTypeOK, AlertRow
<1> HIDE DEF h
<1>4. [heal[h] EXCEPT !.status = "executing"] \in HealRow
  BY <1>1, StatusUpdateTyped DEF HealRowsTyped, HealStatuses
<1>5. HealRowsTyped'
  BY <1>1, <1>2, <1>4, WriteHealTyped
<1>6. hreq' \in [HealRequests -> HealRequest]
  BY <1>1, <1>2, <1>3 DEF HealRequest
<1>7. QED
  BY <1>2, <1>5, <1>6
     DEF TypeInv, HealTypeOK, AlertTypeOK, HealRowsTyped, PositionOK, Positioned, alertVars

LEMMA MarkVerifiedTyped ==
  ASSUME HealAssumption, TypeInv, NEW s \in HealRequests, NEW recovered \in BOOLEAN,
         MarkVerified(s, recovered)
  PROVE  TypeInv'
<1> DEFINE h == hreq[s].id
           status == IF recovered THEN "verified" ELSE "failed"
<1>1. HealRowsTyped /\ hreq \in [HealRequests -> HealRequest] /\ h \in HealIds
  BY DEF TypeInv, HealTypeOK, HealRowsTyped, HealRequest
<1>2. /\ WriteHeal(s, h, [heal[h] EXCEPT !.status = status])
      /\ hreq' = [hreq EXCEPT ![s].pc = "settling", ![s].seen = alerts[AlertOf[h]].status,
                              ![s].ok = recovered]
      /\ UNCHANGED <<alertVars, heal, calls, audits>>
  BY DEF MarkVerified
<1>3. alerts[AlertOf[h]].status \in RowStatuses
  BY <1>1, HealAssumption DEF HealAssumption, TypeInv, HealTypeOK, AlertTypeOK, AlertRow
<1>4. status \in HealStatuses
  BY DEF HealStatuses
<1> HIDE DEF h, status
<1>5. [heal[h] EXCEPT !.status = status] \in HealRow
  BY <1>1, <1>4, StatusUpdateTyped DEF HealRowsTyped
<1>6. HealRowsTyped'
  BY <1>1, <1>2, <1>5, WriteHealTyped
<1>7. hreq' \in [HealRequests -> HealRequest]
  <2> DEFINE seen == alerts[AlertOf[h]].status
             q == [hreq[s] EXCEPT !.pc = "settling", !.seen = seen, !.ok = recovered]
  <2>1. hreq' = [hreq EXCEPT ![s] = q]
    BY <1>2
  <2>2. hreq[s] \in HealRequest /\ seen \in RowStatuses
    BY <1>1, <1>3
  <2> HIDE DEF seen
  <2>3. q \in HealRequest
    BY <2>2 DEF HealRequest
  <2>4. QED
    BY <1>1, <2>1, <2>3
<1>8. QED
  BY <1>2, <1>6, <1>7
     DEF TypeInv, HealTypeOK, AlertTypeOK, HealRowsTyped, PositionOK, Positioned, alertVars

LEMMA ExecutorTyped ==
  ASSUME HealAssumption, TypeInv, NEW s \in HealRequests, CallSucceeds(s) \/ CallFails(s)
  PROVE  TypeInv'
<1>1. hreq \in [HealRequests -> HealRequest] /\ hreq[s].id \in HealIds
  BY DEF TypeInv, HealTypeOK, HealRequest
<1>2. calls' = [calls EXCEPT ![hreq[s].id] = @ + 1]
      /\ UNCHANGED <<alertVars, heal, hdraft, audits>>
  BY DEF CallSucceeds, CallFails, CallExecutor
<1>3. calls' \in [HealIds -> Nat]
  <2>1. calls \in [HealIds -> Nat] /\ calls[hreq[s].id] + 1 \in Nat
    BY <1>1 DEF TypeInv, HealTypeOK
  <2>2. QED
    BY <1>2, <2>1
<1>4. hreq' \in [HealRequests -> HealRequest]
  <2>1. CASE CallSucceeds(s)
    BY <1>1, <2>1 DEF CallSucceeds, HealRequest
  <2>2. CASE CallFails(s) /\ hreq[s].tries < MaxRetries
    <3>1. hreq[s].tries + 1 \in 0..MaxRetries
      BY <1>1, <2>2, HealAssumption DEF HealRequest, HealAssumption
    <3> DEFINE tries == hreq[s].tries + 1
    <3>2. hreq' = [hreq EXCEPT ![s].tries = tries]
      BY <2>2 DEF CallFails
    <3>3. tries \in 0..MaxRetries
      BY <3>1
    <3> HIDE DEF tries
    <3>4. QED
      BY <1>1, <3>2, <3>3 DEF HealRequest
  <2>3. CASE CallFails(s) /\ ~(hreq[s].tries < MaxRetries)
    <3>1. hreq' = [hreq EXCEPT ![s].pc = "settling", ![s].ok = FALSE]
      BY <2>3 DEF CallFails
    <3>2. [hreq[s] EXCEPT !.pc = "settling", !.ok = FALSE] \in HealRequest
      BY <1>1 DEF HealRequest
    <3>3. QED
      BY <1>1, <3>1, <3>2
  <2>4. QED
    BY <2>1, <2>2, <2>3
<1>5. QED
  BY <1>2, <1>3, <1>4
     DEF TypeInv, HealTypeOK, AlertTypeOK, PositionOK, Positioned, alertVars

LEMMA SettledTyped ==
  ASSUME NEW s \in HealRequests, NEW row \in AlertRow
  PROVE  SettledAlert(s, row) \in AlertRow
<1> DEFINE status == IF AlertTarget(s) = hreq[s].seen THEN row.status ELSE AlertTarget(s)
           resolved == row.resolved \/ (hreq[s].op = "verify" /\ hreq[s].ok)
<1>1. AlertTarget(s) # hreq[s].seen => AlertTarget(s) \in {"failed", "resolved", "healing"}
  BY DEF AlertTarget, Healed
<1>2. status \in RowStatuses
  BY <1>1 DEF AlertRow, RowStatuses, AlertStatuses
<1>3. resolved \in BOOLEAN
  OBVIOUS
<1>4. SettledAlert(s, row) = [row EXCEPT !.status = status, !.resolved = resolved]
  BY DEF SettledAlert
<1> HIDE DEF status, resolved
<1>5. QED
  BY <1>2, <1>3, <1>4 DEF AlertRow

LEMMA SettleTyped ==
  ASSUME HealAssumption, TypeInv, NEW s \in HealRequests, Settle(s)
  PROVE  TypeInv'
<1> DEFINE h == hreq[s].id
           status == IF hreq[s].ok THEN "success" ELSE "failed"
           row == SettledAlert(s, alerts[AlertOf[h]])
<1>1. /\ HealRowsTyped /\ RowsTyped
      /\ hreq \in [HealRequests -> HealRequest]
      /\ h \in HealIds /\ AlertOf[h] \in AlertIds /\ s \in Sessions
  BY HealAssumption DEF TypeInv, HealTypeOK, AlertTypeOK, RowsTyped, HealRowsTyped,
     HealRequest, HealAssumption
<1>2. row \in AlertRow
  BY <1>1, SettledTyped DEF RowsTyped
<1>3. /\ WriteRow(s, AlertOf[h], row)
      /\ WriteHeal(s, h, [hdraft[h].row EXCEPT !.status = status]) \/ UNCHANGED hdraft
      /\ hreq' = [hreq EXCEPT ![s].pc = "ready"]
      /\ UNCHANGED <<alerts, req, trail, heal, calls, audits>>
  BY DEF Settle
<1>4. status \in HealStatuses
  BY DEF HealStatuses
<1> HIDE DEF h, status, row
<1>5. RowsTyped'
  BY <1>1, <1>2, <1>3, WriteRowTyped
<1>6. HealRowsTyped'
  <2>1. [hdraft[h].row EXCEPT !.status = status] \in HealRow
    BY <1>1, <1>4, StatusUpdateTyped DEF HealRowsTyped
  <2>2. CASE WriteHeal(s, h, [hdraft[h].row EXCEPT !.status = status])
    BY <1>1, <1>3, <2>1, <2>2, WriteHealTyped
  <2>3. CASE UNCHANGED hdraft
    BY <1>1, <1>3, <2>3 DEF HealRowsTyped
  <2>4. QED
    BY <1>3, <2>2, <2>3
<1>7. hreq' \in [HealRequests -> HealRequest]
  BY <1>1, <1>3, MovedHealRequest DEF HealPcs
<1>8. QED
  BY <1>3, <1>5, <1>6, <1>7
     DEF TypeInv, HealTypeOK, AlertTypeOK, RowsTyped, HealRowsTyped, PositionOK, Positioned

LEMMA AuditRowTyped ==
  ASSUME hreq \in [HealRequests -> HealRequest], NEW s \in HealRequests
  PROVE  AuditRow(s) \in HealAudit
<1>1. hreq[s].id \in HealIds
  BY DEF HealRequest
<1>2. QED
  BY <1>1 DEF AuditRow, AuditAction, HealAudit, AuditActions

LEMMA CommitTyped ==
  ASSUME TypeInv, NEW s \in HealRequests, Commit(s)
  PROVE  TypeInv'
<1>1. RowsTyped'
  BY PublishDraftsTyped DEF TypeInv, HealTypeOK, AlertTypeOK, RowsTyped, Commit
<1>2. HealRowsTyped'
  BY NoHealDraftTyped DEF TypeInv, HealTypeOK, HealRowsTyped, Commit, DropHealDrafts
<1>3. hreq' \in [HealRequests -> HealRequest]
  BY MovedHealRequest DEF TypeInv, HealTypeOK, Commit, HealPcs
<1>4. audits' \subseteq HealAudit
  BY AuditRowTyped DEF TypeInv, HealTypeOK, Commit, AuditsOf
<1>5. UNCHANGED <<req, trail, calls>>
  BY DEF Commit
<1>6. QED
  BY <1>1, <1>2, <1>3, <1>4, <1>5
     DEF TypeInv, HealTypeOK, AlertTypeOK, RowsTyped, HealRowsTyped, PositionOK, Positioned

LEMMA StepTyped ==
  ASSUME AlertAssumption, HealAssumption, TypeInv, [Next]_vars
  PROVE  TypeInv'
<1>1. CASE UNCHANGED vars
  BY <1>1 DEF vars, alertVars, healVars, TypeInv, HealTypeOK, AlertTypeOK,
     PositionOK, Positioned
<1>2. CASE AlertNext /\ UNCHANGED healVars
  <2>1. AlertInv'
    BY <1>2, AlertAssumption, StepInv DEF TypeInv, HealTypeOK, AlertInv
  <2>2. QED
    BY <1>2, <2>1 DEF TypeInv, HealTypeOK, AlertInv, healVars
<1>3. ASSUME NEW s \in HealRequests, (\E h \in HealIds : Call(s, h)) \/ Serve(s) \/ Abort(s)
      PROVE  TypeInv'
  BY <1>3, HealAssumption, CallTyped, InsertTyped, RollBackTyped, MarkHealingTyped,
     ExecutorTyped, MarkVerifiedTyped, SettleTyped, CommitTyped
     DEF Serve, InsertConflict, RefuseRecovery, SettleConflict, Abort
<1>4. QED
  BY <1>1, <1>2, <1>3 DEF Next, HealNext

\* Every variable of the composition has its type in every reachable state.
THEOREM HealTypeCorrect == Spec => []HealTypeOK
<1>1. Init => TypeInv
  BY AlertAssumption, HealAssumption, InitTyped
<1>2. TypeInv /\ [Next]_vars => TypeInv'
  BY AlertAssumption, HealAssumption, StepTyped
<1>3. TypeInv => HealTypeOK
  BY DEF TypeInv
<1>4. QED
  BY <1>1, <1>2, <1>3, PTL DEF Spec

-----------------------------------------------------------------------------
(* Approval.  The invariant relates each committed action to its audit rows *)
(* and executor calls, each uncommitted version to the operation that wrote *)
(* it, and each running operation to the gate it passed when it started.    *)

\* A committed action: its status, approver, calls and audit rows agree.
RowSound(h) ==
  /\ GateOf(heal[h]) = "waiting" => heal[h].risk = "high" /\ ~heal[h].approved
  /\ GateOf(heal[h]) = "cleared" /\ heal[h].risk = "high" => heal[h].approved
  /\ heal[h].approved => Audited(h, "HEAL_APPROVE")
  /\ Audited(h, "HEAL_APPROVE") => GateOf(heal[h]) = "cleared"
  /\ Audited(h, "HEAL_CANCEL") => GateOf(heal[h]) = "rejected"
  /\ \A d, e \in Decisions(h) : d = e
  /\ calls[h] > 0 => GateOf(heal[h]) = "cleared"

\* An uncommitted version of row h, written by operation q over version old.
WriteSound(q, h, old, new) ==
  /\ q.id = h
  /\ q.pc \in {"running", "settling", "ready"}
  /\ q.op \in {"create", "approve", "reject", "execute", "verify"}
  /\ q.op = "create" =>
       /\ GateOf(old) = "none"
       /\ ~new.approved
       /\ new.status = (IF new.risk = "high" THEN "waiting_approval" ELSE "pending")
  /\ q.op \in {"approve", "reject"} =>
       q.pc = "ready" /\ GateOf(old) = "waiting" /\ new = Decided(old, q.op)
  /\ q.op \in {"execute", "verify"} =>
       /\ GateOf(old) = "cleared"
       /\ new.risk = old.risk /\ new.approved = old.approved
       /\ new.status \in {"executing", "success", "verified", "failed"}

DraftSound(h) ==
  HealDrafted(h) => WriteSound(hreq[hdraft[h].owner], h, heal[h], hdraft[h].row)

Running(q) == q.pc \notin {"idle", "done", "failed"}

\* It has written the row of its action.
Holding(q) ==
  /\ Running(q)
  /\ \/ q.op \in {"approve", "reject"}
     \/ q.op \in {"execute", "verify"} /\ q.pc \notin {"marking", "checking"}

\* A running operation: what it still relies on.
RequestSound(s) ==
  /\ hreq[s].pc = "inserting" => hreq[s].op = "create"
  /\ hreq[s].pc \in {"marking", "running"} => hreq[s].op = "execute"
  /\ hreq[s].pc = "checking" => hreq[s].op = "verify"
  /\ hreq[s].pc = "settling" => hreq[s].op \in {"execute", "verify"}
  /\ Running(hreq[s]) /\ hreq[s].op \in {"execute", "verify"} =>
       GateOf(heal[hreq[s].id]) = "cleared"
  /\ Holding(hreq[s]) => hdraft[hreq[s].id].owner = s

GateInv ==
  /\ \A h \in HealIds : RowSound(h)
  /\ \A h \in HealIds : DraftSound(h)
  /\ \A s \in HealRequests : RequestSound(s)

HealInv == TypeInv /\ GateInv

-----------------------------------------------------------------------------
(* What the writes do to the gate of their row. *)

LEMMA DecidedFacts ==
  ASSUME NEW row \in HealRow, NEW op
  PROVE  /\ Decided(row, op).risk = row.risk
         /\ op = "approve" => Decided(row, op).status = "pending" /\ Decided(row, op).approved
         /\ op # "approve" => /\ Decided(row, op).status = "failed"
                              /\ Decided(row, op).approved = row.approved
<1>1. CASE op = "approve"
  BY <1>1 DEF Decided, HealRow
<1>2. CASE op # "approve"
  BY <1>2 DEF Decided, HealRow
<1>3. QED
  BY <1>1, <1>2

LEMMA WriteMovesGate ==
  ASSUME NEW q, NEW h, NEW old \in HealRow, NEW new \in HealRow,
         WriteSound(q, h, old, new),
         GateOf(old) = "waiting" => old.risk = "high" /\ ~old.approved,
         GateOf(old) = "cleared" /\ old.risk = "high" => old.approved
  PROVE  /\ q.op = "create" =>
              /\ GateOf(old) = "none"
              /\ GateOf(new) = IF new.risk = "high" THEN "waiting" ELSE "cleared"
              /\ ~new.approved
         /\ q.op = "approve" =>
              GateOf(old) = "waiting" /\ GateOf(new) = "cleared" /\ new.approved
         /\ q.op = "reject" =>
              GateOf(old) = "waiting" /\ GateOf(new) = "rejected" /\ ~new.approved
         /\ q.op \in {"execute", "verify"} =>
              /\ GateOf(old) = "cleared" /\ GateOf(new) = "cleared"
              /\ new.approved = old.approved
              /\ new.risk = "high" => new.approved
<1>1. CASE q.op = "create"
  BY <1>1 DEF WriteSound, GateOf, Absent
<1>2. CASE q.op \in {"approve", "reject"}
  BY <1>2, DecidedFacts DEF WriteSound, GateOf, Absent
<1>3. CASE q.op \in {"execute", "verify"}
  BY <1>3 DEF WriteSound, GateOf, Absent
<1>4. QED
  BY <1>1, <1>2, <1>3

LEMMA NobodyElse ==
  ASSUME NEW s \in HealRequests PROVE s # Nobody
BY AlertAssumption, HealAssumption DEF AlertAssumption, HealAssumption

\* A step of session s that commits nothing and writes only unlocked rows.
LEMMA QuietStep ==
  ASSUME TypeInv, GateInv, NEW s \in HealRequests,
         UNCHANGED heal,
         \A h \in HealIds : RowSound(h)',
         \A t \in HealRequests \ {s} : hreq'[t] = hreq[t],
         \A h \in HealIds :
           \/ hdraft'[h] = hdraft[h]
           \/ hdraft[h].owner \in {Nobody, s} /\ hdraft'[h].owner \in {Nobody, s},
         \A h \in HealIds :
           hdraft'[h].owner = s => WriteSound(hreq'[s], h, heal[h], hdraft'[h].row),
         RequestSound(s)'
  PROVE  GateInv'
<1>1. ASSUME NEW h \in HealIds
      PROVE  DraftSound(h)'
  <2>1. SUFFICES ASSUME hdraft'[h].owner # Nobody
                 PROVE  WriteSound(hreq'[hdraft'[h].owner], h, heal'[h], hdraft'[h].row)
    BY DEF DraftSound, HealDrafted, WriteSound
  <2>2. CASE hdraft'[h].owner = s
    BY <2>2
  <2>3. CASE hdraft'[h].owner # s
    <3>1. hdraft'[h] = hdraft[h]
      BY <2>1, <2>3
    <3>2. hdraft[h].owner \in HealRequests \ {s}
      BY <2>1, <2>3, <3>1 DEF TypeInv, HealTypeOK
    <3>3. WriteSound(hreq[hdraft[h].owner], h, heal[h], hdraft[h].row)
      BY <2>1, <3>1 DEF GateInv, DraftSound, HealDrafted
    <3>4. QED
      BY <3>1, <3>2, <3>3
  <2>4. QED
    BY <2>2, <2>3
<1>2. ASSUME NEW t \in HealRequests, t # s, s # Nobody, t # Nobody
      PROVE  RequestSound(t)'
  <2>1. hreq'[t] = hreq[t] /\ RequestSound(t) /\ hreq[t].id \in HealIds
    BY <1>2 DEF GateInv, TypeInv, HealTypeOK, HealRequest
  <2>2. hdraft[hreq[t].id].owner = t => hdraft'[hreq[t].id] = hdraft[hreq[t].id]
    BY <1>2, <2>1
  <2>3. QED
    BY <2>1, <2>2 DEF RequestSound, Running, Holding
<1>3. QED
  BY <1>1, <1>2, NobodyElse DEF GateInv

LEMMA RowsUnchanged ==
  ASSUME GateInv, UNCHANGED <<heal, calls, audits>>
  PROVE  \A h \in HealIds : RowSound(h)'
BY DEF GateInv, RowSound, Audited, Decisions

\* A session without a running operation has written nothing.
LEMMA NothingWritten ==
  ASSUME GateInv, NEW s \in HealRequests, hreq[s].pc \notin {"running", "settling", "ready"}
  PROVE  \A h \in HealIds : hdraft[h].owner # s
BY NobodyElse DEF GateInv, DraftSound, HealDrafted, WriteSound

\* A session writes no other row than that of its action.
LEMMA OwnRowOnly ==
  ASSUME GateInv, NEW s \in HealRequests, NEW h \in HealIds, hdraft[h].owner = s
  PROVE  WriteSound(hreq[s], h, heal[h], hdraft[h].row) /\ hreq[s].id = h
BY NobodyElse DEF GateInv, DraftSound, HealDrafted, WriteSound

LEMMA BeginFacts ==
  ASSUME hreq \in [HealRequests -> HealRequest], NEW s \in HealRequests,
         NEW op, NEW h, NEW pc, Begin(s, op, h, pc)
  PROVE  /\ hreq[s].pc = "idle"
         /\ hreq'[s].op = op /\ hreq'[s].id = h /\ hreq'[s].pc = pc
         /\ \A t \in HealRequests \ {s} : hreq'[t] = hreq[t]
<1>1. hreq' = [hreq EXCEPT ![s] = [hreq[s] EXCEPT !.op = op, !.id = h, !.pc = pc]]
  BY DEF Begin
<1>2. hreq'[s] = [hreq[s] EXCEPT !.op = op, !.id = h, !.pc = pc]
  BY <1>1
<1>3. hreq[s] \in HealRequest
  OBVIOUS
<1>4. hreq'[s].op = op /\ hreq'[s].id = h /\ hreq'[s].pc = pc
  BY <1>2, <1>3 DEF HealRequest
<1>5. QED
  BY <1>1, <1>4 DEF Begin

\* A call that only reads.
LEMMA BeginSound ==
  ASSUME TypeInv, GateInv, NEW s \in HealRequests, NEW h \in HealIds, NEW op, NEW pc,
         Begin(s, op, h, pc), UNCHANGED <<heal, hdraft, calls, audits>>,
         \/ pc = "failed"
         \/ op = "create" /\ pc \in {"inserting", "ready"}
         \/ op = "execute" /\ pc = "marking" /\ GateOf(heal[h]) = "cleared"
         \/ op = "verify" /\ pc = "checking" /\ GateOf(heal[h]) = "cleared"
  PROVE  GateInv'
<1>1. /\ hreq[s].pc = "idle"
      /\ hreq'[s].op = op /\ hreq'[s].id = h /\ hreq'[s].pc = pc
      /\ \A t \in HealRequests \ {s} : hreq'[t] = hreq[t]
  BY BeginFacts DEF TypeInv, HealTypeOK
<1>2. RequestSound(s)'
  BY <1>1 DEF RequestSound, Running, Holding
<1>3. \A g \in HealIds : hdraft'[g].owner # s
  BY <1>1, NothingWritten
<1>4. QED
  BY <1>1, <1>2, <1>3, RowsUnchanged, QuietStep

LEMMA WriteHealFacts ==
  ASSUME HealRowsTyped, NEW s, NEW h \in HealIds, NEW row, WriteHeal(s, h, row)
  PROVE  /\ hdraft'[h].owner = s /\ hdraft'[h].row = row
         /\ \A g \in HealIds \ {h} : hdraft'[g] = hdraft[g]
BY DEF HealRowsTyped, WriteHeal

LEMMA DecideSound ==
  ASSUME TypeInv, GateInv, NEW s \in HealRequests, NEW h \in HealIds,
         NEW op \in {"approve", "reject"}, Decide(s, h, op)
  PROVE  GateInv'
<1>1. /\ hreq[s].pc = "idle"
      /\ hreq'[s].op = op /\ hreq'[s].id = h /\ hreq'[s].pc = "ready"
      /\ \A t \in HealRequests \ {s} : hreq'[t] = hreq[t]
  BY BeginFacts DEF Decide, TypeInv, HealTypeOK
<1>2. /\ hdraft'[h].owner = s /\ hdraft'[h].row = Decided(heal[h], op)
      /\ \A g \in HealIds \ {h} : hdraft'[g] = hdraft[g]
  BY WriteHealFacts DEF Decide, TypeInv, HealTypeOK, HealRowsTyped
<1>3. hdraft[h].owner = Nobody /\ UNCHANGED <<heal, calls, audits>>
  BY DEF Decide, HealDrafted
<1>4. WriteSound(hreq'[s], h, heal[h], hdraft'[h].row)
  BY <1>1, <1>2 DEF Decide, WriteSound, GateOf, Absent
<1>5. RequestSound(s)'
  BY <1>1, <1>2 DEF RequestSound, Running, Holding
<1>6. \A g \in HealIds \ {h} : hdraft'[g].owner # s
  BY <1>1, <1>2, NothingWritten
<1>7. QED
  BY <1>1, <1>2, <1>3, <1>4, <1>5, <1>6, RowsUnchanged, QuietStep

LEMMA CallSound ==
  ASSUME TypeInv, GateInv, NEW s \in HealRequests, NEW h \in HealIds, Call(s, h)
  PROVE  GateInv'
<1>1. CASE ReturnExisting(s, h)
  BY <1>1, BeginSound DEF ReturnExisting
<1>2. CASE DecideToCreate(s, h)
  BY <1>2, BeginSound DEF DecideToCreate
<1>3. CASE \E op \in {"approve", "reject"} : RefuseDecision(s, h, op)
  BY <1>3, BeginSound DEF RefuseDecision
<1>4. CASE StartExecute(s, h)
  <2>1. GateOf(heal[h]) = "cleared"
    BY <1>4 DEF StartExecute, GateOf, Absent
  <2>2. QED
    BY <1>4, <2>1, BeginSound DEF StartExecute
<1>5. CASE StartVerify(s, h)
  <2>1. GateOf(heal[h]) = "cleared"
    BY <1>5 DEF StartVerify, GateOf, Absent
  <2>2. QED
    BY <1>5, <2>1, BeginSound DEF StartVerify
<1>6. CASE RefuseExecute(s, h) \/ RefuseVerify(s, h)
  BY <1>6, BeginSound DEF RefuseExecute, RefuseVerify
<1>7. CASE \E op \in {"approve", "reject"} : Decide(s, h, op)
  BY <1>7, DecideSound
<1>8. QED
  BY <1>1, <1>2, <1>3, <1>4, <1>5, <1>6, <1>7 DEF Call

LEMMA InsertSound ==
  ASSUME TypeInv, GateInv, NEW s \in HealRequests, InsertAction(s)
  PROVE  GateInv'
<1> DEFINE h == hreq[s].id
           new(risk) == [status   |-> IF risk = "high" THEN "waiting_approval" ELSE "pending",
                         risk     |-> risk,
                         approved |-> FALSE]
<1>1. HealRowsTyped /\ hreq[s] \in HealRequest /\ h \in HealIds
  BY DEF TypeInv, HealTypeOK, HealRowsTyped, HealRequest
<1>2. PICK risk \in RiskLevels : WriteHeal(s, h, new(risk))
  BY DEF InsertAction
<1>3. /\ hreq[s].pc = "inserting"
      /\ heal[h].status = Absent /\ hdraft[h].owner = Nobody
      /\ UNCHANGED <<heal, calls, audits>>
  BY <1>1 DEF InsertAction, Siblings, HealDrafted
<1>4. /\ hreq'[s].op = hreq[s].op /\ hreq'[s].id = h /\ hreq'[s].pc = "ready"
      /\ \A t \in HealRequests \ {s} : hreq'[t] = hreq[t]
  BY <1>1 DEF InsertAction, HealRequest, TypeInv, HealTypeOK
<1>5. hreq[s].op = "create"
  BY <1>3 DEF GateInv, RequestSound
<1>6. /\ hdraft'[h].owner = s /\ hdraft'[h].row = new(risk)
      /\ \A g \in HealIds \ {h} : hdraft'[g] = hdraft[g]
  BY <1>1, <1>2, WriteHealFacts
<1>7. WriteSound(hreq'[s], h, heal[h], hdraft'[h].row)
  BY <1>3, <1>4, <1>5, <1>6 DEF WriteSound, GateOf, Absent
<1>8. RequestSound(s)'
  BY <1>4, <1>5 DEF RequestSound, Running, Holding
<1>9. \A g \in HealIds \ {h} : hdraft'[g].owner # s
  BY <1>3, <1>6, NothingWritten
<1> HIDE DEF h, new
<1>10. QED
  BY <1>3, <1>4, <1>6, <1>7, <1>8, <1>9, RowsUnchanged, QuietStep

LEMMA MarkHealingSound ==
  ASSUME TypeInv, GateInv, NEW s \in HealRequests, MarkHealing(s)
  PROVE  GateInv'
<1> DEFINE h == hreq[s].id
           new == [heal[h] EXCEPT !.status = "executing"]
<1>1. HealRowsTyped /\ hreq[s] \in HealRequest /\ h \in HealIds /\ heal[h] \in HealRow
  BY DEF TypeInv, HealTypeOK, HealRowsTyped, HealRequest
<1>2. /\ hreq[s].pc = "marking" /\ hdraft[h].owner = Nobody
      /\ WriteHeal(s, h, new)
      /\ UNCHANGED <<heal, calls, audits>>
  BY DEF MarkHealing, HealDrafted
<1>3. /\ hreq'[s].op = hreq[s].op /\ hreq'[s].id = h /\ hreq'[s].pc = "running"
      /\ \A t \in HealRequests \ {s} : hreq'[t] = hreq[t]
  BY <1>1 DEF MarkHealing, HealRequest, TypeInv, HealTypeOK
<1>4. hreq[s].op = "execute" /\ GateOf(heal[h]) = "cleared"
  BY <1>2 DEF GateInv, RequestSound, Running
<1>5. new.status = "executing" /\ new.risk = heal[h].risk /\ new.approved = heal[h].approved
  BY <1>1 DEF HealRow
<1> HIDE DEF h, new
<1>6. /\ hdraft'[h].owner = s /\ hdraft'[h].row = new
      /\ \A g \in HealIds \ {h} : hdraft'[g] = hdraft[g]
  BY <1>1, <1>2, WriteHealFacts
<1>7. WriteSound(hreq'[s], h, heal[h], hdraft'[h].row)
  BY <1>3, <1>4, <1>5, <1>6 DEF WriteSound
<1>8. RequestSound(s)'
  BY <1>2, <1>3, <1>4, <1>6 DEF RequestSound, Running, Holding
<1>9. \A g \in HealIds \ {h} : hdraft'[g].owner # s
  BY <1>2, <1>6, NothingWritten
<1>10. QED
  BY <1>2, <1>3, <1>6, <1>7, <1>8, <1>9, RowsUnchanged, QuietStep

LEMMA MarkVerifiedSound ==
  ASSUME TypeInv, GateInv, NEW s \in HealRequests, NEW recovered \in BOOLEAN,
         MarkVerified(s, recovered)
  PROVE  GateInv'
<1> DEFINE h == hreq[s].id
           status == IF recovered THEN "verified" ELSE "failed"
           new == [heal[h] EXCEPT !.status = status]
<1>1. /\ HealRowsTyped /\ hreq \in [HealRequests -> HealRequest]
      /\ hreq[s] \in HealRequest /\ h \in HealIds /\ heal[h] \in HealRow
  BY DEF TypeInv, HealTypeOK, HealRowsTyped, HealRequest
<1>2. /\ hreq[s].pc = "checking" /\ hdraft[h].owner = Nobody
      /\ WriteHeal(s, h, new)
      /\ UNCHANGED <<heal, calls, audits>>
  BY DEF MarkVerified, HealDrafted
<1>3. /\ hreq'[s].op = hreq[s].op /\ hreq'[s].id = h /\ hreq'[s].pc = "settling"
      /\ \A t \in HealRequests \ {s} : hreq'[t] = hreq[t]
  <2>1. hreq' = [hreq EXCEPT ![s] = [hreq[s] EXCEPT !.pc = "settling",
                   !.seen = alerts[AlertOf[h]].status, !.ok = recovered]]
    BY DEF MarkVerified
  <2>2. hreq'[s] = [hreq[s] EXCEPT !.pc = "settling",
                   !.seen = alerts[AlertOf[h]].status, !.ok = recovered]
    BY <1>1, <2>1
  <2>3. \A t \in HealRequests \ {s} : hreq'[t] = hreq[t]
    BY <1>1, <2>1
  <2>4. hreq'[s].op = hreq[s].op /\ hreq'[s].id = hreq[s].id /\ hreq'[s].pc = "settling"
    BY <1>1, <2>2 DEF HealRequest
  <2>5. QED
    BY <2>3, <2>4
<1>4. hreq[s].op = "verify" /\ GateOf(heal[h]) = "cleared"
  BY <1>2 DEF GateInv, RequestSound, Running
<1>5. /\ new.status \in {"verified", "failed"}
      /\ new.risk = heal[h].risk /\ new.approved = heal[h].approved
  BY <1>1 DEF HealRow
<1> HIDE DEF h, status, new
<1>6. /\ hdraft'[h].owner = s /\ hdraft'[h].row = new
      /\ \A g \in HealIds \ {h} : hdraft'[g] = hdraft[g]
  BY <1>1, <1>2, WriteHealFacts
<1>7. WriteSound(hreq'[s], h, heal[h], hdraft'[h].row)
  BY <1>3, <1>4, <1>5, <1>6 DEF WriteSound
<1>8. RequestSound(s)'
  BY <1>2, <1>3, <1>4, <1>6 DEF RequestSound, Running, Holding
<1>9. \A g \in HealIds \ {h} : hdraft'[g].owner # s
  BY <1>2, <1>6, NothingWritten
<1>10. QED
  BY <1>2, <1>3, <1>6, <1>7, <1>8, <1>9, RowsUnchanged, QuietStep

LEMMA SettleSound ==
  ASSUME TypeInv, GateInv, NEW s \in HealRequests, Settle(s)
  PROVE  GateInv'
<1> DEFINE h == hreq[s].id
           status == IF hreq[s].ok THEN "success" ELSE "failed"
           new == [hdraft[h].row EXCEPT !.status = status]
<1>1. /\ HealRowsTyped /\ hreq \in [HealRequests -> HealRequest]
      /\ hreq[s] \in HealRequest /\ h \in HealIds /\ hdraft[h].row \in HealRow
  BY DEF TypeInv, HealTypeOK, HealRowsTyped, HealRequest
<1>2. hreq[s].pc = "settling" /\ UNCHANGED <<heal, calls, audits>>
  BY DEF Settle
<1>3. /\ hreq'[s].op = hreq[s].op /\ hreq'[s].id = h /\ hreq'[s].pc = "ready"
      /\ \A t \in HealRequests \ {s} : hreq'[t] = hreq[t]
  BY <1>1 DEF Settle, HealRequest
<1>4. /\ hreq[s].op \in {"execute", "verify"} /\ GateOf(heal[h]) = "cleared"
      /\ hdraft[h].owner = s
  BY <1>2 DEF GateInv, RequestSound, Running, Holding
<1>5. WriteSound(hreq[s], h, heal[h], hdraft[h].row)
  BY <1>1, <1>4, OwnRowOnly
<1>6. /\ new.status \in {"success", "failed"}
      /\ new.risk = hdraft[h].row.risk /\ new.approved = hdraft[h].row.approved
  BY <1>1 DEF HealRow
<1>7. WriteHeal(s, h, new) \/ UNCHANGED hdraft
  BY DEF Settle
<1> HIDE DEF h, status, new
<1>8. /\ hdraft'[h].owner = s /\ hdraft'[h].row \in {new, hdraft[h].row}
      /\ \A g \in HealIds \ {h} : hdraft'[g] = hdraft[g]
  BY <1>1, <1>4, <1>7, WriteHealFacts
<1>9. WriteSound(hreq'[s], h, heal[h], hdraft'[h].row)
  BY <1>3, <1>4, <1>5, <1>6, <1>8 DEF WriteSound
<1>10. RequestSound(s)'
  BY <1>2, <1>3, <1>4, <1>8 DEF RequestSound, Running, Holding
<1>11. \A g \in HealIds \ {h} : hdraft'[g].owner # s
  BY <1>8, OwnRowOnly DEF h
<1>12. QED
  BY <1>2, <1>3, <1>4, <1>8, <1>9, <1>10, <1>11, RowsUnchanged, QuietStep

LEMMA RollBackSound ==
  ASSUME TypeInv, GateInv, NEW s \in HealRequests, RollBack(s)
  PROVE  GateInv'
<1>1. hreq[s] \in HealRequest /\ hreq \in [HealRequests -> HealRequest]
  BY DEF TypeInv, HealTypeOK
<1>2. hreq'[s].pc = "failed" /\ \A t \in HealRequests \ {s} : hreq'[t] = hreq[t]
  BY <1>1 DEF RollBack, HealRequest
<1>3. UNCHANGED <<heal, calls, audits>>
  BY DEF RollBack
<1>4. \A g \in HealIds :
        hdraft'[g] = IF hdraft[g].owner = s THEN NoHealDraft ELSE hdraft[g]
  BY DEF RollBack, DropHealDrafts
<1>5. \A g \in HealIds : hdraft'[g].owner # s
  BY <1>4, NobodyElse DEF NoHealDraft
<1>6. RequestSound(s)'
  BY <1>2 DEF RequestSound, Running, Holding
<1>7. \A g \in HealIds :
        \/ hdraft'[g] = hdraft[g]
        \/ hdraft[g].owner \in {Nobody, s} /\ hdraft'[g].owner \in {Nobody, s}
  BY <1>4 DEF NoHealDraft
<1>8. QED
  BY <1>2, <1>3, <1>5, <1>6, <1>7, RowsUnchanged, QuietStep

LEMMA ExecutorSound ==
  ASSUME TypeInv, GateInv, NEW s \in HealRequests, CallSucceeds(s) \/ CallFails(s)
  PROVE  GateInv'
<1> DEFINE h == hreq[s].id
<1>1. /\ hreq[s] \in HealRequest /\ hreq \in [HealRequests -> HealRequest]
      /\ h \in HealIds /\ calls \in [HealIds -> Nat]
  BY DEF TypeInv, HealTypeOK, HealRequest
<1>2. /\ hreq[s].pc = "running" /\ calls' = [calls EXCEPT ![h] = @ + 1]
      /\ UNCHANGED <<heal, hdraft, audits>>
  BY DEF CallSucceeds, CallFails, CallExecutor
<1>3. /\ hreq'[s].op = hreq[s].op /\ hreq'[s].id = h /\ hreq'[s].pc \in {"running", "settling"}
      /\ \A t \in HealRequests \ {s} : hreq'[t] = hreq[t]
  <2>1. CASE hreq' = [hreq EXCEPT ![s].pc = "settling", ![s].ok = TRUE]
    BY <1>1, <2>1 DEF HealRequest
  <2>2. CASE hreq' = [hreq EXCEPT ![s].pc = "settling", ![s].ok = FALSE]
    BY <1>1, <2>2 DEF HealRequest
  <2>3. CASE hreq' = [hreq EXCEPT ![s].tries = @ + 1]
    BY <1>1, <1>2, <2>3 DEF HealRequest
  <2>4. QED
    BY <2>1, <2>2, <2>3 DEF CallSucceeds, CallFails
<1>4. hreq[s].op = "execute" /\ GateOf(heal[h]) = "cleared" /\ hdraft[h].owner = s
  BY <1>2 DEF GateInv, RequestSound, Running, Holding
<1> HIDE DEF h
<1>5. \A g \in HealIds : RowSound(g)'
  <2>1. \A g \in HealIds : g # h => calls'[g] = calls[g]
    BY <1>1, <1>2
  <2>2. \A g \in HealIds : Audited(g, "HEAL_APPROVE")' = Audited(g, "HEAL_APPROVE")
                        /\ Audited(g, "HEAL_CANCEL")' = Audited(g, "HEAL_CANCEL")
                        /\ Decisions(g)' = Decisions(g)
    BY <1>2 DEF Audited, Decisions
  <2>3. QED
    BY <1>2, <1>4, <2>1, <2>2 DEF GateInv, RowSound
<1>6. RequestSound(s)'
  BY <1>2, <1>3, <1>4 DEF RequestSound, Running, Holding
<1>7. \A g \in HealIds : hdraft[g].owner = s => WriteSound(hreq'[s], g, heal[g], hdraft[g].row)
  <2>1. SUFFICES ASSUME NEW g \in HealIds, hdraft[g].owner = s
                 PROVE  WriteSound(hreq'[s], g, heal[g], hdraft[g].row)
    OBVIOUS
  <2>2. WriteSound(hreq[s], g, heal[g], hdraft[g].row)
    BY <2>1, OwnRowOnly
  <2>3. QED
    BY <1>3, <1>4, <2>2 DEF WriteSound, h
<1>8. QED
  BY <1>2, <1>3, <1>5, <1>6, <1>7, QuietStep

-----------------------------------------------------------------------------
(* COMMIT publishes what the session wrote: its own row and its audit row. *)

LEMMA CommitFacts ==
  ASSUME TypeInv, GateInv, NEW s \in HealRequests, Commit(s)
  PROVE  /\ hreq[s].pc = "ready" /\ hreq'[s].pc = "done"
         /\ \A t \in HealRequests \ {s} : hreq'[t] = hreq[t]
         /\ \A g \in HealIds : hdraft[g].owner # s => heal'[g] = heal[g] /\ hdraft'[g] = hdraft[g]
         /\ \A g \in HealIds :
              hdraft[g].owner = s => heal'[g] = hdraft[g].row /\ hdraft'[g].owner = Nobody
         /\ audits' = audits \cup AuditsOf(s)
         /\ UNCHANGED calls
<1>1. hreq[s] \in HealRequest /\ hreq \in [HealRequests -> HealRequest]
  BY DEF TypeInv, HealTypeOK
<1>2. hreq'[s].pc = "done" /\ \A t \in HealRequests \ {s} : hreq'[t] = hreq[t]
  BY <1>1 DEF Commit, HealRequest
<1>3. \A g \in HealIds :
        /\ heal'[g] = IF hdraft[g].owner = s THEN hdraft[g].row ELSE heal[g]
        /\ hdraft'[g] = IF hdraft[g].owner = s THEN NoHealDraft ELSE hdraft[g]
  BY DEF Commit, DropHealDrafts
<1>4. QED
  BY <1>2, <1>3 DEF Commit, NoHealDraft

\* The gate of a row moves along the edges of the protocol, or stays.
LEMMA CommitMovesGate ==
  ASSUME TypeInv, GateInv, NEW s \in HealRequests, Commit(s),
         NEW h \in HealIds, hdraft[h].owner = s
  PROVE  /\ h = hreq[s].id
         /\ hreq[s].op \in {"create", "approve", "reject", "execute", "verify"}
         /\ hreq[s].op = "create" =>
              /\ GateOf(heal[h]) = "none"
              /\ GateOf(heal'[h]) = IF heal'[h].risk = "high" THEN "waiting" ELSE "cleared"
              /\ ~heal'[h].approved
         /\ hreq[s].op = "approve" =>
              GateOf(heal[h]) = "waiting" /\ GateOf(heal'[h]) = "cleared" /\ heal'[h].approved
         /\ hreq[s].op = "reject" =>
              GateOf(heal[h]) = "waiting" /\ GateOf(heal'[h]) = "rejected" /\ ~heal'[h].approved
         /\ hreq[s].op \in {"execute", "verify"} =>
              /\ GateOf(heal[h]) = "cleared" /\ GateOf(heal'[h]) = "cleared"
              /\ heal'[h].approved = heal[h].approved
              /\ heal'[h].risk = "high" => heal'[h].approved
<1>1. heal'[h] = hdraft[h].row
  BY CommitFacts
<1>2. heal[h] \in HealRow /\ heal'[h] \in HealRow
  BY <1>1 DEF TypeInv, HealTypeOK
<1>3. WriteSound(hreq[s], h, heal[h], heal'[h]) /\ hreq[s].id = h
  BY <1>1, OwnRowOnly
<1>4. RowSound(h)
  BY DEF GateInv
<1>5. hreq[s].op \in {"create", "approve", "reject", "execute", "verify"}
  BY <1>3 DEF WriteSound
<1>6. /\ GateOf(heal[h]) = "waiting" => heal[h].risk = "high" /\ ~heal[h].approved
      /\ GateOf(heal[h]) = "cleared" /\ heal[h].risk = "high" => heal[h].approved
  BY <1>4 DEF RowSound
<1>7. QED
  BY <1>2, <1>3, <1>5, <1>6, WriteMovesGate

\* The audit row, if any, is about the session's action.
LEMMA AuditsOfFacts ==
  ASSUME NEW s
  PROVE  /\ \A e \in AuditsOf(s) : e.id = hreq[s].id /\ e.action = AuditAction(hreq[s].op)
         /\ \A d, e \in AuditsOf(s) : d = e
         /\ hreq[s].op \in {"approve", "reject"} =>
              \E e \in AuditsOf(s) : e.id = hreq[s].id /\ e.action = AuditAction(hreq[s].op)
         /\ hreq[s].op \notin {"approve", "reject"} =>
              \A e \in AuditsOf(s) : e.action = "HEAL_EXECUTE"
<1>1. AuditRow(s).id = hreq[s].id /\ AuditRow(s).action = AuditAction(hreq[s].op)
  BY DEF AuditRow
<1>2. \A e \in AuditsOf(s) : e = AuditRow(s)
  BY DEF AuditsOf
<1>3. hreq[s].op \in {"approve", "reject"} => AuditRow(s) \in AuditsOf(s)
  BY DEF AuditsOf
<1>4. hreq[s].op \notin {"approve", "reject"} =>
        \A e \in AuditsOf(s) : AuditAction(hreq[s].op) = "HEAL_EXECUTE"
  BY DEF AuditAction
<1>5. QED
  BY <1>1, <1>2, <1>3, <1>4

\* A row the session did not decide about keeps its decisions.
LEMMA SameDecisions ==
  ASSUME TypeInv, GateInv, NEW s \in HealRequests, Commit(s), NEW h \in HealIds,
         hreq[s].id # h \/ hreq[s].op \notin {"approve", "reject"}
  PROVE  /\ Audited(h, "HEAL_APPROVE")' <=> Audited(h, "HEAL_APPROVE")
         /\ Audited(h, "HEAL_CANCEL")' <=> Audited(h, "HEAL_CANCEL")
         /\ Decisions(h)' = Decisions(h)
<1>1. audits' = audits \cup AuditsOf(s)
  BY CommitFacts
<1>2. \A e \in AuditsOf(s) : e.id # h \/ e.action = "HEAL_EXECUTE"
  BY AuditsOfFacts
<1>3. QED
  BY <1>1, <1>2 DEF Audited, Decisions

LEMMA CommitRowSound ==
  ASSUME TypeInv, GateInv, NEW s \in HealRequests, Commit(s), NEW h \in HealIds
  PROVE  RowSound(h)'
<1>1. RowSound(h) /\ UNCHANGED calls /\ audits' = audits \cup AuditsOf(s)
  BY CommitFacts DEF GateInv
<1>2. CASE hdraft[h].owner # s
  <2>1. heal'[h] = heal[h]
    BY <1>2, CommitFacts
  <2>2. hreq[s].id # h \/ hreq[s].op \notin {"approve", "reject"}
    BY <1>2, CommitFacts DEF GateInv, RequestSound, Holding, Running
  <2>3. QED
    BY <1>1, <2>1, <2>2, SameDecisions DEF RowSound
<1>3. CASE hdraft[h].owner = s /\ hreq[s].op \in {"create", "execute", "verify"}
  <2>1. /\ Audited(h, "HEAL_APPROVE")' <=> Audited(h, "HEAL_APPROVE")
        /\ Audited(h, "HEAL_CANCEL")' <=> Audited(h, "HEAL_CANCEL")
        /\ Decisions(h)' = Decisions(h)
    BY <1>3, SameDecisions
  <2>2. CASE hreq[s].op = "create"
    <3>1. GateOf(heal[h]) = "none" /\ ~heal'[h].approved
          /\ GateOf(heal'[h]) = (IF heal'[h].risk = "high" THEN "waiting" ELSE "cleared")
      BY <1>3, <2>2, CommitMovesGate
    <3>2. ~Audited(h, "HEAL_APPROVE") /\ ~Audited(h, "HEAL_CANCEL") /\ ~(calls[h] > 0)
      BY <1>1, <3>1 DEF RowSound
    <3>3. QED
      BY <1>1, <2>1, <3>1, <3>2 DEF RowSound
  <2>3. CASE hreq[s].op \in {"execute", "verify"}
    <3>1. /\ GateOf(heal[h]) = "cleared" /\ GateOf(heal'[h]) = "cleared"
          /\ heal'[h].approved = heal[h].approved
          /\ heal'[h].risk = "high" => heal'[h].approved
      BY <1>3, <2>3, CommitMovesGate
    <3>2. QED
      BY <1>1, <2>1, <3>1 DEF RowSound
  <2>4. QED
    BY <1>3, <2>2, <2>3
<1>4. CASE hdraft[h].owner = s /\ hreq[s].op \in {"approve", "reject"}
  <2>1. GateOf(heal[h]) = "waiting" /\ h = hreq[s].id
    BY <1>4, CommitMovesGate
  <2>2. ~Audited(h, "HEAL_APPROVE") /\ ~Audited(h, "HEAL_CANCEL") /\ ~(calls[h] > 0)
    BY <1>1, <2>1 DEF RowSound
  <2>3. Decisions(h) = {}
    BY <2>2 DEF Decisions, Audited
  <2>4. Decisions(h)' \subseteq AuditsOf(s)
    BY <1>1, <2>3 DEF Decisions
  <2>5. \A d, e \in Decisions(h)' : d = e
    BY <2>4, AuditsOfFacts
  <2>6. CASE hreq[s].op = "approve"
    <3>1. GateOf(heal'[h]) = "cleared" /\ heal'[h].approved
      BY <1>4, <2>6, CommitMovesGate
    <3>2. Audited(h, "HEAL_APPROVE")' /\ ~Audited(h, "HEAL_CANCEL")'
      BY <1>1, <2>1, <2>2, <2>6, AuditsOfFacts DEF Audited, AuditAction
    <3>3. QED
      BY <1>1, <2>2, <2>5, <3>1, <3>2 DEF RowSound
  <2>7. CASE hreq[s].op = "reject"
    <3>1. GateOf(heal'[h]) = "rejected" /\ ~heal'[h].approved
      BY <1>4, <2>7, CommitMovesGate
    <3>2. Audited(h, "HEAL_CANCEL")' /\ ~Audited(h, "HEAL_APPROVE")'
      BY <1>1, <2>1, <2>2, <2>7, AuditsOfFacts DEF Audited, AuditAction
    <3>3. QED
      BY <1>1, <2>2, <2>5, <3>1, <3>2 DEF RowSound
  <2>8. QED
    BY <1>4, <2>6, <2>7
<1>5. QED
  BY <1>2, <1>3, <1>4, CommitMovesGate

LEMMA CommitSound ==
  ASSUME TypeInv, GateInv, NEW s \in HealRequests, Commit(s)
  PROVE  GateInv'
<1>1. ASSUME NEW h \in HealIds
      PROVE  DraftSound(h)'
  <2>1. CASE hdraft[h].owner = s
    BY <2>1, CommitFacts DEF DraftSound, HealDrafted
  <2>2. CASE hdraft[h].owner = Nobody
    BY <2>2, CommitFacts, NobodyElse DEF DraftSound, HealDrafted
  <2>3. CASE hdraft[h].owner \in HealRequests \ {s}
    <3>1. heal'[h] = heal[h] /\ hdraft'[h] = hdraft[h]
          /\ hreq'[hdraft[h].owner] = hreq[hdraft[h].owner]
      BY <2>3, CommitFacts
    <3>2. QED
      BY <3>1 DEF GateInv, DraftSound, HealDrafted, WriteSound
  <2>4. QED
    BY <2>1, <2>2, <2>3 DEF TypeInv, HealTypeOK
<1>2. ASSUME NEW t \in HealRequests \ {s}
      PROVE  RequestSound(t)'
  <2>1. hreq'[t] = hreq[t] /\ RequestSound(t) /\ hreq[t].id \in HealIds
    BY CommitFacts DEF GateInv, TypeInv, HealTypeOK, HealRequest
  <2>2. hdraft[hreq[t].id].owner = t => hdraft'[hreq[t].id].owner = t
    BY <2>1, CommitFacts
  <2>3. GateOf(heal[hreq[t].id]) = "cleared" => GateOf(heal'[hreq[t].id]) = "cleared"
    <3>1. CASE hdraft[hreq[t].id].owner # s
      BY <2>1, <3>1, CommitFacts
    <3>2. CASE hdraft[hreq[t].id].owner = s
      BY <2>1, <3>2, CommitMovesGate
    <3>3. QED
      BY <3>1, <3>2
  <2>4. QED
    BY <2>1, <2>2, <2>3 DEF RequestSound, Running, Holding
<1>3. RequestSound(s)'
  BY CommitFacts DEF RequestSound, Running, Holding
<1>4. QED
  BY <1>1, <1>2, <1>3, CommitRowSound DEF GateInv

-----------------------------------------------------------------------------
(* The theorems about approval. *)

LEMMA InitSound ==
  ASSUME AlertAssumption, HealAssumption, Init
  PROVE  HealInv
<1>1. TypeInv
  BY AlertAssumption, HealAssumption, InitTyped
<1>2. \A h \in HealIds : heal[h] = NoHealRow /\ hdraft[h] = NoHealDraft /\ calls[h] = 0
  BY DEF Init
<1>3. \A h \in HealIds : RowSound(h)
  BY <1>2 DEF Init, RowSound, NoHealRow, GateOf, Audited, Decisions
<1>4. \A h \in HealIds : DraftSound(h)
  BY <1>2 DEF DraftSound, HealDrafted, NoHealDraft
<1>5. \A s \in HealRequests : hreq[s].pc = "idle" /\ hreq[s].op = "none"
  BY DEF Init, IdleHealRequest
<1>6. \A s \in HealRequests : RequestSound(s)
  BY <1>5 DEF RequestSound, Running, Holding
<1>7. QED
  BY <1>1, <1>3, <1>4, <1>6 DEF HealInv, GateInv

LEMMA OthersSound ==
  ASSUME GateInv, UNCHANGED healVars
  PROVE  GateInv'
BY DEF healVars, GateInv, RowSound, DraftSound, RequestSound, HealDrafted, WriteSound,
       Running, Holding, Audited, Decisions

LEMMA StepSound ==
  ASSUME AlertAssumption, HealAssumption, HealInv, [Next]_vars
  PROVE  HealInv'
<1>1. TypeInv'
  BY AlertAssumption, HealAssumption, StepTyped DEF HealInv
<1>2. CASE UNCHANGED healVars
  BY <1>1, <1>2, OthersSound DEF HealInv
<1>3. ASSUME NEW s \in HealRequests, (\E h \in HealIds : Call(s, h)) \/ Serve(s) \/ Abort(s)
      PROVE  GateInv'
  BY <1>3, CallSound, InsertSound, RollBackSound, MarkHealingSound, ExecutorSound,
     MarkVerifiedSound, SettleSound, CommitSound
     DEF HealInv, Serve, InsertConflict, RefuseRecovery, SettleConflict, Abort
<1>4. QED
  BY <1>1, <1>2, <1>3 DEF HealInv, Next, HealNext, vars

LEMMA InvMeansGate ==
  HealInv => ApprovalGate /\ OneDecision /\ RejectionFinal
<1>1. SUFFICES ASSUME HealInv
               PROVE  ApprovalGate /\ OneDecision /\ RejectionFinal
  OBVIOUS
<1>2. \A h \in HealIds : RowSound(h)
  BY <1>1 DEF HealInv, GateInv
<1>3. ApprovalGate
  BY <1>2 DEF ApprovalGate, RowSound, GateOf, Runnable, Absent
<1>4. OneDecision
  BY <1>2 DEF OneDecision, RowSound
<1>5. \A h \in HealIds : GateOf(heal[h]) = "rejected" => heal[h].status = "failed"
  BY DEF GateOf
<1>6. \A h \in HealIds : calls[h] \in Nat
  BY <1>1 DEF HealInv, TypeInv, HealTypeOK
<1>7. RejectionFinal
  BY <1>2, <1>5, <1>6 DEF RejectionFinal, RowSound
<1>8. QED
  BY <1>3, <1>4, <1>7

LEMMA HealInvariant == Spec => []HealInv
<1>1. Init => HealInv
  BY AlertAssumption, HealAssumption, InitSound
<1>2. HealInv /\ [Next]_vars => HealInv'
  BY AlertAssumption, HealAssumption, StepSound
<1>3. QED
  BY <1>1, <1>2, PTL DEF Spec

\* A high-risk action is runnable, or was ever run, only with an approver and
\* the audit row of the approval.
THEOREM ApprovalRequired == Spec => []ApprovalGate
BY HealInvariant, InvMeansGate, PTL

\* Of all approvals and rejections of an action one takes effect.
THEOREM SingleDecision == Spec => []OneDecision
BY HealInvariant, InvMeansGate, PTL

\* A rejected action stays failed and is never handed to the executor.
THEOREM RejectionIsFinal == Spec => []RejectionFinal
BY HealInvariant, InvMeansGate, PTL

-----------------------------------------------------------------------------
(* Refinement: every step is a step of HealApproval, or leaves it alone. *)

LEMMA GatesAlone ==
  ASSUME UNCHANGED <<heal, calls>>
  PROVE  UNCHANGED Gate!gateVars
BY DEF Gate!gateVars

LEMMA CommitImplements ==
  ASSUME HealInv, NEW s \in HealRequests, Commit(s)
  PROVE  [Gate!GateNext]_Gate!gateVars
<1> DEFINE h == hreq[s].id
           gate == [g \in HealIds |-> GateOf(heal[g])]
<1>1. h \in HealIds /\ UNCHANGED calls
  BY DEF HealInv, TypeInv, HealTypeOK, HealRequest, Commit
<1>2. \A g \in HealIds \ {h} : heal'[g] = heal[g]
  BY CommitFacts, OwnRowOnly DEF HealInv
<1>3. CASE hdraft[h].owner # s
  <2>1. \A g \in HealIds : heal'[g] = heal[g]
    BY <1>1, <1>2, <1>3, CommitFacts DEF HealInv
  <2>2. gate' = gate
    BY <2>1
  <2>3. QED
    BY <1>1, <2>2 DEF Gate!gateVars
<1>4. CASE hdraft[h].owner = s
  <2>1. /\ hreq[s].op \in {"create", "approve", "reject", "execute", "verify"}
        /\ hreq[s].op = "create" =>
             GateOf(heal[h]) = "none" /\ GateOf(heal'[h]) \in {"waiting", "cleared"}
        /\ hreq[s].op = "approve" =>
             GateOf(heal[h]) = "waiting" /\ GateOf(heal'[h]) = "cleared"
        /\ hreq[s].op = "reject" =>
             GateOf(heal[h]) = "waiting" /\ GateOf(heal'[h]) = "rejected"
        /\ hreq[s].op \in {"execute", "verify"} =>
             GateOf(heal[h]) = "cleared" /\ GateOf(heal'[h]) = "cleared"
    BY <1>1, <1>4, CommitMovesGate DEF HealInv
  <2>2. gate' = [gate EXCEPT ![h] = GateOf(heal'[h])]
    BY <1>1, <1>2
  <2>3. gate[h] = GateOf(heal[h])
    BY <1>1
  <2> HIDE DEF h
  <2>4. CASE hreq[s].op = "create"
    BY <1>1, <2>1, <2>2, <2>3, <2>4 DEF Gate!GateNext, Gate!Propose, Gate!Move
  <2>5. CASE hreq[s].op = "approve"
    BY <1>1, <2>1, <2>2, <2>3, <2>5 DEF Gate!GateNext, Gate!Approve, Gate!Move
  <2>6. CASE hreq[s].op = "reject"
    BY <1>1, <2>1, <2>2, <2>3, <2>6 DEF Gate!GateNext, Gate!Reject, Gate!Move
  <2>7. CASE hreq[s].op \in {"execute", "verify"}
    <3>1. \A g \in HealIds : GateOf(heal'[g]) = GateOf(heal[g])
      BY <1>2, <2>1, <2>7
    <3>2. gate' = gate
      BY <3>1
    <3>3. QED
      BY <1>1, <3>2 DEF Gate!gateVars
  <2>8. QED
    BY <2>1, <2>4, <2>5, <2>6, <2>7
<1>5. QED
  BY <1>3, <1>4

LEMMA CallImplements ==
  ASSUME HealInv, NEW s \in HealRequests, CallSucceeds(s) \/ CallFails(s)
  PROVE  Gate!GateNext
<1> DEFINE h == hreq[s].id
<1>1. h \in HealIds
  BY DEF HealInv, TypeInv, HealTypeOK, HealRequest
<1>2. /\ hreq[s].pc = "running" /\ calls' = [calls EXCEPT ![h] = @ + 1]
      /\ UNCHANGED heal
  BY DEF CallSucceeds, CallFails, CallExecutor
<1>3. GateOf(heal[h]) = "cleared"
  BY <1>2 DEF HealInv, GateInv, RequestSound, Running
<1>4. Gate!Call(h)
  BY <1>1, <1>2, <1>3 DEF Gate!Call
<1>5. QED
  BY <1>1, <1>4 DEF Gate!GateNext

LEMMA StepImplements ==
  ASSUME HealInv, [Next]_vars
  PROVE  [Gate!GateNext]_Gate!gateVars
<1>1. CASE UNCHANGED healVars
  BY <1>1, GatesAlone DEF healVars
<1>2. ASSUME NEW s \in HealRequests, NEW h \in HealIds, Call(s, h)
      PROVE  UNCHANGED <<heal, calls>>
  BY <1>2 DEF Call, ReturnExisting, DecideToCreate, Decide, RefuseDecision,
     StartExecute, RefuseExecute, StartVerify, RefuseVerify
<1>3. ASSUME NEW s \in HealRequests, Serve(s) \/ Abort(s)
      PROVE  \/ UNCHANGED <<heal, calls>>
             \/ CallSucceeds(s) \/ CallFails(s)
             \/ Commit(s)
  BY <1>3 DEF Serve, Abort, InsertAction, InsertConflict, RollBack, MarkHealing,
     MarkVerified, RefuseRecovery, Settle, SettleConflict
<1>4. QED
  BY <1>1, <1>2, <1>3, GatesAlone, CallImplements, CommitImplements
     DEF Next, HealNext, vars

\* The healing service, with its sessions, locks, retries, rollbacks and lost
\* connections, implements the approval protocol.
THEOREM ApprovalRefinement == Spec => ImplementsApproval
<1>1. Init => Gate!GateInit
  BY DEF Init, Gate!GateInit, GateOf, NoHealRow
<1>2. HealInv /\ [Next]_vars => [Gate!GateNext]_Gate!gateVars
  BY StepImplements
<1>3. QED
  BY <1>1, <1>2, HealInvariant, PTL DEF Spec, ImplementsApproval, Gate!GateSpec

-----------------------------------------------------------------------------
(* Deduplication survives the composition: making an alert healing again is *)
(* the one write of the healing service that can claim its fingerprint.     *)

LEMMA SettleClaims ==
  ASSUME HealInv, OneClaim, NEW s \in HealRequests, Settle(s)
  PROVE  OneClaim'
<1> DEFINE i == AlertOf[hreq[s].id]
           row == SettledAlert(s, alerts[i])
<1>1. i \in AlertIds /\ RowsTyped
  BY HealAssumption
     DEF HealAssumption, HealInv, TypeInv, HealTypeOK, AlertTypeOK, HealRequest, RowsTyped
<1>2. WriteRow(s, i, row) /\ UNCHANGED alerts /\ (MakesActive(s) => IndexFree(i))
  BY DEF Settle
<1>3. alerts[i] \in AlertRow
  BY <1>1 DEF RowsTyped
<1>4. row.status = IF AlertTarget(s) = hreq[s].seen THEN alerts[i].status ELSE AlertTarget(s)
  BY <1>3 DEF SettledAlert, AlertRow
<1>5. hreq[s].op \in {"execute", "verify"}
  BY DEF Settle, HealInv, GateInv, RequestSound
<1> HIDE DEF i, row
<1>6. CASE AlertTarget(s) = hreq[s].seen
  <2>1. Active(row) => Active(alerts[i])
    BY <1>4, <1>6 DEF Active
  <2>2. QED
    BY <1>1, <1>2, <2>1, WriteClaims
<1>7. CASE AlertTarget(s) # hreq[s].seen
  <2>1. row.status = AlertTarget(s)
    BY <1>4, <1>7
  <2>2. Active(row) => AlertTarget(s) \notin {"failed", "resolved"}
    BY <2>1 DEF Active, ACTIVE_ALERT_STATUSES
  <2>3. AlertTarget(s) \notin {"failed", "resolved"} =>
          hreq[s].op # "verify" /\ AlertTarget(s) = Healed(hreq[s].seen)
    BY DEF AlertTarget
  <2>4. Active(row) => IndexFree(i)
    BY <1>2, <1>5, <1>7, <2>2, <2>3 DEF MakesActive
  <2>5. QED
    BY <1>1, <1>2, <2>4, WriteClaims
<1>8. QED
  BY <1>6, <1>7

LEMMA HealStepClaims ==
  ASSUME AlertAssumption, HealAssumption, HealInv, OneClaim, [Next]_vars
  PROVE  OneClaim'
<1>1. CASE AlertNext /\ UNCHANGED healVars
  BY <1>1, AlertAssumption, StepClaims
     DEF HealInv, TypeInv, HealTypeOK, AlertInv
<1>2. CASE UNCHANGED <<alerts, draft>>
  BY <1>2 DEF OneClaim, Claims, Drafted
<1>3. ASSUME NEW s \in HealRequests, RollBack(s) PROVE OneClaim'
  BY <1>3, DropClaims DEF RollBack
<1>4. ASSUME NEW s \in HealRequests, Commit(s) PROVE OneClaim'
  BY <1>4, PublishClaims, NobodyElse DEF Commit
<1>5. ASSUME NEW s \in HealRequests, NEW h \in HealIds, Call(s, h)
      PROVE  UNCHANGED <<alerts, draft>>
  BY <1>5 DEF Call, ReturnExisting, DecideToCreate, Decide, RefuseDecision,
     StartExecute, RefuseExecute, StartVerify, RefuseVerify, alertVars
<1>6. ASSUME NEW s \in HealRequests, Serve(s) \/ Abort(s)
      PROVE  UNCHANGED <<alerts, draft>> \/ RollBack(s) \/ Commit(s) \/ Settle(s)
  BY <1>6 DEF Serve, Abort, InsertAction, InsertConflict, MarkHealing, MarkVerified,
     CallSucceeds, CallFails, CallExecutor, RefuseRecovery, SettleConflict, alertVars
<1>7. QED
  BY <1>1, <1>2, <1>3, <1>4, <1>5, <1>6, SettleClaims DEF Next, HealNext, vars, alertVars

\* With healing, ingestion and user transitions on the same rows, no
\* fingerprint has two active alerts.
THEOREM DeduplicationWithHealing == Spec => []OneActiveRow
<1>1. Init => OneClaim
  BY InitClaims DEF Init
<1>2. HealInv /\ OneClaim /\ [Next]_vars => OneClaim'
  BY AlertAssumption, HealAssumption, HealStepClaims
<1>3. QED
  BY <1>1, <1>2, HealInvariant, ClaimsOne, PTL DEF Spec

-----------------------------------------------------------------------------
(* The unique constraint.  As with alerts, what has to be excluded is a     *)
(* second row that another session has yet to commit.                       *)

\* Row h is used, or will be when the transaction that wrote it commits.
Taken(h) == heal[h].status # Absent \/ HealDrafted(h)

OneTaken == \A g, h \in HealIds : g \in Siblings(h) /\ Taken(g) /\ Taken(h) => g = h

LEMMA NoNewTaken ==
  ASSUME OneTaken, \A h \in HealIds : Taken(h)' => Taken(h)
  PROVE  OneTaken'
BY DEF OneTaken, Siblings

\* A write onto a row that is already used.
LEMMA WriteTaken ==
  ASSUME HealInv, OneTaken, NEW s \in HealRequests, NEW h \in HealIds, NEW row,
         WriteHeal(s, h, row), UNCHANGED heal, Taken(h)
  PROVE  OneTaken'
<1>1. \A g \in HealIds : Taken(g)' => Taken(g)
  BY WriteHealFacts DEF HealInv, TypeInv, HealTypeOK, HealRowsTyped, Taken, HealDrafted
<1>2. QED
  BY <1>1, NoNewTaken

LEMMA InsertTaken ==
  ASSUME HealInv, OneTaken, NEW s \in HealRequests, InsertAction(s)
  PROVE  OneTaken'
<1>0. PICK h \in HealIds :
        /\ (\E row : WriteHeal(s, h, row)) /\ UNCHANGED heal
        /\ \A g \in Siblings(h) : heal[g].status = Absent /\ ~HealDrafted(g)
  BY DEF InsertAction, HealInv, TypeInv, HealTypeOK, HealRequest
<1>1. PICK row :
        /\ WriteHeal(s, h, row) /\ UNCHANGED heal
        /\ \A g \in Siblings(h) : heal[g].status = Absent /\ ~HealDrafted(g)
  BY <1>0
<1>2. \A g \in HealIds \ {h} : Taken(g)' => Taken(g)
  BY <1>1, WriteHealFacts DEF HealInv, TypeInv, HealTypeOK, HealRowsTyped, Taken, HealDrafted
<1>3. \A g \in Siblings(h) : ~Taken(g)
  BY <1>1 DEF Taken
<1>4. SUFFICES ASSUME NEW f \in HealIds, NEW g \in HealIds, f \in Siblings(g),
                      Taken(f)', Taken(g)', f # g
               PROVE  FALSE
  BY DEF OneTaken, Siblings
<1>5. CASE f = h
  BY <1>2, <1>3, <1>4, <1>5 DEF Siblings
<1>6. CASE g = h
  BY <1>2, <1>3, <1>4, <1>6 DEF Siblings
<1>7. CASE f # h /\ g # h
  BY <1>2, <1>4, <1>7 DEF OneTaken
<1>8. QED
  BY <1>5, <1>6, <1>7

\* What a running execution or verification works on exists.
LEMMA ClearedIsTaken ==
  ASSUME NEW h \in HealIds, GateOf(heal[h]) \in {"waiting", "cleared"}
  PROVE  Taken(h)
BY DEF GateOf, Taken

LEMMA StepTaken ==
  ASSUME HealInv, OneTaken, [Next]_vars
  PROVE  OneTaken'
<1>1. CASE UNCHANGED <<heal, hdraft>>
  BY <1>1, NoNewTaken DEF Taken, HealDrafted
<1>2. ASSUME NEW s \in HealRequests, NEW h \in HealIds, NEW op, Decide(s, h, op)
      PROVE  OneTaken'
  <2>1. Taken(h)
    BY <1>2 DEF Decide, Taken, Absent
  <2>2. WriteHeal(s, h, Decided(heal[h], op)) /\ UNCHANGED heal
    BY <1>2 DEF Decide
  <2>3. QED
    BY <2>1, <2>2, WriteTaken
<1>3. ASSUME NEW s \in HealRequests,
             MarkHealing(s) \/ Settle(s) \/ \E recovered \in BOOLEAN : MarkVerified(s, recovered)
      PROVE  OneTaken'
  <2>1. PICK h \in HealIds : h = hreq[s].id
    BY DEF HealInv, TypeInv, HealTypeOK, HealRequest
  <2>2. hreq[s].pc \in {"marking", "checking", "settling"}
    BY <1>3 DEF MarkHealing, MarkVerified, Settle
  <2>3. GateOf(heal[h]) = "cleared"
    BY <2>1, <2>2 DEF HealInv, GateInv, RequestSound, Running
  <2>4. (\E row : WriteHeal(s, h, row)) \/ UNCHANGED hdraft
    BY <1>3, <2>1 DEF MarkHealing, MarkVerified, Settle
  <2>5. UNCHANGED heal
    BY <1>3 DEF MarkHealing, MarkVerified, Settle
  <2>6. QED
    BY <1>1, <2>3, <2>4, <2>5, ClearedIsTaken, WriteTaken
<1>4. ASSUME NEW s \in HealRequests, RollBack(s)
      PROVE  OneTaken'
  <2>1. \A h \in HealIds : Taken(h)' => Taken(h)
    BY <1>4 DEF RollBack, DropHealDrafts, Taken, HealDrafted, NoHealDraft
  <2>2. QED
    BY <2>1, NoNewTaken
<1>5. ASSUME NEW s \in HealRequests, Commit(s)
      PROVE  OneTaken'
  <2>1. \A h \in HealIds : Taken(h)' => Taken(h)
    BY <1>5, CommitFacts, NobodyElse DEF HealInv, Taken, HealDrafted
  <2>2. QED
    BY <2>1, NoNewTaken
<1>6. ASSUME NEW s \in HealRequests, NEW h \in HealIds, Call(s, h)
      PROVE  UNCHANGED <<heal, hdraft>> \/ \E op : Decide(s, h, op)
  BY <1>6 DEF Call, ReturnExisting, DecideToCreate, RefuseDecision,
     StartExecute, RefuseExecute, StartVerify, RefuseVerify
<1>7. ASSUME NEW s \in HealRequests, Serve(s) \/ Abort(s)
      PROVE  OneTaken'
  BY <1>1, <1>3, <1>4, <1>5, <1>7, InsertTaken
     DEF Serve, Abort, InsertConflict, RefuseRecovery, SettleConflict,
         CallSucceeds, CallFails, CallExecutor
<1>8. QED
  BY <1>1, <1>2, <1>6, <1>7 DEF Next, HealNext, vars, healVars

\* However decisions race, an alert has one action of each type.
THEOREM UniqueActions == Spec => []OneActionPerAlertAndType
<1>1. Init => OneTaken
  BY DEF Init, NoHealRow, NoHealDraft, OneTaken, Taken, HealDrafted
<1>2. HealInv /\ OneTaken /\ [Next]_vars => OneTaken'
  BY StepTaken
<1>3. OneTaken => OneActionPerAlertAndType
  BY DEF OneTaken, OneActionPerAlertAndType, Taken
<1>4. QED
  BY <1>1, <1>2, <1>3, HealInvariant, PTL DEF Spec

-----------------------------------------------------------------------------
(* What a success rests on.  The executor is called, and its result kept in *)
(* the request, long before the transaction that reports it commits.        *)

Evidence(h) ==
  /\ calls[h] > 0
  /\ \E e \in audits : e.id = h /\ e.action = "HEAL_EXECUTE" /\ e.result = "success"

OutcomeSound(s) ==
  /\ Running(hreq[s]) /\ hreq[s].op = "verify" => Evidence(hreq[s].id)
  /\ hreq[s].op = "execute" /\ hreq[s].pc \in {"settling", "ready"} => calls[hreq[s].id] > 0
  /\ hreq[s].op = "execute" /\ hreq[s].pc \in {"running", "settling"} =>
       hdraft[hreq[s].id].row.status = "executing"
  /\ hreq[s].op = "execute" /\ hreq[s].pc = "ready" =>
       hdraft[hreq[s].id].row.status = (IF hreq[s].ok THEN "success" ELSE "failed")
  /\ hreq[s].op = "verify" /\ hreq[s].pc \in {"settling", "ready"} =>
       hdraft[hreq[s].id].row.status = (IF hreq[s].ok THEN "verified" ELSE "failed")

RowEvident(h) == heal[h].status \in {"success", "verified"} => Evidence(h)

OutcomeInv ==
  /\ \A h \in HealIds : RowEvident(h)
  /\ \A s \in HealRequests : OutcomeSound(s)

\* Calls and audit rows are never taken back.
LEMMA EvidenceStays ==
  ASSUME NEW h, Evidence(h), calls[h] > 0 => calls'[h] > 0, audits \subseteq audits'
  PROVE  Evidence(h)'
BY DEF Evidence

LEMMA OtherOutcome ==
  ASSUME HealInv, NEW t \in HealRequests, OutcomeSound(t), hreq'[t] = hreq[t],
         \A h \in HealIds : calls[h] > 0 => calls'[h] > 0,
         audits \subseteq audits',
         \A h \in HealIds : hdraft[h].owner = t => hdraft'[h] = hdraft[h]
  PROVE  OutcomeSound(t)'
<1>1. hreq[t].id \in HealIds
  BY DEF HealInv, TypeInv, HealTypeOK, HealRequest
<1>2. hreq'[t].id = hreq[t].id
  OBVIOUS
<1>3. /\ hreq[t].op = "execute" /\ hreq[t].pc \in {"running", "settling", "ready"} =>
           hdraft[hreq[t].id].owner = t
      /\ hreq[t].op = "verify" /\ hreq[t].pc \in {"settling", "ready"} =>
           hdraft[hreq[t].id].owner = t
  BY DEF HealInv, GateInv, RequestSound, Running, Holding
<1>4. PICK h \in HealIds : h = hreq[t].id
  BY <1>1
<1>5. Running(hreq'[t]) /\ hreq'[t].op = "verify" => Evidence(h)'
  BY <1>4, EvidenceStays DEF OutcomeSound
<1>6. QED
  BY <1>2, <1>3, <1>4, <1>5 DEF OutcomeSound, Evidence

LEMMA OthersOutcome ==
  ASSUME HealInv, OutcomeInv, NEW s \in HealRequests, OutcomeSound(s)',
         \A h \in HealIds : RowEvident(h)',
         \A t \in HealRequests \ {s} : hreq'[t] = hreq[t],
         \A h \in HealIds : calls[h] > 0 => calls'[h] > 0,
         audits \subseteq audits',
         \A h \in HealIds : hdraft[h].owner \notin {Nobody, s} => hdraft'[h] = hdraft[h]
  PROVE  OutcomeInv'
<1>1. ASSUME NEW t \in HealRequests \ {s} PROVE OutcomeSound(t)'
  <2>1. t # Nobody
    BY NobodyElse
  <2>2. \A h \in HealIds : hdraft[h].owner = t => hdraft'[h] = hdraft[h]
    BY <2>1
  <2>3. QED
    BY <2>2, OtherOutcome DEF OutcomeInv
<1>2. QED
  BY <1>1 DEF OutcomeInv

LEMMA RowsEvident ==
  ASSUME OutcomeInv, UNCHANGED heal, audits \subseteq audits',
         \A h \in HealIds : calls[h] > 0 => calls'[h] > 0
  PROVE  \A h \in HealIds : RowEvident(h)'
BY EvidenceStays DEF OutcomeInv, RowEvident

LEMMA CallOutcome ==
  ASSUME HealInv, OutcomeInv, NEW s \in HealRequests, NEW h \in HealIds, Call(s, h)
  PROVE  OutcomeInv'
<1>1. UNCHANGED <<heal, calls, audits>>
  BY DEF Call, ReturnExisting, DecideToCreate, Decide, RefuseDecision,
         StartExecute, RefuseExecute, StartVerify, RefuseVerify
<1>2. \E op, pc :
        /\ Begin(s, op, h, pc)
        /\ \/ pc = "failed"
           \/ op \in {"create", "approve", "reject"}
           \/ op = "execute" /\ pc = "marking"
           \/ op = "verify" /\ heal[h].status = "success" /\ pc = "checking"
  BY DEF Call, ReturnExisting, DecideToCreate, Decide, RefuseDecision,
         StartExecute, RefuseExecute, StartVerify, RefuseVerify
<1>3. /\ hreq'[s].id = h
      /\ \/ hreq'[s].pc = "failed"
         \/ hreq'[s].op \in {"create", "approve", "reject"}
         \/ hreq'[s].op = "execute" /\ hreq'[s].pc = "marking"
         \/ hreq'[s].op = "verify" /\ heal[h].status = "success" /\ hreq'[s].pc = "checking"
      /\ \A t \in HealRequests \ {s} : hreq'[t] = hreq[t]
  BY <1>2, BeginFacts DEF HealInv, TypeInv, HealTypeOK
<1>4. heal[h].status = "success" => Evidence(h)
  BY DEF OutcomeInv, RowEvident
<1>5. OutcomeSound(s)'
  BY <1>1, <1>3, <1>4 DEF OutcomeSound, Running, Evidence
<1>6. \A g \in HealIds : hdraft[g].owner \notin {Nobody, s} => hdraft'[g] = hdraft[g]
  <2>1. CASE UNCHANGED hdraft
    BY <2>1
  <2>2. CASE \E op : Decide(s, h, op)
    BY <2>2, WriteHealFacts
       DEF Decide, HealDrafted, HealInv, TypeInv, HealTypeOK, HealRowsTyped
  <2>3. QED
    BY <2>1, <2>2 DEF Call, ReturnExisting, DecideToCreate, RefuseDecision,
       StartExecute, RefuseExecute, StartVerify, RefuseVerify
<1>7. QED
  BY <1>1, <1>3, <1>5, <1>6, RowsEvident, OthersOutcome

\* A request that has its pc alone changed.
LEMMA MovedFacts ==
  ASSUME hreq \in [HealRequests -> HealRequest], NEW s \in HealRequests, NEW pc,
         hreq' = [hreq EXCEPT ![s].pc = pc]
  PROVE  /\ hreq'[s].pc = pc /\ hreq'[s].op = hreq[s].op
         /\ hreq'[s].id = hreq[s].id /\ hreq'[s].ok = hreq[s].ok
         /\ hreq'[s].seen = hreq[s].seen
         /\ \A t \in HealRequests \ {s} : hreq'[t] = hreq[t]
BY DEF HealRequest

LEMMA InsertOutcome ==
  ASSUME HealInv, OutcomeInv, NEW s \in HealRequests, InsertAction(s)
  PROVE  OutcomeInv'
<1>1. hreq' = [hreq EXCEPT ![s].pc = "ready"] /\ UNCHANGED <<heal, calls, audits>>
  BY DEF InsertAction
<1>2. hreq[s].op = "create"
  BY DEF InsertAction, HealInv, GateInv, RequestSound
<1>3. hreq'[s].op = "create" /\ \A t \in HealRequests \ {s} : hreq'[t] = hreq[t]
  BY <1>1, <1>2, MovedFacts DEF HealInv, TypeInv, HealTypeOK
<1>4. OutcomeSound(s)'
  BY <1>3 DEF OutcomeSound
<1>a. PICK h \in HealIds : (\E row : WriteHeal(s, h, row)) /\ ~HealDrafted(h)
  BY DEF InsertAction, HealInv, TypeInv, HealTypeOK, HealRequest, Siblings
<1>5. PICK row : WriteHeal(s, h, row) /\ ~HealDrafted(h)
  BY <1>a
<1>6. \A g \in HealIds : hdraft[g].owner \notin {Nobody, s} => hdraft'[g] = hdraft[g]
  BY <1>5, WriteHealFacts DEF HealDrafted, HealInv, TypeInv, HealTypeOK, HealRowsTyped
<1>7. QED
  BY <1>1, <1>3, <1>4, <1>6, RowsEvident, OthersOutcome

LEMMA MarkHealingOutcome ==
  ASSUME HealInv, OutcomeInv, NEW s \in HealRequests, MarkHealing(s)
  PROVE  OutcomeInv'
<1>1. PICK h \in HealIds : h = hreq[s].id
  BY DEF HealInv, TypeInv, HealTypeOK, HealRequest
<1> DEFINE new == [heal[h] EXCEPT !.status = "executing"]
<1>2. /\ WriteHeal(s, h, new) /\ ~HealDrafted(h) /\ UNCHANGED <<heal, calls, audits>>
      /\ hreq[s].pc = "marking"
  BY <1>1 DEF MarkHealing
<1>3. hreq[s].op = "execute"
  BY <1>2 DEF HealInv, GateInv, RequestSound
<1>4. /\ hreq'[s].pc = "running" /\ hreq'[s].op = hreq[s].op /\ hreq'[s].id = h
      /\ \A t \in HealRequests \ {s} : hreq'[t] = hreq[t]
  BY <1>1 DEF MarkHealing, HealRequest, HealInv, TypeInv, HealTypeOK
<1>5. new.status = "executing"
  BY DEF HealInv, TypeInv, HealTypeOK, HealRow
<1> HIDE DEF new
<1>6. hdraft'[h].row.status = "executing"
  BY <1>2, <1>5, WriteHealFacts DEF HealInv, TypeInv, HealTypeOK, HealRowsTyped
<1>7. OutcomeSound(s)'
  BY <1>3, <1>4, <1>6 DEF OutcomeSound
<1>8. \A g \in HealIds : hdraft[g].owner \notin {Nobody, s} => hdraft'[g] = hdraft[g]
  BY <1>2, WriteHealFacts DEF HealDrafted, HealInv, TypeInv, HealTypeOK, HealRowsTyped
<1>9. QED
  BY <1>2, <1>4, <1>7, <1>8, RowsEvident, OthersOutcome

LEMMA MarkVerifiedOutcome ==
  ASSUME HealInv, OutcomeInv, NEW s \in HealRequests, NEW recovered \in BOOLEAN,
         MarkVerified(s, recovered)
  PROVE  OutcomeInv'
<1>1. PICK h \in HealIds : h = hreq[s].id
  BY DEF HealInv, TypeInv, HealTypeOK, HealRequest
<1> DEFINE status == IF recovered THEN "verified" ELSE "failed"
           new == [heal[h] EXCEPT !.status = status]
           seen == alerts[AlertOf[h]].status
<1>2. /\ WriteHeal(s, h, new) /\ ~HealDrafted(h) /\ UNCHANGED <<heal, calls, audits>>
      /\ hreq[s].pc = "checking"
      /\ hreq' = [hreq EXCEPT ![s].pc = "settling", ![s].seen = seen, ![s].ok = recovered]
  BY <1>1 DEF MarkVerified
<1>3. hreq[s].op = "verify" /\ Evidence(h)
  BY <1>1, <1>2 DEF HealInv, GateInv, RequestSound, OutcomeInv, OutcomeSound, Running
<1>4. hreq[s] \in HealRequest /\ hreq \in [HealRequests -> HealRequest] /\ heal[h] \in HealRow
  BY DEF HealInv, TypeInv, HealTypeOK
<1>5. new.status = status
  BY <1>4 DEF HealRow
<1> HIDE DEF seen
<1>6. hreq'[s] = [hreq[s] EXCEPT !.pc = "settling", !.seen = seen, !.ok = recovered]
  BY <1>2, <1>4
<1>7. /\ hreq'[s].pc = "settling" /\ hreq'[s].op = hreq[s].op
      /\ hreq'[s].id = h /\ hreq'[s].ok = recovered
  BY <1>1, <1>4, <1>6 DEF HealRequest
<1>8. \A t \in HealRequests \ {s} : hreq'[t] = hreq[t]
  BY <1>2, <1>4
<1> HIDE DEF new
<1>9. hdraft'[h].row.status = status
  BY <1>2, <1>5, WriteHealFacts DEF HealInv, TypeInv, HealTypeOK, HealRowsTyped
<1>10. OutcomeSound(s)'
  BY <1>2, <1>3, <1>7, <1>9 DEF OutcomeSound, Evidence
<1>11. \A g \in HealIds : hdraft[g].owner \notin {Nobody, s} => hdraft'[g] = hdraft[g]
  BY <1>2, WriteHealFacts DEF HealDrafted, HealInv, TypeInv, HealTypeOK, HealRowsTyped
<1>12. QED
  BY <1>2, <1>8, <1>10, <1>11, RowsEvident, OthersOutcome

LEMMA ExecutorOutcome ==
  ASSUME HealInv, OutcomeInv, NEW s \in HealRequests, CallSucceeds(s) \/ CallFails(s)
  PROVE  OutcomeInv'
<1>1. PICK h \in HealIds : h = hreq[s].id
  BY DEF HealInv, TypeInv, HealTypeOK, HealRequest
<1>2. /\ hreq[s].pc = "running" /\ calls' = [calls EXCEPT ![h] = @ + 1]
      /\ UNCHANGED <<heal, hdraft, audits>>
  BY <1>1 DEF CallSucceeds, CallFails, CallExecutor
<1>3. /\ hreq[s] \in HealRequest /\ hreq \in [HealRequests -> HealRequest]
      /\ calls \in [HealIds -> Nat]
  BY DEF HealInv, TypeInv, HealTypeOK
<1>4. /\ hreq'[s].op = hreq[s].op /\ hreq'[s].id = h /\ hreq'[s].pc \in {"running", "settling"}
      /\ \A t \in HealRequests \ {s} : hreq'[t] = hreq[t]
  <2>1. CASE hreq' = [hreq EXCEPT ![s].pc = "settling", ![s].ok = TRUE]
    BY <1>1, <1>3, <2>1 DEF HealRequest
  <2>2. CASE hreq' = [hreq EXCEPT ![s].pc = "settling", ![s].ok = FALSE]
    BY <1>1, <1>3, <2>2 DEF HealRequest
  <2>3. CASE hreq' = [hreq EXCEPT ![s].tries = @ + 1]
    BY <1>1, <1>2, <1>3, <2>3 DEF HealRequest
  <2>4. QED
    BY <2>1, <2>2, <2>3 DEF CallSucceeds, CallFails
<1>5. hreq[s].op = "execute" /\ hdraft[h].row.status = "executing"
  BY <1>1, <1>2 DEF HealInv, GateInv, RequestSound, OutcomeInv, OutcomeSound
<1>6. \A g \in HealIds : calls[g] > 0 => calls'[g] > 0
  BY <1>2, <1>3
<1>7. calls'[h] > 0
  BY <1>2, <1>3
<1>8. OutcomeSound(s)'
  BY <1>2, <1>4, <1>5, <1>7 DEF OutcomeSound
<1>9. QED
  BY <1>2, <1>4, <1>6, <1>8, RowsEvident, OthersOutcome

LEMMA SettleOutcome ==
  ASSUME HealInv, OutcomeInv, NEW s \in HealRequests, Settle(s)
  PROVE  OutcomeInv'
<1>1. PICK h \in HealIds : h = hreq[s].id
  BY DEF HealInv, TypeInv, HealTypeOK, HealRequest
<1> DEFINE status == IF hreq[s].ok THEN "success" ELSE "failed"
           new == [hdraft[h].row EXCEPT !.status = status]
<1>2. /\ hreq[s].pc = "settling" /\ UNCHANGED <<heal, calls, audits>>
      /\ hreq' = [hreq EXCEPT ![s].pc = "ready"]
      /\ IF hreq[s].op = "execute" THEN WriteHeal(s, h, new) ELSE UNCHANGED hdraft
  BY <1>1 DEF Settle
<1>3. /\ hreq'[s].pc = "ready" /\ hreq'[s].op = hreq[s].op
      /\ hreq'[s].id = h /\ hreq'[s].ok = hreq[s].ok
      /\ \A t \in HealRequests \ {s} : hreq'[t] = hreq[t]
  BY <1>1, <1>2, MovedFacts DEF HealInv, TypeInv, HealTypeOK
<1>4. hreq[s].op \in {"execute", "verify"} /\ hdraft[h].owner = s
  BY <1>1, <1>2 DEF HealInv, GateInv, RequestSound, Running, Holding
<1>5. new.status = status
  BY DEF HealInv, TypeInv, HealTypeOK, HealRow
<1> HIDE DEF new, status
<1>6. hreq[s].op = "execute" => hdraft'[h].row.status = status
  BY <1>2, <1>5, WriteHealFacts DEF HealInv, TypeInv, HealTypeOK, HealRowsTyped
<1>7. OutcomeSound(s)'
  BY <1>1, <1>2, <1>3, <1>4, <1>6 DEF OutcomeInv, OutcomeSound, Evidence, Running, status
<1>8. \A g \in HealIds : hdraft[g].owner \notin {Nobody, s} => hdraft'[g] = hdraft[g]
  BY <1>2, <1>4, WriteHealFacts DEF HealInv, TypeInv, HealTypeOK, HealRowsTyped
<1>9. QED
  BY <1>2, <1>3, <1>7, <1>8, RowsEvident, OthersOutcome

LEMMA RollBackOutcome ==
  ASSUME HealInv, OutcomeInv, NEW s \in HealRequests, RollBack(s)
  PROVE  OutcomeInv'
<1>1. hreq' = [hreq EXCEPT ![s].pc = "failed"] /\ UNCHANGED <<heal, calls, audits>>
  BY DEF RollBack
<1>2. hreq'[s].pc = "failed" /\ \A t \in HealRequests \ {s} : hreq'[t] = hreq[t]
  BY <1>1, MovedFacts DEF HealInv, TypeInv, HealTypeOK
<1>3. OutcomeSound(s)'
  BY <1>2 DEF OutcomeSound, Running
<1>4. \A g \in HealIds : hdraft[g].owner \notin {Nobody, s} => hdraft'[g] = hdraft[g]
  BY DEF RollBack, DropHealDrafts
<1>5. QED
  BY <1>1, <1>2, <1>3, <1>4, RowsEvident, OthersOutcome

\* A committed success was reported by the executor and is audited with it.
LEMMA CommitEvident ==
  ASSUME HealInv, OutcomeInv, NEW s \in HealRequests, Commit(s), NEW h \in HealIds
  PROVE  RowEvident(h)'
<1>1. audits' = audits \cup AuditsOf(s) /\ UNCHANGED calls /\ hreq[s].pc = "ready"
  BY CommitFacts DEF HealInv
<1>2. Evidence(h) => Evidence(h)'
  BY <1>1, EvidenceStays
<1>3. CASE hdraft[h].owner # s
  BY <1>2, <1>3, CommitFacts DEF HealInv, OutcomeInv, RowEvident
<1>4. CASE hdraft[h].owner = s
  <2>1. /\ heal'[h] = hdraft[h].row /\ h = hreq[s].id
        /\ hreq[s].op \in {"create", "approve", "reject", "execute", "verify"}
        /\ WriteSound(hreq[s], h, heal[h], hdraft[h].row)
    BY <1>4, CommitFacts, CommitMovesGate, OwnRowOnly DEF HealInv
  <2>2. CASE hreq[s].op \in {"create", "approve", "reject"}
    <3>1. heal[h] \in HealRow
      BY DEF HealInv, TypeInv, HealTypeOK
    <3>2. heal'[h].status \in {"waiting_approval", "pending", "failed"}
      BY <2>1, <2>2, <3>1, DecidedFacts DEF WriteSound
    <3>3. QED
      BY <3>2 DEF RowEvident
  <2>3. CASE hreq[s].op = "verify"
    BY <1>1, <1>2, <2>1, <2>3 DEF OutcomeInv, OutcomeSound, Running, RowEvident
  <2>4. CASE hreq[s].op = "execute" /\ hreq[s].ok
    <3>1. /\ AuditRow(s).id = h /\ AuditRow(s).action = "HEAL_EXECUTE"
          /\ AuditRow(s).result = "success"
      BY <2>1, <2>4 DEF AuditRow, AuditAction
    <3>2. AuditRow(s) \in audits'
      BY <1>1, <2>4 DEF AuditsOf
    <3>3. calls'[h] > 0
      BY <1>1, <2>1, <2>4 DEF OutcomeInv, OutcomeSound
    <3>4. Evidence(h)'
      BY <3>1, <3>2, <3>3 DEF Evidence
    <3>5. QED
      BY <3>4 DEF RowEvident
  <2>5. CASE hreq[s].op = "execute" /\ ~hreq[s].ok
    <3>1. heal'[h].status = "failed"
      BY <1>1, <2>1, <2>5 DEF OutcomeInv, OutcomeSound
    <3>2. QED
      BY <3>1 DEF RowEvident
  <2>6. QED
    BY <2>1, <2>2, <2>3, <2>4, <2>5
<1>5. QED
  BY <1>3, <1>4

LEMMA CommitOutcome ==
  ASSUME HealInv, OutcomeInv, NEW s \in HealRequests, Commit(s)
  PROVE  OutcomeInv'
<1>1. OutcomeSound(s)'
  BY CommitFacts DEF HealInv, OutcomeSound, Running
<1>2. QED
  BY <1>1, CommitEvident, CommitFacts, OthersOutcome DEF HealInv

LEMMA StepOutcome ==
  ASSUME HealInv, OutcomeInv, [Next]_vars
  PROVE  OutcomeInv'
<1>1. CASE UNCHANGED healVars
  BY <1>1 DEF healVars, OutcomeInv, OutcomeSound, RowEvident, Evidence, Running
<1>2. ASSUME NEW s \in HealRequests, (\E h \in HealIds : Call(s, h)) \/ Serve(s) \/ Abort(s)
      PROVE  OutcomeInv'
  BY <1>2, CallOutcome, InsertOutcome, RollBackOutcome, MarkHealingOutcome,
     ExecutorOutcome, MarkVerifiedOutcome, SettleOutcome, CommitOutcome
     DEF Serve, InsertConflict, RefuseRecovery, SettleConflict, Abort
<1>3. QED
  BY <1>1, <1>2 DEF Next, HealNext, vars

LEMMA OutcomeInvariant == Spec => [](HealInv /\ OutcomeInv)
<1>1. Init => OutcomeInv
  <2>1. SUFFICES ASSUME Init PROVE OutcomeInv
    OBVIOUS
  <2>2. \A s \in HealRequests : hreq[s].pc = "idle" /\ hreq[s].op = "none"
    BY <2>1 DEF Init, IdleHealRequest
  <2>3. \A s \in HealRequests : OutcomeSound(s)
    BY <2>2 DEF OutcomeSound, Running
  <2>4. \A h \in HealIds : RowEvident(h)
    BY <2>1 DEF Init, NoHealRow, RowEvident, Absent
  <2>5. QED
    BY <2>3, <2>4 DEF OutcomeInv
<1>2. HealInv /\ OutcomeInv /\ [Next]_vars => OutcomeInv'
  BY StepOutcome
<1>3. QED
  BY <1>1, <1>2, HealInvariant, PTL DEF Spec

\* A success on record was reached by calling the executor and is audited.
THEOREM SuccessesAreAudited == Spec => []SuccessIsAudited
<1>1. OutcomeInv => SuccessIsAudited
  BY DEF OutcomeInv, RowEvident, Evidence, SuccessIsAudited
<1>2. QED
  BY <1>1, OutcomeInvariant, PTL

-----------------------------------------------------------------------------
(* Treated alerts.  No user can make an alert healing or failed, so whoever *)
(* wrote that status has called the executor before.                        *)

Called(i) == \E h \in HealIds : AlertOf[h] = i /\ calls[h] > 0

Treated(row) == row.status \in {"healing", "failed"}

TreatedInv ==
  \A i \in AlertIds : Treated(alerts[i]) \/ (Drafted(i) /\ Treated(draft[i].row)) => Called(i)

LEMMA CalledStays ==
  ASSUME NEW i, Called(i), \A h \in HealIds : calls[h] > 0 => calls'[h] > 0
  PROVE  Called(i)'
BY DEF Called

\* Publishing or dropping drafts treats no alert anew.
LEMMA EndTreated ==
  ASSUME TreatedInv, NEW s, s # Nobody, UNCHANGED calls, PublishDrafts(s) \/ DropDrafts(s)
  PROVE  TreatedInv'
<1>1. \A i \in AlertIds :
        /\ alerts'[i] \in {alerts[i], IF draft[i].owner = s THEN draft[i].row ELSE alerts[i]}
        /\ draft'[i] = IF draft[i].owner = s THEN NoDraft ELSE draft[i]
  BY DEF PublishDrafts, DropDrafts, Visible
<1>2. QED
  BY <1>1 DEF TreatedInv, Drafted, Called, NoDraft

LEMMA WriteTreated ==
  ASSUME TreatedInv, RowsTyped, NEW s, NEW i \in AlertIds, NEW row,
         WriteRow(s, i, row), UNCHANGED <<alerts, calls>>, Treated(row) => Called(i)
  PROVE  TreatedInv'
BY WriteRowFacts DEF TreatedInv, Drafted, Called

LEMMA AlertStepTreated ==
  ASSUME AlertAssumption, AlertInv, TreatedInv, AlertNext, UNCHANGED calls
  PROVE  TreatedInv'
<1>1. RowsTyped
  BY DEF AlertInv, AlertTypeOK, RowsTyped
<1>2. ASSUME NEW r \in AlertRequests, FlushTransition(r)
      PROVE  TreatedInv'
  <2>1. PICK i \in AlertIds : i = CurrentId(r)
    BY <1>2, CurrentIdTyped DEF FlushTransition
  <2> DEFINE row == [alerts[i] EXCEPT !.status = req[r].target,
                                      !.resolved = @ \/ req[r].target = "resolved"]
  <2>2. WriteRow(r, i, row) /\ UNCHANGED alerts /\ req[r].target \in UserTargets
    BY <1>2, <2>1, CurrentIdTyped DEF FlushTransition
  <2>3. row.status = req[r].target
    BY <1>1 DEF RowsTyped, AlertRow
  <2>4. ~Treated(row)
    BY <2>2, <2>3 DEF Treated, UserTargets
  <2> HIDE DEF row
  <2>5. QED
    BY <1>1, <2>2, <2>4, WriteTreated
<1>3. ASSUME NEW r \in AlertRequests, NEW i \in AlertIds,
             UpsertExisting(r, i) \/ UpsertNew(r, i)
      PROVE  TreatedInv'
  <2>1. alerts[i] \in AlertRow
    BY <1>1 DEF RowsTyped
  <2>2. [alerts[i] EXCEPT !.status = "firing", !.count = @ + 1].status = "firing"
    BY <2>1 DEF AlertRow
  <2>3. PICK row : WriteRow(r, i, row) /\ UNCHANGED alerts /\ row.status = "firing"
    <3>1. CASE UpsertExisting(r, i)
      BY <2>2, <3>1 DEF UpsertExisting, UpsertRow
    <3>2. CASE UpsertNew(r, i)
      <4> DEFINE row == [status |-> "firing", resolved |-> FALSE, count |-> 1]
      <4>1. WriteRow(r, i, row) /\ UNCHANGED alerts /\ row.status = "firing"
        BY <3>2 DEF UpsertNew, UpsertRow
      <4>2. QED
        BY <4>1
    <3>3. QED
      BY <1>3, <3>1, <3>2
  <2>4. ~Treated(row)
    BY <2>3 DEF Treated
  <2>5. QED
    BY <1>1, <2>3, <2>4, WriteTreated
<1>4. ASSUME NEW r \in AlertRequests, PublishDrafts(r) \/ DropDrafts(r)
      PROVE  TreatedInv'
  BY <1>4, EndTreated, RequestsAreSessions
<1>5. ASSUME UNCHANGED <<alerts, draft>> PROVE TreatedInv'
  BY <1>5 DEF TreatedInv, Drafted, Called
<1>6. QED
  BY <1>2, <1>3, <1>4, <1>5
     DEF AlertNext, ServeRequest, AbortDeadlockVictim, AbortRequest, ReceiveTransition,
         ReadAndDecide, RefuseTransition, CommitRequest

LEMMA SettleTreated ==
  ASSUME HealInv, OutcomeInv, TreatedInv, NEW s \in HealRequests, Settle(s)
  PROVE  TreatedInv'
<1>1. PICK h \in HealIds : h = hreq[s].id
  BY DEF HealInv, TypeInv, HealTypeOK, HealRequest
<1>2. hreq[s].pc = "settling" /\ UNCHANGED <<alerts, calls>>
  BY DEF Settle
<1>3. hreq[s].op \in {"execute", "verify"}
  BY <1>2 DEF HealInv, GateInv, RequestSound
<1>4. calls[h] > 0
  BY <1>1, <1>2, <1>3 DEF OutcomeInv, OutcomeSound, Evidence, Running
<1>5. AlertOf[h] \in AlertIds /\ Called(AlertOf[h]) /\ RowsTyped
  BY <1>4, HealAssumption
     DEF Called, HealAssumption, HealInv, TypeInv, HealTypeOK, AlertTypeOK, RowsTyped
<1>6. WriteRow(s, AlertOf[h], SettledAlert(s, alerts[AlertOf[h]]))
  BY <1>1 DEF Settle
<1>7. QED
  BY <1>2, <1>5, <1>6, WriteTreated

\* What a step of the healing service may do to the alerts' rows.
LEMMA HealStepRows ==
  ASSUME NEW s \in HealRequests, (\E h \in HealIds : Call(s, h)) \/ Serve(s) \/ Abort(s)
  PROVE  /\ UNCHANGED <<req, trail>>
         /\ \/ UNCHANGED <<alerts, draft>>
            \/ RollBack(s) \/ Commit(s) \/ Settle(s)
<1>1. CASE \E h \in HealIds : Call(s, h)
  BY <1>1 DEF Call, ReturnExisting, DecideToCreate, Decide, RefuseDecision,
     StartExecute, RefuseExecute, StartVerify, RefuseVerify, alertVars
<1>2. CASE Serve(s) \/ Abort(s)
  BY <1>2 DEF Serve, Abort, InsertAction, InsertConflict, MarkHealing, MarkVerified,
     CallSucceeds, CallFails, CallExecutor, RefuseRecovery, SettleConflict, RollBack,
     Settle, Commit, alertVars
<1>3. QED
  BY <1>1, <1>2

LEMMA CallsGrow ==
  ASSUME HealInv, [Next]_vars, NEW h \in HealIds, calls[h] > 0
  PROVE  calls'[h] > 0
<1>1. calls \in [HealIds -> Nat]
  BY DEF HealInv, TypeInv, HealTypeOK
<1>2. ASSUME NEW s \in HealRequests, CallExecutor(s) PROVE calls'[h] > 0
  BY <1>1, <1>2 DEF CallExecutor
<1>3. UNCHANGED calls \/ \E s \in HealRequests : CallExecutor(s)
  BY DEF Next, HealNext, vars, healVars, Call, ReturnExisting, DecideToCreate, Decide,
     RefuseDecision, StartExecute, RefuseExecute, StartVerify, RefuseVerify, Serve, Abort,
     InsertAction, InsertConflict, MarkHealing, MarkVerified, CallSucceeds, CallFails,
     RefuseRecovery, SettleConflict, RollBack, Settle, Commit
<1>4. QED
  BY <1>2, <1>3

LEMMA StepTreated ==
  ASSUME AlertAssumption, HealAssumption, HealInv, OutcomeInv, TreatedInv, [Next]_vars
  PROVE  TreatedInv'
<1>1. CASE UNCHANGED <<alerts, draft>>
  <2>1. \A i \in AlertIds : Called(i) => Called(i)'
    BY CallsGrow, CalledStays
  <2>2. QED
    BY <1>1, <2>1 DEF TreatedInv, Drafted
<1>2. CASE AlertNext /\ UNCHANGED healVars
  BY <1>2, AlertAssumption, AlertStepTreated
     DEF healVars, HealInv, TypeInv, HealTypeOK, AlertInv
<1>3. ASSUME NEW s \in HealRequests, RollBack(s) \/ Commit(s)
      PROVE  TreatedInv'
  BY <1>3, EndTreated, NobodyElse DEF RollBack, Commit
<1>4. QED
  BY <1>1, <1>2, <1>3, HealStepRows, SettleTreated DEF Next, HealNext, vars, alertVars

\* An alert is healing or failed only after the executor was called for it.
\* heal_actions is empty at the start, so no seeded alert may be treated.
THEOREM TreatmentNeedsCall ==
  ASSUME SeedStatuses \cap {"healing", "failed"} = {}
  PROVE  Spec => []TreatedAlertsWereCalled
<1>1. Init => TreatedInv
  <2>1. SUFFICES ASSUME Init, NEW i \in AlertIds
                 PROVE  ~Treated(alerts[i]) /\ ~Drafted(i)
    BY DEF TreatedInv
  <2>2. ~Drafted(i)
    BY <2>1 DEF Init, AlertInit, Drafted, NoDraft
  <2>3. PICK seed \in [AlertIds -> SeedStatuses] :
          alerts = [j \in AlertIds |->
            IF seed[j] = Absent THEN NoRow
            ELSE [status |-> seed[j], resolved |-> seed[j] = "resolved", count |-> 1]]
    BY <2>1 DEF Init, AlertInit
  <2>4. seed[i] \in SeedStatuses
    OBVIOUS
  <2>5. alerts[i].status \in SeedStatuses \/ alerts[i].status = Absent
    BY <2>3, <2>4 DEF NoRow
  <2>6. QED
    BY <2>2, <2>5 DEF Treated, Absent
<1>2. HealInv /\ OutcomeInv /\ TreatedInv /\ [Next]_vars => TreatedInv'
  BY AlertAssumption, HealAssumption, StepTreated
<1>3. TreatedInv => TreatedAlertsWereCalled
  BY DEF TreatedInv, Treated, TreatedAlertsWereCalled, Called
<1>4. QED
  BY <1>1, <1>2, <1>3, OutcomeInvariant, PTL DEF Spec

-----------------------------------------------------------------------------
(* Resolution.  Two writers can commit a resolved alert: a user's           *)
(* transition, whose rows AlertProofs explains, and a verification, whose   *)
(* rows are explained here by the request that settled them.                *)

\* A step of session s touches no row that another session has written.
RowsOnlyBy(s) ==
  \A i \in AlertIds :
    \/ draft'[i] = draft[i] /\ alerts'[i] = alerts[i]
    \/ /\ draft[i].owner \in {Nobody, s} /\ draft'[i].owner \in {Nobody, s}
       /\ alerts'[i] = alerts[i] \/ draft[i].owner = s

LEMMA WriteOnlyBy ==
  ASSUME RowsTyped, NEW s, NEW i \in AlertIds, NEW row,
         WriteRow(s, i, row), ~Drafted(i), UNCHANGED alerts
  PROVE  RowsOnlyBy(s)
BY WriteRowFacts DEF RowsOnlyBy, Drafted

LEMMA EndOnlyBy ==
  ASSUME NEW s, PublishDrafts(s) \/ DropDrafts(s)
  PROVE  RowsOnlyBy(s)
<1>1. \A i \in AlertIds :
        /\ draft[i].owner # s => alerts'[i] = alerts[i]
        /\ draft'[i] = IF draft[i].owner = s THEN NoDraft ELSE draft[i]
  BY DEF PublishDrafts, DropDrafts, Visible
<1>2. QED
  BY <1>1 DEF RowsOnlyBy, NoDraft

LEMMA AlertStepOnlyBy ==
  ASSUME AlertInv, AlertNext
  PROVE  \E r \in AlertRequests : RowsOnlyBy(r)
<1>1. RowsTyped
  BY DEF AlertInv, AlertTypeOK, RowsTyped
<1>2. ASSUME NEW r \in AlertRequests, FlushTransition(r) PROVE RowsOnlyBy(r)
  <2>1. PICK i \in AlertIds : i = CurrentId(r)
    BY <1>2, CurrentIdTyped DEF FlushTransition
  <2>2. ~Drafted(i) /\ UNCHANGED alerts /\ \E row : WriteRow(r, i, row)
    BY <1>2, <2>1 DEF FlushTransition
  <2>3. QED
    BY <1>1, <2>2, WriteOnlyBy
<1>3. ASSUME NEW r \in AlertRequests, NEW i \in AlertIds,
             UpsertExisting(r, i) \/ UpsertNew(r, i)
      PROVE  RowsOnlyBy(r)
  <2>1. ~Drafted(i) /\ UNCHANGED alerts /\ \E row : WriteRow(r, i, row)
    BY <1>3 DEF UpsertExisting, UpsertNew, UpsertRow
  <2>2. QED
    BY <1>1, <2>1, WriteOnlyBy
<1>4. ASSUME NEW r \in AlertRequests, UNCHANGED <<alerts, draft>> PROVE RowsOnlyBy(r)
  BY <1>4 DEF RowsOnlyBy
<1>5. QED
  BY <1>2, <1>3, <1>4, EndOnlyBy
     DEF AlertNext, ServeRequest, AbortDeadlockVictim, AbortRequest, ReceiveTransition,
         ReadAndDecide, RefuseTransition, CommitRequest

LEMMA HealStepOnlyBy ==
  ASSUME HealInv, NEW s \in HealRequests,
         (\E h \in HealIds : Call(s, h)) \/ Serve(s) \/ Abort(s)
  PROVE  RowsOnlyBy(s)
<1>1. CASE UNCHANGED <<alerts, draft>>
  BY <1>1 DEF RowsOnlyBy
<1>2. CASE RollBack(s) \/ Commit(s)
  BY <1>2, EndOnlyBy DEF RollBack, Commit
<1>3. CASE Settle(s)
  <2>1. PICK i \in AlertIds : i = AlertOf[hreq[s].id]
    BY HealAssumption DEF HealAssumption, HealInv, TypeInv, HealTypeOK, HealRequest
  <2>2. ~Drafted(i) /\ UNCHANGED alerts /\ \E row : WriteRow(s, i, row)
    BY <1>3, <2>1 DEF Settle
  <2>3. QED
    BY <2>2, WriteOnlyBy DEF HealInv, TypeInv, HealTypeOK, AlertTypeOK, RowsTyped
<1>4. QED
  BY <1>1, <1>2, <1>3, HealStepRows

\* The alert requests are explained in the composition too.
LEMMA ExplainedWithHealing ==
  ASSUME AlertAssumption, HealAssumption, HealInv, Explained, [Next]_vars
  PROVE  Explained'
<1>1. CASE [AlertNext]_alertVars
  BY <1>1, AlertAssumption, StepExplained DEF HealInv, TypeInv, HealTypeOK, AlertInv
<1>2. ASSUME NEW s \in HealRequests, (\E h \in HealIds : Call(s, h)) \/ Serve(s) \/ Abort(s),
             NEW t \in AlertRequests
      PROVE  RequestExplained(t)'
  <2>1. t # s /\ t # Nobody
    BY AlertAssumption, HealAssumption DEF AlertAssumption, HealAssumption
  <2>2. UNCHANGED <<req, trail>> /\ RowsOnlyBy(s)
    BY <1>2, HealStepRows, HealStepOnlyBy
  <2>3. \A i \in AlertIds :
          draft[i].owner = t \/ draft'[i].owner = t =>
            draft'[i] = draft[i] /\ alerts'[i] = alerts[i]
    BY <2>1, <2>2 DEF RowsOnlyBy
  <2>4. QED
    BY <2>2, <2>3, OtherExplained DEF Explained, EntriesOf
<1>3. QED
  BY <1>1, <1>2 DEF Next, HealNext, vars, Explained

\* A session that executes or verifies has written its alert's row, and
\* nothing else, when it is ready to commit.
SettledSound(s) ==
  /\ hreq[s].pc = "ready" /\ hreq[s].op \in {"execute", "verify"} =>
       draft[AlertOf[hreq[s].id]].owner = s
  /\ \A i \in AlertIds : draft[i].owner = s =>
       /\ hreq[s].pc = "ready" /\ hreq[s].op \in {"execute", "verify"}
       /\ draft[i].row = SettledAlert(s, alerts[i])
       /\ i = AlertOf[hreq[s].id]

SettledInv == \A s \in HealRequests : SettledSound(s)

LEMMA OtherSettled ==
  ASSUME HealAssumption, HealInv, SettledInv, NEW s, RowsOnlyBy(s),
         NEW t \in HealRequests, t # s, hreq'[t] = hreq[t]
  PROVE  SettledSound(t)'
<1>1. \A i \in AlertIds :
        draft[i].owner = t \/ draft'[i].owner = t =>
          draft'[i] = draft[i] /\ alerts'[i] = alerts[i]
  BY NobodyElse DEF RowsOnlyBy
<1>2. AlertOf[hreq[t].id] \in AlertIds
  BY DEF HealAssumption, HealInv, TypeInv, HealTypeOK, HealRequest
<1>3. \A row : SettledAlert(t, row)' = SettledAlert(t, row)
  BY DEF SettledAlert, AlertTarget
<1>4. QED
  BY <1>1, <1>2, <1>3 DEF SettledInv, SettledSound

\* A step that writes no alert row and makes no settled session ready.
LEMMA QuietSettled ==
  ASSUME HealAssumption, HealInv, SettledInv, NEW s \in HealRequests,
         UNCHANGED <<alerts, draft>>, hreq[s].pc # "ready",
         hreq'[s].pc = "ready" => hreq'[s].op \notin {"execute", "verify"},
         \A t \in HealRequests \ {s} : hreq'[t] = hreq[t]
  PROVE  SettledInv'
<1>1. SettledSound(s)'
  BY DEF SettledInv, SettledSound
<1>2. RowsOnlyBy(s)
  BY DEF RowsOnlyBy
<1>3. QED
  BY <1>1, <1>2, OtherSettled DEF SettledInv

LEMMA WorkingFacts ==
  ASSUME HealInv, NEW s \in HealRequests,
         \/ MarkHealing(s) \/ CallSucceeds(s) \/ CallFails(s)
         \/ \E recovered \in BOOLEAN : MarkVerified(s, recovered)
  PROVE  /\ hreq[s].pc # "ready" /\ hreq'[s].pc \in {"running", "settling"}
         /\ \A t \in HealRequests \ {s} : hreq'[t] = hreq[t]
         /\ UNCHANGED <<alerts, draft>>
<1>1. hreq \in [HealRequests -> HealRequest]
  BY DEF HealInv, TypeInv, HealTypeOK
<1>2. /\ UNCHANGED <<alerts, draft>>
      /\ hreq[s].pc \in {"marking", "running", "checking"}
  BY DEF MarkHealing, CallSucceeds, CallFails, CallExecutor, MarkVerified, alertVars
<1>3. CASE \E pc \in {"running", "settling"} : \E seen, ok :
             \/ hreq' = [hreq EXCEPT ![s].pc = pc, ![s].seen = seen]
             \/ hreq' = [hreq EXCEPT ![s].pc = pc, ![s].ok = ok]
             \/ hreq' = [hreq EXCEPT ![s].pc = pc, ![s].seen = seen, ![s].ok = ok]
  BY <1>1, <1>2, <1>3 DEF HealRequest
<1>4. CASE hreq[s].pc = "running" /\ hreq' = [hreq EXCEPT ![s].tries = @ + 1]
  BY <1>1, <1>2, <1>4 DEF HealRequest
<1>5. QED
  BY <1>3, <1>4 DEF MarkHealing, CallSucceeds, CallFails, CallExecutor, MarkVerified

LEMMA CallSettled ==
  ASSUME HealAssumption, HealInv, SettledInv,
         NEW s \in HealRequests, NEW h \in HealIds, Call(s, h)
  PROVE  SettledInv'
<1>1. UNCHANGED <<alerts, draft>>
  BY DEF Call, ReturnExisting, DecideToCreate, Decide, RefuseDecision,
         StartExecute, RefuseExecute, StartVerify, RefuseVerify, alertVars
<1>2. \E op, pc :
        Begin(s, op, h, pc) /\ (pc = "ready" => op \in {"create", "approve", "reject"})
  BY DEF Call, ReturnExisting, DecideToCreate, Decide, RefuseDecision,
         StartExecute, RefuseExecute, StartVerify, RefuseVerify
<1>3. /\ hreq[s].pc = "idle"
      /\ hreq'[s].pc = "ready" => hreq'[s].op \in {"create", "approve", "reject"}
      /\ \A t \in HealRequests \ {s} : hreq'[t] = hreq[t]
  BY <1>2, BeginFacts DEF HealInv, TypeInv, HealTypeOK
<1>4. QED
  BY <1>1, <1>3, HealAssumption, QuietSettled

LEMMA InsertSettled ==
  ASSUME HealAssumption, HealInv, SettledInv, NEW s \in HealRequests, InsertAction(s)
  PROVE  SettledInv'
<1>1. /\ UNCHANGED <<alerts, draft>> /\ hreq[s].pc = "inserting"
      /\ hreq' = [hreq EXCEPT ![s].pc = "ready"]
  BY DEF InsertAction, alertVars
<1>2. hreq[s].op = "create"
  BY <1>1 DEF HealInv, GateInv, RequestSound
<1>3. hreq'[s].op = "create" /\ \A t \in HealRequests \ {s} : hreq'[t] = hreq[t]
  BY <1>1, <1>2, MovedFacts DEF HealInv, TypeInv, HealTypeOK
<1>4. QED
  BY <1>1, <1>3, HealAssumption, QuietSettled

LEMMA SettleSettled ==
  ASSUME HealAssumption, HealInv, SettledInv, NEW s \in HealRequests, Settle(s)
  PROVE  SettledInv'
<1>1. PICK i \in AlertIds : i = AlertOf[hreq[s].id]
  BY DEF HealAssumption, HealInv, TypeInv, HealTypeOK, HealRequest
<1>2. /\ WriteRow(s, i, SettledAlert(s, alerts[i])) /\ UNCHANGED alerts
      /\ hreq[s].pc = "settling" /\ hreq' = [hreq EXCEPT ![s].pc = "ready"]
  BY <1>1 DEF Settle
<1>3. hreq[s].op \in {"execute", "verify"}
  BY <1>2 DEF HealInv, GateInv, RequestSound
<1>4. /\ hreq'[s].pc = "ready" /\ hreq'[s].op = hreq[s].op /\ hreq'[s].id = hreq[s].id
      /\ hreq'[s].ok = hreq[s].ok /\ hreq'[s].seen = hreq[s].seen
      /\ \A t \in HealRequests \ {s} : hreq'[t] = hreq[t]
  BY <1>2, MovedFacts DEF HealInv, TypeInv, HealTypeOK
<1>5. SettledAlert(s, alerts[i])' = SettledAlert(s, alerts[i])
  BY <1>2, <1>4 DEF SettledAlert, AlertTarget
<1>6. /\ draft'[i].owner = s /\ draft'[i].row = SettledAlert(s, alerts[i])
      /\ \A j \in AlertIds \ {i} : draft'[j] = draft[j]
  BY <1>2, WriteRowFacts DEF HealInv, TypeInv, HealTypeOK, AlertTypeOK, RowsTyped
<1>7. \A j \in AlertIds : draft[j].owner # s
  BY <1>2 DEF SettledInv, SettledSound
<1>8. SettledSound(s)'
  BY <1>1, <1>3, <1>4, <1>5, <1>6, <1>7 DEF SettledSound
<1>9. RowsOnlyBy(s)
  BY HealStepOnlyBy DEF Serve
<1>10. QED
  BY <1>4, <1>8, <1>9, HealAssumption, OtherSettled DEF SettledInv

LEMMA EndSettled ==
  ASSUME HealAssumption, HealInv, SettledInv, NEW s \in HealRequests,
         PublishDrafts(s) \/ DropDrafts(s),
         NEW pc \in {"done", "failed"}, hreq' = [hreq EXCEPT ![s].pc = pc]
  PROVE  SettledInv'
<1>1. hreq'[s].pc = pc /\ \A t \in HealRequests \ {s} : hreq'[t] = hreq[t]
  BY MovedFacts DEF HealInv, TypeInv, HealTypeOK
<1>2. \A i \in AlertIds : draft'[i].owner # s
  BY NobodyElse DEF PublishDrafts, DropDrafts, NoDraft
<1>3. SettledSound(s)'
  BY <1>1, <1>2 DEF SettledSound
<1>4. QED
  BY <1>1, <1>3, HealAssumption, EndOnlyBy, OtherSettled DEF SettledInv

LEMMA StepSettled ==
  ASSUME AlertAssumption, HealAssumption, HealInv, SettledInv, [Next]_vars
  PROVE  SettledInv'
<1>1. CASE UNCHANGED vars
  <2>1. RowsOnlyBy(Nobody)
    BY <1>1 DEF vars, alertVars, RowsOnlyBy
  <2>2. QED
    BY <1>1, <2>1, HealAssumption, NobodyElse, OtherSettled DEF vars, healVars, SettledInv
<1>2. CASE AlertNext /\ UNCHANGED healVars
  <2>1. PICK r \in AlertRequests : RowsOnlyBy(r)
    BY <1>2, AlertStepOnlyBy DEF HealInv, TypeInv, HealTypeOK, AlertInv
  <2>2. r \notin HealRequests
    BY HealAssumption DEF HealAssumption
  <2>3. QED
    BY <1>2, <2>1, <2>2, HealAssumption, OtherSettled DEF SettledInv, healVars
<1>3. ASSUME NEW s \in HealRequests, RollBack(s) \/ Commit(s)
      PROVE  SettledInv'
  BY <1>3, HealAssumption, EndSettled DEF RollBack, Commit
<1>4. ASSUME NEW s \in HealRequests,
             \/ MarkHealing(s) \/ CallSucceeds(s) \/ CallFails(s)
             \/ \E recovered \in BOOLEAN : MarkVerified(s, recovered)
      PROVE  SettledInv'
  BY <1>4, HealAssumption, WorkingFacts, QuietSettled
<1>5. QED
  BY <1>1, <1>2, <1>3, <1>4, HealAssumption, CallSettled, InsertSettled, SettleSettled
     DEF Next, HealNext, Serve, Abort, InsertConflict, RefuseRecovery, SettleConflict

ResolvedStep ==
  /\ \A i \in AlertIds :
       alerts[i].status # "resolved" /\ alerts'[i].status = "resolved" =>
         \/ \E e \in trail' \ trail : e.id = i /\ e.after = "resolved"
         \/ \E h \in HealIds : AlertOf[h] = i /\ heal'[h].status = "verified"
  /\ \A h \in HealIds :
       heal[h].status # "verified" /\ heal'[h].status = "verified" =>
         alerts'[AlertOf[h]].resolved

\* What the settled row is, field by field.
LEMMA SettledFacts ==
  ASSUME NEW s \in HealRequests, NEW row \in AlertRow
  PROVE  /\ SettledAlert(s, row).status = (IF AlertTarget(s) = hreq[s].seen THEN row.status
                                                                           ELSE AlertTarget(s))
         /\ hreq[s].op = "verify" /\ hreq[s].ok => SettledAlert(s, row).resolved
<1>1. SettledAlert(s, row) =
        [row EXCEPT !.status = IF AlertTarget(s) = hreq[s].seen THEN row.status
                                                               ELSE AlertTarget(s),
                    !.resolved = row.resolved \/ (hreq[s].op = "verify" /\ hreq[s].ok)]
  BY DEF SettledAlert
<1>2. QED
  BY <1>1 DEF AlertRow

LEMMA CommitResolved ==
  ASSUME HealAssumption, HealInv, OutcomeInv, SettledInv, NEW s \in HealRequests, Commit(s)
  PROVE  ResolvedStep
<1>1. PICK h \in HealIds : h = hreq[s].id
  BY DEF HealInv, TypeInv, HealTypeOK, HealRequest
<1>2. hreq[s].pc = "ready"
  BY DEF Commit
<1>3. \A i \in AlertIds : alerts'[i] = IF draft[i].owner = s THEN draft[i].row ELSE alerts[i]
  BY DEF Commit, PublishDrafts, Visible
<1>4. \A i \in AlertIds : alerts[i] \in AlertRow
  BY DEF HealInv, TypeInv, HealTypeOK, AlertTypeOK
<1>5. hreq[s].op = "verify" => hdraft[h].owner = s
  BY <1>1, <1>2 DEF HealInv, GateInv, RequestSound, Running, Holding
<1>6. ASSUME NEW i \in AlertIds, alerts[i].status # "resolved", alerts'[i].status = "resolved"
      PROVE  AlertOf[h] = i /\ heal'[h].status = "verified"
  <2>1. draft[i].owner = s
    BY <1>3, <1>6
  <2>2. AlertOf[h] = i /\ alerts'[i] = SettledAlert(s, alerts[i])
    BY <1>1, <1>3, <2>1 DEF SettledInv, SettledSound
  <2>3. AlertTarget(s) # hreq[s].seen /\ AlertTarget(s) = "resolved"
    BY <1>4, <1>6, <2>2, SettledFacts
  <2>4. hreq[s].op = "verify" /\ hreq[s].ok
    BY <2>3 DEF AlertTarget, Healed
  <2>5. hdraft[h].row.status = "verified"
    BY <1>1, <1>2, <2>4 DEF OutcomeInv, OutcomeSound
  <2>6. QED
    BY <1>5, <2>2, <2>4, <2>5, CommitFacts DEF HealInv
<1>7. ASSUME NEW g \in HealIds, heal[g].status # "verified", heal'[g].status = "verified"
      PROVE  alerts'[AlertOf[g]].resolved
  <2>1. hdraft[g].owner = s
    BY <1>7, CommitFacts DEF HealInv
  <2>2. /\ g = h /\ heal'[h] = hdraft[h].row
        /\ hreq[s].op \in {"create", "approve", "reject", "execute", "verify"}
        /\ WriteSound(hreq[s], h, heal[h], hdraft[h].row)
    BY <1>1, <2>1, CommitFacts, CommitMovesGate, OwnRowOnly DEF HealInv
  <2>3. hreq[s].op \notin {"create", "approve", "reject"}
    <3>1. heal[h] \in HealRow
      BY DEF HealInv, TypeInv, HealTypeOK
    <3>2. QED
      BY <1>7, <2>2, <3>1, DecidedFacts DEF WriteSound
  <2>4. hreq[s].op = "verify" /\ hreq[s].ok
    BY <1>1, <1>2, <1>7, <2>2, <2>3 DEF OutcomeInv, OutcomeSound
  <2>5. PICK i \in AlertIds : i = AlertOf[h]
    BY DEF HealAssumption
  <2>6. draft[i].owner = s /\ draft[i].row = SettledAlert(s, alerts[i])
    BY <1>1, <1>2, <2>4, <2>5 DEF SettledInv, SettledSound
  <2>7. QED
    BY <1>3, <1>4, <2>2, <2>4, <2>5, <2>6, SettledFacts
<1>8. QED
  BY <1>6, <1>7 DEF ResolvedStep

LEMMA StepResolved ==
  ASSUME AlertAssumption, HealAssumption, HealInv, OutcomeInv, SettledInv, Explained,
         [Next]_vars
  PROVE  ResolvedStep
<1>1. CASE UNCHANGED <<alerts, heal>>
  BY <1>1 DEF ResolvedStep
<1>2. CASE AlertNext /\ UNCHANGED healVars
  <2>1. AuditedStep
    BY <1>2, AlertAssumption, StepAudited DEF HealInv, TypeInv, HealTypeOK, AlertInv
  <2>2. QED
    BY <1>2, <2>1 DEF AuditedStep, ResolvedStep, UserTargets, healVars
<1>3. ASSUME NEW s \in HealRequests, (\E h \in HealIds : Call(s, h)) \/ Serve(s) \/ Abort(s)
      PROVE  Commit(s) \/ UNCHANGED <<alerts, heal>>
  BY <1>3 DEF Call, ReturnExisting, DecideToCreate, Decide,
     RefuseDecision, StartExecute, RefuseExecute, StartVerify, RefuseVerify, Serve, Abort,
     InsertAction, InsertConflict, MarkHealing, MarkVerified, CallSucceeds, CallFails,
     CallExecutor, RefuseRecovery, SettleConflict, RollBack, DropDrafts, Settle, alertVars
<1>4. QED
  BY <1>1, <1>2, <1>3, HealAssumption, CommitResolved DEF Next, HealNext, vars, alertVars, healVars

\* An alert becomes resolved only with the audit row of a user's resolve or with
\* a verified action, and verifying an action leaves its alert with a resolved_at.
THEOREM ResolutionsExplained == Spec => ResolutionExplained
<1>1. Init => SettledInv /\ Explained
  <2>1. Init => SettledInv
    BY NobodyElse DEF Init, AlertInit, NoDraft, IdleHealRequest, SettledInv, SettledSound
  <2>2. Init => Explained
    BY AlertAssumption, InitExplained DEF Init
  <2>3. QED
    BY <2>1, <2>2
<1>2. HealInv /\ SettledInv /\ Explained /\ [Next]_vars => (SettledInv /\ Explained)'
  BY AlertAssumption, HealAssumption, StepSettled, ExplainedWithHealing
<1>3. HealInv /\ OutcomeInv /\ SettledInv /\ Explained /\ [Next]_vars => [ResolvedStep]_vars
  BY AlertAssumption, HealAssumption, StepResolved
<1>4. QED
  BY <1>1, <1>2, <1>3, OutcomeInvariant, PTL
     DEF Spec, ResolutionExplained, ResolvedStep

=============================================================================
