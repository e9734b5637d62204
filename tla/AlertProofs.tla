---------------------------- MODULE AlertProofs ----------------------------
(***************************************************************************)
(* Theorems about AlertLifecycle, for any rows, fingerprints, requests and *)
(* id lists.  The proofs go action by action: each action changes at most  *)
(* one request, and each changes the rows through WriteRow, PublishDrafts  *)
(* or DropDrafts, about which there is one lemma each.                     *)
(***************************************************************************)
EXTENDS AlertLifecycle, FiniteSetTheorems, TLAPS

\* How far a request has come: it has read no more ids than it carries, it
\* flushes an id it has read, and only a transition reads anything.
Positioned(q) ==
  /\ q.pc = "reading" => Len(q.seen) < Len(q.ids)
  /\ q.pc = "flushing" => Len(q.seen) > 0
  /\ Len(q.seen) <= Len(q.ids)
  /\ Len(q.seen) > 0 \/ q.pc = "reading" => q.target \in UserTargets

PositionOK == \A r \in AlertRequests : Positioned(req[r])

AlertInv == AlertTypeOK /\ PositionOK

Pcs == {"idle", "reading", "flushing", "ready", "done", "failed"}

RowsTyped ==
  /\ alerts \in [AlertIds -> AlertRow]
  /\ draft \in [AlertIds -> [owner : Sessions \cup {Nobody}, row : AlertRow]]

-----------------------------------------------------------------------------
(* Rows. *)

LEMMA AllowedTyped ==
  \A status, target :
    TransitionAllowed(status, target) => status \in AlertStatuses /\ target \in AlertStatuses
BY DEF TransitionAllowed, ALLOWED_TRANSITIONS, AlertStatuses

LEMMA NoRowTyped == NoRow \in AlertRow
BY DEF NoRow, AlertRow, RowStatuses

LEMMA DropDraftsTyped ==
  ASSUME RowsTyped, NEW s, DropDrafts(s)
  PROVE  RowsTyped'
<1>1. NoDraft \in [owner : Sessions \cup {Nobody}, row : AlertRow]
  BY NoRowTyped DEF NoDraft
<1>2. QED
  BY <1>1 DEF RowsTyped, DropDrafts

LEMMA PublishDraftsTyped ==
  ASSUME RowsTyped, NEW s, PublishDrafts(s)
  PROVE  RowsTyped'
<1>1. NoDraft \in [owner : Sessions \cup {Nobody}, row : AlertRow]
  BY NoRowTyped DEF NoDraft
<1>2. QED
  BY <1>1 DEF RowsTyped, PublishDrafts, Visible

LEMMA WriteRowTyped ==
  ASSUME RowsTyped, NEW s \in Sessions, NEW i \in AlertIds, NEW row \in AlertRow,
         WriteRow(s, i, row), UNCHANGED alerts
  PROVE  RowsTyped'
BY DEF RowsTyped, WriteRow

\* An UPDATE of status and resolved_at leaves the type of the row alone.
LEMMA TransitionedRowTyped ==
  ASSUME NEW row \in AlertRow, NEW status \in AlertStatuses, NEW resolved \in BOOLEAN
  PROVE  [row EXCEPT !.status = status, !.resolved = @ \/ resolved] \in AlertRow
BY DEF AlertRow, RowStatuses

LEMMA UpsertedRowTyped ==
  ASSUME NEW row \in AlertRow
  PROVE  [row EXCEPT !.status = "firing", !.count = @ + 1] \in AlertRow
<1>1. row.count + 1 \in Nat
  BY DEF AlertRow
<1>2. QED
  BY <1>1 DEF AlertRow, RowStatuses, AlertStatuses

-----------------------------------------------------------------------------
(* Requests. *)

\* A request whose pc alone changes keeps its type and its position.
LEMMA MovedRequest ==
  ASSUME req \in [AlertRequests -> Request], PositionOK,
         NEW r \in AlertRequests, NEW pc \in {"ready", "done", "failed"},
         req' = [req EXCEPT ![r].pc = pc]
  PROVE  req' \in [AlertRequests -> Request] /\ PositionOK'
<1>1. req' \in [AlertRequests -> Request]
  BY DEF Request
<1>2. /\ req'[r].pc = pc /\ req'[r].seen = req[r].seen
      /\ req'[r].ids = req[r].ids /\ req'[r].target = req[r].target
  BY DEF Request
<1>3. Positioned(req'[r])
  BY <1>2 DEF PositionOK, Positioned
<1>4. \A q \in AlertRequests \ {r} : req'[q] = req[q]
  OBVIOUS
<1>5. QED
  BY <1>1, <1>3, <1>4 DEF PositionOK

\* A request replaced by one that is well positioned.
LEMMA ReplacedRequest ==
  ASSUME req \in [AlertRequests -> Request], PositionOK,
         NEW r \in AlertRequests, NEW q \in Request, Positioned(q),
         req' = [req EXCEPT ![r] = q]
  PROVE  req' \in [AlertRequests -> Request] /\ PositionOK'
BY DEF PositionOK

-----------------------------------------------------------------------------
(* Type correctness. *)

LEMMA InitInv == ASSUME AlertAssumption, AlertInit PROVE AlertInv
<1>1. alerts \in [AlertIds -> AlertRow]
  <2>1. PICK seed \in [AlertIds -> SeedStatuses] :
          alerts = [i \in AlertIds |->
            IF seed[i] = Absent THEN NoRow
            ELSE [status |-> seed[i], resolved |-> seed[i] = "resolved", count |-> 1]]
    BY DEF AlertInit
  <2>2. \A i \in AlertIds : seed[i] \in RowStatuses
    BY AlertAssumption DEF AlertAssumption, RowStatuses
  <2>3. \A i \in AlertIds : (seed[i] = "resolved") \in BOOLEAN
    OBVIOUS
  <2>4. \A status \in RowStatuses, resolved \in BOOLEAN :
          [status |-> status, resolved |-> resolved, count |-> 1] \in AlertRow
    BY DEF AlertRow
  <2>5. QED
    BY <2>1, <2>2, <2>3, <2>4, NoRowTyped
<1>2. draft \in [AlertIds -> [owner : Sessions \cup {Nobody}, row : AlertRow]]
  BY NoRowTyped DEF AlertInit, NoDraft
<1>3. req \in [AlertRequests -> Request] /\ PositionOK
  BY DEF AlertInit, IdleRequest, Request, UserTargets, PositionOK, Positioned
<1>4. QED
  BY <1>1, <1>2, <1>3 DEF AlertInit, AlertInv, AlertTypeOK

LEMMA ReceiveInv ==
  ASSUME AlertAssumption, AlertInv, NEW r \in AlertRequests, ReceiveTransition(r)
  PROVE  AlertInv'
<1>1. PICK target \in UserTargets, ids \in IdLists :
        req' = [req EXCEPT ![r] =
                  [pc |-> "reading", target |-> target, ids |-> ids, seen |-> <<>>]]
  BY DEF ReceiveTransition
<1>2. ids \in Seq(AlertIds) /\ Len(ids) > 0
  BY AlertAssumption DEF AlertAssumption
<1>3. /\ [pc |-> "reading", target |-> target, ids |-> ids, seen |-> <<>>] \in Request
      /\ Positioned([pc |-> "reading", target |-> target, ids |-> ids, seen |-> <<>>])
  BY <1>2 DEF Request, UserTargets, Positioned
<1>4. QED
  BY <1>1, <1>3, ReplacedRequest DEF AlertInv, AlertTypeOK, ReceiveTransition

LEMMA ReadInv ==
  ASSUME AlertInv, NEW r \in AlertRequests, ReadAndDecide(r)
  PROVE  AlertInv'
<1> DEFINE status == Visible(r, NextId(r)).status
<1>1. status \in AlertStatuses
  BY AllowedTyped DEF ReadAndDecide
<1>2. req' = [req EXCEPT ![r].pc = "flushing", ![r].seen = Append(@, status)]
  BY DEF ReadAndDecide
<1> HIDE DEF status
<1>3. req[r] \in Request /\ req \in [AlertRequests -> Request]
  BY DEF AlertInv, AlertTypeOK
<1>4. req[r].seen \in Seq(AlertStatuses) /\ req[r].ids \in Seq(AlertIds)
  BY <1>3 DEF Request
<1>5. /\ Append(req[r].seen, status) \in Seq(AlertStatuses)
      /\ Len(Append(req[r].seen, status)) = Len(req[r].seen) + 1
      /\ Len(req[r].seen) \in Nat
  BY <1>1, <1>4
<1>6. /\ req'[r].pc = "flushing" /\ req'[r].seen = Append(req[r].seen, status)
      /\ req'[r].ids = req[r].ids /\ req'[r].target = req[r].target
  BY <1>2, <1>3 DEF Request
<1>7. req' \in [AlertRequests -> Request]
  BY <1>2, <1>3, <1>5 DEF Request
<1>8. Positioned(req'[r])
  <2>1. req[r].pc = "reading"
    BY DEF ReadAndDecide
  <2>2. Len(req[r].seen) < Len(req[r].ids) /\ req[r].target \in UserTargets
    BY <2>1 DEF AlertInv, PositionOK, Positioned
  <2>3. Len(req[r].ids) \in Nat
    BY <1>4
  <2>4. QED
    BY <1>5, <1>6, <2>2, <2>3 DEF Positioned
<1>9. \A q \in AlertRequests \ {r} : req'[q] = req[q]
  BY <1>2, <1>3
<1>10. QED
  BY <1>7, <1>8, <1>9 DEF AlertInv, AlertTypeOK, PositionOK, ReadAndDecide

LEMMA RefuseInv ==
  ASSUME AlertInv, NEW r \in AlertRequests, RefuseTransition(r)
  PROVE  AlertInv'
BY DropDraftsTyped, MovedRequest
   DEF AlertInv, AlertTypeOK, RowsTyped, RefuseTransition

LEMMA AbortInv ==
  ASSUME AlertInv, NEW r \in AlertRequests, AbortRequest(r)
  PROVE  AlertInv'
BY DropDraftsTyped, MovedRequest
   DEF AlertInv, AlertTypeOK, RowsTyped, AbortRequest

\* A request that flushes has an id to flush, and a user's target for it.
LEMMA CurrentIdTyped ==
  ASSUME AlertInv, NEW r \in AlertRequests, req[r].pc = "flushing"
  PROVE  CurrentId(r) \in AlertIds /\ req[r].target \in UserTargets
<1>1. req[r].ids \in Seq(AlertIds) /\ req[r].seen \in Seq(AlertStatuses)
  BY DEF AlertInv, AlertTypeOK, Request
<1>2. Len(req[r].seen) \in 1..Len(req[r].ids) /\ req[r].target \in UserTargets
  BY <1>1 DEF AlertInv, PositionOK, Positioned
<1>3. QED
  BY <1>1, <1>2 DEF CurrentId

LEMMA FlushInv ==
  ASSUME AlertAssumption, AlertInv, NEW r \in AlertRequests, FlushTransition(r)
  PROVE  AlertInv'
<1> DEFINE i == CurrentId(r)
           row == [alerts[i] EXCEPT !.status = req[r].target,
                                    !.resolved = @ \/ req[r].target = "resolved"]
           pc == IF Len(req[r].seen) < Len(req[r].ids) THEN "reading" ELSE "ready"
<1>1. i \in AlertIds /\ req[r].target \in UserTargets
  BY CurrentIdTyped DEF FlushTransition
<1>2. RowsTyped'
  <2>1. alerts[i] \in AlertRow /\ req[r].target \in AlertStatuses
    BY <1>1 DEF AlertInv, AlertTypeOK, UserTargets, AlertStatuses
  <2>2. row \in AlertRow
    BY <2>1, TransitionedRowTyped
  <2>3. WriteRow(r, i, row) /\ UNCHANGED alerts
    BY DEF FlushTransition
  <2>4. RowsTyped /\ r \in Sessions
    BY AlertAssumption DEF AlertInv, AlertTypeOK, RowsTyped, AlertAssumption
  <2> HIDE DEF i, row
  <2>5. QED
    BY <1>1, <2>2, <2>3, <2>4, WriteRowTyped
<1>3. req' = [req EXCEPT ![r].pc = pc]
  BY DEF FlushTransition
<1>4. pc \in Pcs
  BY DEF Pcs
<1>5. req \in [AlertRequests -> Request] /\ req[r] \in Request
  BY DEF AlertInv, AlertTypeOK
<1>6. pc = "reading" => Len(req[r].seen) < Len(req[r].ids)
  OBVIOUS
<1>7. pc # "flushing"
  OBVIOUS
<1> HIDE DEF pc
<1>8. req' \in [AlertRequests -> Request]
  BY <1>3, <1>4, <1>5 DEF Request, Pcs
<1>9. /\ req'[r].pc = pc /\ req'[r].seen = req[r].seen
      /\ req'[r].ids = req[r].ids /\ req'[r].target = req[r].target
  BY <1>3, <1>5 DEF Request
<1>10. Positioned(req'[r])
  BY <1>1, <1>6, <1>7, <1>9 DEF AlertInv, PositionOK, Positioned
<1>11. \A q \in AlertRequests \ {r} : req'[q] = req[q]
  BY <1>3, <1>5
<1>12. QED
  BY <1>2, <1>8, <1>10, <1>11
     DEF AlertInv, AlertTypeOK, PositionOK, RowsTyped, FlushTransition

LEMMA UpsertRowInv ==
  ASSUME AlertAssumption, AlertInv, NEW r \in AlertRequests, NEW i \in AlertIds,
         NEW row \in AlertRow, UpsertRow(r, i, row)
  PROVE  AlertInv'
<1> DEFINE q == [pc |-> "ready", target |-> "firing", ids |-> <<i>>, seen |-> <<>>]
<1>1. q \in Request /\ Positioned(q)
  <2>1. <<i>> \in Seq(AlertIds) /\ <<>> \in Seq(AlertStatuses)
    OBVIOUS
  <2>2. Len(<<i>>) = 1 /\ Len(<<>>) = 0
    OBVIOUS
  <2>3. QED
    BY <2>1, <2>2 DEF Request, Positioned
<1>2. RowsTyped'
  BY AlertAssumption, WriteRowTyped
     DEF AlertInv, AlertTypeOK, RowsTyped, AlertAssumption, UpsertRow
<1>3. req' = [req EXCEPT ![r] = q]
  BY DEF UpsertRow
<1> HIDE DEF q
<1>4. QED
  BY <1>1, <1>2, <1>3, ReplacedRequest DEF AlertInv, AlertTypeOK, RowsTyped, UpsertRow

LEMMA UpsertInv ==
  ASSUME AlertAssumption, AlertInv, NEW r \in AlertRequests, NEW i \in AlertIds,
         UpsertExisting(r, i) \/ UpsertNew(r, i)
  PROVE  AlertInv'
<1>1. CASE UpsertExisting(r, i)
  <2>1. alerts[i] \in AlertRow
    BY DEF AlertInv, AlertTypeOK
  <2>2. QED
    BY <1>1, <2>1, UpsertedRowTyped, UpsertRowInv DEF UpsertExisting
<1>2. CASE UpsertNew(r, i)
  <2>1. [status |-> "firing", resolved |-> FALSE, count |-> 1] \in AlertRow
    BY DEF AlertRow, RowStatuses, AlertStatuses
  <2>2. QED
    BY <1>2, <2>1, UpsertRowInv DEF UpsertNew
<1>3. QED
  BY <1>1, <1>2

LEMMA CommitInv ==
  ASSUME AlertInv, NEW r \in AlertRequests, CommitRequest(r)
  PROVE  AlertInv'
<1>1. RowsTyped'
  BY PublishDraftsTyped DEF AlertInv, AlertTypeOK, RowsTyped, CommitRequest
<1>2. req' \in [AlertRequests -> Request] /\ PositionOK'
  BY MovedRequest DEF AlertInv, AlertTypeOK, CommitRequest
<1>3. AuditEntries(r) \subseteq AuditEntry
  <2>1. req[r].ids \in Seq(AlertIds) /\ req[r].seen \in Seq(AlertStatuses)
    BY DEF AlertInv, AlertTypeOK, Request
  <2>2. SUFFICES ASSUME NEW n \in DOMAIN req[r].seen
                 PROVE  [req |-> r, id |-> req[r].ids[n],
                         before |-> req[r].seen[n], after |-> req[r].target] \in AuditEntry
    BY DEF AuditEntries
  <2>3. n \in 1..Len(req[r].seen) /\ n \in 1..Len(req[r].ids)
    BY <2>1 DEF AlertInv, PositionOK, Positioned
  <2>4. req[r].target \in UserTargets
    BY <2>1, <2>3 DEF AlertInv, PositionOK, Positioned
  <2>5. req[r].ids[n] \in AlertIds /\ req[r].seen[n] \in AlertStatuses
    BY <2>1, <2>3
  <2>6. QED
    BY <2>4, <2>5 DEF AuditEntry
<1>4. QED
  BY <1>1, <1>2, <1>3 DEF AlertInv, AlertTypeOK, RowsTyped, CommitRequest

LEMMA StepInv ==
  ASSUME AlertAssumption, AlertInv, [AlertNext]_alertVars
  PROVE  AlertInv'
<1>1. CASE UNCHANGED alertVars
  BY <1>1 DEF alertVars, AlertInv, AlertTypeOK, PositionOK, Positioned
<1>2. ASSUME NEW r \in AlertRequests,
             \/ ReceiveTransition(r)
             \/ \E i \in AlertIds : UpsertExisting(r, i) \/ UpsertNew(r, i)
             \/ ServeRequest(r)
             \/ AbortRequest(r)
      PROVE  AlertInv'
  BY <1>2, AlertAssumption, ReceiveInv, UpsertInv, ReadInv, RefuseInv, FlushInv,
     CommitInv, AbortInv
     DEF ServeRequest, AbortDeadlockVictim
<1>3. QED
  BY <1>1, <1>2 DEF AlertNext

\* Every variable has its type in every reachable state.
THEOREM AlertTypeCorrect == AlertSpec => []AlertTypeOK
<1>1. AlertInit => AlertInv
  BY AlertAssumption, InitInv
<1>2. AlertInv /\ [AlertNext]_alertVars => AlertInv'
  BY AlertAssumption, StepInv
<1>3. AlertInv => AlertTypeOK
  BY DEF AlertInv
<1>4. QED
  BY <1>1, <1>2, <1>3, PTL DEF AlertSpec

-----------------------------------------------------------------------------
(* Deduplication.  OneActiveRow speaks of committed rows and is not         *)
(* inductive: what has to be excluded is a second row that is active in a   *)
(* transaction that has yet to commit.                                      *)

\* Row i is active, or will be when the transaction that drafted it commits.
Claims(i) == Active(alerts[i]) \/ (Drafted(i) /\ Active(draft[i].row))

OneClaim == \A i \in AlertIds : \A j \in OthersOf(i) : ~(Claims(i) /\ Claims(j))

LEMMA OthersSymmetric ==
  ASSUME NEW i \in AlertIds, NEW j \in OthersOf(i)
  PROVE  j \in AlertIds /\ j # i /\ i \in OthersOf(j)
BY DEF OthersOf

LEMMA NoNewClaim ==
  ASSUME OneClaim, \A i \in AlertIds : Claims(i)' => Claims(i)
  PROVE  OneClaim'
BY OthersSymmetric DEF OneClaim, OthersOf

LEMMA DropClaims ==
  ASSUME OneClaim, NEW s, DropDrafts(s)
  PROVE  OneClaim'
<1>1. \A i \in AlertIds :
        /\ alerts'[i] = alerts[i]
        /\ draft'[i] = IF draft[i].owner = s THEN NoDraft ELSE draft[i]
  BY DEF DropDrafts
<1>2. \A i \in AlertIds : Claims(i)' => Claims(i)
  BY <1>1 DEF Claims, Drafted, NoDraft
<1>3. QED
  BY <1>2, NoNewClaim

LEMMA PublishClaims ==
  ASSUME OneClaim, NEW s, s # Nobody, PublishDrafts(s)
  PROVE  OneClaim'
<1>1. \A i \in AlertIds :
        /\ alerts'[i] = IF draft[i].owner = s THEN draft[i].row ELSE alerts[i]
        /\ draft'[i] = IF draft[i].owner = s THEN NoDraft ELSE draft[i]
  BY DEF PublishDrafts, Visible
<1>2. \A i \in AlertIds : Claims(i)' => Claims(i)
  BY <1>1 DEF Claims, Drafted, NoDraft
<1>3. QED
  BY <1>2, NoNewClaim

\* A written row may be active if the row was, or if the index allows it.
LEMMA WriteClaims ==
  ASSUME OneClaim, NEW s, NEW i \in AlertIds, NEW row, RowsTyped,
         WriteRow(s, i, row), UNCHANGED alerts,
         Active(row) => Active(alerts[i]) \/ IndexFree(i)
  PROVE  OneClaim'
<1>1. \A j \in AlertIds : j # i => draft'[j] = draft[j]
  BY DEF RowsTyped, WriteRow
<1>2. draft'[i] = [owner |-> s, row |-> row]
  BY DEF RowsTyped, WriteRow
<1>3. \A j \in AlertIds : j # i => (Claims(j)' <=> Claims(j))
  BY <1>1 DEF Claims, Drafted
<1>4. CASE Active(row)
  <2>1. CASE Active(alerts[i])
    <3>1. \A j \in AlertIds : Claims(j)' => Claims(j)
      BY <1>3, <2>1 DEF Claims
    <3>2. QED
      BY <3>1, NoNewClaim
  <2>2. CASE IndexFree(i)
    <3>1. \A j \in OthersOf(i) : ~Claims(j)
      BY <2>2 DEF IndexFree, Claims
    <3>2. \A j \in OthersOf(i) : ~Claims(j)'
      BY <1>3, <3>1, OthersSymmetric
    <3>3. SUFFICES ASSUME NEW j \in AlertIds, NEW k \in OthersOf(j),
                          Claims(j)', Claims(k)'
                   PROVE  FALSE
      BY DEF OneClaim, OthersOf
    <3>4. j # i /\ k # i
      BY <3>2, <3>3, OthersSymmetric
    <3>5. QED
      BY <1>3, <3>3, <3>4, OthersSymmetric DEF OneClaim
  <2>3. QED
    BY <1>4, <2>1, <2>2
<1>5. CASE ~Active(row)
  <2>1. Claims(i)' => Claims(i)
    BY <1>2, <1>5 DEF Claims
  <2>2. QED
    BY <1>3, <2>1, NoNewClaim
<1>6. QED
  BY <1>4, <1>5

LEMMA FlushIsInactive ==
  ASSUME AlertInv, NEW r \in AlertRequests, FlushTransition(r), NEW row, NEW old \in AlertRow,
         row = [old EXCEPT !.status = req[r].target,
                           !.resolved = @ \/ req[r].target = "resolved"]
  PROVE  ~Active(row)
<1>1. req[r].target \in UserTargets
  BY CurrentIdTyped DEF FlushTransition
<1>2. row.status = req[r].target
  BY DEF AlertRow
<1>3. QED
  BY <1>1, <1>2 DEF Active, ACTIVE_ALERT_STATUSES, UserTargets

LEMMA StepClaims ==
  ASSUME AlertAssumption, AlertInv, OneClaim, [AlertNext]_alertVars
  PROVE  OneClaim'
<1>1. RowsTyped
  BY DEF AlertInv, AlertTypeOK, RowsTyped
<1>2. CASE UNCHANGED <<alerts, draft>>
  BY <1>2 DEF OneClaim, Claims, Drafted
<1>3. ASSUME NEW r \in AlertRequests, FlushTransition(r)
      PROVE  OneClaim'
  <2> DEFINE i == CurrentId(r)
             row == [alerts[i] EXCEPT !.status = req[r].target,
                                      !.resolved = @ \/ req[r].target = "resolved"]
  <2>1. i \in AlertIds
    BY <1>3, CurrentIdTyped DEF FlushTransition
  <2>2. alerts[i] \in AlertRow
    BY <1>1, <2>1 DEF RowsTyped
  <2>3. ~Active(row)
    BY <1>3, <2>2, FlushIsInactive
  <2>4. WriteRow(r, i, row) /\ UNCHANGED alerts
    BY <1>3 DEF FlushTransition
  <2> HIDE DEF i, row
  <2>5. QED
    BY <1>1, <2>1, <2>3, <2>4, WriteClaims
<1>4. ASSUME NEW r \in AlertRequests, NEW i \in AlertIds,
             UpsertExisting(r, i) \/ UpsertNew(r, i)
      PROVE  OneClaim'
  <2>1. PICK row : WriteRow(r, i, row) /\ UNCHANGED alerts
    BY <1>4 DEF UpsertExisting, UpsertNew, UpsertRow
  <2>2. Active(alerts[i]) \/ IndexFree(i)
    BY <1>4 DEF UpsertExisting, UpsertNew
  <2>3. QED
    BY <1>1, <2>1, <2>2, WriteClaims
<1>5. ASSUME NEW r \in AlertRequests, CommitRequest(r)
      PROVE  OneClaim'
  BY <1>5, PublishClaims, AlertAssumption DEF CommitRequest, AlertAssumption
<1>6. ASSUME NEW r \in AlertRequests, RefuseTransition(r) \/ AbortRequest(r)
      PROVE  OneClaim'
  BY <1>6, DropClaims DEF RefuseTransition, AbortRequest
<1>7. ASSUME NEW r \in AlertRequests, ReceiveTransition(r) \/ ReadAndDecide(r)
      PROVE  OneClaim'
  BY <1>2, <1>7 DEF ReceiveTransition, ReadAndDecide
<1>8. QED
  BY <1>2, <1>3, <1>4, <1>5, <1>6, <1>7
     DEF AlertNext, ServeRequest, AbortDeadlockVictim, alertVars

LEMMA InitClaims ==
  ASSUME AlertInit PROVE OneClaim
<1>1. \A i \in AlertIds : ~Drafted(i)
  BY DEF AlertInit, NoDraft, Drafted
<1>2. OneActiveRow
  BY DEF AlertInit, OneActiveRow
<1>3. QED
  BY <1>1, <1>2, OthersSymmetric DEF OneClaim, Claims, OneActiveRow

LEMMA ClaimsOne == OneClaim => OneActiveRow
BY OthersSymmetric DEF OneClaim, OneActiveRow, Claims

\* However transitions, upserts, rollbacks and deadlock victims interleave, no
\* fingerprint has two active rows.
THEOREM Deduplication == AlertSpec => []OneActiveRow
<1>1. AlertInit => AlertInv /\ OneClaim
  BY AlertAssumption, InitInv, InitClaims
<1>2. AlertInv /\ OneClaim /\ [AlertNext]_alertVars => (AlertInv /\ OneClaim)'
  BY AlertAssumption, StepInv, StepClaims
<1>3. QED
  BY <1>1, <1>2, ClaimsOne, PTL DEF AlertSpec

-----------------------------------------------------------------------------
(* A closed row stays closed.  A step changes committed rows only through a *)
(* COMMIT, so the invariant is about what a transaction has written.        *)

\* An active draft continues an active row, or creates one.
ActiveDraftOK ==
  \A i \in AlertIds :
    Drafted(i) /\ Active(draft[i].row) => Active(alerts[i]) \/ alerts[i].status = Absent

LEMMA WriteKeepsDrafts ==
  ASSUME ActiveDraftOK, RowsTyped, NEW s, NEW i \in AlertIds, NEW row,
         WriteRow(s, i, row), UNCHANGED alerts,
         Active(row) => Active(alerts[i]) \/ alerts[i].status = Absent
  PROVE  ActiveDraftOK'
<1>1. \A j \in AlertIds : j # i => draft'[j] = draft[j]
  BY DEF RowsTyped, WriteRow
<1>2. draft'[i] = [owner |-> s, row |-> row]
  BY DEF RowsTyped, WriteRow
<1>3. SUFFICES ASSUME NEW j \in AlertIds, Drafted(j)', Active(draft'[j].row)
               PROVE  Active(alerts[j]) \/ alerts[j].status = Absent
  BY DEF ActiveDraftOK
<1>4. CASE j = i
  BY <1>2, <1>3, <1>4
<1>5. CASE j # i
  BY <1>1, <1>3, <1>5 DEF ActiveDraftOK, Drafted
<1>6. QED
  BY <1>4, <1>5

LEMMA StepClosed ==
  ASSUME AlertAssumption, AlertInv, ActiveDraftOK, [AlertNext]_alertVars
  PROVE  ActiveDraftOK' /\ ClosedStep
<1>1. RowsTyped
  BY DEF AlertInv, AlertTypeOK, RowsTyped
<1>2. CASE UNCHANGED <<alerts, draft>>
  BY <1>2 DEF ActiveDraftOK, ClosedStep, Drafted
<1>3. ASSUME NEW r \in AlertRequests, FlushTransition(r)
      PROVE  ActiveDraftOK' /\ ClosedStep
  <2> DEFINE i == CurrentId(r)
             row == [alerts[i] EXCEPT !.status = req[r].target,
                                      !.resolved = @ \/ req[r].target = "resolved"]
  <2>1. i \in AlertIds
    BY <1>3, CurrentIdTyped DEF FlushTransition
  <2>2. alerts[i] \in AlertRow
    BY <1>1, <2>1 DEF RowsTyped
  <2>3. ~Active(row)
    BY <1>3, <2>2, FlushIsInactive
  <2>4. WriteRow(r, i, row) /\ UNCHANGED alerts
    BY <1>3 DEF FlushTransition
  <2> HIDE DEF i, row
  <2>5. QED
    BY <1>1, <2>1, <2>3, <2>4, WriteKeepsDrafts DEF ClosedStep
<1>4. ASSUME NEW r \in AlertRequests, NEW i \in AlertIds,
             UpsertExisting(r, i) \/ UpsertNew(r, i)
      PROVE  ActiveDraftOK' /\ ClosedStep
  <2>1. PICK row : WriteRow(r, i, row) /\ UNCHANGED alerts
    BY <1>4 DEF UpsertExisting, UpsertNew, UpsertRow
  <2>2. Active(alerts[i]) \/ alerts[i].status = Absent
    BY <1>4 DEF UpsertExisting, UpsertNew, NoRow
  <2>3. QED
    BY <1>1, <2>1, <2>2, WriteKeepsDrafts DEF ClosedStep
<1>5. ASSUME NEW r \in AlertRequests, CommitRequest(r)
      PROVE  ActiveDraftOK' /\ ClosedStep
  <2>1. \A i \in AlertIds :
          /\ alerts'[i] = IF draft[i].owner = r THEN draft[i].row ELSE alerts[i]
          /\ draft'[i] = IF draft[i].owner = r THEN NoDraft ELSE draft[i]
    BY <1>5 DEF CommitRequest, PublishDrafts, Visible
  <2>2. r # Nobody
    BY AlertAssumption DEF AlertAssumption
  <2>3. QED
    BY <2>1, <2>2 DEF ActiveDraftOK, ClosedStep, Drafted, NoDraft
<1>6. ASSUME NEW r \in AlertRequests, RefuseTransition(r) \/ AbortRequest(r)
      PROVE  ActiveDraftOK' /\ ClosedStep
  <2>1. \A i \in AlertIds :
          /\ alerts'[i] = alerts[i]
          /\ draft'[i] = IF draft[i].owner = r THEN NoDraft ELSE draft[i]
    BY <1>6 DEF RefuseTransition, AbortRequest, DropDrafts
  <2>2. QED
    BY <2>1 DEF ActiveDraftOK, ClosedStep, Drafted, NoDraft
<1>7. ASSUME NEW r \in AlertRequests, ReceiveTransition(r) \/ ReadAndDecide(r)
      PROVE  ActiveDraftOK' /\ ClosedStep
  BY <1>2, <1>7 DEF ReceiveTransition, ReadAndDecide
<1>8. QED
  BY <1>2, <1>3, <1>4, <1>5, <1>6, <1>7
     DEF AlertNext, ServeRequest, AbortDeadlockVictim, alertVars

\* Transitions and upserts never make an acknowledged, suppressed, resolved or
\* failed row active again.
THEOREM ClosedRows == AlertSpec => ClosedRowsStayClosed
<1>1. AlertInit => AlertInv /\ ActiveDraftOK
  <2>1. AlertInit => AlertInv
    BY AlertAssumption, InitInv
  <2>2. AlertInit => ActiveDraftOK
    BY DEF AlertInit, ActiveDraftOK, Drafted, NoDraft
  <2>3. QED
    BY <2>1, <2>2
<1>2. AlertInv /\ ActiveDraftOK /\ [AlertNext]_alertVars => (AlertInv /\ ActiveDraftOK)'
  BY AlertAssumption, StepInv, StepClosed
<1>3. AlertInv /\ ActiveDraftOK /\ [AlertNext]_alertVars => [ClosedStep]_alertVars
  BY AlertAssumption, StepClosed
<1>4. QED
  BY <1>1, <1>2, <1>3, PTL DEF AlertSpec, ClosedRowsStayClosed

-----------------------------------------------------------------------------
(* What a transaction publishes.  The invariant says of each request what   *)
(* its uncommitted rows are relative to the committed ones, and which audit *)
(* rows are its own; COMMIT is then the one step that has to be looked at.  *)

\* The positions of the ids a transition has already written.
Flushed(q) == IF q.pc = "flushing" THEN 1..(Len(q.seen) - 1) ELSE 1..Len(q.seen)

\* Request q wrote row i, version new over version old.
WrittenBy(q, i, old, new) ==
  /\ q.pc \in {"reading", "flushing", "ready"}
  /\ \/ /\ q.target = "firing" /\ q.pc = "ready" /\ q.ids = <<i>>
        /\ new.status = "firing" /\ new.count = old.count + 1
     \/ /\ q.target \in UserTargets
        /\ \E n \in Flushed(q) : q.ids[n] = i
        /\ new.status = q.target /\ new.count = old.count

EntriesOf(r) == {e \in trail : e.req = r}

RequestExplained(r) ==
  /\ \A i \in AlertIds : draft[i].owner = r => WrittenBy(req[r], i, alerts[i], draft[i].row)
  /\ req[r].pc = "ready" /\ req[r].target = "firing" =>
       \E i \in AlertIds : req[r].ids = <<i>> /\ draft[i].owner = r
  /\ req[r].pc \in {"ready", "done"} /\ req[r].target \in UserTargets =>
       Len(req[r].seen) = Len(req[r].ids)
  /\ EntriesOf(r) = IF req[r].pc = "done" THEN AuditEntries(r) ELSE {}

Explained == \A r \in AlertRequests : RequestExplained(r)

\* A step of somebody else leaves a request's rows and audit rows alone.
LEMMA OtherExplained ==
  ASSUME NEW t \in AlertRequests, RequestExplained(t),
         req'[t] = req[t], EntriesOf(t)' = EntriesOf(t),
         \A i \in AlertIds :
           draft[i].owner = t \/ draft'[i].owner = t =>
             draft'[i] = draft[i] /\ alerts'[i] = alerts[i]
  PROVE  RequestExplained(t)'
<1>1. \A i \in AlertIds :
        draft'[i].owner = t => WrittenBy(req'[t], i, alerts'[i], draft'[i].row)
  BY DEF RequestExplained
<1>2. \A i \in AlertIds : draft[i].owner = t => draft'[i].owner = t
  OBVIOUS
<1>3. req'[t].pc = "ready" /\ req'[t].target = "firing" =>
        \E i \in AlertIds : req'[t].ids = <<i>> /\ draft'[i].owner = t
  BY <1>2 DEF RequestExplained
<1>4. AuditEntries(t)' = AuditEntries(t)
  BY DEF AuditEntries
<1>5. QED
  BY <1>1, <1>3, <1>4 DEF RequestExplained, WrittenBy, Flushed

\* A session owns no draft of anybody else's, and is not Nobody.
LEMMA RequestsAreSessions ==
  ASSUME AlertAssumption, NEW r \in AlertRequests
  PROVE  r \in Sessions /\ r # Nobody
BY DEF AlertAssumption

\* What the steps of request r leave alone.
LEMMA OthersExplained ==
  ASSUME AlertAssumption, Explained, NEW r \in AlertRequests,
         RequestExplained(r)',
         \A t \in AlertRequests \ {r} : req'[t] = req[t] /\ EntriesOf(t)' = EntriesOf(t),
         \A i \in AlertIds :
           \/ draft'[i] = draft[i] /\ (alerts'[i] = alerts[i] \/ draft[i].owner \in {Nobody, r})
           \/ draft[i].owner \in {Nobody, r} /\ draft'[i].owner \in {Nobody, r}
  PROVE  Explained'
<1>1. ASSUME NEW t \in AlertRequests \ {r}
      PROVE  RequestExplained(t)'
  <2>1. t # Nobody
    BY RequestsAreSessions
  <2>2. \A i \in AlertIds :
          draft[i].owner = t \/ draft'[i].owner = t =>
            draft'[i] = draft[i] /\ alerts'[i] = alerts[i]
    BY <2>1
  <2>3. QED
    BY <2>2, OtherExplained DEF Explained
<1>2. QED
  BY <1>1 DEF Explained

-----------------------------------------------------------------------------
(* One lemma per action. *)

LEMMA ReceiveExplained ==
  ASSUME AlertAssumption, AlertInv, Explained, NEW r \in AlertRequests, ReceiveTransition(r)
  PROVE  Explained'
<1>1. PICK target \in UserTargets, ids \in IdLists :
        req' = [req EXCEPT ![r] =
                  [pc |-> "reading", target |-> target, ids |-> ids, seen |-> <<>>]]
  BY DEF ReceiveTransition
<1>2. /\ req'[r].pc = "reading" /\ req'[r].target = target
      /\ \A t \in AlertRequests \ {r} : req'[t] = req[t]
  BY <1>1 DEF AlertInv, AlertTypeOK
<1>3. req[r].pc = "idle" /\ UNCHANGED <<alerts, draft, trail>>
  BY DEF ReceiveTransition
<1>4. \A i \in AlertIds : draft[i].owner # r
  BY <1>3 DEF Explained, RequestExplained, WrittenBy
<1>5. RequestExplained(r)'
  BY <1>2, <1>3, <1>4 DEF Explained, RequestExplained, EntriesOf
<1>6. QED
  BY <1>2, <1>3, <1>5, OthersExplained DEF EntriesOf

LEMMA ReadExplained ==
  ASSUME AlertAssumption, AlertInv, Explained, NEW r \in AlertRequests, ReadAndDecide(r)
  PROVE  Explained'
<1> DEFINE status == Visible(r, NextId(r)).status
<1>1. req[r].pc = "reading" /\ UNCHANGED <<alerts, draft, trail>>
  BY DEF ReadAndDecide
<1>2. req' = [req EXCEPT ![r].pc = "flushing", ![r].seen = Append(@, status)]
  BY DEF ReadAndDecide
<1>3. status \in AlertStatuses
  BY AllowedTyped DEF ReadAndDecide
<1> HIDE DEF status
<1>4. req[r] \in Request /\ req \in [AlertRequests -> Request]
  BY DEF AlertInv, AlertTypeOK
<1>5. /\ req'[r].pc = "flushing" /\ req'[r].seen = Append(req[r].seen, status)
      /\ req'[r].ids = req[r].ids /\ req'[r].target = req[r].target
      /\ \A t \in AlertRequests \ {r} : req'[t] = req[t]
  BY <1>2, <1>4 DEF Request
<1>6. Len(req'[r].seen) - 1 = Len(req[r].seen)
  BY <1>3, <1>4, <1>5 DEF Request
<1>7. Flushed(req'[r]) = Flushed(req[r])
  BY <1>1, <1>5, <1>6 DEF Flushed
<1>8. RequestExplained(r)'
  <2>1. ASSUME NEW i \in AlertIds, draft[i].owner = r
        PROVE  WrittenBy(req'[r], i, alerts[i], draft[i].row)
    <3>1. WrittenBy(req[r], i, alerts[i], draft[i].row)
      BY <2>1 DEF Explained, RequestExplained
    <3>2. QED
      BY <1>1, <1>5, <1>7, <3>1 DEF WrittenBy
  <2>2. QED
    BY <1>1, <1>5, <2>1 DEF Explained, RequestExplained, EntriesOf
<1>9. QED
  BY <1>1, <1>5, <1>8, OthersExplained DEF EntriesOf

\* Dropping the drafts of r and failing it.
LEMMA DropExplained ==
  ASSUME AlertAssumption, AlertInv, Explained, NEW r \in AlertRequests,
         req[r].pc \in {"reading", "flushing", "ready"},
         req' = [req EXCEPT ![r].pc = "failed"], DropDrafts(r), UNCHANGED trail
  PROVE  Explained'
<1>1. req[r] \in Request /\ req \in [AlertRequests -> Request] /\ r # Nobody
  BY RequestsAreSessions DEF AlertInv, AlertTypeOK
<1>2. req'[r].pc = "failed" /\ \A t \in AlertRequests \ {r} : req'[t] = req[t]
  BY <1>1 DEF Request
<1>3. \A i \in AlertIds :
        /\ alerts'[i] = alerts[i]
        /\ draft'[i] = IF draft[i].owner = r THEN NoDraft ELSE draft[i]
  BY DEF DropDrafts
<1>4. \A i \in AlertIds : draft'[i].owner # r
  BY <1>1, <1>3 DEF NoDraft
<1>5. RequestExplained(r)'
  BY <1>2, <1>4 DEF Explained, RequestExplained, EntriesOf
<1>6. QED
  BY <1>2, <1>3, <1>5, OthersExplained DEF EntriesOf, NoDraft

LEMMA WriteRowFacts ==
  ASSUME RowsTyped, NEW s, NEW i \in AlertIds, NEW row, WriteRow(s, i, row)
  PROVE  /\ draft'[i].owner = s /\ draft'[i].row = row
         /\ \A j \in AlertIds \ {i} : draft'[j] = draft[j]
BY DEF RowsTyped, WriteRow

LEMMA FlushExplained ==
  ASSUME AlertAssumption, AlertInv, Explained, NEW r \in AlertRequests, FlushTransition(r)
  PROVE  Explained'
<1> DEFINE i == CurrentId(r)
           row == [alerts[i] EXCEPT !.status = req[r].target,
                                    !.resolved = @ \/ req[r].target = "resolved"]
           pc == IF Len(req[r].seen) < Len(req[r].ids) THEN "reading" ELSE "ready"
<1>1. req[r].pc = "flushing" /\ ~Drafted(i) /\ WriteRow(r, i, row) /\ UNCHANGED <<alerts, trail>>
  BY DEF FlushTransition
<1>2. i \in AlertIds /\ req[r].target \in UserTargets
  BY <1>1, CurrentIdTyped
<1>3. /\ req[r] \in Request /\ req \in [AlertRequests -> Request]
      /\ RowsTyped /\ alerts[i] \in AlertRow
  BY <1>2 DEF AlertInv, AlertTypeOK, RowsTyped
<1>4. row.status = req[r].target /\ row.count = alerts[i].count
  BY <1>3 DEF AlertRow
<1>5. req' = [req EXCEPT ![r].pc = pc]
  BY DEF FlushTransition
<1>6. pc \in {"reading", "ready"}
  OBVIOUS
<1>7. /\ req'[r].pc = pc /\ req'[r].seen = req[r].seen
      /\ req'[r].ids = req[r].ids /\ req'[r].target = req[r].target
      /\ \A t \in AlertRequests \ {r} : req'[t] = req[t]
  BY <1>3, <1>5 DEF Request
<1>8. /\ Len(req[r].seen) \in Nat /\ Len(req[r].ids) \in Nat
      /\ Len(req[r].seen) > 0 /\ Len(req[r].seen) <= Len(req[r].ids)
  BY <1>1, <1>3 DEF Request, AlertInv, PositionOK, Positioned
<1>9. pc = "ready" => Len(req[r].seen) = Len(req[r].ids)
  BY <1>8
<1>10. i = req[r].ids[Len(req[r].seen)]
  BY DEF CurrentId
<1> HIDE DEF i, row, pc
<1>11. /\ draft'[i].owner = r /\ draft'[i].row = row
       /\ \A j \in AlertIds \ {i} : draft'[j] = draft[j]
  BY <1>1, <1>2, <1>3, WriteRowFacts
<1>12. /\ Len(req[r].seen) \in Flushed(req'[r])
       /\ Flushed(req[r]) \subseteq Flushed(req'[r])
  BY <1>1, <1>6, <1>7, <1>8 DEF Flushed
<1>13. ASSUME NEW j \in AlertIds, draft'[j].owner = r
       PROVE  WrittenBy(req'[r], j, alerts'[j], draft'[j].row)
  <2>1. CASE j = i
    BY <1>1, <1>2, <1>4, <1>6, <1>7, <1>10, <1>11, <1>12, <2>1 DEF WrittenBy
  <2>2. CASE j # i
    <3>1. WrittenBy(req[r], j, alerts[j], draft[j].row)
      BY <1>11, <1>13, <2>2 DEF Explained, RequestExplained
    <3>2. QED
      BY <1>1, <1>2, <1>6, <1>7, <1>11, <1>12, <2>2, <3>1 DEF WrittenBy, UserTargets
  <2>3. QED
    BY <2>1, <2>2
<1>14. RequestExplained(r)'
  BY <1>1, <1>2, <1>6, <1>7, <1>9, <1>13
     DEF Explained, RequestExplained, EntriesOf, UserTargets
<1>15. QED
  BY <1>1, <1>7, <1>11, <1>14, OthersExplained DEF EntriesOf, Drafted

LEMMA UpsertRowExplained ==
  ASSUME AlertAssumption, AlertInv, Explained, NEW r \in AlertRequests, NEW i \in AlertIds,
         NEW row \in AlertRow, UpsertRow(r, i, row), req[r].pc = "idle", ~Drafted(i),
         row.status = "firing", row.count = alerts[i].count + 1
  PROVE  Explained'
<1> DEFINE q == [pc |-> "ready", target |-> "firing", ids |-> <<i>>, seen |-> <<>>]
<1>1. req' = [req EXCEPT ![r] = q] /\ WriteRow(r, i, row) /\ UNCHANGED <<alerts, trail>>
  BY DEF UpsertRow
<1>2. req \in [AlertRequests -> Request] /\ RowsTyped
  BY DEF AlertInv, AlertTypeOK, RowsTyped
<1>3. /\ req'[r].pc = "ready" /\ req'[r].target = "firing" /\ req'[r].ids = <<i>>
      /\ \A t \in AlertRequests \ {r} : req'[t] = req[t]
  BY <1>1, <1>2
<1>4. /\ draft'[i].owner = r /\ draft'[i].row = row
      /\ \A j \in AlertIds \ {i} : draft'[j] = draft[j]
  BY <1>1, <1>2, WriteRowFacts
<1>5. \A j \in AlertIds : draft[j].owner # r
  BY DEF Explained, RequestExplained, WrittenBy
<1>6. WrittenBy(req'[r], i, alerts'[i], draft'[i].row)
  BY <1>1, <1>3, <1>4 DEF WrittenBy
<1>7. EntriesOf(r)' = {}
  BY <1>1 DEF Explained, RequestExplained, EntriesOf
<1>8. RequestExplained(r)'
  BY <1>3, <1>4, <1>5, <1>6, <1>7 DEF RequestExplained, UserTargets
<1> HIDE DEF q
<1>9. QED
  BY <1>1, <1>3, <1>4, <1>8, OthersExplained DEF EntriesOf, Drafted

LEMMA UpsertExplained ==
  ASSUME AlertAssumption, AlertInv, Explained, NEW r \in AlertRequests, NEW i \in AlertIds,
         UpsertExisting(r, i) \/ UpsertNew(r, i)
  PROVE  Explained'
<1>1. CASE UpsertExisting(r, i)
  <2> DEFINE row == [alerts[i] EXCEPT !.status = "firing", !.count = @ + 1]
  <2>1. alerts[i] \in AlertRow
    BY DEF AlertInv, AlertTypeOK
  <2>2. row \in AlertRow /\ row.status = "firing" /\ row.count = alerts[i].count + 1
    BY <2>1, UpsertedRowTyped DEF AlertRow
  <2>3. UpsertRow(r, i, row) /\ req[r].pc = "idle" /\ ~Drafted(i)
    BY <1>1 DEF UpsertExisting
  <2> HIDE DEF row
  <2>4. QED
    BY <2>2, <2>3, AlertAssumption, UpsertRowExplained
<1>2. CASE UpsertNew(r, i)
  <2> DEFINE row == [status |-> "firing", resolved |-> FALSE, count |-> 1]
  <2>1. row \in AlertRow /\ row.status = "firing" /\ row.count = alerts[i].count + 1
    BY <1>2 DEF AlertRow, RowStatuses, AlertStatuses, UpsertNew, NoRow
  <2>2. UpsertRow(r, i, row) /\ req[r].pc = "idle" /\ ~Drafted(i)
    BY <1>2 DEF UpsertNew
  <2> HIDE DEF row
  <2>3. QED
    BY <2>1, <2>2, AlertAssumption, UpsertRowExplained
<1>3. QED
  BY <1>1, <1>2

LEMMA CommitFactsOfRequest ==
  ASSUME AlertAssumption, AlertInv, Explained, NEW r \in AlertRequests, CommitRequest(r)
  PROVE  /\ req[r].pc = "ready"
         /\ req'[r].pc = "done" /\ req'[r].target = req[r].target
         /\ req'[r].ids = req[r].ids /\ req'[r].seen = req[r].seen
         /\ \A t \in AlertRequests \ {r} : req'[t] = req[t]
         /\ \A i \in AlertIds :
              IF draft[i].owner = r
              THEN alerts'[i] = draft[i].row /\ draft'[i].owner = Nobody
              ELSE alerts'[i] = alerts[i] /\ draft'[i] = draft[i]
         /\ trail' = trail \cup AuditEntries(r)
<1>1. req[r] \in Request /\ req \in [AlertRequests -> Request]
  BY DEF AlertInv, AlertTypeOK
<1>2. /\ req[r].pc = "ready"
      /\ req'[r].pc = "done" /\ req'[r].target = req[r].target
      /\ req'[r].ids = req[r].ids /\ req'[r].seen = req[r].seen
      /\ \A t \in AlertRequests \ {r} : req'[t] = req[t]
  BY <1>1 DEF CommitRequest, Request
<1>3. \A i \in AlertIds :
        IF draft[i].owner = r
        THEN alerts'[i] = draft[i].row /\ draft'[i].owner = Nobody
        ELSE alerts'[i] = alerts[i] /\ draft'[i] = draft[i]
  BY DEF CommitRequest, PublishDrafts, Visible, NoDraft
<1>4. QED
  BY <1>2, <1>3 DEF CommitRequest

LEMMA CommitExplained ==
  ASSUME AlertAssumption, AlertInv, Explained, NEW r \in AlertRequests, CommitRequest(r)
  PROVE  Explained'
<1>1. r # Nobody
  BY RequestsAreSessions
<1>2. \A i \in AlertIds : draft'[i].owner # r
  BY <1>1, CommitFactsOfRequest
<1>3. \A e \in AuditEntries(r) : e.req = r
  BY DEF AuditEntries
<1>4. EntriesOf(r) = {}
  BY CommitFactsOfRequest DEF Explained, RequestExplained
<1>5. EntriesOf(r)' = AuditEntries(r)
  BY <1>3, <1>4, CommitFactsOfRequest DEF EntriesOf
<1>6. AuditEntries(r)' = AuditEntries(r)
  BY CommitFactsOfRequest DEF AuditEntries
<1>7. RequestExplained(r)'
  BY <1>2, <1>5, <1>6, CommitFactsOfRequest DEF Explained, RequestExplained
<1>8. \A t \in AlertRequests \ {r} : EntriesOf(t)' = EntriesOf(t)
  BY <1>3, CommitFactsOfRequest DEF EntriesOf
<1>9. QED
  BY <1>7, <1>8, CommitFactsOfRequest, OthersExplained

LEMMA StepExplained ==
  ASSUME AlertAssumption, AlertInv, Explained, [AlertNext]_alertVars
  PROVE  Explained'
<1>1. CASE UNCHANGED alertVars
  <2>1. ASSUME NEW t \in AlertRequests PROVE RequestExplained(t)'
    BY <1>1, OtherExplained DEF alertVars, Explained, EntriesOf
  <2>2. QED
    BY <2>1 DEF Explained
<1>2. ASSUME NEW r \in AlertRequests,
             \/ ReceiveTransition(r)
             \/ \E i \in AlertIds : UpsertExisting(r, i) \/ UpsertNew(r, i)
             \/ ServeRequest(r)
             \/ AbortRequest(r)
      PROVE  Explained'
  <2>1. CASE RefuseTransition(r) \/ AbortRequest(r)
    BY <2>1, AlertAssumption, DropExplained DEF RefuseTransition, AbortRequest
  <2>2. QED
    BY <1>2, <2>1, AlertAssumption, ReceiveExplained, UpsertExplained, ReadExplained,
       FlushExplained, CommitExplained
       DEF ServeRequest, AbortDeadlockVictim
<1>3. QED
  BY <1>1, <1>2 DEF AlertNext

LEMMA InitExplained ==
  ASSUME AlertAssumption, AlertInit
  PROVE  Explained
<1>1. ASSUME NEW r \in AlertRequests
      PROVE  RequestExplained(r)
  <2>1. req[r].pc = "idle" /\ trail = {} /\ \A i \in AlertIds : draft[i].owner = Nobody
    BY DEF AlertInit, IdleRequest, NoDraft
  <2>2. QED
    BY <2>1, RequestsAreSessions DEF RequestExplained, EntriesOf
<1>2. QED
  BY <1>1 DEF Explained

LEMMA AlertInvariant == AlertSpec => [](AlertInv /\ Explained)
<1>1. AlertInit => AlertInv /\ Explained
  BY AlertAssumption, InitInv, InitExplained
<1>2. AlertInv /\ Explained /\ [AlertNext]_alertVars => (AlertInv /\ Explained)'
  BY AlertAssumption, StepInv, StepExplained
<1>3. QED
  BY <1>1, <1>2, PTL DEF AlertSpec

\* What each audit row of a finished request is about.
LEMMA EntryIds ==
  ASSUME AlertInv, Explained, NEW r \in AlertRequests, req[r].pc = "done"
  PROVE  {e.id : e \in EntriesOf(r)} = {req[r].ids[n] : n \in DOMAIN req[r].seen}
<1>1. EntriesOf(r) = AuditEntries(r)
  BY DEF Explained, RequestExplained
<1>2. ASSUME NEW n \in DOMAIN req[r].seen
      PROVE  \E e \in AuditEntries(r) : e.id = req[r].ids[n]
  <2> DEFINE e == [req |-> r, id |-> req[r].ids[n], before |-> req[r].seen[n],
                   after |-> req[r].target]
  <2>1. e \in AuditEntries(r) /\ e.id = req[r].ids[n]
    BY DEF AuditEntries
  <2>2. QED
    BY <2>1
<1>3. \A e \in AuditEntries(r) : \E n \in DOMAIN req[r].seen : e.id = req[r].ids[n]
  BY DEF AuditEntries
<1>4. QED
  BY <1>1, <1>2, <1>3

LEMMA ExplainedBatches ==
  ASSUME AlertInv, Explained
  PROVE  BatchAllOrNothing
<1>1. ASSUME NEW r \in AlertRequests
      PROVE  {e.id : e \in EntriesOf(r)} =
               IF req[r].pc = "done" /\ req[r].target \in UserTargets
               THEN {req[r].ids[n] : n \in DOMAIN req[r].ids} ELSE {}
  <2>1. req[r].ids \in Seq(AlertIds) /\ req[r].seen \in Seq(AlertStatuses)
    BY DEF AlertInv, AlertTypeOK, Request
  <2>2. CASE req[r].pc = "done" /\ req[r].target \in UserTargets
    <3>1. Len(req[r].seen) = Len(req[r].ids)
      BY <2>2 DEF Explained, RequestExplained
    <3>2. DOMAIN req[r].seen = DOMAIN req[r].ids
      BY <2>1, <3>1
    <3>3. QED
      BY <2>2, <3>2, EntryIds
  <2>3. CASE req[r].pc = "done" /\ req[r].target \notin UserTargets
    <3>1. ~(Len(req[r].seen) > 0)
      BY <2>3 DEF AlertInv, PositionOK, Positioned
    <3>2. DOMAIN req[r].seen = {}
      BY <2>1, <3>1
    <3>3. QED
      BY <2>3, <3>2, EntryIds
  <2>4. CASE req[r].pc # "done"
    <3>1. EntriesOf(r) = {}
      BY <2>4 DEF Explained, RequestExplained
    <3>2. QED
      BY <2>4, <3>1
  <2>5. QED
    BY <2>2, <2>3, <2>4
<1>2. QED
  BY <1>1 DEF BatchAllOrNothing, EntriesOf

\* A refused or aborted batch leaves no audit row; a finished one has one for
\* every id it named.
THEOREM BatchesAreAtomic == AlertSpec => []BatchAllOrNothing
<1>1. AlertInv /\ Explained => BatchAllOrNothing
  BY ExplainedBatches
<1>2. QED
  BY <1>1, AlertInvariant, PTL

-----------------------------------------------------------------------------
(* What a step changes in the committed rows. *)

\* Only COMMIT changes committed rows, or finishes a request.
LEMMA OnlyCommitPublishes ==
  ASSUME AlertInv, NEW r \in AlertRequests,
         \/ ReceiveTransition(r)
         \/ \E i \in AlertIds : UpsertExisting(r, i) \/ UpsertNew(r, i)
         \/ ServeRequest(r)
         \/ AbortRequest(r)
  PROVE  \/ CommitRequest(r)
         \/ UNCHANGED alerts /\ \A t \in AlertRequests : req'[t].pc = "done" => req[t].pc = "done"
<1>1. req \in [AlertRequests -> Request]
  BY DEF AlertInv, AlertTypeOK
<1>2. CASE ReceiveTransition(r)
  BY <1>1, <1>2 DEF ReceiveTransition
<1>3. CASE \E i \in AlertIds : UpsertExisting(r, i) \/ UpsertNew(r, i)
  <2>1. PICK i \in AlertIds : UpsertExisting(r, i) \/ UpsertNew(r, i)
    BY <1>3
  <2> DEFINE q == [pc |-> "ready", target |-> "firing", ids |-> <<i>>, seen |-> <<>>]
  <2>2. req' = [req EXCEPT ![r] = q] /\ UNCHANGED alerts
    BY <2>1 DEF UpsertExisting, UpsertNew, UpsertRow
  <2>3. q.pc = "ready"
    OBVIOUS
  <2> HIDE DEF q
  <2>4. QED
    BY <1>1, <2>2, <2>3
<1>4. CASE ReadAndDecide(r)
  <2>1. PICK seen : req' = [req EXCEPT ![r].pc = "flushing", ![r].seen = seen]
    BY <1>4 DEF ReadAndDecide
  <2>2. req'[r].pc = "flushing" /\ \A t \in AlertRequests \ {r} : req'[t] = req[t]
    BY <1>1, <2>1 DEF Request
  <2>3. QED
    BY <1>4, <2>2 DEF ReadAndDecide
<1>5. CASE FlushTransition(r)
  <2>1. PICK pc \in {"reading", "ready"} : req' = [req EXCEPT ![r].pc = pc]
    BY <1>5 DEF FlushTransition
  <2>2. req'[r].pc = pc /\ \A t \in AlertRequests \ {r} : req'[t] = req[t]
    BY <1>1, <2>1 DEF Request
  <2>3. QED
    BY <1>5, <2>2 DEF FlushTransition
<1>6. CASE RefuseTransition(r) \/ AbortRequest(r)
  <2>1. req' = [req EXCEPT ![r].pc = "failed"] /\ UNCHANGED alerts
    BY <1>6 DEF RefuseTransition, AbortRequest, DropDrafts
  <2>2. req'[r].pc = "failed" /\ \A t \in AlertRequests \ {r} : req'[t] = req[t]
    BY <1>1, <2>1 DEF Request
  <2>3. QED
    BY <2>1, <2>2
<1>7. QED
  BY <1>2, <1>3, <1>4, <1>5, <1>6 DEF ServeRequest, AbortDeadlockVictim

\* What COMMIT publishes was written by the request, over that very version.
LEMMA CommittedRow ==
  ASSUME AlertAssumption, AlertInv, Explained, NEW r \in AlertRequests, CommitRequest(r),
         NEW i \in AlertIds, draft[i].owner = r
  PROVE  WrittenBy(req[r], i, alerts[i], alerts'[i])
BY CommitFactsOfRequest DEF Explained, RequestExplained

AuditedStep ==
  \A i \in AlertIds :
    alerts'[i].status # alerts[i].status /\ alerts'[i].status \in UserTargets =>
      \E e \in trail' \ trail : e.id = i /\ e.after = alerts'[i].status

LEMMA CommitAudited ==
  ASSUME AlertAssumption, AlertInv, Explained, NEW r \in AlertRequests, CommitRequest(r)
  PROVE  AuditedStep
<1>1. SUFFICES ASSUME NEW i \in AlertIds, alerts'[i].status # alerts[i].status,
                      alerts'[i].status \in UserTargets
               PROVE  \E e \in trail' \ trail : e.id = i /\ e.after = alerts'[i].status
  BY DEF AuditedStep
<1>2. draft[i].owner = r
  BY <1>1, CommitFactsOfRequest
<1>3. req[r].pc = "ready" /\ trail' = trail \cup AuditEntries(r) /\ EntriesOf(r) = {}
  BY CommitFactsOfRequest DEF Explained, RequestExplained
<1>4. PICK n \in Flushed(req[r]) : req[r].ids[n] = i /\ alerts'[i].status = req[r].target
  BY <1>1, <1>2, CommittedRow DEF WrittenBy, UserTargets
<1>5. n \in DOMAIN req[r].seen
  BY <1>3, <1>4 DEF Flushed, AlertInv, AlertTypeOK, Request
<1> DEFINE e == [req |-> r, id |-> req[r].ids[n], before |-> req[r].seen[n],
                 after |-> req[r].target]
<1>6. e \in AuditEntries(r) /\ e.req = r /\ e.id = i /\ e.after = alerts'[i].status
  BY <1>4, <1>5 DEF AuditEntries
<1> HIDE DEF e
<1>7. e \notin trail
  BY <1>3, <1>6 DEF EntriesOf
<1>8. QED
  BY <1>3, <1>6, <1>7

LEMMA StepAudited ==
  ASSUME AlertAssumption, AlertInv, Explained, [AlertNext]_alertVars
  PROVE  AuditedStep
<1>1. CASE UNCHANGED alerts
  BY <1>1 DEF AuditedStep
<1>2. QED
  BY <1>1, AlertAssumption, CommitAudited, OnlyCommitPublishes DEF AlertNext, alertVars

\* A status a user set is committed together with the audit row that says so.
THEOREM TransitionsAreAudited == AlertSpec => TransitionsAudited
<1>1. AlertInv /\ Explained /\ [AlertNext]_alertVars => [AuditedStep]_alertVars
  BY AlertAssumption, StepAudited
<1>2. QED
  BY <1>1, AlertInvariant, PTL DEF AlertSpec, TransitionsAudited, AuditedStep

-----------------------------------------------------------------------------
(* alert_count counts the committed ingests. *)

CountedStep ==
  \A i \in AlertIds :
    alerts'[i].count = alerts[i].count + Cardinality(IngestsCommittedTo(i))

LEMMA NothingCounted ==
  ASSUME AlertInv, UNCHANGED alerts,
         \A t \in AlertRequests : req'[t].pc = "done" => req[t].pc = "done"
  PROVE  CountedStep
<1>1. SUFFICES ASSUME NEW i \in AlertIds
               PROVE  alerts'[i].count = alerts[i].count + Cardinality(IngestsCommittedTo(i))
  BY DEF CountedStep
<1>2. IngestsCommittedTo(i) = {}
  BY DEF IngestsCommittedTo
<1>3. Cardinality(IngestsCommittedTo(i)) = 0
  BY <1>2, FS_EmptySet
<1>4. alerts[i].count \in Nat
  BY DEF AlertInv, AlertTypeOK, AlertRow
<1>5. QED
  BY <1>3, <1>4

LEMMA CommitCounted ==
  ASSUME AlertAssumption, AlertInv, Explained, NEW r \in AlertRequests, CommitRequest(r)
  PROVE  CountedStep
<1>1. SUFFICES ASSUME NEW i \in AlertIds
               PROVE  alerts'[i].count = alerts[i].count + Cardinality(IngestsCommittedTo(i))
  BY DEF CountedStep
<1>2. alerts[i].count \in Nat
  BY DEF AlertInv, AlertTypeOK, AlertRow
<1>3. /\ req[r].pc = "ready" /\ req'[r].pc = "done"
      /\ \A t \in AlertRequests \ {r} : req'[t] = req[t]
  BY CommitFactsOfRequest
<1>4. IngestsCommittedTo(i) = IF req[r].target = "firing" /\ req[r].ids = <<i>> THEN {r} ELSE {}
  BY <1>3 DEF IngestsCommittedTo
<1>5. CASE req[r].target = "firing" /\ req[r].ids = <<i>>
  <2>1. draft[i].owner = r
    <3>1. PICK j \in AlertIds : req[r].ids = <<j>> /\ draft[j].owner = r
      BY <1>3, <1>5 DEF Explained, RequestExplained
    <3>2. j = i
      BY <1>5, <3>1
    <3>3. QED
      BY <3>1, <3>2
  <2>2. alerts'[i].count = alerts[i].count + 1
    BY <1>5, <2>1, CommittedRow DEF WrittenBy, UserTargets
  <2>3. Cardinality(IngestsCommittedTo(i)) = 1
    BY <1>4, <1>5, FS_Singleton
  <2>4. QED
    BY <2>2, <2>3
<1>6. CASE ~(req[r].target = "firing" /\ req[r].ids = <<i>>)
  <2>1. Cardinality(IngestsCommittedTo(i)) = 0
    BY <1>4, <1>6, FS_EmptySet
  <2>2. CASE draft[i].owner = r
    <3>1. alerts'[i].count = alerts[i].count
      BY <1>6, <2>2, CommittedRow DEF WrittenBy
    <3>2. QED
      BY <1>2, <2>1, <3>1
  <2>3. CASE draft[i].owner # r
    <3>1. alerts'[i] = alerts[i]
      BY <2>3, CommitFactsOfRequest
    <3>2. QED
      BY <1>2, <2>1, <3>1
  <2>4. QED
    BY <2>2, <2>3
<1>7. QED
  BY <1>5, <1>6

LEMMA StepCounted ==
  ASSUME AlertAssumption, AlertInv, Explained, [AlertNext]_alertVars
  PROVE  CountedStep
<1>1. CASE UNCHANGED alertVars
  BY <1>1, NothingCounted DEF alertVars
<1>2. CASE AlertNext
  BY <1>2, AlertAssumption, NothingCounted, CommitCounted, OnlyCommitPublishes DEF AlertNext
<1>3. QED
  BY <1>1, <1>2

\* However ingests and transitions interleave, every committed ingest is in
\* alert_count and nothing else is.
THEOREM IngestsAreCounted == AlertSpec => NoIngestLost
<1>1. AlertInv /\ Explained /\ [AlertNext]_alertVars => [CountedStep]_alertVars
  BY AlertAssumption, StepCounted
<1>2. QED
  BY <1>1, AlertInvariant, PTL DEF AlertSpec, NoIngestLost, CountedStep

=============================================================================
