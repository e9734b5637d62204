------------------------- MODULE HealApprovalProofs -------------------------
(***************************************************************************)
(* What the approval protocol itself promises.                             *)
(***************************************************************************)
EXTENDS HealApproval, TLAPS

CallInv == GateTypeOK /\ CalledOnlyIfCleared

\* No step brings the executor to an action that is not cleared, and a cleared
\* action stays cleared.
LEMMA CallInvKept == CallInv /\ [GateNext]_gateVars => CallInv'
<1> SUFFICES ASSUME CallInv, [GateNext]_gateVars PROVE CallInv'
  OBVIOUS
<1> USE DEF CallInv, GateTypeOK, CalledOnlyIfCleared, Gates
<1>1. CASE UNCHANGED gateVars
  BY <1>1 DEF gateVars
<1>2. ASSUME NEW h \in HealIds, NEW from \in {"none", "waiting"}, NEW to \in Gates,
             Move(h, from, to)
      PROVE  CallInv'
  <2>1. calls[h] = 0
    BY <1>2 DEF Move
  <2> QED
    BY <1>2, <2>1 DEF Move
<1>3. ASSUME NEW h \in HealIds, Call(h) PROVE CallInv'
  BY <1>3 DEF Call
<1> QED
  BY <1>1, <1>2, <1>3 DEF GateNext, Propose, Approve, Reject

\* The executor has only ever been called for an action that never needed an
\* approval or was approved (the promise behind waiting_approval and pending
\* of app/healing/service.py).
THEOREM CallsNeedClearance == GateSpec => []CalledOnlyIfCleared
<1>1. GateInit => CallInv
  BY DEF GateInit, CallInv, GateTypeOK, CalledOnlyIfCleared, Gates
<1>2. CallInv => CalledOnlyIfCleared
  BY DEF CallInv
<1> QED
  BY <1>1, <1>2, CallInvKept, PTL DEF GateSpec

=============================================================================
