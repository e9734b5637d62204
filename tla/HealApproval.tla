---------------------------- MODULE HealApproval ----------------------------
(***************************************************************************)
(* What the healing service promises about approval, without sessions,     *)
(* locks or retries.  An action that needs approval waits until somebody   *)
(* approves or rejects it, once and for all; the executor is called only   *)
(* for an action that is cleared, either because it never needed approval  *)
(* or because it was approved.  (app/healing/service.py: the statuses      *)
(* waiting_approval and pending, approve, reject, execute.)                *)
(***************************************************************************)
EXTENDS Naturals

CONSTANT HealIds   \* the heal actions

VARIABLES
  gate,   \* where each action stands with its approval
  calls   \* how often the executor was called for it

gateVars == <<gate, calls>>

Gates == {"none", "waiting", "rejected", "cleared"}

GateTypeOK ==
  /\ gate \in [HealIds -> Gates]
  /\ calls \in [HealIds -> Nat]

GateInit ==
  /\ gate = [h \in HealIds |-> "none"]
  /\ calls = [h \in HealIds |-> 0]

Move(h, from, to) ==
  /\ gate[h] = from
  /\ gate' = [gate EXCEPT ![h] = to]
  /\ UNCHANGED calls

Propose(h) == Move(h, "none", "waiting") \/ Move(h, "none", "cleared")

Approve(h) == Move(h, "waiting", "cleared")

Reject(h) == Move(h, "waiting", "rejected")

Call(h) ==
  /\ gate[h] = "cleared"
  /\ calls' = [calls EXCEPT ![h] = @ + 1]
  /\ UNCHANGED gate

GateNext == \E h \in HealIds : Propose(h) \/ Approve(h) \/ Reject(h) \/ Call(h)

GateSpec == GateInit /\ [][GateNext]_gateVars

\* Only a cleared action has ever been handed to the executor.
CalledOnlyIfCleared == \A h \in HealIds : calls[h] > 0 => gate[h] = "cleared"

=============================================================================
