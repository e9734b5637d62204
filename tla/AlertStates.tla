---------------------------- MODULE AlertStates ----------------------------
(***************************************************************************)
(* The alert state machine of app/alerts/state_machine.py: the statuses an *)
(* alert_events row can have, the ones the partial unique index and the    *)
(* upsert call active, and the edges transition_alert_status accepts.      *)
(***************************************************************************)

AlertStatuses ==
  {"firing", "acknowledged", "processing", "healing",
   "suppressed", "resolved", "failed"}

\* A row id that no INSERT has used yet.
Absent == "absent"

ACTIVE_ALERT_STATUSES == {"firing", "processing", "healing"}

ALLOWED_TRANSITIONS ==
  ({"firing"}       \X {"processing", "acknowledged", "suppressed", "resolved"}) \cup
  ({"acknowledged"} \X {"processing", "suppressed", "resolved"}) \cup
  ({"processing"}   \X {"healing", "resolved", "failed"}) \cup
  ({"healing"}      \X {"resolved", "failed"})

\* transition_alert_status raises InvalidAlertTransition exactly when this is false.
TransitionAllowed(current, target) == <<current, target>> \in ALLOWED_TRANSITIONS

=============================================================================
