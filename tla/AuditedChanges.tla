---------------------------- MODULE AuditedChanges ----------------------------
(***************************************************************************)
(* Two requests that change something outside of PostgreSQL and leave a    *)
(* trail in it: update_config (app/api/settings.py) writes an override     *)
(* into Redis, restart_pod (app/k8s/logs.py) asks a Kubernetes provider.   *)
(*                                                                         *)
(* Both commit their intent first, then act, then commit the outcome in a  *)
(* transaction of its own.  The process may die, and the database, Redis   *)
(* or the provider may fail, between any two of the three.  A reset of the *)
(* project (SeedService._reset_project) deletes heal actions and audit     *)
(* rows meanwhile, in two statements that each see what is committed then. *)
(***************************************************************************)
EXTENDS Naturals, FiniteSets

CONSTANTS
  Changes,       \* the requests
  ConfigKeys,    \* keys of DEFAULT_CONFIGS
  HighRiskKeys,  \* those of risk "high"
  ConfigValues,  \* values other than the default
  UnknownKey,
  ConfigAsks,    \* what each may ask for: pairs of key and value
  Default,       \* the value of a key without override
  Drivers,       \* what get_k8s_provider may find
  ChangeFaults,  \* which of "crash", "database", "redis" happen
  MaxWipes       \* bound of the resets

ASSUME ChangeAssumption ==
  /\ HighRiskKeys \subseteq ConfigKeys
  /\ UnknownKey \notin ConfigKeys
  /\ Default \notin ConfigValues
  /\ ConfigAsks \in [Changes -> SUBSET ((ConfigKeys \cup {UnknownKey}) \X ConfigValues)]
  /\ Drivers \subseteq {"none", "shipped", "injected"}
  /\ ChangeFaults \subseteq {"crash", "database", "redis"}
  /\ MaxWipes \in Nat

VARIABLES
  overrides,   \* the Redis hash of overrides, Default where there is none
  restarts,    \* status of the heal_actions row of a restart
  trail,       \* committed audit rows
  change,      \* where each request stands
  wipe,        \* the transaction of a reset, one at a time
  effects,     \* history: the requests whose effect took place
  wiped,       \* history: the audit rows that resets have deleted
  amid         \* history: the restarts whose intent was committed between the
               \* two DELETEs of a reset

changeVars == <<overrides, restarts, trail, change, wipe, effects, wiped, amid>>

-----------------------------------------------------------------------------

Results == {"requested", "success", "failed"}

Change ==
  [pc      : {"idle", "intent", "acting", "recording", "answered", "refused", "error", "lost"},
   kind    : {"config", "restart"},
   key     : ConfigKeys \cup {UnknownKey},
   value   : ConfigValues \cup {Default},
   before  : ConfigValues \cup {Default},
   driver  : {"none", "shipped", "injected"},
   outcome : Results]

\* The audit row of a request; a restart has no values in its own.
ChangeAudit ==
  [change : Changes, result : Results,
   before : ConfigValues \cup {Default}, after : ConfigValues \cup {Default}]

IdleChange ==
  [pc |-> "idle", kind |-> "config", key |-> UnknownKey, value |-> Default,
   before |-> Default, driver |-> "none", outcome |-> "requested"]

\* The rows a reset has deleted and not yet committed, after none, one or
\* both of its DELETEs; begun: how many resets there have been.
Wipe ==
  [at : {"none", "rows", "trail"}, rows : SUBSET Changes, entries : SUBSET ChangeAudit,
   begun : 0 .. MaxWipes]

NoWipe(n) == [at |-> "none", rows |-> {}, entries |-> {}, begun |-> n]

OpenChange(r) == change[r].pc \in {"intent", "acting", "recording"}

AuditOf(r, result) ==
  [change |-> r, result |-> result, before |-> change[r].before, after |-> change[r].value]

Goto(r, label) == change' = [change EXCEPT ![r].pc = label]

-----------------------------------------------------------------------------

\* update_config up to the first audit row: the key is known, a high risk is
\* confirmed, and the value that counts now is read from Redis.
BeginConfig(r, key, value, confirm) ==
  LET known == key \in ConfigKeys
      allowed == known /\ (key \in HighRiskKeys => confirm)
  IN  /\ change[r].pc = "idle"
      /\ change' = [change EXCEPT ![r] =
           IF ~allowed THEN [IdleChange EXCEPT !.pc = "refused"]
           ELSE [IdleChange EXCEPT !.pc = "intent", !.key = key, !.value = value,
                                   !.before = overrides[key]]]
      /\ UNCHANGED <<overrides, restarts, trail, wipe, effects, wiped, amid>>

\* get_effective_value raises.
ReadConfigFails(r) ==
  /\ "redis" \in ChangeFaults
  /\ change[r].pc = "idle"
  /\ Goto(r, "error")
  /\ UNCHANGED <<overrides, restarts, trail, wipe, effects, wiped, amid>>

\* restart_pod looks for a provider before it writes anything.
BeginRestart(r, driver) ==
  /\ change[r].pc = "idle"
  /\ change' = [change EXCEPT ![r] =
       IF driver = "none" THEN [IdleChange EXCEPT !.pc = "refused"]
       ELSE [IdleChange EXCEPT !.pc = "intent", !.kind = "restart", !.driver = driver]]
  /\ UNCHANGED <<overrides, restarts, trail, wipe, effects, wiped, amid>>

\* Not the code: the intent is left to the commit of the outcome.
RecordIntentLater(r) ==
  /\ change[r].pc = "intent"
  /\ restarts' = IF change[r].kind = "restart"
                 THEN [restarts EXCEPT ![r] = "executing"] ELSE restarts
  /\ Goto(r, "acting")
  /\ UNCHANGED <<overrides, trail, wipe, effects, wiped, amid>>

\* The intent and, for a restart, the row that is executing: one commit.
RecordIntent(r) ==
  /\ change[r].pc = "intent"
  /\ trail' = trail \cup {AuditOf(r, "requested")}
  /\ restarts' = IF change[r].kind = "restart"
                 THEN [restarts EXCEPT ![r] = "executing"] ELSE restarts
  /\ amid' = IF change[r].kind = "restart" /\ wipe.at = "rows" THEN amid \cup {r} ELSE amid
  /\ Goto(r, "acting")
  /\ UNCHANGED <<overrides, wipe, effects, wiped>>

IntentFails(r) ==
  /\ "database" \in ChangeFaults
  /\ change[r].pc = "intent"
  /\ Goto(r, "error")
  /\ UNCHANGED <<overrides, restarts, trail, wipe, effects, wiped, amid>>

\* Not the code: a failure leaves the result that was set before.
ReportSuccessOnly(r, applied, answered) ==
  /\ answered => applied
  /\ change' = [change EXCEPT ![r].pc = "recording",
                              ![r].outcome = IF answered THEN "success" ELSE @]
  /\ effects' = IF applied THEN effects \cup {r} ELSE effects

\* What the request learns of its effect: it may have taken place although
\* the answer is an error or a timeout, never the other way round.
ReportEffect(r, applied, answered) ==
  /\ answered => applied
  /\ change' = [change EXCEPT ![r].pc = "recording",
                              ![r].outcome = IF answered THEN "success" ELSE "failed"]
  /\ effects' = IF applied THEN effects \cup {r} ELSE effects

\* HSET.
WriteOverride(r) ==
  /\ change[r].pc = "acting"
  /\ change[r].kind = "config"
  /\ \E applied, answered \in BOOLEAN :
       /\ answered \/ "redis" \in ChangeFaults
       /\ ReportEffect(r, applied, answered)
       /\ overrides' = IF applied
                       THEN [overrides EXCEPT ![change[r].key] = change[r].value] ELSE overrides
  /\ UNCHANGED <<restarts, trail, wipe, wiped, amid>>

\* provider.notify.  The shipped provider refuses every action; another one
\* may act, fail, or be given up after ten seconds.
CallProvider(r) ==
  /\ change[r].pc = "acting"
  /\ change[r].kind = "restart"
  /\ \E applied, answered \in BOOLEAN :
       /\ change[r].driver = "shipped" => ~applied
       /\ ReportEffect(r, applied, answered)
  /\ UNCHANGED <<overrides, restarts, trail, wipe, wiped, amid>>

\* The row is locked and read again, which waits for a reset that is deleting
\* it; if it has gone, nothing is recorded and the request fails.
RowGone(r) == change[r].kind = "restart" /\ restarts[r] = "absent"

Ended(r) ==
  IF change[r].outcome = "success" /\ ~RowGone(r) THEN "answered" ELSE "error"

RecordOutcome(r) ==
  /\ change[r].pc = "recording"
  /\ r \notin wipe.rows
  /\ IF RowGone(r) THEN UNCHANGED <<trail, restarts>>
     ELSE /\ trail' = trail \cup {AuditOf(r, change[r].outcome)}
          /\ restarts' = IF change[r].kind = "restart"
                         THEN [restarts EXCEPT ![r] = change[r].outcome] ELSE restarts
  /\ Goto(r, Ended(r))
  /\ UNCHANGED <<overrides, wipe, effects, wiped, amid>>

\* The second commit fails.  Only the success of an override is answered all
\* the same: its exception is swallowed.
OutcomeLost(r) ==
  /\ "database" \in ChangeFaults
  /\ change[r].pc = "recording"
  /\ Goto(r, IF change[r].kind = "config" /\ change[r].outcome = "success"
             THEN "answered" ELSE "error")
  /\ UNCHANGED <<overrides, restarts, trail, wipe, effects, wiped, amid>>

\* The process dies, or the handler is cancelled, which except Exception
\* does not catch.
LoseChange(r) ==
  /\ "crash" \in ChangeFaults
  /\ OpenChange(r)
  /\ Goto(r, "lost")
  /\ UNCHANGED <<overrides, restarts, trail, wipe, effects, wiped, amid>>

\* The DELETEs of a reset that matter here: first the heal actions there are,
DeleteRestarts ==
  /\ wipe.at = "none"
  /\ wipe.begun < MaxWipes
  /\ wipe' = [at |-> "rows", rows |-> {r \in Changes : restarts[r] # "absent"}, entries |-> {},
              begun |-> wipe.begun + 1]
  /\ UNCHANGED <<overrides, restarts, trail, change, effects, wiped, amid>>

\* then the audit rows there are by then,
DeleteTrail ==
  /\ wipe.at = "rows"
  /\ wipe' = [wipe EXCEPT !.at = "trail", !.entries = trail]
  /\ UNCHANGED <<overrides, restarts, trail, change, effects, wiped, amid>>

\* and the commit of both.
CommitWipe ==
  /\ wipe.at = "trail"
  /\ restarts' = [r \in Changes |-> IF r \in wipe.rows THEN "absent" ELSE restarts[r]]
  /\ trail' = trail \ wipe.entries
  /\ wiped' = wiped \cup wipe.entries
  /\ wipe' = NoWipe(wipe.begun)
  /\ UNCHANGED <<overrides, change, effects, amid>>

\* A statement fails or the process of the reset dies: all of it is undone.
UndoWipe ==
  /\ wipe.at # "none"
  /\ wipe' = NoWipe(wipe.begun)
  /\ UNCHANGED <<overrides, restarts, trail, change, effects, wiped, amid>>

-----------------------------------------------------------------------------

ChangeInit ==
  /\ overrides = [key \in ConfigKeys |-> Default]
  /\ restarts = [r \in Changes |-> "absent"]
  /\ trail = {}
  /\ change = [r \in Changes |-> IdleChange]
  /\ wipe = NoWipe(0)
  /\ effects = {}
  /\ wiped = {}
  /\ amid = {}

ServeChange(r) ==
  \/ RecordIntent(r)
  \/ WriteOverride(r)
  \/ CallProvider(r)
  \/ RecordOutcome(r)

GoOnWiping == DeleteTrail \/ CommitWipe

ChangeNext ==
  \/ \E r \in Changes :
       \/ \E asked \in ConfigAsks[r], confirm \in BOOLEAN :
            BeginConfig(r, asked[1], asked[2], confirm)
       \/ ReadConfigFails(r)
       \/ \E driver \in Drivers : BeginRestart(r, driver)
       \/ IntentFails(r)
       \/ OutcomeLost(r)
       \/ LoseChange(r)
       \/ ServeChange(r)
  \/ DeleteRestarts
  \/ UndoWipe
  \/ GoOnWiping

ChangeSpec == ChangeInit /\ [][ChangeNext]_changeVars

\* The requests go on, and so does a reset for whose rows they may wait.
ChangeFairness ==
  /\ \A r \in Changes : WF_changeVars(ServeChange(r))
  /\ WF_changeVars(GoOnWiping)

-----------------------------------------------------------------------------
(* Properties. *)

\* Types: in particular every audit row is of a known request and result.
ChangeTypeOK ==
  /\ overrides \in [ConfigKeys -> ConfigValues \cup {Default}]
  /\ restarts \in [Changes -> {"absent", "executing", "success", "failed"}]
  /\ trail \subseteq ChangeAudit
  /\ change \in [Changes -> Change]
  /\ wipe \in Wipe
  /\ effects \subseteq Changes
  /\ wiped \subseteq ChangeAudit
  /\ amid \subseteq Changes

\* An audit row was committed, and is in the log until a reset deletes it.
Audited(r, result) == \E entry \in trail \cup wiped : entry.change = r /\ entry.result = result

\* Whatever took place had been announced in the audit log before.
IntentFirst == \A r \in effects : Audited(r, "requested")

\* A success in the log, or answered to the user, did take place.
SuccessTookPlace ==
  \A r \in Changes : Audited(r, "success") \/ change[r].pc = "answered" => r \in effects

\* The row of a restart tells what was logged of it, and as long as it is there
\* the log shows it all, unless the restart was asked for between the DELETEs
\* of a reset: then the row may have lost its entries.  An entry of a restart
\* has not lost its row, because the rows are deleted before the log.
RowsMatchTrail ==
  \A r \in Changes :
    /\ restarts[r] # "absent" =>
         /\ Audited(r, "requested")
         /\ \A result \in {"success", "failed"} : restarts[r] = result <=> Audited(r, result)
         /\ r \in amid \/ \A entry \in wiped : entry.change # r
    /\ change[r].kind = "restart" /\ (\E entry \in trail : entry.change = r) =>
         restarts[r] # "absent"

\* The value a setting has was asked for by a request that was logged with it.
ValuesExplained ==
  \A key \in ConfigKeys : overrides[key] # Default =>
    \E r \in effects, entry \in trail \cup wiped :
      /\ change[r].key = key /\ change[r].value = overrides[key]
      /\ entry.change = r /\ entry.result = "requested" /\ entry.after = overrides[key]

\* update_config and restart_pod leave a trail that can be relied on, whatever
\* fails or dies between intent, effect and outcome: nothing happens
\* unannounced, no success is recorded or answered that did not take place,
\* and rows, values and audit log do not contradict each other; a reset takes
\* entries away, but tears a row from its entries only if it overlapped with
\* the request for it.
ChangesAccounted ==
  IntentFirst /\ SuccessTookPlace /\ RowsMatchTrail /\ ValuesExplained
=============================================================================
