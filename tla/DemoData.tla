------------------------------- MODULE DemoData -------------------------------
(***************************************************************************)
(* The demo data of a project (app/seeds).  seed_demo deletes what is      *)
(* there, if asked to, in a transaction of its own; inserts rows of five   *)
(* tables in a second one; and writes four Redis keys after its commit.    *)
(* Seeds may overlap with each other, with users who close alerts and with *)
(* the log collector, and may fail or die between any two steps.           *)
(*                                                                         *)
(* The rows one seed inserts into a table come and go together, so a table *)
(* is the set of seeds that have rows in it.  READ COMMITTED: a DELETE     *)
(* sees what is committed when it starts, and no foreign key ties a row to *)
(* the row it names.                                                       *)
(***************************************************************************)
EXTENDS Naturals, Sequences, FiniteSets, SequencesExt

CONSTANTS
  Seeders,       \* the seeds
  SeedAsks,      \* how each may be asked for: [via |-> "api" or "cli", reset |-> BOOLEAN]
  Fingerprints,  \* of the active alerts a seed inserts
  Production,    \* settings.environment is "prod"
  CollectedKeys, \* those of the first two Redis keys the collector writes meanwhile
  Original,      \* the rows that were there before
  Collected      \* a Redis key the collector wrote

SeedAsk == [via : {"api", "cli"}, reset : BOOLEAN]

ASSUME SeedAssumption ==
  /\ SeedAsks \in [Seeders -> SUBSET SeedAsk]
  /\ Production \in BOOLEAN
  /\ CollectedKeys \subseteq {"recent_logs", "recent_errors"}
  /\ Original \notin Seeders
  /\ Collected \notin Seeders

\* Not the code: the alerts first, what names them afterwards.
AlertsFirst == <<"alert_events", "agent_runs", "heal_actions", "audit_logs", "notifications">>

\* In the order in which _reset_project deletes them.
ResetOrder == <<"notifications", "heal_actions", "audit_logs", "agent_runs", "alert_events">>

Tables == Range(ResetOrder)

\* In the order in which seed_demo writes them.
SeedKeys == <<"recent_logs", "recent_errors", "traces", "metrics_snapshot">>

Batches == Seeders \cup {Original}

VARIABLES
  stored,   \* table -> the batches with committed rows in it
  active,   \* committed alerts that are active: [batch, fingerprint]
  deleted,  \* seed -> table -> the batches its open transaction has deleted
  keys,     \* Redis key -> who wrote it last, Original where nobody did
  seed,     \* where each seed stands
  landed    \* history: whether each batch was committed, and a reset under way

demoVars == <<stored, active, deleted, keys, seed, landed>>

-----------------------------------------------------------------------------

\* at: how far the reset or the Redis writes are.  found: the batches stored
\* when the seed began.
SeedState ==
  [pc    : {"new", "resetting", "inserting", "linking", "filling", "inserted", "caching",
            "answered", "refused", "error"},
   reset : BOOLEAN,
   at    : 0 .. Len(ResetOrder),
   found : SUBSET Batches]

Nothing == [t \in Tables |-> {}]

ActiveOf(b) == {[batch |-> b, fingerprint |-> f] : f \in Fingerprints}

SeedAt(s, label) == seed' = [seed EXCEPT ![s].pc = label, ![s].at = 0]

\* It has uncommitted rows.
Inserted(s) == seed[s].pc \in {"linking", "filling", "inserted"}

OpenSeed(s) == Inserted(s) \/ seed[s].pc \in {"resetting", "inserting", "caching"}

\* Rows of a table that a reset has deleted and not yet committed.
BeingDeleted(t) == UNION {deleted[s][t] : s \in Seeders}

-----------------------------------------------------------------------------

\* The HTTP endpoint refuses in production, the command line does not.
BeginSeed(s, asked) ==
  LET refused == Production /\ asked.via = "api"
  IN  /\ seed[s].pc = "new"
      /\ seed' = [seed EXCEPT ![s] =
           [pc |-> IF refused THEN "refused" ELSE IF asked.reset THEN "resetting" ELSE "inserting",
            reset |-> asked.reset, at |-> 0, found |-> UNION {stored[t] : t \in Tables}]]
      /\ UNCHANGED <<stored, active, deleted, keys, landed>>

\* One DELETE of _reset_project; it waits for a reset that is deleting the
\* same rows, and then no longer finds them.
DeleteTable(s) ==
  LET t == ResetOrder[seed[s].at + 1]
  IN  /\ seed[s].pc = "resetting"
      /\ seed[s].at < Len(ResetOrder)
      /\ BeingDeleted(t) \cap stored[t] = {}
      /\ deleted' = [deleted EXCEPT ![s][t] = stored[t]]
      /\ seed' = [seed EXCEPT ![s].at = @ + 1]
      /\ UNCHANGED <<stored, active, keys, landed>>

\* The commit of _reset_project.
CommitReset(s) ==
  /\ seed[s].pc = "resetting"
  /\ seed[s].at = Len(ResetOrder)
  /\ stored' = [t \in Tables |-> stored[t] \ deleted[s][t]]
  /\ active' = {a \in active : a.batch \notin deleted[s]["alert_events"]}
  /\ deleted' = [deleted EXCEPT ![s] = Nothing]
  /\ SeedAt(s, "inserting")
  /\ UNCHANGED <<keys, landed>>

\* The unique index on the fingerprints of active alerts lets one seed at a
\* time get past its first alert, and waits for a deletion to be decided.
FingerprintsDecided(s) ==
  /\ \A other \in Seeders \ {s} : ~Inserted(other)
  /\ \A a \in active : a.batch \notin BeingDeleted("alert_events")

\* The INSERTs up to the commit, of which nobody else sees a row: first the
\* alerts, where the seed meets others on the unique index.
InsertAlerts(s) ==
  /\ seed[s].pc = "inserting"
  /\ FingerprintsDecided(s)
  /\ \A a \in active : a.fingerprint \notin Fingerprints
  /\ SeedAt(s, "linking")
  /\ UNCHANGED <<stored, active, deleted, keys, landed>>

\* Then the agent runs, each named by its alert,
InsertRuns(s) ==
  /\ seed[s].pc = "linking"
  /\ SeedAt(s, "filling")
  /\ UNCHANGED <<stored, active, deleted, keys, landed>>

\* and the heal actions, notifications and audit rows.
InsertRest(s) ==
  /\ seed[s].pc = "filling"
  /\ SeedAt(s, "inserted")
  /\ UNCHANGED <<stored, active, deleted, keys, landed>>

\* An active alert of an earlier seed is still there: IntegrityError, which
\* nobody catches.  A reset before it stays committed.
InsertConflict(s) ==
  /\ seed[s].pc = "inserting"
  /\ FingerprintsDecided(s)
  /\ \E a \in active : a.fingerprint \in Fingerprints
  /\ SeedAt(s, "error")
  /\ UNCHANGED <<stored, active, deleted, keys, landed>>

CommitBatch(s) ==
  /\ seed[s].pc = "inserted"
  /\ stored' = [t \in Tables |-> stored[t] \cup {s}]
  /\ active' = active \cup ActiveOf(s)
  /\ landed' = [landed EXCEPT ![s] =
       IF \E other \in Seeders : seed[other].pc = "resetting" THEN "amid_reset" ELSE "whole"]
  /\ SeedAt(s, "caching")
  /\ UNCHANGED <<deleted, keys>>

WriteKey(s) ==
  LET next == seed[s].at + 1
  IN  /\ seed[s].pc = "caching"
      /\ keys' = [keys EXCEPT ![SeedKeys[next]] = s]
      /\ IF next = Len(SeedKeys) THEN SeedAt(s, "answered")
         ELSE seed' = [seed EXCEPT ![s].at = next]
      /\ UNCHANGED <<stored, active, deleted, landed>>

\* PostgreSQL or Redis raises, or the process dies: what is committed and
\* written stays.
SeedFails(s) ==
  /\ OpenSeed(s)
  /\ SeedAt(s, "error")
  /\ deleted' = [deleted EXCEPT ![s] = Nothing]
  /\ UNCHANGED <<stored, active, keys, landed>>

\* A user closes an alert, which waits for nothing but a deletion.
CloseDemoAlert(a) ==
  /\ a.batch \notin BeingDeleted("alert_events")
  /\ active' = active \ {a}
  /\ UNCHANGED <<stored, deleted, keys, seed, landed>>

\* The log collector overwrites the first two keys; nobody else writes the
\* other two.
CollectLogs(k) ==
  /\ keys' = [keys EXCEPT ![k] = Collected]
  /\ UNCHANGED <<stored, active, deleted, seed, landed>>

-----------------------------------------------------------------------------

DemoInit ==
  /\ stored = [t \in Tables |-> {Original}]
  /\ active = {}
  /\ deleted = [s \in Seeders |-> Nothing]
  /\ keys = [k \in Range(SeedKeys) |-> Original]
  /\ seed = [s \in Seeders |-> [pc |-> "new", reset |-> FALSE, at |-> 0, found |-> {}]]
  /\ landed = [s \in Seeders |-> "no"]

ServeSeed(s) ==
  \/ DeleteTable(s)
  \/ CommitReset(s)
  \/ InsertAlerts(s)
  \/ InsertRuns(s)
  \/ InsertRest(s)
  \/ InsertConflict(s)
  \/ CommitBatch(s)
  \/ WriteKey(s)

DemoNext ==
  \/ \E s \in Seeders :
       \/ \E asked \in SeedAsks[s] : BeginSeed(s, asked)
       \/ SeedFails(s)
       \/ ServeSeed(s)
  \/ \E a \in active : CloseDemoAlert(a)
  \/ \E k \in CollectedKeys : CollectLogs(k)

DemoSpec == DemoInit /\ [][DemoNext]_demoVars

DemoFairness == \A s \in Seeders : WF_demoVars(ServeSeed(s))

-----------------------------------------------------------------------------
(* Properties. *)

\* Types: in particular a table holds whole batches, the original one or a
\* seed's.
DemoTypeOK ==
  /\ stored \in [Tables -> SUBSET Batches]
  /\ active \subseteq [batch : Seeders, fingerprint : Fingerprints]
  /\ deleted \in [Seeders -> [Tables -> SUBSET Batches]]
  /\ keys \in [Range(SeedKeys) -> Batches \cup {Collected}]
  /\ seed \in [Seeders -> SeedState]
  /\ landed \in [Seeders -> {"no", "whole", "amid_reset"}]

\* A seed that is refused, or fails before its commit, leaves no row and no
\* Redis key; the keys are written only for rows that are committed.
CachedAfterCommit ==
  \A s \in Seeders :
    (\E t \in Tables : s \in stored[t]) \/ (\E k \in DOMAIN keys : keys[k] = s)
      => landed[s] # "no"

\* An alert that is left has all that came with it, the runs and the actions
\* that name it: resets delete the alerts last.  (The opposite does not hold:
\* actions and runs may be left whose alerts a reset deleted.)
AlertsKeepTheirRows ==
  \A t \in Tables : stored["alert_events"] \subseteq stored[t]

\* A batch is stored whole or not at all, unless it was committed while a
\* reset was between its first DELETE and its commit.
BatchesWhole ==
  \A b \in Batches :
    \/ \A t \in Tables : b \notin stored[t]
    \/ \A t \in Tables : b \in stored[t]
    \/ b # Original /\ landed[b] = "amid_reset"

\* A fingerprint has one active alert, of a batch that is stored.
OneActiveDemoAlert ==
  /\ \A a, b \in active : a.fingerprint = b.fingerprint => a = b
  /\ \A a \in active : a.batch \in stored["alert_events"]

\* A reset that got as far as its inserts has removed all it had found, and
\* nothing that was deleted comes back.
ResetsRemove ==
  \A s \in Seeders :
    seed[s].reset /\ seed[s].pc \notin {"new", "resetting", "refused", "error"} =>
      \A t \in Tables : seed[s].found \cap stored[t] = {}

\* seed_demo leaves demonstration data that belongs together, whatever other
\* seed, user or failure it meets: Redis shows only committed rows, an alert
\* keeps its rows, a batch is torn only by a reset it overlapped, a
\* fingerprint has one active alert and a reset removes what it found.
DemoDataSound ==
  /\ CachedAfterCommit
  /\ AlertsKeepTheirRows
  /\ BatchesWhole
  /\ OneActiveDemoAlert
  /\ ResetsRemove
=============================================================================
