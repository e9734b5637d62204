--------------------------- MODULE IngestPipeline ---------------------------
(***************************************************************************)
(* The way of an Alertmanager payload from the webhook's 202 through a     *)
(* Redis list per project to the alert rows (app/api/alerts.py,            *)
(* app/alerts/ingest.py), next to the transitions of AlertLifecycle that   *)
(* lock the same rows.                                                     *)
(*                                                                         *)
(* The worker takes a payload off the list before the transaction that     *)
(* stores it: whatever ends the transaction early, a bad alert, a deadlock *)
(* or the end of the process, loses the payload.                           *)
(***************************************************************************)
EXTENDS AlertLifecycle, Integers, FiniteSets

CONSTANTS
  Payloads,      \* the payloads that may be posted
  ContentOf,     \* their alerts: fingerprints, or one of the next two
  Ignored,       \* an alert that is malformed: it is skipped
  Rejected,      \* an alert whose row the database refuses
  Projects,      \* the enabled projects
  ProjectOf,     \* the project a payload is resolved to
  KeyOrder,      \* the projects in the order of the configuration
  Workers,       \* the ingest workers, one per process
  NoPayload,     \* what an idle worker holds
  Faults         \* what may go wrong: a subset of {"crash", "lost_reply"}

ASSUME IngestAssumption ==
  /\ ContentOf \in [Payloads -> Seq(Fingerprints \cup {Ignored, Rejected})]
  /\ {Ignored, Rejected} \cap Fingerprints = {}
  /\ ProjectOf \in [Payloads -> Projects]
  /\ KeyOrder \in Seq(Projects)
  /\ Workers \subseteq Sessions
  /\ Workers \cap AlertRequests = {}
  /\ NoPayload \notin Payloads
  /\ Faults \subseteq {"crash", "lost_reply"}

VARIABLES
  queue,     \* the Redis list of each project, oldest payload first
  worker,    \* where each worker stands
  accepted,  \* the payloads answered with 202, in this order
  stored     \* the payloads whose transaction committed, in this order

ingestVars == <<queue, worker, accepted, stored>>

vars == <<alertVars, ingestVars>>

-----------------------------------------------------------------------------

\* next is the position of the alert the worker will look at.
Worker ==
  [pc : {"down", "polling", "storing"}, payload : Payloads \cup {NoPayload}, next : Nat]

DownWorker == [pc |-> "down", payload |-> NoPayload, next |-> 1]

IdleWorker == [pc |-> "polling", payload |-> NoPayload, next |-> 1]

Members(s) == {s[n] : n \in DOMAIN s}

Content(w) == ContentOf[worker[w].payload]

NextAlert(w) == Content(w)[worker[w].next]

HasNext(w) == worker[w].pc = "storing" /\ worker[w].next <= Len(Content(w))

Advance(w) == worker' = [worker EXCEPT ![w].next = @ + 1]

\* The project whose list BRPOP looks at first among those that are not empty.
FirstKey(k) ==
  /\ queue[KeyOrder[k]] # <<>>
  /\ \A j \in 1..(k - 1) : queue[KeyOrder[j]] = <<>>

-----------------------------------------------------------------------------
(* The webhook and the queue. *)

\* Variant: the webhook pushes at the end the worker pops from.
WebhookPushesFirst(p) ==
  /\ p \notin Members(accepted)
  /\ accepted' = Append(accepted, p)
  /\ queue' = [queue EXCEPT ![ProjectOf[p]] = <<p>> \o @]
  /\ UNCHANGED <<alertVars, worker, stored>>

\* LPUSH, then 202.
Webhook(p) ==
  /\ p \notin Members(accepted)
  /\ accepted' = Append(accepted, p)
  /\ queue' = [queue EXCEPT ![ProjectOf[p]] = Append(@, p)]
  /\ UNCHANGED <<alertVars, worker, stored>>

Pop(k) ==
  /\ FirstKey(k)
  /\ queue' = [queue EXCEPT ![KeyOrder[k]] = Tail(@)]

\* Variant: only the first project's list is polled.
PollFirstProject(w) ==
  /\ worker[w].pc = "polling"
  /\ \E k \in {1} :
       /\ Pop(k)
       /\ worker' = [worker EXCEPT ![w] =
            [pc |-> "storing", payload |-> Head(queue[KeyOrder[k]]), next |-> 1]]
  /\ UNCHANGED <<alertVars, accepted, stored>>

\* Variant: what BRPOP returns is not checked for None, its timeout.
PollUnchecked(w) ==
  /\ worker[w].pc = "polling"
  /\ \A j \in Projects : queue[j] = <<>>
  /\ worker' = [worker EXCEPT ![w].pc = "storing"]
  /\ UNCHANGED <<alertVars, queue, accepted, stored>>

\* BRPOP returns a payload and a session is opened.
Poll(w) ==
  /\ worker[w].pc = "polling"
  /\ \E k \in DOMAIN KeyOrder :
       /\ Pop(k)
       /\ worker' = [worker EXCEPT ![w] =
            [pc |-> "storing", payload |-> Head(queue[KeyOrder[k]]), next |-> 1]]
  /\ UNCHANGED <<alertVars, accepted, stored>>

\* Redis has popped the payload, but the connection breaks before the reply.
PollReplyLost(w) ==
  /\ "lost_reply" \in Faults
  /\ worker[w].pc = "polling"
  /\ \E k \in DOMAIN KeyOrder : Pop(k)
  /\ UNCHANGED <<alertVars, worker, accepted, stored>>

-----------------------------------------------------------------------------
(* process_ingest_payload: one transaction for all alerts of the payload. *)

SkipIgnored(w) ==
  /\ HasNext(w)
  /\ NextAlert(w) = Ignored
  /\ Advance(w)
  /\ UNCHANGED <<alertVars, queue, accepted, stored>>

\* DO UPDATE: on the committed active row, or on the one this very payload has
\* already written.
StoreExisting(w, i) ==
  /\ HasNext(w)
  /\ NextAlert(w) = FingerprintOf[i]
  /\ Active(Visible(w, i))
  /\ draft[i].owner \in {Nobody, w}
  /\ WriteRow(w, i, [Visible(w, i) EXCEPT !.status = "firing", !.count = @ + 1])
  /\ Advance(w)
  /\ UNCHANGED <<alerts, req, trail, queue, accepted, stored>>

StoreNew(w, i) ==
  /\ HasNext(w)
  /\ NextAlert(w) = FingerprintOf[i]
  /\ alerts[i] = NoRow
  /\ ~Drafted(i)
  /\ IndexFree(i)
  /\ WriteRow(w, i, [status |-> "firing", resolved |-> FALSE, count |-> 1])
  /\ Advance(w)
  /\ UNCHANGED <<alerts, req, trail, queue, accepted, stored>>

\* Variant: every alert is committed on its own.
StoreEach(w) ==
  /\ worker[w].pc = "storing"
  /\ PublishDrafts(w)
  /\ IF HasNext(w)
     THEN UNCHANGED <<worker, stored>>
     ELSE /\ stored' = Append(stored, worker[w].payload)
          /\ worker' = [worker EXCEPT ![w] = IdleWorker]
  /\ UNCHANGED <<req, trail, queue, accepted>>

Store(w) ==
  /\ worker[w].pc = "storing" /\ ~HasNext(w)
  /\ PublishDrafts(w)
  /\ stored' = Append(stored, worker[w].payload)
  /\ worker' = [worker EXCEPT ![w] = IdleWorker]
  /\ UNCHANGED <<req, trail, queue, accepted>>

\* The exception is logged and the loop goes on: the payload is gone.
GiveUp(w) ==
  /\ DropDrafts(w)
  /\ worker' = [worker EXCEPT ![w] = IdleWorker]
  /\ UNCHANGED <<req, trail, queue, accepted, stored>>

RejectPayload(w) ==
  /\ HasNext(w)
  /\ NextAlert(w) = Rejected
  /\ GiveUp(w)

-----------------------------------------------------------------------------
(* Locks between the worker and the transitions. *)

\* s waits for q: its UPDATE or its upsert needs a row q has written.
Blocks(q, s) ==
  \/ /\ s \in AlertRequests
     /\ WaitsFor(s, q)
  \/ /\ s \in Workers
     /\ HasNext(s)
     /\ \E i \in AlertIds :
          /\ FingerprintOf[i] = NextAlert(s)
          /\ draft[i].owner = q /\ q # s
          /\ Active(alerts[i]) \/ Active(draft[i].row)

Deadlocked(s) ==
  \E D \in SUBSET (Workers \cup AlertRequests) :
    /\ s \in D
    /\ \A p \in D : (\E q \in D : Blocks(q, p)) /\ (\E q \in D : Blocks(p, q))

WorkerIsVictim(w) == Deadlocked(w) /\ GiveUp(w)

RequestIsVictim(r) == Deadlocked(r) /\ AbortRequest(r) /\ UNCHANGED ingestVars

-----------------------------------------------------------------------------
(* Processes. *)

\* The lifespan ends and cancels the task, or the process dies.
Crash(w) ==
  /\ "crash" \in Faults
  /\ worker[w].pc # "down"
  /\ DropDrafts(w)
  /\ worker' = [worker EXCEPT ![w] = DownWorker]
  /\ UNCHANGED <<req, trail, queue, accepted, stored>>

Start(w) ==
  /\ worker[w].pc = "down"
  /\ worker' = [worker EXCEPT ![w] = IdleWorker]
  /\ UNCHANGED <<alertVars, queue, accepted, stored>>

-----------------------------------------------------------------------------

Init ==
  /\ AlertInit
  /\ queue = [j \in Projects |-> <<>>]
  /\ worker = [w \in Workers |-> DownWorker]
  /\ accepted = <<>>
  /\ stored = <<>>

WorkerStep(w) ==
  \/ Start(w) \/ Poll(w)
  \/ SkipIgnored(w) \/ RejectPayload(w) \/ Store(w) \/ WorkerIsVictim(w)
  \/ \E i \in AlertIds : StoreExisting(w, i) \/ StoreNew(w, i)

RequestStep(r) ==
  \/ (ReadAndDecide(r) \/ RefuseTransition(r) \/ FlushTransition(r) \/ CommitRequest(r))
     /\ UNCHANGED ingestVars
  \/ RequestIsVictim(r)

Next ==
  \/ \E p \in Payloads : Webhook(p)
  \/ \E w \in Workers : WorkerStep(w) \/ PollReplyLost(w) \/ Crash(w)
  \/ \E r \in AlertRequests :
       \/ (ReceiveTransition(r) \/ AbortRequest(r)) /\ UNCHANGED ingestVars
       \/ RequestStep(r)

Spec == Init /\ [][Next]_vars

\* The worker's loop and the handlers run on when nothing blocks them.
Fairness ==
  /\ \A w \in Workers : WF_vars(WorkerStep(w))
  /\ \A r \in AlertRequests : WF_vars(RequestStep(r))

FairSpec == Spec /\ Fairness

-----------------------------------------------------------------------------
(* Properties. *)

\* Every variable has its type; a worker holds a payload while it stores it,
\* and has looked at no alert beyond its end.
IngestTypeOK ==
  /\ AlertTypeOK
  /\ queue \in [Projects -> Seq(Payloads)]
  /\ worker \in [Workers -> Worker]
  /\ \A w \in Workers :
       IF worker[w].pc = "storing"
       THEN worker[w].payload \in Payloads /\ worker[w].next \in 1..(Len(Content(w)) + 1)
       ELSE worker[w].payload = NoPayload
  /\ accepted \in Seq(Payloads)
  /\ stored \in Seq(Payloads)

RowsOf(fp) == {i \in AlertIds : FingerprintOf[i] = fp}

Occurrences(fp, p) == {n \in DOMAIN ContentOf[p] : ContentOf[p][n] = fp}

NewlyStored == {stored'[n] : n \in DOMAIN stored' \ DOMAIN stored}

\* In this step alert_count grows by n in one row of fp and nowhere else.
CountedOnce(fp, n) ==
  IF n = 0 THEN \A i \in RowsOf(fp) : alerts'[i].count = alerts[i].count
  ELSE \E i \in RowsOf(fp) :
         /\ alerts'[i].count = alerts[i].count + n
         /\ \A j \in RowsOf(fp) \ {i} : alerts'[j].count = alerts[j].count

CountingStep ==
  \A fp \in Fingerprints :
    /\ NewlyStored = {} => CountedOnce(fp, 0)
    /\ \A p \in NewlyStored : CountedOnce(fp, Cardinality(Occurrences(fp, p)))

\* A payload is counted whole or not at all, and alert_count grows by nothing
\* else: when its transaction commits, one row of each fingerprint grows by all
\* its occurrences, also when the rows changed while the worker waited for them
\* (tests/test_alerts_webhook.py, deduplicates and persists).
EachOccurrenceCounted == [][CountingStep]_vars

Position(s, p) == CHOOSE n \in DOMAIN s : s[n] = p

\* One worker stores the payloads of a project in the order in which they were
\* accepted, and none of them twice, whatever is lost on the way: the row of
\* an alert shows its latest payload.
StoredInOrder ==
  \A n \in DOMAIN stored : \A m \in 1..(n - 1) :
    ProjectOf[stored[m]] = ProjectOf[stored[n]] =>
      Position(accepted, stored[m]) < Position(accepted, stored[n])

\* Without crashes, lost replies and deadlocks, a payload that was answered with
\* 202 and has no alert the database refuses is stored in the end, whichever
\* project it is for and however many before it fail.
AcceptedIsStored ==
  \A p \in Payloads :
    Rejected \notin Members(ContentOf[p]) =>
      (p \in Members(accepted) ~> p \in Members(stored))

=============================================================================
