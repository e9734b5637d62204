---------------------------- MODULE IngestProofs ----------------------------
(***************************************************************************)
(* Theorems about IngestPipeline: the types of its variables, that payloads *)
(* with several alerts keep the deduplication of AlertLifecycle, that one   *)
(* worker stores payloads in the order in which they were accepted, and     *)
(* that a commit counts each occurrence of its payload once.                *)
(***************************************************************************)
EXTENDS IngestPipeline, AlertProofs, SequenceTheorems

\* What a worker holds fits where it stands.
Fits(q) ==
  IF q.pc = "storing"
  THEN q.payload \in Payloads /\ q.next \in 1..(Len(ContentOf[q.payload]) + 1)
  ELSE q.payload = NoPayload

QueuesTyped ==
  /\ queue \in [Projects -> Seq(Payloads)]
  /\ accepted \in Seq(Payloads)
  /\ stored \in Seq(Payloads)

WorkersTyped ==
  /\ worker \in [Workers -> Worker]
  /\ \A w \in Workers : Fits(worker[w])

IngestInv == AlertInv /\ QueuesTyped /\ WorkersTyped

LEMMA InvMeansTyped == IngestInv => IngestTypeOK
BY DEF IngestInv, AlertInv, QueuesTyped, WorkersTyped, IngestTypeOK, Fits, Content

-----------------------------------------------------------------------------
(* Workers. *)

LEMMA AssignedWorker ==
  ASSUME WorkersTyped, NEW w \in Workers, NEW q \in Worker, Fits(q),
         worker' = [worker EXCEPT ![w] = q]
  PROVE  WorkersTyped'
BY DEF WorkersTyped

LEMMA RestingWorkers ==
  /\ IdleWorker \in Worker /\ Fits(IdleWorker)
  /\ DownWorker \in Worker /\ Fits(DownWorker)
BY DEF IdleWorker, DownWorker, Worker, Fits

LEMMA AdvancedWorker ==
  ASSUME IngestAssumption, WorkersTyped, NEW w \in Workers, HasNext(w), Advance(w)
  PROVE  WorkersTyped'
<1> DEFINE q == [pc |-> "storing", payload |-> worker[w].payload, next |-> worker[w].next + 1]
<1>1. worker[w] \in Worker /\ Fits(worker[w]) /\ worker[w].pc = "storing"
  BY DEF WorkersTyped, HasNext
<1>2. Len(Content(w)) \in Nat
  BY <1>1, IngestAssumption DEF IngestAssumption, Fits, Content
<1>3. q \in Worker
  BY <1>1 DEF Worker
<1>4. Fits(q)
  BY <1>1, <1>2 DEF Fits, HasNext, Content, Worker
<1>5. worker' = [worker EXCEPT ![w] = q]
  <2> DEFINE n == worker[w].next + 1
  <2>1. worker \in [Workers -> Worker] /\ n \in Nat
    BY <1>1 DEF WorkersTyped, Worker
  <2>2. worker' = [worker EXCEPT ![w].next = n]
    BY DEF Advance
  <2>3. q = [pc |-> worker[w].pc, payload |-> worker[w].payload, next |-> n]
    BY <1>1
  <2> HIDE DEF q, n
  <2>4. [worker[w] EXCEPT !.next = n] = q
    BY <1>1, <2>3 DEF Worker
  <2>5. QED
    BY <2>2, <2>4
<1> HIDE DEF q
<1>6. QED
  BY <1>3, <1>4, <1>5, AssignedWorker

-----------------------------------------------------------------------------
(* Queues. *)

LEMMA PushTyped ==
  ASSUME IngestAssumption, QueuesTyped, NEW p \in Payloads, Webhook(p)
  PROVE  QueuesTyped'
BY IngestAssumption DEF IngestAssumption, QueuesTyped, Webhook

\* What BRPOP takes off a list is a payload, and the rest stays a list.
LEMMA PopTyped ==
  ASSUME IngestAssumption, QueuesTyped, NEW k \in DOMAIN KeyOrder, Pop(k)
  PROVE  /\ Head(queue[KeyOrder[k]]) \in Payloads
         /\ queue' \in [Projects -> Seq(Payloads)]
<1>1. KeyOrder[k] \in Projects
  BY IngestAssumption DEF IngestAssumption
<1>2. queue[KeyOrder[k]] \in Seq(Payloads) /\ queue[KeyOrder[k]] # <<>>
  BY <1>1 DEF QueuesTyped, Pop, FirstKey
<1>3. \A s \in Seq(Payloads) : s # <<>> => Head(s) \in Payloads /\ Tail(s) \in Seq(Payloads)
  BY HeadTailProperties
<1>4. QED
  BY <1>1, <1>2, <1>3 DEF QueuesTyped, Pop

-----------------------------------------------------------------------------
(* Alert rows. *)

\* The rows change, but no request and no audit row.
LEMMA RowsInv ==
  ASSUME AlertInv, RowsTyped', UNCHANGED <<req, trail>>
  PROVE  AlertInv'
BY DEF AlertInv, AlertTypeOK, RowsTyped, PositionOK

\* Any version of a row that counts one more occurrence.
LEMMA StoreTyped ==
  ASSUME AlertAssumption, IngestAssumption, AlertInv, NEW w \in Workers, NEW i \in AlertIds,
         StoreExisting(w, i) \/ StoreNew(w, i)
  PROVE  AlertInv'
<1>1. RowsTyped /\ w \in Sessions
  BY IngestAssumption DEF IngestAssumption, AlertInv, AlertTypeOK, RowsTyped
<1>2. CASE StoreExisting(w, i)
  <2> DEFINE row == [Visible(w, i) EXCEPT !.status = "firing", !.count = @ + 1]
  <2>1. Visible(w, i) \in AlertRow
    BY <1>1 DEF Visible, RowsTyped
  <2>2. row \in AlertRow
    BY <2>1, UpsertedRowTyped
  <2>3. WriteRow(w, i, row) /\ UNCHANGED <<alerts, req, trail>>
    BY <1>2 DEF StoreExisting
  <2> HIDE DEF row
  <2>4. QED
    BY <1>1, <2>2, <2>3, WriteRowTyped, RowsInv
<1>3. CASE StoreNew(w, i)
  <2> DEFINE row == [status |-> "firing", resolved |-> FALSE, count |-> 1]
  <2>1. row \in AlertRow
    BY DEF AlertRow, RowStatuses, AlertStatuses
  <2>2. WriteRow(w, i, row) /\ UNCHANGED <<alerts, req, trail>>
    BY <1>3 DEF StoreNew
  <2> HIDE DEF row
  <2>3. QED
    BY <1>1, <2>1, <2>2, WriteRowTyped, RowsInv
<1>4. QED
  BY <1>2, <1>3

LEMMA DropInv ==
  ASSUME AlertInv, NEW s, DropDrafts(s), UNCHANGED <<req, trail>>
  PROVE  AlertInv'
BY DropDraftsTyped, RowsInv DEF AlertInv, AlertTypeOK, RowsTyped

LEMMA PublishInv ==
  ASSUME AlertInv, NEW s, PublishDrafts(s), UNCHANGED <<req, trail>>
  PROVE  AlertInv'
BY PublishDraftsTyped, RowsInv DEF AlertInv, AlertTypeOK, RowsTyped

-----------------------------------------------------------------------------
(* Type correctness. *)

LEMMA InitIngest ==
  ASSUME AlertAssumption, IngestAssumption, Init
  PROVE  IngestInv
<1>1. AlertInv
  BY InitInv DEF Init
<1>2. QueuesTyped
  BY DEF Init, QueuesTyped
<1>3. WorkersTyped
  BY RestingWorkers DEF Init, WorkersTyped
<1>4. QED
  BY <1>1, <1>2, <1>3 DEF IngestInv

\* A step of AlertLifecycle that leaves the pipeline alone.
LEMMA RequestIngest ==
  ASSUME AlertAssumption, IngestInv, [AlertNext]_alertVars, UNCHANGED ingestVars
  PROVE  IngestInv'
<1>1. AlertInv'
  BY StepInv DEF IngestInv
<1>2. QueuesTyped' /\ WorkersTyped'
  BY DEF IngestInv, QueuesTyped, WorkersTyped, ingestVars
<1>3. QED
  BY <1>1, <1>2 DEF IngestInv

\* A step that rolls a worker's session back and puts it to rest.
LEMMA RestIngest ==
  ASSUME IngestInv, NEW w \in Workers, NEW q \in {IdleWorker, DownWorker},
         DropDrafts(w), worker' = [worker EXCEPT ![w] = q],
         UNCHANGED <<req, trail, queue, accepted, stored>>
  PROVE  IngestInv'
<1>1. AlertInv'
  BY DropInv DEF IngestInv
<1>2. QueuesTyped'
  BY DEF IngestInv, QueuesTyped
<1>3. WorkersTyped'
  BY RestingWorkers, AssignedWorker DEF IngestInv
<1>4. QED
  BY <1>1, <1>2, <1>3 DEF IngestInv

LEMMA PollIngest ==
  ASSUME IngestAssumption, IngestInv, NEW w \in Workers, Poll(w)
  PROVE  IngestInv'
<1>1. PICK k \in DOMAIN KeyOrder :
        /\ Pop(k)
        /\ worker' = [worker EXCEPT ![w] =
             [pc |-> "storing", payload |-> Head(queue[KeyOrder[k]]), next |-> 1]]
  BY DEF Poll
<1> DEFINE p == Head(queue[KeyOrder[k]])
           q == [pc |-> "storing", payload |-> p, next |-> 1]
<1>2. p \in Payloads /\ QueuesTyped'
  BY <1>1, IngestAssumption, PopTyped DEF IngestInv, QueuesTyped, Poll
<1>3. worker' = [worker EXCEPT ![w] = q]
  BY <1>1
<1> HIDE DEF p
<1>4. q \in Worker
  BY <1>2 DEF Worker
<1>5. Len(ContentOf[p]) \in Nat
  BY <1>2, IngestAssumption DEF IngestAssumption
<1>6. Fits(q)
  BY <1>2, <1>5 DEF Fits
<1> HIDE DEF q
<1>7. WorkersTyped'
  BY <1>3, <1>4, <1>6, AssignedWorker DEF IngestInv
<1>8. AlertInv'
  BY RowsInv DEF IngestInv, Poll, alertVars, AlertInv, AlertTypeOK, RowsTyped
<1>9. QED
  BY <1>2, <1>7, <1>8 DEF IngestInv

LEMMA StoreIngest ==
  ASSUME IngestAssumption, IngestInv, NEW w \in Workers, Store(w)
  PROVE  IngestInv'
<1>1. AlertInv'
  BY PublishInv DEF IngestInv, Store
<1>2. worker[w].payload \in Payloads
  BY DEF IngestInv, WorkersTyped, Fits, Store
<1>3. QueuesTyped'
  BY <1>2 DEF IngestInv, QueuesTyped, Store
<1>4. WorkersTyped'
  BY RestingWorkers, AssignedWorker DEF IngestInv, Store
<1>5. QED
  BY <1>1, <1>3, <1>4 DEF IngestInv

LEMMA StepIngest ==
  ASSUME AlertAssumption, IngestAssumption, IngestInv, [Next]_vars
  PROVE  IngestInv'
<1>1. ASSUME [AlertNext]_alertVars, UNCHANGED ingestVars
      PROVE  IngestInv'
  BY <1>1, AlertAssumption, RequestIngest
<1>2. CASE UNCHANGED vars
  BY <1>1, <1>2 DEF vars
<1>3. ASSUME NEW p \in Payloads, Webhook(p)
      PROVE  IngestInv'
  <2>1. QueuesTyped'
    BY <1>3, IngestAssumption, PushTyped DEF IngestInv
  <2>2. AlertInv' /\ WorkersTyped'
    BY <1>3, RowsInv
       DEF IngestInv, WorkersTyped, Webhook, alertVars, AlertInv, AlertTypeOK, RowsTyped
  <2>3. QED
    BY <2>1, <2>2 DEF IngestInv
<1>4. ASSUME NEW w \in Workers, Start(w)
      PROVE  IngestInv'
  <2>1. WorkersTyped'
    BY <1>4, RestingWorkers, AssignedWorker DEF IngestInv, Start
  <2>2. AlertInv' /\ QueuesTyped'
    BY <1>4, RowsInv
       DEF IngestInv, QueuesTyped, Start, alertVars, AlertInv, AlertTypeOK, RowsTyped
  <2>3. QED
    BY <2>1, <2>2 DEF IngestInv
<1>5. ASSUME NEW w \in Workers, SkipIgnored(w)
      PROVE  IngestInv'
  <2>1. WorkersTyped'
    BY <1>5, IngestAssumption, AdvancedWorker DEF IngestInv, SkipIgnored
  <2>2. AlertInv' /\ QueuesTyped'
    BY <1>5, RowsInv
       DEF IngestInv, QueuesTyped, SkipIgnored, alertVars, AlertInv, AlertTypeOK, RowsTyped
  <2>3. QED
    BY <2>1, <2>2 DEF IngestInv
<1>6. ASSUME NEW w \in Workers, NEW i \in AlertIds, StoreExisting(w, i) \/ StoreNew(w, i)
      PROVE  IngestInv'
  <2>1. AlertInv'
    BY <1>6, AlertAssumption, IngestAssumption, StoreTyped DEF IngestInv
  <2>2. QueuesTyped'
    BY <1>6 DEF IngestInv, QueuesTyped, StoreExisting, StoreNew
  <2>3. WorkersTyped'
    BY <1>6, IngestAssumption, AdvancedWorker DEF IngestInv, StoreExisting, StoreNew
  <2>4. QED
    BY <2>1, <2>2, <2>3 DEF IngestInv
<1>7. ASSUME NEW w \in Workers, PollReplyLost(w)
      PROVE  IngestInv'
  <2>1. QueuesTyped'
    BY <1>7, IngestAssumption, PopTyped DEF IngestInv, QueuesTyped, PollReplyLost
  <2>2. AlertInv' /\ WorkersTyped'
    BY <1>7, RowsInv
       DEF IngestInv, WorkersTyped, PollReplyLost, alertVars, AlertInv, AlertTypeOK, RowsTyped
  <2>3. QED
    BY <2>1, <2>2 DEF IngestInv
<1>8. ASSUME NEW w \in Workers, GiveUp(w) \/ Crash(w)
      PROVE  IngestInv'
  BY <1>8, RestIngest DEF GiveUp, Crash
<1>9. ASSUME NEW w \in Workers, WorkerStep(w)
      PROVE  IngestInv'
  BY <1>4, <1>5, <1>6, <1>8, <1>9, IngestAssumption, PollIngest, StoreIngest
     DEF WorkerStep, RejectPayload, WorkerIsVictim
<1>10. ASSUME NEW r \in AlertRequests,
              \/ (ReceiveTransition(r) \/ AbortRequest(r)) /\ UNCHANGED ingestVars
              \/ RequestStep(r)
       PROVE  IngestInv'
  BY <1>1, <1>10 DEF RequestStep, RequestIsVictim, AlertNext, ServeRequest
<1>11. QED
  BY <1>2, <1>3, <1>7, <1>8, <1>9, <1>10 DEF Next

\* Every variable has its type, a worker that stores holds a payload, and it
\* never looks beyond the payload's last alert.
THEOREM IngestTypeCorrect == Spec => []IngestTypeOK
<1>1. Init => IngestInv
  BY AlertAssumption, IngestAssumption, InitIngest
<1>2. IngestInv /\ [Next]_vars => IngestInv'
  BY AlertAssumption, IngestAssumption, StepIngest
<1>3. QED
  BY <1>1, <1>2, InvMeansTyped, PTL DEF Spec

-----------------------------------------------------------------------------
(* Deduplication with payloads of several alerts. *)

\* An upsert writes over a row that claims its fingerprint already, be it in the
\* worker's own draft, or over a fresh one that the index allows.
LEMMA StoreClaims ==
  ASSUME IngestInv, OneClaim, NEW w \in Workers, NEW i \in AlertIds,
         StoreExisting(w, i) \/ StoreNew(w, i)
  PROVE  OneClaim'
<1>1. RowsTyped
  BY DEF IngestInv, AlertInv, AlertTypeOK, RowsTyped
<1>2. PICK row : WriteRow(w, i, row) /\ UNCHANGED alerts
  BY DEF StoreExisting, StoreNew
<1>3. CASE Active(alerts[i]) \/ IndexFree(i)
  BY <1>1, <1>2, <1>3, WriteClaims
<1>4. CASE ~Active(alerts[i]) /\ ~IndexFree(i)
  <2>1. StoreExisting(w, i)
    BY <1>4 DEF StoreNew
  <2>2. draft[i].owner = w /\ Active(draft[i].row)
    BY <1>4, <2>1 DEF StoreExisting, Visible
  <2>3. Claims(i)
    BY <2>2, IngestAssumption, AlertAssumption
       DEF Claims, Drafted, IngestAssumption, AlertAssumption
  <2>4. \A j \in AlertIds : j # i => draft'[j] = draft[j] /\ alerts'[j] = alerts[j]
    BY <1>1, <1>2 DEF RowsTyped, WriteRow
  <2>5. \A j \in AlertIds : Claims(j)' => Claims(j)
    BY <2>3, <2>4 DEF Claims, Drafted
  <2>6. QED
    BY <2>5, NoNewClaim
<1>5. QED
  BY <1>3, <1>4

LEMMA IngestStepClaims ==
  ASSUME AlertAssumption, IngestAssumption, IngestInv, OneClaim, [Next]_vars
  PROVE  OneClaim'
<1>1. ASSUME [AlertNext]_alertVars PROVE OneClaim'
  BY <1>1, AlertAssumption, StepClaims DEF IngestInv
<1>2. ASSUME UNCHANGED alertVars PROVE OneClaim'
  BY <1>1, <1>2
<1>3. CASE UNCHANGED vars
  BY <1>2, <1>3 DEF vars
<1>4. ASSUME NEW p \in Payloads, Webhook(p) PROVE OneClaim'
  BY <1>2, <1>4 DEF Webhook
<1>5. ASSUME NEW w \in Workers,
             Start(w) \/ Poll(w) \/ PollReplyLost(w) \/ SkipIgnored(w)
      PROVE  OneClaim'
  BY <1>2, <1>5 DEF Start, Poll, PollReplyLost, SkipIgnored
<1>6. ASSUME NEW w \in Workers, GiveUp(w) \/ Crash(w) PROVE OneClaim'
  BY <1>6, DropClaims DEF GiveUp, Crash
<1>7. ASSUME NEW w \in Workers, Store(w) PROVE OneClaim'
  <2>1. w # Nobody
    BY AlertAssumption, IngestAssumption DEF AlertAssumption, IngestAssumption
  <2>2. QED
    BY <1>7, <2>1, PublishClaims DEF Store
<1>8. ASSUME NEW w \in Workers, WorkerStep(w) PROVE OneClaim'
  BY <1>5, <1>6, <1>7, <1>8, StoreClaims DEF WorkerStep, RejectPayload, WorkerIsVictim
<1>9. ASSUME NEW r \in AlertRequests,
             \/ ReceiveTransition(r) \/ AbortRequest(r)
             \/ RequestStep(r)
      PROVE  OneClaim'
  BY <1>1, <1>9 DEF RequestStep, RequestIsVictim, AlertNext, ServeRequest
<1>10. QED
  BY <1>3, <1>4, <1>5, <1>6, <1>8, <1>9 DEF Next

\* A fingerprint has at most one active row, also when payloads name it several
\* times and are stored by several workers (app/alerts/ingest.py:98).
THEOREM DeduplicationWithIngest == Spec => []OneActiveRow
<1>1. Init => IngestInv /\ OneClaim
  BY AlertAssumption, IngestAssumption, InitIngest, InitClaims DEF Init
<1>2. IngestInv /\ OneClaim /\ [Next]_vars => (IngestInv /\ OneClaim)'
  BY AlertAssumption, IngestAssumption, StepIngest, IngestStepClaims
<1>3. QED
  BY <1>1, <1>2, ClaimsOne, PTL DEF Spec

-----------------------------------------------------------------------------
(* The order of payloads.  A payload is stored, in the hands of a worker, in *)
(* the list of its project or lost; the first three come in this order.      *)

Precedes(p, q) == Position(accepted, p) < Position(accepted, q)

\* No payload is accepted twice.
AcceptedOnce == \A m, n \in DOMAIN accepted : accepted[m] = accepted[n] => m = n

QueuesInOrder ==
  \A j \in Projects : \A n \in DOMAIN queue[j] :
    /\ queue[j][n] \in Members(accepted)
    /\ ProjectOf[queue[j][n]] = j
    /\ \A m \in 1..(n - 1) : Precedes(queue[j][m], queue[j][n])

\* p has left the list of its project before those that are still on it.
AheadOfQueue(p) ==
  /\ p \in Members(accepted)
  /\ \A n \in DOMAIN queue[ProjectOf[p]] : Precedes(p, queue[ProjectOf[p]][n])

Holds(w, p) == worker[w].pc = "storing" /\ worker[w].payload = p

HeldInOrder ==
  \A w \in Workers, p \in Payloads : Holds(w, p) =>
    /\ AheadOfQueue(p)
    /\ \A n \in DOMAIN stored : ProjectOf[stored[n]] = ProjectOf[p] => Precedes(stored[n], p)

OrderInv ==
  /\ AcceptedOnce
  /\ QueuesInOrder
  /\ HeldInOrder
  /\ \A n \in DOMAIN stored : AheadOfQueue(stored[n])
  /\ StoredInOrder

LEMMA AcceptedPosition ==
  ASSUME NEW p \in Members(accepted)
  PROVE  Position(accepted, p) \in DOMAIN accepted /\ accepted[Position(accepted, p)] = p
BY DEF Position, Members

\* A payload that is accepted takes the last position and moves no other.
LEMMA AppendedPosition ==
  ASSUME QueuesTyped, AcceptedOnce, NEW p \in Payloads, p \notin Members(accepted),
         accepted' = Append(accepted, p)
  PROVE  /\ AcceptedOnce'
         /\ Members(accepted') = Members(accepted) \cup {p}
         /\ \A q \in Members(accepted) : Position(accepted', q) = Position(accepted, q)
         /\ \A q \in Members(accepted) : Position(accepted', q) < Position(accepted', p)
<1>1. accepted \in Seq(Payloads) /\ Len(accepted) \in Nat /\ DOMAIN accepted = 1..Len(accepted)
  BY DEF QueuesTyped
<1>2. /\ DOMAIN accepted' = 1..(Len(accepted) + 1) /\ accepted'[Len(accepted) + 1] = p
      /\ \A n \in DOMAIN accepted : accepted'[n] = accepted[n]
  BY <1>1
<1>3. \A n \in DOMAIN accepted : accepted[n] \in Members(accepted)
  BY DEF Members
<1>4. AcceptedOnce'
  BY <1>1, <1>2, <1>3 DEF AcceptedOnce
<1>5. Members(accepted') = Members(accepted) \cup {p}
  BY <1>1, <1>2 DEF Members
<1>6. Position(accepted', p) = Len(accepted) + 1
  <2>1. \A n \in DOMAIN accepted' : accepted'[n] = p <=> n = Len(accepted) + 1
    BY <1>1, <1>2, <1>3
  <2>2. QED
    BY <1>1, <1>2, <2>1 DEF Position
<1>7. ASSUME NEW q \in Members(accepted)
      PROVE  Position(accepted', q) = Position(accepted, q)
  <2>1. PICK n \in DOMAIN accepted : n = Position(accepted, q) /\ accepted[n] = q
    BY AcceptedPosition
  <2>2. \A m \in DOMAIN accepted' : accepted'[m] = q <=> m = n
    BY <1>1, <1>2, <2>1 DEF AcceptedOnce
  <2>3. QED
    BY <1>1, <1>2, <2>1, <2>2 DEF Position
<1>8. QED
  BY <1>1, <1>4, <1>5, <1>6, <1>7, AcceptedPosition

LEMMA InitOrder ==
  ASSUME IngestAssumption, Init
  PROVE  OrderInv
<1>1. accepted = <<>> /\ stored = <<>> /\ \A j \in Projects : queue[j] = <<>>
  BY DEF Init
<1>2. \A w \in Workers, p \in Payloads : ~Holds(w, p)
  BY DEF Init, Holds, DownWorker
<1>3. QED
  BY <1>1, <1>2 DEF OrderInv, AcceptedOnce, QueuesInOrder, HeldInOrder, StoredInOrder

\* Its oldest payload is taken off the list of a project.
Popped(j) == queue[j] # <<>> /\ queue'[j] = Tail(queue[j])

\* What a worker holds it held before, or was the oldest of a list.
HeldOrPopped(w, p) ==
  Holds(w, p)' => Holds(w, p) \/ \E j \in Projects : Popped(j) /\ p = Head(queue[j])

\* A step that takes at most the oldest payloads off lists, and stores nothing.
LEMMA ShorterQueues ==
  ASSUME IngestAssumption, IngestInv, OrderInv, UNCHANGED <<accepted, stored>>,
         \A j \in Projects : queue'[j] = queue[j] \/ Popped(j),
         \A w \in Workers, p \in Payloads : HeldOrPopped(w, p)
  PROVE  OrderInv'
<1> USE DEF OrderInv, Popped, HeldOrPopped
<1>1. \A p, q : Precedes(p, q)' <=> Precedes(p, q)
  BY DEF Precedes
<1>2. \A j \in Projects : queue[j] \in Seq(Payloads)
  BY DEF IngestInv, QueuesTyped
<1>3. ASSUME NEW j \in Projects
      PROVE  \E d \in {0, 1} : \A n \in DOMAIN queue'[j] :
               n \in Nat \ {0} /\ n + d \in DOMAIN queue[j] /\ queue'[j][n] = queue[j][n + d]
  <2>1. CASE queue'[j] = queue[j]
    BY <1>2, <2>1
  <2>2. CASE queue[j] # <<>> /\ queue'[j] = Tail(queue[j])
    <3>1. \A n \in DOMAIN queue'[j] :
            n \in Nat \ {0} /\ n + 1 \in DOMAIN queue[j] /\ queue'[j][n] = queue[j][n + 1]
      BY <1>2, <2>2
    <3>2. QED
      BY <3>1
  <2>3. QED
    BY <2>1, <2>2
<1>4. AcceptedOnce' /\ StoredInOrder'
  BY DEF AcceptedOnce, StoredInOrder
<1>5. QueuesInOrder'
  <2>1. SUFFICES ASSUME NEW j \in Projects, NEW n \in DOMAIN queue'[j]
                 PROVE  /\ queue'[j][n] \in Members(accepted)
                        /\ ProjectOf[queue'[j][n]] = j
                        /\ \A m \in 1..(n - 1) : Precedes(queue'[j][m], queue'[j][n])
    BY <1>1 DEF QueuesInOrder
  <2>2. PICK d \in {0, 1} : \A k \in DOMAIN queue'[j] :
          k \in Nat \ {0} /\ k + d \in DOMAIN queue[j] /\ queue'[j][k] = queue[j][k + d]
    BY <1>3
  <2>3. queue'[j] \in Seq(Payloads)
    <3>1. CASE queue'[j] = queue[j]
      BY <1>2, <3>1
    <3>2. CASE queue[j] # <<>> /\ queue'[j] = Tail(queue[j])
      BY <1>2, <3>2
    <3>3. QED
      BY <3>1, <3>2
  <2>4. ASSUME NEW m \in 1..(n - 1)
        PROVE  Precedes(queue'[j][m], queue'[j][n])
    <3>1. m \in DOMAIN queue'[j]
      BY <2>3
    <3>2. n + d \in DOMAIN queue[j] /\ m + d \in 1..((n + d) - 1)
      BY <2>2, <3>1
    <3>3. Precedes(queue[j][m + d], queue[j][n + d])
      BY <3>2 DEF QueuesInOrder
    <3>4. QED
      BY <2>2, <3>1, <3>3
  <2>5. QED
    BY <2>2, <2>4 DEF QueuesInOrder
<1>6. ASSUME NEW p, AheadOfQueue(p), ProjectOf[p] \in Projects
      PROVE  AheadOfQueue(p)'
  BY <1>1, <1>3, <1>6 DEF AheadOfQueue
<1>7. \A n \in DOMAIN stored : stored[n] \in Payloads /\ ProjectOf[stored[n]] \in Projects
  BY DEF IngestInv, QueuesTyped, IngestAssumption
<1>8. HeldInOrder'
  <2>1. SUFFICES ASSUME NEW w \in Workers, NEW p \in Payloads, Holds(w, p)'
                 PROVE  /\ AheadOfQueue(p)'
                        /\ \A n \in DOMAIN stored :
                             ProjectOf[stored[n]] = ProjectOf[p] => Precedes(stored[n], p)
    BY <1>1 DEF HeldInOrder
  <2>2. CASE Holds(w, p)
    BY <1>6, <2>2 DEF HeldInOrder, IngestAssumption
  <2>3. CASE \E j \in Projects : queue[j] # <<>> /\ queue'[j] = Tail(queue[j]) /\ p = Head(queue[j])
    <3>1. PICK j \in Projects : queue[j] # <<>> /\ queue'[j] = Tail(queue[j]) /\ p = Head(queue[j])
      BY <2>3
    <3>2. queue[j] \in Seq(Payloads) /\ 1 \in DOMAIN queue[j] /\ p = queue[j][1]
      BY <1>2, <3>1
    <3>3. p \in Members(accepted) /\ ProjectOf[p] = j
      BY <3>2 DEF QueuesInOrder
    <3>4. \A n \in DOMAIN queue'[j] : Precedes(p, queue'[j][n])
      <4>1. \A n \in DOMAIN queue'[j] :
              /\ n + 1 \in DOMAIN queue[j] /\ queue'[j][n] = queue[j][n + 1]
              /\ 1 \in 1..((n + 1) - 1)
        BY <3>1, <3>2
      <4>2. QED
        BY <3>2, <4>1 DEF QueuesInOrder
    <3>5. \A n \in DOMAIN stored : ProjectOf[stored[n]] = ProjectOf[p] => Precedes(stored[n], p)
      BY <3>2, <3>3 DEF AheadOfQueue
    <3>6. QED
      BY <1>1, <3>3, <3>4, <3>5 DEF AheadOfQueue
  <2>4. QED
    BY <2>1, <2>2, <2>3
<1>9. QED
  BY <1>4, <1>5, <1>6, <1>7, <1>8

LEMMA WebhookOrder ==
  ASSUME IngestAssumption, IngestInv, OrderInv, NEW p \in Payloads, Webhook(p)
  PROVE  OrderInv'
<1> USE DEF OrderInv
<1>1. /\ p \notin Members(accepted) /\ accepted' = Append(accepted, p)
      /\ queue' = [queue EXCEPT ![ProjectOf[p]] = Append(@, p)]
      /\ UNCHANGED <<worker, stored>>
  BY DEF Webhook
<1>2. ProjectOf[p] \in Projects /\ \A j \in Projects : queue[j] \in Seq(Payloads)
  BY DEF IngestInv, QueuesTyped, IngestAssumption
<1> DEFINE After(q, s) == Position(accepted', q) < Position(accepted', s)
<1>3. /\ AcceptedOnce' /\ Members(accepted') = Members(accepted) \cup {p}
      /\ \A q, s \in Members(accepted) : After(q, s) <=> Precedes(q, s)
      /\ \A q \in Members(accepted) : After(q, p)
  BY <1>1, AppendedPosition DEF IngestInv, Precedes
<1>4. ASSUME NEW j \in Projects
      PROVE  \A n \in DOMAIN queue'[j] :
               /\ n \in Nat \ {0}
               /\ \A m \in 1..(n - 1) : m \in DOMAIN queue[j] /\ queue'[j][m] = queue[j][m]
               /\ \/ n \in DOMAIN queue[j] /\ queue'[j][n] = queue[j][n]
                  \/ j = ProjectOf[p] /\ queue'[j][n] = p
  <2>1. CASE j = ProjectOf[p]
    <3>1. queue'[j] = Append(queue[j], p)
      BY <1>1, <1>2, <2>1 DEF IngestInv, QueuesTyped
    <3>2. QED
      BY <1>2, <2>1, <3>1
  <2>2. CASE j # ProjectOf[p]
    <3>1. queue'[j] = queue[j]
      BY <1>1, <1>2, <2>2 DEF IngestInv, QueuesTyped
    <3>2. QED
      BY <1>2, <3>1
  <2>3. QED
    BY <2>1, <2>2
<1> HIDE DEF After
<1>5. QueuesInOrder'
  <2>1. SUFFICES ASSUME NEW j \in Projects, NEW n \in DOMAIN queue'[j]
                 PROVE  /\ queue'[j][n] \in Members(accepted')
                        /\ ProjectOf[queue'[j][n]] = j
                        /\ \A m \in 1..(n - 1) : After(queue'[j][m], queue'[j][n])
    BY DEF QueuesInOrder, Precedes, After
  <2>2. \A m \in 1..(n - 1) : /\ m \in DOMAIN queue[j] /\ queue'[j][m] = queue[j][m]
                               /\ queue[j][m] \in Members(accepted)
    BY <1>4 DEF QueuesInOrder
  <2>3. CASE n \in DOMAIN queue[j] /\ queue'[j][n] = queue[j][n]
    <3>1. queue[j][n] \in Members(accepted) /\ ProjectOf[queue[j][n]] = j
          /\ \A m \in 1..(n - 1) : Precedes(queue[j][m], queue[j][n])
      BY <2>3 DEF QueuesInOrder
    <3>2. QED
      BY <1>3, <2>2, <2>3, <3>1
  <2>4. CASE j = ProjectOf[p] /\ queue'[j][n] = p
    BY <1>3, <2>2, <2>4
  <2>5. QED
    BY <1>4, <2>3, <2>4
<1>6. ASSUME NEW q, AheadOfQueue(q), ProjectOf[q] \in Projects
      PROVE  AheadOfQueue(q)'
  <2>1. q \in Members(accepted) /\ q \in Members(accepted')
    BY <1>3, <1>6 DEF AheadOfQueue
  <2>2. SUFFICES ASSUME NEW n \in DOMAIN queue'[ProjectOf[q]]
                 PROVE  After(q, queue'[ProjectOf[q]][n])
    BY <2>1 DEF AheadOfQueue, Precedes, After
  <2>3. CASE /\ n \in DOMAIN queue[ProjectOf[q]]
             /\ queue'[ProjectOf[q]][n] = queue[ProjectOf[q]][n]
    <3>1. queue[ProjectOf[q]][n] \in Members(accepted)
          /\ Precedes(q, queue[ProjectOf[q]][n])
      BY <1>6, <2>3 DEF QueuesInOrder, AheadOfQueue
    <3>2. QED
      BY <1>3, <2>1, <2>3, <3>1
  <2>4. CASE queue'[ProjectOf[q]][n] = p
    BY <1>3, <2>1, <2>4
  <2>5. QED
    BY <1>4, <1>6, <2>3, <2>4
<1>7. \A n \in DOMAIN stored : /\ stored[n] \in Members(accepted)
                               /\ ProjectOf[stored[n]] \in Projects
  BY DEF IngestInv, QueuesTyped, IngestAssumption, AheadOfQueue
<1>8. HeldInOrder'
  <2>1. \A w \in Workers, q \in Payloads : Holds(w, q)' <=> Holds(w, q)
    BY <1>1 DEF Holds
  <2>2. \A w \in Workers, q \in Payloads : Holds(w, q) => AheadOfQueue(q)'
    BY <1>6 DEF HeldInOrder, IngestAssumption
  <2>3. \A w \in Workers, q \in Payloads : Holds(w, q) => q \in Members(accepted)
    BY DEF HeldInOrder, AheadOfQueue
  <2>4. QED
    BY <1>1, <1>3, <1>7, <2>1, <2>2, <2>3 DEF HeldInOrder, Precedes, After
<1>9. StoredInOrder'
  <2>1. SUFFICES ASSUME NEW n \in DOMAIN stored, NEW m \in 1..(n - 1),
                        ProjectOf[stored[m]] = ProjectOf[stored[n]]
                 PROVE  After(stored[m], stored[n])
    BY <1>1 DEF StoredInOrder, Precedes, After
  <2>2. m \in DOMAIN stored
    BY DEF IngestInv, QueuesTyped
  <2>3. Precedes(stored[m], stored[n])
    BY <2>1 DEF StoredInOrder, Precedes
  <2>4. QED
    BY <1>1, <1>3, <1>7, <2>2, <2>3
<1>10. QED
  BY <1>1, <1>3, <1>5, <1>6, <1>7, <1>8, <1>9

LEMMA StoreOrder ==
  ASSUME IngestAssumption, IngestInv, OrderInv, NEW w \in Workers, Workers = {w}, Store(w)
  PROVE  OrderInv'
<1> USE DEF OrderInv
<1>1. PICK p \in Payloads : Holds(w, p) /\ stored' = Append(stored, p)
  BY DEF IngestInv, WorkersTyped, Fits, Store, Holds
<1>2. worker' = [worker EXCEPT ![w] = IdleWorker] /\ UNCHANGED <<queue, accepted>>
  BY DEF Store
<1>3. \A q, s : Precedes(q, s)' <=> Precedes(q, s)
  BY <1>2 DEF Precedes
<1>4. \A q \in Payloads : ~Holds(w, q)'
  BY <1>2 DEF IngestInv, WorkersTyped, Holds, IdleWorker
<1>5. /\ stored \in Seq(Payloads)
      /\ \A n \in DOMAIN stored' : \/ n \in DOMAIN stored /\ stored'[n] = stored[n]
                                   \/ n = Len(stored) + 1 /\ stored'[n] = p
      /\ \A n \in DOMAIN stored' : \A m \in 1..(n - 1) :
           m \in DOMAIN stored /\ stored'[m] = stored[m]
  BY <1>1 DEF IngestInv, QueuesTyped
<1>6. \A q : AheadOfQueue(q)' <=> AheadOfQueue(q)
  BY <1>2, <1>3 DEF AheadOfQueue
<1>7. /\ AheadOfQueue(p)
      /\ \A n \in DOMAIN stored : ProjectOf[stored[n]] = ProjectOf[p] => Precedes(stored[n], p)
  BY <1>1 DEF HeldInOrder
<1>8. StoredInOrder'
  <2>1. SUFFICES ASSUME NEW n \in DOMAIN stored', NEW m \in 1..(n - 1),
                        ProjectOf[stored'[m]] = ProjectOf[stored'[n]]
                 PROVE  Precedes(stored'[m], stored'[n])
    BY <1>2 DEF StoredInOrder, Precedes
  <2>2. m \in DOMAIN stored /\ stored'[m] = stored[m]
    BY <1>5
  <2>3. CASE n \in DOMAIN stored /\ stored'[n] = stored[n]
    BY <2>1, <2>2, <2>3 DEF StoredInOrder, Precedes
  <2>4. CASE stored'[n] = p
    BY <1>7, <2>1, <2>2, <2>4
  <2>5. QED
    BY <1>5, <2>3, <2>4
<1>9. AcceptedOnce' /\ QueuesInOrder'
  BY <1>2, <1>3 DEF AcceptedOnce, QueuesInOrder
<1>10. HeldInOrder'
  BY <1>4 DEF HeldInOrder
<1>11. \A n \in DOMAIN stored' : AheadOfQueue(stored'[n])
  BY <1>5, <1>7
<1>12. (\A n \in DOMAIN stored : AheadOfQueue(stored[n]))'
  BY <1>2, <1>6, <1>11 DEF AheadOfQueue, Precedes
<1>13. QED
  BY <1>8, <1>9, <1>10, <1>12

LEMMA StepOrder ==
  ASSUME IngestAssumption, IngestInv, OrderInv, NEW only, Workers = {only}, [Next]_vars
  PROVE  OrderInv'
<1>1. ASSUME UNCHANGED <<queue, accepted, stored>>,
             \A w \in Workers, p \in Payloads : Holds(w, p)' => Holds(w, p)
      PROVE  OrderInv'
  <2>1. \A j \in Projects : queue'[j] = queue[j]
    BY <1>1
  <2>2. UNCHANGED <<accepted, stored>>
    BY <1>1
  <2>3. \A w \in Workers, p \in Payloads : HeldOrPopped(w, p)
    BY <1>1 DEF HeldOrPopped
  <2>4. QED
    BY <2>1, <2>2, <2>3, IngestAssumption, ShorterQueues
<1>2. CASE UNCHANGED vars
  BY <1>1, <1>2 DEF vars, ingestVars, Holds
<1>3. ASSUME NEW p \in Payloads, Webhook(p) PROVE OrderInv'
  BY <1>3, IngestAssumption, WebhookOrder
<1>4. ASSUME NEW w \in Workers, Start(w) \/ GiveUp(w) \/ Crash(w) PROVE OrderInv'
  <2>1. \E q \in {IdleWorker, DownWorker} : worker' = [worker EXCEPT ![w] = q]
    BY <1>4 DEF Start, GiveUp, Crash
  <2>2. \A v \in Workers, p \in Payloads : Holds(v, p)' => Holds(v, p)
    BY <2>1 DEF IngestInv, WorkersTyped, Holds, IdleWorker, DownWorker
  <2>3. QED
    BY <1>1, <1>4, <2>2 DEF Start, GiveUp, Crash
<1>5. ASSUME NEW w \in Workers, Advance(w), UNCHANGED <<queue, accepted, stored>> PROVE OrderInv'
  <2>1. \A v \in Workers : worker'[v].pc = worker[v].pc /\ worker'[v].payload = worker[v].payload
    BY <1>5 DEF Advance, IngestInv, WorkersTyped, Worker
  <2>2. QED
    BY <1>1, <1>5, <2>1 DEF Holds
<1>6. ASSUME NEW k \in DOMAIN KeyOrder, Pop(k), UNCHANGED <<accepted, stored>>,
             \A v \in Workers, p \in Payloads :
               Holds(v, p)' => Holds(v, p) \/ p = Head(queue[KeyOrder[k]])
      PROVE  OrderInv'
  <2>1. KeyOrder[k] \in Projects
    BY IngestAssumption DEF IngestAssumption
  <2>2. queue[KeyOrder[k]] # <<>> /\ queue'[KeyOrder[k]] = Tail(queue[KeyOrder[k]])
        /\ \A j \in Projects : j # KeyOrder[k] => queue'[j] = queue[j]
    BY <1>6, <2>1 DEF Pop, FirstKey, IngestInv, QueuesTyped
  <2>3. \A j \in Projects : queue'[j] = queue[j] \/ Popped(j)
    BY <2>2 DEF Popped
  <2>4. \A w \in Workers, p \in Payloads : HeldOrPopped(w, p)
    BY <1>6, <2>1, <2>2, Zenon DEF HeldOrPopped, Popped
  <2>5. QED
    BY <1>6, <2>3, <2>4, IngestAssumption, ShorterQueues
<1>7. ASSUME NEW w \in Workers, Poll(w) PROVE OrderInv'
  <2>1. PICK k \in DOMAIN KeyOrder :
          /\ Pop(k)
          /\ worker' = [worker EXCEPT ![w] =
               [pc |-> "storing", payload |-> Head(queue[KeyOrder[k]]), next |-> 1]]
    BY <1>7 DEF Poll
  <2>2. \A v \in Workers, p \in Payloads :
          Holds(v, p)' => Holds(v, p) \/ p = Head(queue[KeyOrder[k]])
    BY <2>1 DEF IngestInv, WorkersTyped, Holds
  <2>3. QED
    BY <1>6, <1>7, <2>1, <2>2 DEF Poll
<1>8. ASSUME NEW w \in Workers, PollReplyLost(w) PROVE OrderInv'
  BY <1>6, <1>8 DEF PollReplyLost, Holds
<1>9. ASSUME NEW w \in Workers, WorkerStep(w) PROVE OrderInv'
  <2>1. CASE Store(w)
    BY <2>1, IngestAssumption, StoreOrder
  <2>2. CASE SkipIgnored(w) \/ \E i \in AlertIds : StoreExisting(w, i) \/ StoreNew(w, i)
    BY <1>5, <2>2 DEF SkipIgnored, StoreExisting, StoreNew
  <2>3. QED
    BY <1>4, <1>7, <1>9, <2>1, <2>2 DEF WorkerStep, RejectPayload, WorkerIsVictim
<1>10. ASSUME NEW r \in AlertRequests,
              \/ (ReceiveTransition(r) \/ AbortRequest(r)) /\ UNCHANGED ingestVars
              \/ RequestStep(r)
       PROVE  OrderInv'
  BY <1>1, <1>10 DEF RequestStep, RequestIsVictim, ingestVars, Holds
<1>11. QED
  BY <1>2, <1>3, <1>4, <1>8, <1>9, <1>10 DEF Next

\* One ingest worker, which is what a process starts, stores the payloads of a
\* project in the order in which the webhook answered them with 202, none of
\* them twice, whatever crashes, deadlocks or lost replies lose on the way.
\* (Two workers may commit in either order.)
THEOREM OneWorkerStoresInOrder ==
  ASSUME NEW only, Workers = {only}
  PROVE  Spec => []StoredInOrder
<1>1. Init => IngestInv /\ OrderInv
  BY AlertAssumption, IngestAssumption, InitIngest, InitOrder
<1>2. IngestInv /\ OrderInv /\ [Next]_vars => (IngestInv /\ OrderInv)'
  BY AlertAssumption, IngestAssumption, StepIngest, StepOrder
<1>3. OrderInv => StoredInOrder
  BY DEF OrderInv
<1>4. QED
  BY <1>1, <1>2, <1>3, PTL DEF Spec

-----------------------------------------------------------------------------
(* What is counted.  A worker's drafts carry the occurrences it has looked   *)
(* at, a request's draft carries the committed count; drafts of the same row *)
(* by others cannot come in between, for a row has one owner.                *)

\* The positions of a payload at which worker q has met fp.
SeenOf(q, fp) ==
  IF q.pc = "storing" THEN {n \in 1..(q.next - 1) : ContentOf[q.payload][n] = fp} ELSE {}

\* w has drafted n more occurrences of fp, all of them in one active row.
Counted(w, fp, n) ==
  IF n = 0 THEN \A i \in RowsOf(fp) : draft[i].owner # w
  ELSE \E i \in RowsOf(fp) :
         /\ draft[i].owner = w
         /\ Active(draft[i].row)
         /\ draft[i].row.count = alerts[i].count + n
         /\ \A j \in RowsOf(fp) \ {i} : draft[j].owner # w

WorkersCount ==
  \A w \in Workers, fp \in Fingerprints : Counted(w, fp, Cardinality(SeenOf(worker[w], fp)))

RequestsCountNothing ==
  \A i \in AlertIds : draft[i].owner \in AlertRequests => draft[i].row.count = alerts[i].count

\* The rows that session v has drafted are not touched.
KeepsDraftsOf(v) ==
  \A i \in AlertIds : draft[i].owner = v \/ draft'[i].owner = v =>
    draft'[i] = draft[i] /\ alerts'[i] = alerts[i]

LEMMA CountKept ==
  ASSUME NEW v, NEW fp \in Fingerprints, NEW n, KeepsDraftsOf(v), Counted(v, fp, n)
  PROVE  Counted(v, fp, n)'
<1>1. \A i \in RowsOf(fp) : /\ i \in AlertIds
                            /\ draft[i].owner # v => draft'[i].owner # v
                            /\ draft[i].owner = v => draft'[i] = draft[i] /\ alerts'[i] = alerts[i]
  BY DEF KeepsDraftsOf, RowsOf
<1>2. CASE n = 0
  BY <1>1, <1>2 DEF Counted, RowsOf
<1>3. CASE n # 0
  <2>1. PICK i \in RowsOf(fp) : /\ draft[i].owner = v
                                /\ Active(draft[i].row)
                                /\ draft[i].row.count = alerts[i].count + n
                                /\ \A j \in RowsOf(fp) \ {i} : draft[j].owner # v
    BY <1>3 DEF Counted
  <2>2. draft'[i] = draft[i] /\ alerts'[i] = alerts[i]
    BY <1>1, <2>1
  <2>3. \A j \in RowsOf(fp) \ {i} : draft'[j].owner # v
    BY <1>1, <2>1
  <2>4. QED
    BY <1>3, <2>1, <2>2, <2>3 DEF Counted, RowsOf
<1>4. QED
  BY <1>2, <1>3

LEMMA OthersKeep ==
  ASSUME RowsTyped, NEW v, NEW s, v # s, v # Nobody,
         \/ PublishDrafts(s)
         \/ DropDrafts(s)
         \/ /\ \E i \in AlertIds : \E row : draft[i].owner # v /\ WriteRow(s, i, row)
            /\ UNCHANGED alerts
  PROVE  KeepsDraftsOf(v)
<1>1. CASE PublishDrafts(s) \/ DropDrafts(s)
  BY <1>1 DEF PublishDrafts, DropDrafts, Visible, KeepsDraftsOf, NoDraft
<1>2. ASSUME NEW i \in AlertIds, NEW row, draft[i].owner # v, WriteRow(s, i, row), UNCHANGED alerts
      PROVE  KeepsDraftsOf(v)
  BY <1>2 DEF WriteRow, KeepsDraftsOf, RowsTyped
<1>3. QED
  BY <1>1, <1>2

\* What a worker has met as it goes on.
LEMMA SeenFinite ==
  ASSUME IngestAssumption, WorkersTyped, NEW w \in Workers, NEW fp
  PROVE  /\ IsFiniteSet(SeenOf(worker[w], fp))
         /\ Cardinality(SeenOf(worker[w], fp)) \in Nat
         /\ worker[w].next \in Nat
<1>1. worker[w].next \in Nat
  BY DEF WorkersTyped, Worker
<1>2. IsFiniteSet(1..(worker[w].next - 1))
  BY <1>1, FS_Interval
<1>3. SeenOf(worker[w], fp) \subseteq 1..(worker[w].next - 1)
  BY DEF SeenOf
<1>4. QED
  BY <1>1, <1>2, <1>3, FS_Subset, FS_CardinalityType

LEMMA SeenGrows ==
  ASSUME IngestAssumption, WorkersTyped, NEW w \in Workers, NEW fp, HasNext(w), Advance(w)
  PROVE  Cardinality(SeenOf(worker'[w], fp)) =
           Cardinality(SeenOf(worker[w], fp)) + (IF NextAlert(w) = fp THEN 1 ELSE 0)
<1> DEFINE S == SeenOf(worker[w], fp)
           n == worker[w].next
<1>1. IsFiniteSet(S) /\ Cardinality(S) \in Nat /\ n \in Nat /\ n >= 1
  BY SeenFinite DEF WorkersTyped, Fits, HasNext
<1>2. worker[w].pc = "storing"
  BY DEF HasNext
<1>3. /\ worker'[w].pc = "storing" /\ worker'[w].payload = worker[w].payload
      /\ worker'[w].next = n + 1
  BY <1>2 DEF WorkersTyped, Worker, Advance
<1>4. SeenOf(worker'[w], fp) = {k \in 1..n : ContentOf[worker[w].payload][k] = fp}
  BY <1>1, <1>3 DEF SeenOf
<1>5. S = {k \in 1..(n - 1) : ContentOf[worker[w].payload][k] = fp}
  BY <1>2 DEF SeenOf
<1>6. NextAlert(w) = ContentOf[worker[w].payload][n]
  BY DEF NextAlert, Content
<1> HIDE DEF S, n
<1>7. 1..n = (1..(n - 1)) \cup {n} /\ n \notin 1..(n - 1)
  BY <1>1
<1>8. CASE NextAlert(w) = fp
  <2>1. SeenOf(worker'[w], fp) = S \cup {n} /\ n \notin S
    BY <1>4, <1>5, <1>6, <1>7, <1>8
  <2>2. QED
    BY <1>1, <1>8, <2>1, FS_AddElement DEF S
<1>9. CASE NextAlert(w) # fp
  <2>1. SeenOf(worker'[w], fp) = S
    BY <1>4, <1>5, <1>6, <1>7, <1>9
  <2>2. QED
    BY <1>1, <1>9, <2>1 DEF S
<1>10. QED
  BY <1>8, <1>9

\* An upsert counts on the row that the worker has drafted for the fingerprint
\* already, since no other row claims it, or on one nobody has drafted.
LEMMA UpsertCounts ==
  ASSUME AlertAssumption, IngestAssumption, IngestInv, OneClaim, WorkersCount,
         NEW w \in Workers, NEW i \in AlertIds, StoreExisting(w, i) \/ StoreNew(w, i),
         NEW n \in Nat, Counted(w, FingerprintOf[i], n)
  PROVE  Counted(w, FingerprintOf[i], n + 1)'
<1> DEFINE fp == FingerprintOf[i]
<1>1. RowsTyped /\ w # Nobody /\ i \in RowsOf(fp)
  BY AlertAssumption, IngestAssumption
     DEF AlertAssumption, IngestAssumption, IngestInv, AlertInv, AlertTypeOK, RowsTyped, RowsOf
<1>2. UNCHANGED alerts
  BY DEF StoreExisting, StoreNew
<1>3. ASSUME NEW row, WriteRow(w, i, row), Active(row), row.count = alerts[i].count + (n + 1),
             \A j \in RowsOf(fp) \ {i} : draft[j].owner # w
      PROVE  Counted(w, fp, n + 1)'
  <2>1. draft'[i].owner = w /\ draft'[i].row = row
    BY <1>1, <1>3 DEF WriteRow, RowsTyped
  <2>2. \A j \in RowsOf(fp) \ {i} : draft'[j].owner # w
    BY <1>1, <1>3 DEF WriteRow, RowsTyped, RowsOf
  <2>3. n + 1 # 0
    OBVIOUS
  <2>4. QED
    BY <1>1, <1>2, <1>3, <2>1, <2>2, <2>3 DEF Counted, RowsOf
<1>4. alerts[i] \in AlertRow /\ draft[i].row \in AlertRow
  BY <1>1 DEF RowsTyped
<1>5. CASE n = 0
  <2>1. \A j \in RowsOf(fp) : draft[j].owner # w
    BY <1>5 DEF Counted
  <2>2. CASE StoreExisting(w, i)
    <3> DEFINE row == [Visible(w, i) EXCEPT !.status = "firing", !.count = @ + 1]
    <3>1. Visible(w, i) = alerts[i] /\ WriteRow(w, i, row)
      BY <1>1, <2>1, <2>2 DEF Visible, StoreExisting
    <3>2. row.status = "firing" /\ row.count = alerts[i].count + 1
      BY <1>4, <3>1 DEF AlertRow
    <3>3. Active(row)
      BY <3>2 DEF Active, ACTIVE_ALERT_STATUSES
    <3> HIDE DEF row
    <3>4. QED
      BY <1>3, <1>5, <2>1, <3>1, <3>2, <3>3
  <2>3. CASE StoreNew(w, i)
    <3> DEFINE row == [status |-> "firing", resolved |-> FALSE, count |-> 1]
    <3>1. WriteRow(w, i, row) /\ alerts[i].count = 0
      BY <2>3 DEF StoreNew, NoRow
    <3>2. Active(row) /\ row.count = 1
      BY DEF Active, ACTIVE_ALERT_STATUSES
    <3> HIDE DEF row
    <3>3. QED
      BY <1>3, <1>5, <2>1, <3>1, <3>2
  <2>4. QED
    BY <2>2, <2>3
<1>6. CASE n # 0
  <2>1. PICK k \in RowsOf(fp) : /\ draft[k].owner = w
                                /\ Active(draft[k].row)
                                /\ draft[k].row.count = alerts[k].count + n
                                /\ \A j \in RowsOf(fp) \ {k} : draft[j].owner # w
    BY <1>6 DEF Counted
  <2>2. Claims(k) /\ Drafted(k) /\ k \in AlertIds
    BY <1>1, <2>1 DEF Claims, Drafted, RowsOf
  <2>3. k # i => k \in OthersOf(i)
    BY <2>1 DEF OthersOf, RowsOf
  <2>4. StoreExisting(w, i)
    <3>1. CASE StoreNew(w, i)
      BY <2>1, <2>2, <2>3, <3>1 DEF StoreNew, IndexFree
    <3>2. QED
      BY <3>1
  <2>5. Claims(i)
    BY <1>1, <2>4 DEF StoreExisting, Visible, Claims, Drafted
  <2>6. k = i
    BY <2>2, <2>3, <2>5 DEF OneClaim
  <2> DEFINE row == [Visible(w, i) EXCEPT !.status = "firing", !.count = @ + 1]
  <2>7. Visible(w, i) = draft[i].row /\ WriteRow(w, i, row)
    BY <2>1, <2>4, <2>6 DEF Visible, StoreExisting
  <2>8. row.status = "firing" /\ row.count = draft[i].row.count + 1
    BY <1>4, <2>7 DEF AlertRow
  <2>9. Active(row)
    BY <2>8 DEF Active, ACTIVE_ALERT_STATUSES
  <2>10. alerts[i].count \in Nat
    BY <1>4 DEF AlertRow
  <2>11. draft[i].row.count = alerts[i].count + n
    BY <2>1, <2>6
  <2> HIDE DEF row
  <2>12. row.count = alerts[i].count + (n + 1)
    <3>1. \A a \in Nat : (a + n) + 1 = a + (n + 1)
      OBVIOUS
    <3>2. row.count = (alerts[i].count + n) + 1
      BY <2>8, <2>11
    <3>3. QED
      BY <2>10, <3>1, <3>2
  <2>13. QED
    BY <1>3, <2>1, <2>6, <2>7, <2>9, <2>12
<1>7. QED
  BY <1>5, <1>6

\* What the upsert leaves to the other fingerprints and the other sessions.
LEMMA StoreCounts ==
  ASSUME AlertAssumption, IngestAssumption, IngestInv, OneClaim, WorkersCount,
         NEW w \in Workers, NEW i \in AlertIds, StoreExisting(w, i) \/ StoreNew(w, i)
  PROVE  WorkersCount'
<1>1. /\ RowsTyped /\ WorkersTyped
      /\ \A v \in Workers : v # Nobody
  BY AlertAssumption, IngestAssumption
     DEF AlertAssumption, IngestAssumption, IngestInv, AlertInv, AlertTypeOK, RowsTyped
<1>2. PICK row : WriteRow(w, i, row) /\ UNCHANGED alerts
  BY DEF StoreExisting, StoreNew
<1>3. /\ HasNext(w) /\ Advance(w) /\ NextAlert(w) = FingerprintOf[i]
      /\ draft[i].owner \in {Nobody, w}
  BY DEF StoreExisting, StoreNew, Drafted
<1>4. \A v \in Workers \ {w} : worker'[v] = worker[v]
  BY <1>1, <1>3 DEF Advance, WorkersTyped
<1>5. SUFFICES ASSUME NEW v \in Workers, NEW fp \in Fingerprints
               PROVE  Counted(v, fp, Cardinality(SeenOf(worker[v], fp)))'
  BY DEF WorkersCount
<1>6. PICK n : n = Cardinality(SeenOf(worker[v], fp))
  OBVIOUS
<1>7. n \in Nat /\ Counted(v, fp, n)
  BY <1>1, <1>6, IngestAssumption, SeenFinite DEF WorkersCount
<1>8. CASE v # w
  <2>1. KeepsDraftsOf(v)
    <3>1. draft[i].owner # v
      BY <1>1, <1>3, <1>8
    <3>2. QED
      BY <1>1, <1>2, <1>8, <3>1, OthersKeep
  <2>2. Counted(v, fp, n)'
    BY <1>7, <2>1, CountKept
  <2>3. n = Cardinality(SeenOf(worker'[v], fp))
    BY <1>4, <1>6, <1>8
  <2>4. QED
    BY <2>2, <2>3 DEF Counted, SeenOf
<1>9. CASE v = w /\ fp = FingerprintOf[i]
  <2>1. Counted(v, fp, n + 1)'
    BY <1>7, <1>9, AlertAssumption, IngestAssumption, UpsertCounts
  <2>2. Cardinality(SeenOf(worker'[v], fp)) = n + 1
    BY <1>1, <1>3, <1>6, <1>9, IngestAssumption, SeenGrows
  <2>3. QED
    BY <2>1, <2>2 DEF Counted, SeenOf
<1>10. CASE v = w /\ fp # FingerprintOf[i]
  <2>1. \A j \in RowsOf(fp) : j \in AlertIds /\ draft'[j] = draft[j] /\ alerts'[j] = alerts[j]
    BY <1>1, <1>2, <1>10 DEF WriteRow, RowsTyped, RowsOf
  <2>2. Counted(v, fp, n)'
    <3>1. CASE n = 0
      BY <1>7, <2>1, <3>1 DEF Counted, RowsOf
    <3>2. CASE n # 0
      BY <1>7, <2>1, <3>2 DEF Counted, RowsOf
    <3>3. QED
      BY <3>1, <3>2
  <2>3. Cardinality(SeenOf(worker'[v], fp)) = n
    <3>1. NextAlert(w) # fp
      BY <1>3, <1>10
    <3>2. Cardinality(SeenOf(worker'[w], fp)) = Cardinality(SeenOf(worker[w], fp)) + 0
      BY <1>1, <1>3, <3>1, IngestAssumption, SeenGrows
    <3>3. QED
      BY <1>6, <1>7, <1>10, <3>2
  <2>4. QED
    BY <2>2, <2>3 DEF Counted, SeenOf
<1>11. QED
  BY <1>8, <1>9, <1>10

\* A worker that comes to rest has met nothing and has drafted nothing, be it
\* that its drafts were committed or that they were rolled back.
LEMMA RestCounts ==
  ASSUME AlertAssumption, IngestAssumption, IngestInv, WorkersCount, NEW w \in Workers,
         PublishDrafts(w) \/ DropDrafts(w),
         NEW q \in {IdleWorker, DownWorker}, worker' = [worker EXCEPT ![w] = q]
  PROVE  WorkersCount'
<1>1. RowsTyped /\ WorkersTyped /\ \A v \in Workers : v # Nobody
  BY AlertAssumption, IngestAssumption
     DEF AlertAssumption, IngestAssumption, IngestInv, AlertInv, AlertTypeOK, RowsTyped
<1>2. SUFFICES ASSUME NEW v \in Workers, NEW fp \in Fingerprints
               PROVE  Counted(v, fp, Cardinality(SeenOf(worker[v], fp)))'
  BY DEF WorkersCount
<1>3. CASE v # w
  <2>1. KeepsDraftsOf(v)
    BY <1>1, <1>3, OthersKeep
  <2>2. worker'[v] = worker[v]
    BY <1>1, <1>3 DEF WorkersTyped
  <2>3. PICK n : n = Cardinality(SeenOf(worker[v], fp))
    OBVIOUS
  <2>4. Counted(v, fp, n)'
    BY <2>1, <2>3, CountKept DEF WorkersCount
  <2>5. Cardinality(SeenOf(worker'[v], fp)) = n
    BY <2>2, <2>3
  <2>6. QED
    BY <2>4, <2>5 DEF Counted, SeenOf
<1>4. CASE v = w
  <2>1. \A i \in AlertIds : draft'[i].owner # w
    BY <1>1 DEF PublishDrafts, DropDrafts, NoDraft
  <2>2. Counted(w, fp, 0)'
    BY <2>1 DEF Counted, RowsOf
  <2>3. worker'[w].pc # "storing"
    BY <1>1 DEF WorkersTyped, IdleWorker, DownWorker
  <2>4. Cardinality(SeenOf(worker'[w], fp)) = 0
    BY <2>3, FS_EmptySet DEF SeenOf
  <2>5. QED
    BY <1>4, <2>2, <2>4 DEF Counted, SeenOf
<1>5. QED
  BY <1>3, <1>4

\* A step that changes no draft of a worker and no set of met occurrences.
LEMMA QuietCounts ==
  ASSUME WorkersCount, \A v \in Workers : KeepsDraftsOf(v),
         \A v \in Workers, fp \in Fingerprints :
           Cardinality(SeenOf(worker'[v], fp)) = Cardinality(SeenOf(worker[v], fp))
  PROVE  WorkersCount'
<1>1. SUFFICES ASSUME NEW v \in Workers, NEW fp \in Fingerprints
               PROVE  Counted(v, fp, Cardinality(SeenOf(worker[v], fp)))'
  BY DEF WorkersCount
<1>2. PICK n : n = Cardinality(SeenOf(worker[v], fp))
  OBVIOUS
<1>3. Counted(v, fp, n)'
  BY <1>2, CountKept DEF WorkersCount
<1>4. Cardinality(SeenOf(worker'[v], fp)) = n
  BY <1>2
<1>5. QED
  BY <1>3, <1>4 DEF Counted, SeenOf

\* A session changes rows by writing one that nobody else has drafted, by
\* committing or by rolling back.
ChangesRows(s) ==
  \/ PublishDrafts(s)
  \/ DropDrafts(s)
  \/ /\ \E i \in AlertIds : \E row : draft[i].owner \in {Nobody, s} /\ WriteRow(s, i, row)
     /\ UNCHANGED alerts

\* How requests change rows, and that what they draft and commit is not counted.
LEMMA RequestChangesRows ==
  ASSUME AlertAssumption, AlertInv, RequestsCountNothing, NEW r \in AlertRequests,
         \/ ReceiveTransition(r) \/ ReadAndDecide(r) \/ RefuseTransition(r)
         \/ FlushTransition(r) \/ CommitRequest(r) \/ AbortRequest(r)
  PROVE  /\ UNCHANGED <<alerts, draft>> \/ ChangesRows(r)
         /\ RequestsCountNothing'
         /\ \A i \in AlertIds : alerts'[i].count = alerts[i].count
<1>1. RowsTyped /\ Nobody \notin AlertRequests
  BY AlertAssumption DEF AlertAssumption, AlertInv, AlertTypeOK, RowsTyped
<1>2. CASE ReceiveTransition(r) \/ ReadAndDecide(r)
  BY <1>2 DEF ReceiveTransition, ReadAndDecide, RequestsCountNothing
<1>3. CASE RefuseTransition(r) \/ AbortRequest(r)
  <2>1. DropDrafts(r)
    BY <1>3 DEF RefuseTransition, AbortRequest
  <2>2. QED
    BY <1>1, <2>1 DEF ChangesRows, DropDrafts, RequestsCountNothing, NoDraft
<1>4. CASE CommitRequest(r)
  <2>1. PublishDrafts(r)
    BY <1>4 DEF CommitRequest
  <2>2. \A i \in AlertIds : alerts'[i].count = alerts[i].count
    BY <2>1 DEF PublishDrafts, Visible, RequestsCountNothing
  <2>3. RequestsCountNothing'
    BY <1>1, <2>1, <2>2 DEF PublishDrafts, RequestsCountNothing, NoDraft
  <2>4. QED
    BY <2>1, <2>2, <2>3 DEF ChangesRows
<1>5. CASE FlushTransition(r)
  <2> DEFINE i == CurrentId(r)
             row == [alerts[i] EXCEPT !.status = req[r].target,
                                      !.resolved = @ \/ req[r].target = "resolved"]
  <2>1. i \in AlertIds
    BY <1>5, CurrentIdTyped DEF FlushTransition
  <2>2. ~Drafted(i) /\ WriteRow(r, i, row) /\ UNCHANGED alerts
    BY <1>5 DEF FlushTransition
  <2>3. row.count = alerts[i].count
    BY <1>1, <2>1 DEF RowsTyped, AlertRow
  <2> HIDE DEF i, row
  <2>4. RequestsCountNothing'
    <3>1. /\ draft'[i].row.count = alerts'[i].count
          /\ \A j \in AlertIds \ {i} : draft'[j] = draft[j] /\ alerts'[j] = alerts[j]
      BY <1>1, <2>1, <2>2, <2>3 DEF WriteRow, RowsTyped
    <3>2. QED
      BY <3>1 DEF RequestsCountNothing
  <2>5. draft[i].owner \in {Nobody, r}
    BY <2>2 DEF Drafted
  <2>6. ChangesRows(r)
    BY <2>1, <2>2, <2>5 DEF ChangesRows
  <2>7. QED
    BY <2>2, <2>4, <2>6
<1>6. QED
  BY <1>2, <1>3, <1>4, <1>5

\* What a worker does keeps what requests have drafted.
LEMMA WorkerKeepsRequests ==
  ASSUME AlertAssumption, IngestAssumption, RowsTyped, RequestsCountNothing,
         NEW w \in Workers, ChangesRows(w)
  PROVE  RequestsCountNothing'
<1>1. w \notin AlertRequests /\ Nobody \notin AlertRequests
  BY AlertAssumption, IngestAssumption DEF AlertAssumption, IngestAssumption
<1>2. CASE PublishDrafts(w) \/ DropDrafts(w)
  BY <1>1, <1>2 DEF PublishDrafts, DropDrafts, Visible, RequestsCountNothing, NoDraft
<1>3. CASE /\ \E i \in AlertIds : \E row : draft[i].owner \in {Nobody, w} /\ WriteRow(w, i, row)
           /\ UNCHANGED alerts
  BY <1>1, <1>3 DEF WriteRow, RowsTyped, RequestsCountNothing
<1>4. QED
  BY <1>2, <1>3 DEF ChangesRows

DraftsCounted == WorkersCount /\ RequestsCountNothing

LEMMA InitCounts ==
  ASSUME AlertAssumption, IngestAssumption, Init
  PROVE  DraftsCounted
<1>1. Nobody \notin Workers /\ Nobody \notin AlertRequests
  BY AlertAssumption, IngestAssumption DEF AlertAssumption, IngestAssumption
<1>2. \A i \in AlertIds : draft[i].owner = Nobody
  BY DEF Init, AlertInit, NoDraft
<1>3. ASSUME NEW w \in Workers, NEW fp
      PROVE  Cardinality(SeenOf(worker[w], fp)) = 0
  <2>1. SeenOf(worker[w], fp) = {}
    BY DEF Init, DownWorker, SeenOf
  <2>2. QED
    BY <2>1, FS_EmptySet
<1>4. QED
  BY <1>1, <1>2, <1>3 DEF DraftsCounted, WorkersCount, RequestsCountNothing, Counted, RowsOf

\* A step of a request, which is none of the workers, leaves their drafts alone.
LEMMA RequestStepCounts ==
  ASSUME AlertAssumption, IngestAssumption, IngestInv, DraftsCounted, UNCHANGED ingestVars,
         NEW r \in AlertRequests,
         \/ ReceiveTransition(r) \/ ReadAndDecide(r) \/ RefuseTransition(r)
         \/ FlushTransition(r) \/ CommitRequest(r) \/ AbortRequest(r)
  PROVE  DraftsCounted' /\ CountingStep
<1>1. /\ RowsTyped /\ AlertInv
      /\ \A v \in Workers : v # Nobody /\ v # r
  BY AlertAssumption, IngestAssumption
     DEF AlertAssumption, IngestAssumption, IngestInv, AlertInv, AlertTypeOK, RowsTyped
<1>2. /\ UNCHANGED <<alerts, draft>> \/ ChangesRows(r)
      /\ RequestsCountNothing'
      /\ \A i \in AlertIds : alerts'[i].count = alerts[i].count
  BY <1>1, AlertAssumption, RequestChangesRows DEF DraftsCounted
<1>3. \A v \in Workers : KeepsDraftsOf(v)
  <2>1. CASE UNCHANGED <<alerts, draft>>
    BY <2>1 DEF KeepsDraftsOf
  <2>2. CASE ChangesRows(r)
    BY <1>1, <2>2, OthersKeep DEF ChangesRows
  <2>3. QED
    BY <1>2, <2>1, <2>2
<1>4. worker' = worker /\ NewlyStored = {}
  BY DEF ingestVars, NewlyStored
<1>5. WorkersCount'
  BY <1>3, <1>4, QuietCounts DEF DraftsCounted
<1>6. CountingStep
  BY <1>2, <1>4 DEF CountingStep, CountedOnce, RowsOf
<1>7. QED
  BY <1>2, <1>5, <1>6 DEF DraftsCounted

\* A step of the pipeline that leaves the rows and what workers have met alone.
LEMMA IdleStepCounts ==
  ASSUME DraftsCounted, UNCHANGED <<alerts, draft, stored>>,
         \A v \in Workers, fp \in Fingerprints :
           Cardinality(SeenOf(worker'[v], fp)) = Cardinality(SeenOf(worker[v], fp))
  PROVE  DraftsCounted' /\ CountingStep
<1>1. \A v \in Workers : KeepsDraftsOf(v)
  BY DEF KeepsDraftsOf
<1>2. WorkersCount'
  BY <1>1, QuietCounts DEF DraftsCounted
<1>3. CountingStep
  BY DEF CountingStep, CountedOnce, NewlyStored
<1>4. QED
  BY <1>2, <1>3 DEF DraftsCounted, RequestsCountNothing

\* A worker whose place changes between two at which it has met nothing.
LEMMA FreshStepCounts ==
  ASSUME IngestInv, DraftsCounted, UNCHANGED <<alerts, draft, stored>>, NEW w \in Workers,
         worker[w].pc # "storing", NEW q, q.pc = "storing" => q.next = 1,
         worker' = [worker EXCEPT ![w] = q]
  PROVE  DraftsCounted' /\ CountingStep
<1>1. \A v \in Workers : /\ v # w => worker'[v] = worker[v]
                         /\ v = w => worker'[v] = q
  BY DEF IngestInv, WorkersTyped
<1>2. \A fp : SeenOf(worker[w], fp) = {} /\ SeenOf(q, fp) = {}
  BY DEF SeenOf
<1>3. \A v \in Workers, fp \in Fingerprints :
        Cardinality(SeenOf(worker'[v], fp)) = Cardinality(SeenOf(worker[v], fp))
  BY <1>1, <1>2
<1>4. QED
  BY <1>3, IdleStepCounts

\* The worker that commits has met every alert of its payload: one row of each
\* fingerprint grows by its occurrences, and no other row of it changes.
LEMMA CommitCounts ==
  ASSUME IngestAssumption, IngestInv, DraftsCounted, NEW w \in Workers, Store(w)
  PROVE  CountingStep
<1> DEFINE p == worker[w].payload
<1>1. /\ worker[w].pc = "storing" /\ p \in Payloads
      /\ worker[w].next = Len(ContentOf[p]) + 1 /\ ContentOf[p] \in Seq(Fingerprints \cup {Ignored, Rejected})
  <2>1. worker[w].pc = "storing" /\ p \in Payloads
        /\ worker[w].next \in 1..(Len(ContentOf[p]) + 1) /\ ~(worker[w].next <= Len(ContentOf[p]))
    BY DEF IngestInv, WorkersTyped, Fits, Store, HasNext, Content
  <2>2. Len(ContentOf[p]) \in Nat /\ ContentOf[p] \in Seq(Fingerprints \cup {Ignored, Rejected})
    BY <2>1, IngestAssumption DEF IngestAssumption
  <2>3. QED
    BY <2>1, <2>2
<1>2. NewlyStored = {p}
  <2>1. stored' = Append(stored, p) /\ stored \in Seq(Payloads)
    BY DEF Store, IngestInv, QueuesTyped
  <2>2. /\ DOMAIN stored' \ DOMAIN stored = {Len(stored) + 1}
        /\ stored'[Len(stored) + 1] = p
    BY <1>1, <2>1
  <2>3. QED
    BY <2>2 DEF NewlyStored
<1>3. SUFFICES ASSUME NEW fp \in Fingerprints
               PROVE  CountedOnce(fp, Cardinality(Occurrences(fp, p)))
  BY <1>2 DEF CountingStep
<1>4. Occurrences(fp, p) = SeenOf(worker[w], fp)
  <2>1. DOMAIN ContentOf[p] = 1..((Len(ContentOf[p]) + 1) - 1)
    BY <1>1
  <2>2. QED
    BY <1>1, <2>1 DEF Occurrences, SeenOf
<1>5. PICK n : n = Cardinality(SeenOf(worker[w], fp))
  OBVIOUS
<1>6. Counted(w, fp, n)
  BY <1>5 DEF DraftsCounted, WorkersCount
<1>7. SUFFICES CountedOnce(fp, n)
  BY <1>4, <1>5
<1>8. \A i \in RowsOf(fp) : alerts'[i] = IF draft[i].owner = w THEN draft[i].row ELSE alerts[i]
  BY DEF Store, PublishDrafts, Visible, RowsOf
<1>9. CASE n = 0
  BY <1>6, <1>8, <1>9 DEF Counted, CountedOnce
<1>10. CASE n # 0
  BY <1>6, <1>8, <1>10 DEF Counted, CountedOnce
<1>11. QED
  BY <1>9, <1>10

LEMMA StepCounts ==
  ASSUME AlertAssumption, IngestAssumption, IngestInv, OneClaim, DraftsCounted, [Next]_vars
  PROVE  DraftsCounted' /\ CountingStep
<1>1. /\ RowsTyped /\ AlertInv /\ WorkersTyped
      /\ Ignored \notin Fingerprints
  BY IngestAssumption
     DEF IngestAssumption, IngestInv, AlertInv, AlertTypeOK, RowsTyped
<1>2. CASE UNCHANGED vars
  BY <1>2, IdleStepCounts DEF vars, alertVars, ingestVars
<1>3. ASSUME NEW p \in Payloads, Webhook(p) PROVE DraftsCounted' /\ CountingStep
  BY <1>3, IdleStepCounts DEF Webhook, alertVars
<1>4. ASSUME NEW w \in Workers, PollReplyLost(w) PROVE DraftsCounted' /\ CountingStep
  BY <1>4, IdleStepCounts DEF PollReplyLost, alertVars
<1>5. ASSUME NEW w \in Workers, Start(w) PROVE DraftsCounted' /\ CountingStep
  <2>1. /\ worker[w].pc # "storing" /\ worker' = [worker EXCEPT ![w] = IdleWorker]
        /\ IdleWorker.pc # "storing" /\ UNCHANGED <<alerts, draft, stored>>
    BY <1>5 DEF Start, IdleWorker, alertVars
  <2>2. QED
    BY <2>1, FreshStepCounts
<1>6. ASSUME NEW w \in Workers, Poll(w) PROVE DraftsCounted' /\ CountingStep
  <2>1. PICK k \in DOMAIN KeyOrder : worker' = [worker EXCEPT ![w] =
          [pc |-> "storing", payload |-> Head(queue[KeyOrder[k]]), next |-> 1]]
    BY <1>6 DEF Poll
  <2> DEFINE q == [pc |-> "storing", payload |-> Head(queue[KeyOrder[k]]), next |-> 1]
  <2>2. /\ worker[w].pc # "storing" /\ UNCHANGED <<alerts, draft, stored>>
        /\ q.next = 1 /\ worker' = [worker EXCEPT ![w] = q]
    BY <1>6, <2>1 DEF Poll, alertVars
  <2> HIDE DEF q
  <2>3. QED
    BY <2>2, FreshStepCounts
<1>7. ASSUME NEW w \in Workers, SkipIgnored(w) PROVE DraftsCounted' /\ CountingStep
  <2>1. HasNext(w) /\ NextAlert(w) = Ignored /\ Advance(w) /\ UNCHANGED <<alerts, draft, stored>>
    BY <1>7 DEF SkipIgnored, alertVars
  <2>2. ASSUME NEW v \in Workers, NEW fp \in Fingerprints
        PROVE  Cardinality(SeenOf(worker'[v], fp)) = Cardinality(SeenOf(worker[v], fp))
    <3>1. CASE v # w
      <4>1. worker'[v] = worker[v]
        BY <1>1, <2>1, <3>1 DEF WorkersTyped, Advance
      <4>2. QED
        BY <4>1
    <3>2. CASE v = w
      <4>1. NextAlert(w) # fp
        BY <1>1, <2>1
      <4>2. Cardinality(SeenOf(worker'[w], fp)) = Cardinality(SeenOf(worker[w], fp)) + 0
        BY <1>1, <2>1, <4>1, IngestAssumption, SeenGrows
      <4>3. Cardinality(SeenOf(worker[w], fp)) \in Nat
        BY <1>1, IngestAssumption, SeenFinite
      <4>4. QED
        BY <3>2, <4>2, <4>3
    <3>3. QED
      BY <3>1, <3>2
  <2>3. QED
    BY <2>1, <2>2, IdleStepCounts
<1>8. ASSUME NEW w \in Workers, NEW i \in AlertIds, StoreExisting(w, i) \/ StoreNew(w, i)
      PROVE  DraftsCounted' /\ CountingStep
  <2>1. ChangesRows(w) /\ UNCHANGED <<alerts, stored>>
    BY <1>8 DEF StoreExisting, StoreNew, ChangesRows, Drafted
  <2>2. RequestsCountNothing'
    BY <1>1, <2>1, AlertAssumption, IngestAssumption, WorkerKeepsRequests DEF DraftsCounted
  <2>3. WorkersCount'
    BY <1>8, AlertAssumption, IngestAssumption, StoreCounts DEF DraftsCounted
  <2>4. CountingStep
    BY <2>1 DEF CountingStep, CountedOnce, NewlyStored
  <2>5. QED
    BY <2>2, <2>3, <2>4 DEF DraftsCounted
<1>9. ASSUME NEW w \in Workers, GiveUp(w) \/ Crash(w) PROVE DraftsCounted' /\ CountingStep
  <2>1. /\ DropDrafts(w) /\ UNCHANGED stored
        /\ \E q \in {IdleWorker, DownWorker} : worker' = [worker EXCEPT ![w] = q]
    BY <1>9 DEF GiveUp, Crash
  <2>2. RequestsCountNothing'
    BY <1>1, <2>1, AlertAssumption, IngestAssumption, WorkerKeepsRequests
       DEF DraftsCounted, ChangesRows
  <2>3. WorkersCount'
    BY <2>1, AlertAssumption, IngestAssumption, RestCounts DEF DraftsCounted
  <2>4. CountingStep
    BY <2>1 DEF DropDrafts, CountingStep, CountedOnce, NewlyStored
  <2>5. QED
    BY <2>2, <2>3, <2>4 DEF DraftsCounted
<1>10. ASSUME NEW w \in Workers, Store(w) PROVE DraftsCounted' /\ CountingStep
  <2>1. PublishDrafts(w) /\ worker' = [worker EXCEPT ![w] = IdleWorker]
    BY <1>10 DEF Store
  <2>2. RequestsCountNothing'
    BY <1>1, <2>1, AlertAssumption, IngestAssumption, WorkerKeepsRequests
       DEF DraftsCounted, ChangesRows
  <2>3. WorkersCount'
    BY <2>1, AlertAssumption, IngestAssumption, RestCounts DEF DraftsCounted
  <2>4. QED
    BY <1>10, <2>2, <2>3, IngestAssumption, CommitCounts DEF DraftsCounted
<1>11. ASSUME NEW w \in Workers, WorkerStep(w) PROVE DraftsCounted' /\ CountingStep
  BY <1>5, <1>6, <1>7, <1>8, <1>9, <1>10, <1>11
     DEF WorkerStep, RejectPayload, WorkerIsVictim
<1>12. ASSUME NEW r \in AlertRequests,
              \/ (ReceiveTransition(r) \/ AbortRequest(r)) /\ UNCHANGED ingestVars
              \/ RequestStep(r)
       PROVE  DraftsCounted' /\ CountingStep
  BY <1>12, AlertAssumption, IngestAssumption, RequestStepCounts
     DEF RequestStep, RequestIsVictim
<1>13. QED
  BY <1>2, <1>3, <1>4, <1>9, <1>11, <1>12 DEF Next

\* When a payload's transaction commits, one row of each fingerprint grows by
\* all its occurrences in the payload, and no other step changes alert_count,
\* for any number of workers and whatever transitions, deadlocks and crashes
\* come between the upserts (app/alerts/ingest.py, process_ingest_payload).
THEOREM OccurrencesAreCounted == Spec => EachOccurrenceCounted
<1> DEFINE Inv == IngestInv /\ OneClaim /\ DraftsCounted
<1>1. Init => Inv
  BY AlertAssumption, IngestAssumption, InitIngest, InitClaims, InitCounts DEF Init
<1>2. Inv /\ [Next]_vars => Inv'
  BY AlertAssumption, IngestAssumption, StepIngest, IngestStepClaims, StepCounts
<1>3. Inv /\ [Next]_vars => CountingStep
  BY AlertAssumption, IngestAssumption, StepCounts
<1>4. QED
  BY <1>1, <1>2, <1>3, PTL DEF Spec, EachOccurrenceCounted

=============================================================================
