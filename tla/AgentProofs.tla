---------------------------- MODULE AgentProofs ----------------------------
(***************************************************************************)
(* Theorems about AgentRuns: types, decisions, fixes and finished runs.    *)
(***************************************************************************)
EXTENDS AgentRuns, TLAPS

\* What a request carries fits where it stands.
Fits(q) ==
  /\ q.pc # "idle" => q.run \in Runs
  /\ q.next \in 1..(Len(q.todo) + 1)
  /\ q.pc = "inserting" => q.next <= Len(q.todo)

RequestsTyped ==
  /\ req \in [Sessions -> Request]
  /\ \A s \in Sessions : Fits(req[s])

RowsTyped ==
  /\ runs \in [Runs -> Run]
  /\ draft \in [Runs -> [owner : Sessions \cup {Nobody}, row : Run]]
  /\ creator \in [Actions -> Sessions \cup {Nobody}]
  /\ hold \in [Actions -> Sessions \cup {Nobody}]

AgentTyped == RowsTyped /\ RequestsTyped /\ trail \subseteq Runs \X Verdicts

LEMMA TypedMeansOK == AgentTyped => AgentTypeOK
BY DEF AgentTyped, RowsTyped, RequestsTyped, Fits, AgentTypeOK, MyRun, HasNext

-----------------------------------------------------------------------------
(* Steps of a request. *)

\* s goes to pc and to the position next of its list, and is otherwise about
\* the same things.
Moved(s, pc, next) ==
  /\ req' \in [Sessions -> Request]
  /\ \A t \in Sessions \ {s} : req'[t] = req[t]
  /\ req'[s].pc = pc
  /\ req'[s].next = next
  /\ req'[s].run = req[s].run
  /\ req'[s].verdict = req[s].verdict
  /\ req'[s].todo = req[s].todo

LEMMA GoToMoves ==
  ASSUME RequestsTyped, NEW s \in Sessions, NEW label \in Places, GoTo(s, label)
  PROVE  Moved(s, label, req[s].next)
BY DEF RequestsTyped, Moved, Request, GoTo

\* The steps that also change the session or the position.
LEMMA OpenMoves ==
  ASSUME RequestsTyped, NEW s \in Sessions, NEW label \in Places,
         req' = [req EXCEPT ![s].pc = label, ![s].tx = TRUE]
  PROVE  Moved(s, label, req[s].next)
BY DEF RequestsTyped, Moved, Request

LEMMA QueryMoves ==
  ASSUME RequestsTyped, NEW s \in Sessions, QueryDatabase(s)
  PROVE  Moved(s, "analysing", req[s].next)
BY DEF RequestsTyped, Moved, Request, QueryDatabase

LEMMA FailMoves ==
  ASSUME RequestsTyped, NEW s \in Sessions, Fail(s)
  PROVE  Moved(s, "failing", req[s].next)
<1> DEFINE loaded == ~req[s].tx
           label == "failing"
<1>1. loaded \in BOOLEAN /\ label \in Places
  BY DEF Places
<1>2. req' = [req EXCEPT ![s].pc = label, ![s].tx = FALSE, ![s].loaded = loaded]
  BY DEF Fail
<1> HIDE DEF loaded, label
<1>3. req \in [Sessions -> Request]
  BY DEF RequestsTyped
<1>4. req' \in [Sessions -> Request]
  <2>1. [req[s] EXCEPT !.pc = label, !.tx = FALSE, !.loaded = loaded] \in Request
    BY <1>1, <1>3 DEF Request
  <2>2. QED
    BY <1>2, <1>3, <2>1
<1>5. /\ req'[s].pc = label /\ req'[s].next = req[s].next /\ req'[s].run = req[s].run
      /\ req'[s].verdict = req[s].verdict /\ req'[s].todo = req[s].todo
  BY <1>2, <1>3 DEF Request
<1>6. \A t \in Sessions \ {s} : req'[t] = req[t]
  BY <1>2, <1>3
<1>7. QED
  BY <1>4, <1>5, <1>6 DEF Moved, label

LEMMA NextTyped ==
  ASSUME RequestsTyped, NEW s \in Sessions
  PROVE  req[s].next \in Nat /\ req[s].next + 1 \in Nat
BY DEF RequestsTyped, Request

LEMMA AdvanceMoves ==
  ASSUME RequestsTyped, NEW s \in Sessions, NEW label \in Places,
         req' = [req EXCEPT ![s].pc = label, ![s].next = @ + 1]
  PROVE  Moved(s, label, req[s].next + 1)
<1> DEFINE n == req[s].next + 1
<1>1. n \in Nat
  BY NextTyped
<1>2. req' = [req EXCEPT ![s].pc = label, ![s].next = n]
  OBVIOUS
<1> HIDE DEF n
<1>3. Moved(s, label, n)
  BY <1>1, <1>2 DEF RequestsTyped, Moved, Request
<1>4. QED
  BY <1>3 DEF n

LEMMA SkipMoves ==
  ASSUME RequestsTyped, NEW s \in Sessions, req' = [req EXCEPT ![s].next = @ + 1]
  PROVE  Moved(s, req[s].pc, req[s].next + 1)
<1> DEFINE n == req[s].next + 1
<1>1. n \in Nat
  BY NextTyped
<1>2. req' = [req EXCEPT ![s].next = n]
  OBVIOUS
<1> HIDE DEF n
<1>3. req \in [Sessions -> Request]
  BY DEF RequestsTyped
<1>4. req' \in [Sessions -> Request]
  <2>1. [req[s] EXCEPT !.next = n] \in Request
    BY <1>1, <1>3 DEF Request
  <2>2. QED
    BY <1>2, <1>3, <2>1
<1>5. /\ req'[s].pc = req[s].pc /\ req'[s].next = n /\ req'[s].run = req[s].run
      /\ req'[s].verdict = req[s].verdict /\ req'[s].todo = req[s].todo
  BY <1>2, <1>3 DEF Request
<1>6. \A t \in Sessions \ {s} : req'[t] = req[t]
  BY <1>2, <1>3
<1>7. QED
  BY <1>4, <1>5, <1>6 DEF Moved, n

\* A moved request keeps its type.
LEMMA MovedTyped ==
  ASSUME RequestsTyped, NEW s \in Sessions, NEW pc, NEW next, Moved(s, pc, next),
         req[s].pc # "idle", next \in 1..(Len(req[s].todo) + 1),
         pc = "inserting" => next <= Len(req[s].todo)
  PROVE  RequestsTyped'
BY DEF RequestsTyped, Moved, Fits

-----------------------------------------------------------------------------
(* The invariant.  Committed rows are only as sound as the drafts that will  *)
(* be published, and these only as the requests that wrote them.             *)

Working == {"analysing", "failing", "committing", "marking"}

Deciding == {"creating", "inserting", "deciding", "committing"}

\* The run of a runner at work is running and nobody else's.
RunnerSound ==
  \A s \in Runners : req[s].pc \in Working =>
    /\ runs[req[s].run].status = "running"
    /\ \A t \in Runners \ {s} : req[t].pc \in Working => req[t].run # req[s].run

\* Who stands where, and that a decision is about a run that exists.
RoleSound ==
  \A s \in Sessions :
    /\ req[s].pc \in {"analysing", "failing", "marking", "raised"} => s \in Runners
    /\ req[s].pc \in {"creating", "inserting"} => s \notin Runners
    /\ req[s].pc = "deciding" => s \in Deciders
    /\ s \in Deciders /\ req[s].pc # "idle" =>
         req[s].verdict \in Verdicts /\ runs[req[s].run].status # "absent"

DraftSoundAt(n) ==
  LET s == draft[n].owner
      row == draft[n].row
  IN s # Nobody =>
       /\ req[s].run = n
       /\ req[s].pc \in {"committing", "marking"}
       /\ s \in Runners \/ s \in Deciders
       /\ row.status # "absent"
       /\ s \in Runners => row.decision \in {"none", runs[n].decision}
       /\ s \in Deciders =>
            /\ row.decision = req[s].verdict
            /\ row.status = runs[n].status
            /\ row.proposed = runs[n].proposed

DraftSound == \A n \in Runs : DraftSoundAt(n)

\* s has found or inserted the action.
Made(s, a) == creator[a] # Nobody \/ hold[a] = s

CreationSoundAt(s) ==
  /\ req[s].pc \in Deciding => \A k \in 1..(req[s].next - 1) : Made(s, req[s].todo[k])
  /\ req[s].pc \in {"deciding", "committing"} => req[s].next = Len(req[s].todo) + 1
  /\ s \in Deciders /\ req[s].verdict = "accepted" /\ req[s].pc \in Deciding =>
       req[s].todo = <<ProposalOf[req[s].run]>>
  /\ s \in Fixers /\ req[s].pc = "done" =>
       \A k \in DOMAIN req[s].todo : creator[req[s].todo[k]] # Nobody

CreationSound == \A s \in Deciders \cup Fixers : CreationSoundAt(s)

HoldSound ==
  \A a \in Actions :
    /\ hold[a] # Nobody => req[hold[a]].pc \in Deciding /\ hold[a] \notin Runners
    /\ creator[a] \in Fixers => req[creator[a]].pc = "done"

AgentSound ==
  RunnerSound /\ RoleSound /\ DraftSound /\ CreationSound /\ HoldSound /\ DecisionExplained

AgentInv == AgentTyped /\ AgentSound

-----------------------------------------------------------------------------
(* Steps that change no row. *)

LEMMA HoldKept ==
  ASSUME AgentInv, NEW s \in Sessions, UNCHANGED <<hold, creator>>,
         \A t \in Sessions \ {s} : req'[t] = req[t],
         req[s].pc # "done",
         s \in Runners \/ req[s].pc \notin Deciding \/ req'[s].pc \in Deciding
  PROVE  HoldSound'
<1>1. HoldSound /\ hold \in [Actions -> Sessions \cup {Nobody}]
  BY DEF AgentInv, AgentSound, AgentTyped, RowsTyped
<1>2. ASSUME NEW a \in Actions, hold[a] # Nobody
      PROVE  req'[hold[a]].pc \in Deciding /\ hold[a] \notin Runners
  BY <1>1, <1>2 DEF HoldSound
<1>3. ASSUME NEW a \in Actions, creator[a] \in Fixers PROVE req'[creator[a]].pc = "done"
  <2>1. req[creator[a]].pc = "done" /\ creator[a] # s /\ creator[a] \in Sessions
    BY <1>1, <1>3 DEF HoldSound, Sessions
  <2>2. QED
    BY <2>1
<1>4. QED
  BY <1>1, <1>2, <1>3 DEF HoldSound

\* What s does leaves the creations of the others as sound as before, as long
\* as nothing is undone that they have made.
LEMMA OthersCreate ==
  ASSUME AgentInv, NEW s \in Sessions, NEW t \in Deciders \cup Fixers, t # s,
         req'[t] = req[t],
         \A a \in Actions : Made(t, a) => Made(t, a)',
         \A a \in Actions : creator[a] # Nobody => creator'[a] # Nobody
  PROVE  CreationSoundAt(t)'
<1>1. CreationSoundAt(t) /\ req[t] \in Request /\ req[t].next \in 1..(Len(req[t].todo) + 1)
  BY DEF AgentInv, AgentSound, CreationSound, AgentTyped, RequestsTyped, Fits, Sessions
<1>2. req[t].todo \in Seq(Actions) /\ req[t].next \in Nat
  BY <1>1 DEF Request
<1>3. \A k \in DOMAIN req[t].todo : req[t].todo[k] \in Actions
  BY <1>2
<1>4. \A k \in 1..(req[t].next - 1) : req[t].todo[k] \in Actions
  BY <1>1, <1>2
<1>5. req[t].pc \in Deciding => \A k \in 1..(req[t].next - 1) : Made(t, req[t].todo[k])'
  BY <1>1, <1>4 DEF CreationSoundAt
<1>6. t \in Fixers /\ req[t].pc = "done" =>
        \A k \in DOMAIN req[t].todo : creator'[req[t].todo[k]] # Nobody
  BY <1>1, <1>3 DEF CreationSoundAt
<1>7. QED
  BY <1>1, <1>5, <1>6 DEF CreationSoundAt, Made

LEMMA QuietSound ==
  ASSUME AgentAssumption, AgentInv, NEW s \in Sessions, NEW pc, NEW next,
         Moved(s, pc, next), UNCHANGED <<runs, draft, creator, hold, trail>>,
         \/ req[s].pc = "analysing" /\ pc = "analysing"
         \/ /\ req[s].pc \in {"creating", "inserting", "deciding"}
            /\ pc \in Deciding,
         pc = "deciding" => s \in Deciders,
         \/ next = req[s].next
         \/ /\ next = req[s].next + 1
            /\ creator[req[s].todo[req[s].next]] # Nobody,
         pc \in {"deciding", "committing"} => next = Len(req[s].todo) + 1
  PROVE  AgentSound'
<1>1. RunnerSound'
  BY AgentAssumption DEF AgentInv, AgentSound, Moved, RunnerSound, RoleSound, Working,
     Deciding, Sessions, AgentAssumption
<1>2. RoleSound'
  BY AgentAssumption DEF AgentInv, AgentSound, Moved, RoleSound, Deciding, AgentAssumption
<1>3. DraftSound'
  BY AgentAssumption DEF AgentInv, AgentSound, Moved, DraftSound, DraftSoundAt,
     AgentAssumption, AgentTyped, RowsTyped
<1>4. CreationSound'
  <2>1. ASSUME NEW t \in Deciders \cup Fixers, t # s PROVE CreationSoundAt(t)'
    BY <2>1 DEF AgentInv, AgentSound, Moved, CreationSound, CreationSoundAt, Made, Sessions
  <2>2. ASSUME s \in Deciders \cup Fixers PROVE CreationSoundAt(s)'
    <3>1. CreationSoundAt(s) /\ req[s].next \in Nat
      BY <2>2, NextTyped DEF AgentInv, AgentTyped, AgentSound, CreationSound
    <3>2. s \notin Runners /\ req[s].pc \in Deciding
      BY <2>2, AgentAssumption
         DEF AgentInv, AgentSound, RoleSound, AgentAssumption, Deciding
    <3>3. \A k \in 1..(next - 1) : Made(s, req[s].todo[k])
      BY <3>1, <3>2 DEF CreationSoundAt, Made
    <3>4. QED
      BY <3>1, <3>2, <3>3 DEF CreationSoundAt, Moved, Made, Deciding
  <2>3. QED
    BY <2>1, <2>2 DEF CreationSound
<1>5. HoldSound'
  BY HoldKept DEF Moved, Deciding
<1>6. DecisionExplained'
  BY DEF AgentInv, AgentSound, DecisionExplained
<1>7. QED
  BY <1>1, <1>2, <1>3, <1>4, <1>5, <1>6 DEF AgentSound

-----------------------------------------------------------------------------
(* Steps that write a draft. *)

LEMMA WriteSound ==
  ASSUME AgentAssumption, AgentInv, NEW s \in Sessions, NEW pc, NEW row,
         NEW n, n = req[s].run,
         Moved(s, pc, req[s].next), WriteRun(s, n, row),
         UNCHANGED <<runs, creator, hold, trail>>,
         row.status # "absent",
         \/ /\ s \in Runners
            /\ req[s].pc \in {"analysing", "failing"}
            /\ pc \in {"committing", "marking"}
            /\ row.decision \in {"none", runs[n].decision}
         \/ /\ s \in Deciders
            /\ req[s].pc = "deciding"
            /\ pc = "committing"
            /\ row.decision = req[s].verdict
            /\ row.status = runs[n].status
            /\ row.proposed = runs[n].proposed
  PROVE  AgentSound'
<1>1. n \in Runs /\ draft \in [Runs -> [owner : Sessions \cup {Nobody}, row : Run]]
  BY DEF AgentInv, AgentTyped, RowsTyped, RequestsTyped, Fits
<1>2. /\ draft'[n].owner = s /\ draft'[n].row = row
      /\ \A m \in Runs \ {n} : draft'[m] = draft[m]
  BY <1>1 DEF WriteRun
<1>3. RunnerSound'
  BY AgentAssumption DEF AgentInv, AgentSound, Moved, RunnerSound, Working,
     Sessions, AgentAssumption
<1>4. RoleSound'
  BY AgentAssumption DEF AgentInv, AgentSound, Moved, RoleSound, AgentAssumption
<1>5. DraftSound'
  <2>1. DraftSoundAt(n)'
    BY <1>1, <1>2, AgentAssumption DEF DraftSoundAt, Moved, AgentAssumption
  <2>2. ASSUME NEW m \in Runs \ {n} PROVE DraftSoundAt(m)'
    <3>1. DraftSoundAt(m) /\ draft'[m] = draft[m] /\ draft[m].owner \in Sessions \cup {Nobody}
      BY <1>1, <1>2 DEF AgentInv, AgentSound, DraftSound
    <3>2. draft[m].owner # s
      BY <3>1, AgentAssumption DEF DraftSoundAt, AgentAssumption
    <3>3. QED
      BY <3>1, <3>2 DEF DraftSoundAt, Moved
  <2>3. QED
    BY <2>1, <2>2 DEF DraftSound
<1>6. CreationSound'
  <2>1. ASSUME NEW t \in Deciders \cup Fixers, t # s PROVE CreationSoundAt(t)'
    BY <2>1, OthersCreate DEF Moved, Made, Sessions
  <2>2. ASSUME s \in Deciders \cup Fixers PROVE CreationSoundAt(s)'
    <3>1. CreationSoundAt(s) /\ s \notin Runners
      BY <2>2, AgentAssumption DEF AgentInv, AgentSound, CreationSound, AgentAssumption
    <3>2. QED
      BY <3>1 DEF CreationSoundAt, Moved, Made, Deciding
  <2>3. QED
    BY <2>1, <2>2 DEF CreationSound
<1>7. HoldSound'
  BY HoldKept DEF Moved, Deciding
<1>8. DecisionExplained'
  BY DEF AgentInv, AgentSound, DecisionExplained
<1>9. QED
  BY <1>3, <1>4, <1>5, <1>6, <1>7, <1>8 DEF AgentSound

-----------------------------------------------------------------------------
(* Rollbacks. *)

LEMMA DropSound ==
  ASSUME AgentAssumption, AgentInv, NEW s \in Sessions, NEW pc,
         Moved(s, pc, req[s].next), DropDrafts(s), UNCHANGED <<runs, creator, trail>>,
         req[s].pc \notin Ended \cup {"idle"},
         \/ pc = "refused"
         \/ pc = "raised" /\ s \in Runners
         \/ pc = "failing" /\ s \in Runners /\ req[s].pc \in Working
  PROVE  AgentSound'
<1>1. /\ \A n \in Runs : draft'[n] = IF draft[n].owner = s THEN NoDraft ELSE draft[n]
      /\ \A a \in Actions : hold'[a] = IF hold[a] = s THEN Nobody ELSE hold[a]
      /\ NoDraft.owner = Nobody
      /\ s # Nobody
  BY AgentAssumption DEF DropDrafts, NoDraft, AgentAssumption
<1>2. RunnerSound'
  BY AgentAssumption DEF AgentInv, AgentSound, Moved, RunnerSound, Working,
     Sessions, AgentAssumption
<1>3. RoleSound'
  BY AgentAssumption DEF AgentInv, AgentSound, Moved, RoleSound, AgentAssumption
<1>4. DraftSound'
  <2>1. ASSUME NEW n \in Runs PROVE DraftSoundAt(n)'
    <3>1. DraftSoundAt(n) /\ draft[n].owner \in Sessions \cup {Nobody}
      BY DEF AgentInv, AgentSound, DraftSound, AgentTyped, RowsTyped
    <3>2. QED
      BY <1>1, <3>1 DEF DraftSoundAt, Moved
  <2>2. QED
    BY <2>1 DEF DraftSound
<1>5. CreationSound'
  <2>1. ASSUME NEW t \in Deciders \cup Fixers, t # s PROVE CreationSoundAt(t)'
    BY <1>1, <2>1, OthersCreate DEF Moved, Made, Sessions
  <2>2. CreationSoundAt(s)'
    BY DEF CreationSoundAt, Moved, Deciding
  <2>3. QED
    BY <2>1, <2>2 DEF CreationSound
<1>6. HoldSound'
  <2>1. HoldSound /\ hold \in [Actions -> Sessions \cup {Nobody}]
    BY DEF AgentInv, AgentSound, AgentTyped, RowsTyped
  <2>2. ASSUME NEW a \in Actions, hold'[a] # Nobody
        PROVE  req'[hold'[a]].pc \in Deciding /\ hold'[a] \notin Runners
    <3>1. hold'[a] = hold[a] /\ hold[a] # s /\ hold[a] \in Sessions
      BY <1>1, <2>1, <2>2
    <3>2. QED
      BY <2>1, <2>2, <3>1 DEF HoldSound, Moved
  <2>3. ASSUME NEW a \in Actions, creator[a] \in Fixers PROVE req'[creator[a]].pc = "done"
    <3>1. req[creator[a]].pc = "done" /\ creator[a] # s /\ creator[a] \in Sessions
      BY <2>1, <2>3 DEF HoldSound, Sessions, Ended
    <3>2. QED
      BY <3>1 DEF Moved
  <2>4. QED
    BY <2>2, <2>3 DEF HoldSound
<1>7. DecisionExplained'
  BY DEF AgentInv, AgentSound, DecisionExplained
<1>8. QED
  BY <1>2, <1>3, <1>4, <1>5, <1>6, <1>7 DEF AgentSound

-----------------------------------------------------------------------------
(* The insert of a heal action. *)

LEMMA InsertSound ==
  ASSUME AgentAssumption, AgentInv, NEW s \in Sessions, InsertAction(s)
  PROVE  AgentSound'
<1>0. PICK a : a = NextAction(s)
  OBVIOUS
<1>1. Moved(s, "creating", req[s].next + 1)
  BY AdvanceMoves DEF InsertAction, AgentInv, AgentTyped, Places
<1>2. /\ req[s].pc = "inserting" /\ creator[a] = Nobody /\ hold[a] = Nobody
      /\ hold' = [hold EXCEPT ![a] = s] /\ UNCHANGED <<runs, draft, creator, trail>>
  BY <1>0 DEF InsertAction
<1>3. a \in Actions /\ hold \in [Actions -> Sessions \cup {Nobody}]
  <2>1. req[s] \in Request /\ Fits(req[s])
    BY DEF AgentInv, AgentTyped, RequestsTyped
  <2>2. req[s].todo \in Seq(Actions) /\ req[s].next \in DOMAIN req[s].todo
    BY <1>2, <2>1 DEF Fits, Request
  <2>3. QED
    BY <1>0, <2>2 DEF NextAction, AgentInv, AgentTyped, RowsTyped
<1>4. \A b \in Actions : hold'[b] = IF b = a THEN s ELSE hold[b]
  BY <1>2, <1>3
<1>5. s \notin Runners /\ a = req[s].todo[req[s].next]
  BY <1>0, <1>2 DEF AgentInv, AgentSound, RoleSound, NextAction
<1>6. RunnerSound'
  BY <1>1, <1>2, <1>5 DEF AgentInv, AgentSound, Moved, RunnerSound, Sessions
<1>7. RoleSound'
  BY <1>1, <1>2, <1>5 DEF AgentInv, AgentSound, Moved, RoleSound
<1>8. DraftSound'
  <2>1. ASSUME NEW n \in Runs PROVE DraftSoundAt(n)'
    <3>1. DraftSoundAt(n) /\ draft'[n] = draft[n] /\ draft[n].owner \in Sessions \cup {Nobody}
      BY <1>2 DEF AgentInv, AgentSound, DraftSound, AgentTyped, RowsTyped
    <3>2. QED
      BY <1>1, <1>2, <3>1 DEF DraftSoundAt, Moved
  <2>2. QED
    BY <2>1 DEF DraftSound
<1>9. CreationSound'
  <2>1. ASSUME NEW t \in Deciders \cup Fixers, t # s PROVE CreationSoundAt(t)'
    <3>1. \A b \in Actions : Made(t, b) => Made(t, b)'
      BY <1>2, <1>4, <2>1, AgentAssumption DEF Made, AgentAssumption, Sessions
    <3>2. req'[t] = req[t] /\ \A b \in Actions : creator[b] # Nobody => creator'[b] # Nobody
      BY <1>1, <1>2, <2>1 DEF Moved, Sessions
    <3>3. QED
      BY <2>1, <3>1, <3>2, OthersCreate
  <2>2. ASSUME s \in Deciders \cup Fixers PROVE CreationSoundAt(s)'
    <3>1. CreationSoundAt(s) /\ req[s] \in Request /\ Fits(req[s])
      BY <2>2 DEF AgentInv, AgentSound, CreationSound, AgentTyped, RequestsTyped
    <3>2. req[s].todo \in Seq(Actions) /\ req[s].next \in Nat /\ req[s].next <= Len(req[s].todo)
      BY <1>2, <3>1 DEF Fits, Request
    <3>3. \A k \in 1..(req[s].next - 1) : req[s].todo[k] \in Actions
      BY <3>2
    <3>4. \A k \in 1..(req[s].next - 1) : Made(s, req[s].todo[k])
      BY <1>2, <3>1 DEF CreationSoundAt, Deciding
    <3>5. \A k \in 1..(req[s].next - 1) : Made(s, req[s].todo[k])'
      BY <1>1, <1>2, <1>4, <3>3, <3>4 DEF Made, Moved
    <3>6. Made(s, a)'
      BY <1>3, <1>4 DEF Made
    <3>7. \A k \in 1..req[s].next : creator'[req[s].todo[k]] # Nobody \/ hold'[req[s].todo[k]] = s
      BY <1>1, <1>5, <3>2, <3>5, <3>6 DEF Made, Moved
    <3>8. QED
      BY <1>1, <1>2, <3>1, <3>2, <3>7 DEF CreationSoundAt, Moved, Made, Deciding
  <2>3. QED
    BY <2>1, <2>2 DEF CreationSound
<1>10. HoldSound'
  <2>1. HoldSound /\ hold \in [Actions -> Sessions \cup {Nobody}]
    BY <1>3 DEF AgentInv, AgentSound
  <2>2. ASSUME NEW b \in Actions, hold'[b] # Nobody
        PROVE  req'[hold'[b]].pc \in Deciding /\ hold'[b] \notin Runners
    <3>1. CASE hold'[b] = s
      BY <1>1, <1>5, <3>1 DEF Moved, Deciding
    <3>2. CASE hold'[b] # s
      BY <1>1, <1>4, <2>1, <2>2, <3>2 DEF HoldSound, Moved
    <3>3. QED
      BY <3>1, <3>2
  <2>3. ASSUME NEW b \in Actions, creator[b] \in Fixers PROVE req'[creator[b]].pc = "done"
    BY <1>1, <1>2, <2>1, <2>3 DEF HoldSound, Moved, Sessions
  <2>4. QED
    BY <1>2, <2>2, <2>3 DEF HoldSound
<1>11. DecisionExplained'
  BY <1>2 DEF AgentInv, AgentSound, DecisionExplained
<1>12. QED
  BY <1>6, <1>7, <1>8, <1>9, <1>10, <1>11 DEF AgentSound

-----------------------------------------------------------------------------
(* Commits. *)

CommitPC(s) == IF req[s].pc = "marking" THEN "raised" ELSE "done"

LEMMA CommitFacts ==
  ASSUME AgentAssumption, AgentInv, NEW s \in Sessions, Commit(s)
  PROVE  /\ Moved(s, CommitPC(s), req[s].next)
         /\ \A n \in Runs :
              /\ runs'[n] = IF draft[n].owner = s THEN draft[n].row ELSE runs[n]
              /\ draft'[n] = IF draft[n].owner = s THEN NoDraft ELSE draft[n]
         /\ \A a \in Actions :
              /\ creator'[a] = IF hold[a] = s THEN s ELSE creator[a]
              /\ hold'[a] = IF hold[a] = s THEN Nobody ELSE hold[a]
         /\ s # Nobody /\ NoDraft.owner = Nobody
<1>1. Moved(s, CommitPC(s), req[s].next)
  <2>1. CommitPC(s) \in Places /\ GoTo(s, CommitPC(s))
    BY DEF Commit, CommitPC, Places
  <2>2. QED
    BY <2>1, GoToMoves DEF AgentInv, AgentTyped
<1>2. QED
  BY <1>1, AgentAssumption DEF Commit, PublishDrafts, DropDrafts, NoDraft, AgentAssumption

\* A commit of s changes the status and the proposal of a run only if it is
\* the run s works on, and no running run becomes absent.
LEMMA CommittedRun ==
  ASSUME AgentAssumption, AgentInv, NEW s \in Sessions, Commit(s), NEW n \in Runs
  PROVE  \/ runs'[n] = runs[n]
         \/ /\ s \in Runners
            /\ req[s].run = n
            /\ runs[n].status = "running"
            /\ runs'[n].status # "absent"
            /\ runs'[n].decision \in {"none", runs[n].decision}
         \/ /\ s \in Deciders
            /\ req[s].run = n
            /\ runs'[n].status = runs[n].status /\ runs'[n].status # "absent"
            /\ runs'[n].proposed = runs[n].proposed
            /\ runs'[n].decision = req[s].verdict
<1>1. CASE draft[n].owner = s
  <2>1. DraftSoundAt(n) /\ runs'[n] = draft[n].row
    BY <1>1, CommitFacts DEF AgentInv, AgentSound, DraftSound
  <2>2. s \in Runners => runs[n].status = "running"
    BY <1>1, <2>1, CommitFacts DEF DraftSoundAt, AgentInv, AgentSound, RunnerSound, Working
  <2>3. QED
    BY <1>1, <2>1, <2>2, CommitFacts DEF DraftSoundAt
<1>2. CASE draft[n].owner # s
  BY <1>2, CommitFacts
<1>3. QED
  BY <1>1, <1>2

\* What s has made is created when s commits, and nothing is undone.
LEMMA CommitCreates ==
  ASSUME AgentAssumption, AgentInv, NEW s \in Sessions, Commit(s), NEW a \in Actions
  PROVE  /\ Made(s, a) => creator'[a] # Nobody
         /\ creator[a] # Nobody => creator'[a] # Nobody
         /\ \A t : t # s /\ Made(t, a) => Made(t, a)'
BY CommitFacts DEF Made

LEMMA CommitDecisions ==
  ASSUME AgentAssumption, AgentInv, NEW s \in Sessions, Commit(s)
  PROVE  DecisionExplained'
<1>1. ASSUME NEW n \in Runs
      PROVE  /\ runs'[n].decision # "none" => <<n, runs'[n].decision>> \in trail'
             /\ runs'[n].decision = "accepted" => creator'[ProposalOf[n]] # Nobody
  <2>1. ProposalOf[n] \in Actions
    BY AgentAssumption DEF AgentAssumption
  <2>2. /\ runs[n].decision # "none" => <<n, runs[n].decision>> \in trail'
        /\ runs[n].decision = "accepted" => creator'[ProposalOf[n]] # Nobody
    BY <2>1, CommitCreates DEF AgentInv, AgentSound, DecisionExplained, Commit
  <2>3. CASE runs'[n].decision \in {"none", runs[n].decision}
    BY <2>2, <2>3
  <2>4. CASE s \in Deciders /\ req[s].run = n /\ runs'[n].decision = req[s].verdict
    <3>1. <<n, req[s].verdict>> \in trail'
      BY <2>4 DEF Commit, AuditRow, MyRun
    <3>2. ASSUME req[s].verdict = "accepted" PROVE creator'[ProposalOf[n]] # Nobody
      <4>1. req[s].pc = "committing"
        BY <2>4, AgentAssumption
           DEF Commit, AgentInv, AgentSound, RoleSound, AgentAssumption
      <4>2. CreationSoundAt(s) /\ req[s].next \in Nat
        BY <2>4, NextTyped DEF AgentInv, AgentTyped, AgentSound, CreationSound
      <4>3. req[s].todo = <<ProposalOf[n]>> /\ req[s].next = 2
        <5>1. req[s].todo = <<ProposalOf[n]>>
          BY <2>4, <3>2, <4>1, <4>2 DEF CreationSoundAt, Deciding
        <5>2. req[s].next = Len(req[s].todo) + 1
          BY <4>1, <4>2 DEF CreationSoundAt
        <5>3. Len(<<ProposalOf[n]>>) = 1
          OBVIOUS
        <5>4. QED
          BY <5>1, <5>2, <5>3
      <4>4. Made(s, ProposalOf[n])
        BY <4>1, <4>2, <4>3 DEF CreationSoundAt, Deciding
      <4>5. QED
        BY <2>1, <4>4, CommitCreates
    <3>3. QED
      BY <2>4, <3>1, <3>2
  <2>5. QED
    BY <2>3, <2>4, CommittedRun
<1>2. QED
  BY <1>1 DEF DecisionExplained

LEMMA CommitSound ==
  ASSUME AgentAssumption, AgentInv, NEW s \in Sessions, Commit(s)
  PROVE  AgentSound'
<1>1. /\ Moved(s, CommitPC(s), req[s].next)
      /\ req[s].pc \in {"committing", "marking"}
      /\ CommitPC(s) \in {"raised", "done"}
      /\ CommitPC(s) = "raised" <=> req[s].pc = "marking"
  BY CommitFacts DEF Commit, CommitPC
<1>2. RunnerSound'
  <2>1. ASSUME NEW t \in Runners, req'[t].pc \in Working
        PROVE  /\ runs'[req[t].run].status = "running"
               /\ t # s /\ req'[t] = req[t]
    <3>1. t # s /\ req'[t] = req[t] /\ t \in Sessions
      BY <1>1, <2>1 DEF Moved, Working, Sessions
    <3>2. /\ runs[req[t].run].status = "running"
          /\ s \in Runners => req[s].run # req[t].run
      BY <1>1, <2>1, <3>1 DEF AgentInv, AgentSound, RunnerSound, Working
    <3>3. req[t].run \in Runs
      BY <2>1, <3>1 DEF AgentInv, AgentTyped, RequestsTyped, Fits, Working
    <3>4. QED
      BY <3>1, <3>2, <3>3, CommittedRun
  <2>2. QED
    BY <2>1 DEF RunnerSound, AgentInv, AgentSound
<1>3. RoleSound'
  <2>1. ASSUME NEW n \in Runs, runs[n].status # "absent" PROVE runs'[n].status # "absent"
    BY <2>1, CommittedRun
  <2>2. ASSUME NEW t \in Deciders, req[t].pc # "idle" PROVE req[t].run \in Runs
    BY <2>2 DEF AgentInv, AgentTyped, RequestsTyped, Fits, Sessions
  <2>3. QED
    BY <1>1, <2>1, <2>2 DEF AgentInv, AgentSound, Moved, RoleSound
<1>4. DraftSound'
  <2>1. ASSUME NEW n \in Runs PROVE DraftSoundAt(n)'
    <3>1. DraftSoundAt(n) /\ draft[n].owner \in Sessions \cup {Nobody}
      BY DEF AgentInv, AgentSound, DraftSound, AgentTyped, RowsTyped
    <3>2. QED
      BY <1>1, <3>1, CommitFacts DEF DraftSoundAt, Moved
  <2>2. QED
    BY <2>1 DEF DraftSound
<1>5. CreationSound'
  <2>1. ASSUME NEW t \in Deciders \cup Fixers, t # s PROVE CreationSoundAt(t)'
    BY <1>1, <2>1, OthersCreate, CommitCreates DEF Moved, Sessions
  <2>2. ASSUME s \in Fixers PROVE \A k \in DOMAIN req[s].todo : creator'[req[s].todo[k]] # Nobody
    <3>1. req[s].pc = "committing"
      BY <1>1, <2>2, AgentAssumption DEF AgentInv, AgentSound, RoleSound, AgentAssumption
    <3>2. CreationSoundAt(s) /\ req[s].todo \in Seq(Actions)
      BY <2>2 DEF AgentInv, AgentTyped, AgentSound, CreationSound, RequestsTyped, Request
    <3>3. \A k \in DOMAIN req[s].todo : k \in 1..(req[s].next - 1) /\ req[s].todo[k] \in Actions
      BY <3>1, <3>2 DEF CreationSoundAt
    <3>4. \A k \in DOMAIN req[s].todo : Made(s, req[s].todo[k])
      BY <3>1, <3>2, <3>3 DEF CreationSoundAt, Deciding
    <3>5. QED
      BY <3>3, <3>4, CommitCreates
  <2>3. CreationSoundAt(s)'
    BY <1>1, <2>2 DEF CreationSoundAt, Moved, Deciding
  <2>4. QED
    BY <2>1, <2>3 DEF CreationSound
<1>6. HoldSound'
  <2>1. HoldSound /\ hold \in [Actions -> Sessions \cup {Nobody}]
    BY DEF AgentInv, AgentSound, AgentTyped, RowsTyped
  <2>2. ASSUME NEW a \in Actions, hold'[a] # Nobody
        PROVE  req'[hold'[a]].pc \in Deciding /\ hold'[a] \notin Runners
    BY <1>1, <2>1, <2>2, CommitFacts DEF HoldSound, Moved
  <2>3. ASSUME NEW a \in Actions, creator'[a] \in Fixers PROVE req'[creator'[a]].pc = "done"
    <3>1. CASE creator'[a] = s
      BY <1>1, <2>3, <3>1, AgentAssumption
         DEF Moved, AgentInv, AgentSound, RoleSound, AgentAssumption
    <3>2. CASE creator'[a] # s
      BY <1>1, <2>1, <2>3, <3>2, CommitFacts DEF HoldSound, Moved, Sessions
    <3>3. QED
      BY <3>1, <3>2
  <2>4. QED
    BY <2>2, <2>3 DEF HoldSound
<1>7. QED
  BY <1>2, <1>3, <1>4, <1>5, <1>6, CommitDecisions DEF AgentSound

-----------------------------------------------------------------------------
(* Requests that begin. *)

\* The record s begins with.
Begun(s, q) ==
  /\ req' \in [Sessions -> Request]
  /\ \A t \in Sessions \ {s} : req'[t] = req[t]
  /\ req'[s] = q

LEMMA BeginFacts ==
  ASSUME RequestsTyped, NEW s \in Sessions, NEW q \in Request, Fits(q),
         req' = [req EXCEPT ![s] = q]
  PROVE  Begun(s, q) /\ RequestsTyped'
BY DEF RequestsTyped, Begun

\* A run of which a row exists is begun to be decided on, or fixed.
LEMMA BeginSound ==
  ASSUME AgentAssumption, AgentInv, NEW s \in Deciders \cup Fixers, NEW q \in Request,
         Begun(s, q), UNCHANGED <<runs, draft, creator, hold, trail>>,
         req[s].pc = "idle", q.pc \in {"creating", "deciding"},
         q.run \in Runs, runs[q.run].status # "absent",
         q.next = 1,
         s \in Deciders => q.verdict \in Verdicts,
         s \in Deciders /\ q.verdict = "accepted" => q.todo = <<ProposalOf[q.run]>>,
         q.pc = "deciding" => s \in Deciders /\ q.todo = <<>>
  PROVE  AgentSound'
<1>1. s \in Sessions /\ s \notin Runners
  BY AgentAssumption DEF AgentAssumption, Sessions
<1>2. RunnerSound'
  BY <1>1 DEF AgentInv, AgentSound, Begun, RunnerSound, Sessions
<1>3. RoleSound'
  BY <1>1 DEF AgentInv, AgentSound, Begun, RoleSound
<1>4. DraftSound'
  <2>1. ASSUME NEW n \in Runs PROVE DraftSoundAt(n)'
    <3>1. DraftSoundAt(n) /\ draft[n].owner \in Sessions \cup {Nobody}
      BY DEF AgentInv, AgentSound, DraftSound, AgentTyped, RowsTyped
    <3>2. QED
      BY <3>1 DEF DraftSoundAt, Begun
  <2>2. QED
    BY <2>1 DEF DraftSound
<1>5. CreationSound'
  <2>1. ASSUME NEW t \in Deciders \cup Fixers, t # s PROVE CreationSoundAt(t)'
    BY <1>1, <2>1, OthersCreate DEF Begun, Made, Sessions
  <2>2. CreationSoundAt(s)'
    <3>1. Len(<<>>) = 0
      OBVIOUS
    <3>2. q.pc = "deciding" => q.next = Len(q.todo) + 1
      BY <3>1
    <3>3. QED
      BY <3>2 DEF CreationSoundAt, Begun
  <2>3. QED
    BY <2>1, <2>2 DEF CreationSound
<1>6. HoldSound'
  BY <1>1, HoldKept DEF Begun, Deciding
<1>7. DecisionExplained'
  BY DEF AgentInv, AgentSound, DecisionExplained
<1>8. QED
  BY <1>2, <1>3, <1>4, <1>5, <1>6, <1>7 DEF AgentSound

\* The row of a new run has been nobody's.
LEMMA TriggerSound ==
  ASSUME AgentAssumption, AgentInv, NEW s \in Runners, NEW n \in Runs, NEW q \in Request,
         Begun(s, q), UNCHANGED <<draft, creator, hold, trail>>,
         req[s].pc = "idle", runs[n].status = "absent",
         runs' = [runs EXCEPT ![n] = SeedRun("running")],
         q.pc = "analysing", q.run = n
  PROVE  AgentSound'
<1>1. s \in Sessions /\ s \notin Deciders \cup Fixers
  BY AgentAssumption DEF AgentAssumption, Sessions
<1>2. /\ \A m \in Runs \ {n} : runs'[m] = runs[m]
      /\ runs'[n].status = "running" /\ runs'[n].decision = "none"
  BY DEF AgentInv, AgentTyped, RowsTyped, SeedRun
<1>3. \A t \in Runners : req[t].pc \in Working => req[t].run \in Runs \ {n}
  BY DEF AgentInv, AgentSound, RunnerSound, AgentTyped, RequestsTyped, Fits, Working, Sessions
<1>4. \A t \in Deciders : req[t].pc # "idle" => req[t].run \in Runs \ {n}
  BY DEF AgentInv, AgentSound, RoleSound, AgentTyped, RequestsTyped, Fits, Sessions
<1>5. RunnerSound'
  BY <1>1, <1>2, <1>3 DEF AgentInv, AgentSound, Begun, RunnerSound, Sessions
<1>6. RoleSound'
  BY <1>1, <1>2, <1>4 DEF AgentInv, AgentSound, Begun, RoleSound, Sessions
<1>7. DraftSound'
  <2>1. ASSUME NEW m \in Runs PROVE DraftSoundAt(m)'
    <3>1. DraftSoundAt(m) /\ draft[m].owner \in Sessions \cup {Nobody}
      BY DEF AgentInv, AgentSound, DraftSound, AgentTyped, RowsTyped
    <3>2. draft[m].owner # Nobody => m # n /\ draft[m].owner # s
      BY <1>3, <1>4, <3>1 DEF DraftSoundAt, Working
    <3>3. QED
      BY <1>2, <3>1, <3>2 DEF DraftSoundAt, Begun
  <2>2. QED
    BY <2>1 DEF DraftSound
<1>8. CreationSound'
  <2>1. ASSUME NEW t \in Deciders \cup Fixers PROVE CreationSoundAt(t)'
    BY <1>1, <2>1, OthersCreate DEF Begun, Made, Sessions
  <2>2. QED
    BY <2>1 DEF CreationSound
<1>9. HoldSound'
  BY <1>1, HoldKept DEF Begun
<1>10. DecisionExplained'
  BY <1>2 DEF AgentInv, AgentSound, DecisionExplained
<1>11. QED
  BY <1>5, <1>6, <1>7, <1>8, <1>9, <1>10 DEF AgentSound

-----------------------------------------------------------------------------
(* Every action keeps the invariant. *)

LEMMA SeedTyped ==
  ASSUME NEW status \in {"absent", "running", "completed"}
  PROVE  SeedRun(status) \in Run
<1>1. (status = "completed") \in BOOLEAN
  OBVIOUS
<1>2. \A b \in BOOLEAN :
        [status |-> status, proposed |-> b, nodes |-> b, decision |-> "none"] \in Run
  BY DEF Run
<1>3. QED
  BY <1>1, <1>2 DEF SeedRun

LEMMA IdleTyped == IdleRequest \in Request /\ Fits(IdleRequest)
<1>1. SeedRun("absent") \in Run
  BY SeedTyped
<1>2. <<>> \in Seq(Actions) /\ Len(<<>>) = 0
  OBVIOUS
<1> DEFINE q == IdleRequest
<1>3. q \in Request
  BY <1>1, <1>2 DEF IdleRequest, Request, Places, Verdicts
<1>4. q.pc = "idle" /\ q.next = 1 /\ q.todo = <<>>
  BY DEF IdleRequest
<1>5. QED
  BY <1>2, <1>3, <1>4 DEF Fits

LEMMA TriggerInv ==
  ASSUME AgentAssumption, AgentInv, NEW s \in Runners, NEW n \in Runs, Trigger(s, n)
  PROVE  AgentInv'
<1> DEFINE q == [IdleRequest EXCEPT !.pc = "analysing", !.run = n, !.loaded = TRUE]
<1>1. q \in Request /\ q.pc = "analysing" /\ q.run = n /\ q.next = 1
  BY IdleTyped DEF Request, Places, IdleRequest
<1>2. Fits(q)
  BY <1>1 DEF Fits, Request
<1>3. s \in Sessions /\ req' = [req EXCEPT ![s] = q]
  BY DEF Trigger, Sessions
<1> HIDE DEF q
<1>4. Begun(s, q) /\ RequestsTyped'
  BY <1>1, <1>2, <1>3, BeginFacts DEF AgentInv, AgentTyped
<1>5. AgentSound'
  BY <1>1, <1>4, TriggerSound DEF Trigger
<1>6. SeedRun("running") \in Run
  BY SeedTyped
<1>7. QED
  BY <1>4, <1>5, <1>6 DEF AgentInv, AgentTyped, RowsTyped, Trigger

\* Requests change, rows do not.
LEMMA RowsStayTyped ==
  ASSUME AgentTyped, RequestsTyped', UNCHANGED <<runs, draft, creator, hold, trail>>
  PROVE  AgentTyped'
BY DEF AgentTyped, RowsTyped

LEMMA ReadRunInv ==
  ASSUME AgentAssumption, AgentInv, NEW s \in Sessions, NEW n \in Runs,
         NEW verdict \in Verdicts, ReadRun(s, n, verdict)
  PROVE  AgentInv'
<1> DEFINE accepts == verdict = "accepted"
           pc == IF accepts THEN "creating" ELSE "deciding"
           todo == IF accepts THEN <<ProposalOf[n]>> ELSE <<>>
           q == [IdleRequest EXCEPT !.pc = pc, !.run = n, !.verdict = verdict,
                                    !.read = runs[n], !.tx = TRUE, !.todo = todo]
<1>1. runs[n] \in Run /\ ProposalOf[n] \in Actions
  BY AgentAssumption DEF AgentInv, AgentTyped, RowsTyped, AgentAssumption
<1>2. pc \in Places /\ pc \in {"creating", "deciding"} /\ todo \in Seq(Actions)
  BY <1>1 DEF Places
<1>3. accepts => todo = <<ProposalOf[n]>> /\ pc = "creating"
  OBVIOUS
<1>4. ~accepts => todo = <<>> /\ pc = "deciding"
  OBVIOUS
<1>5. s \in Deciders /\ req' = [req EXCEPT ![s] = q]
  BY DEF ReadRun
<1> HIDE DEF pc, todo
<1>6. q \in Request
  BY <1>1, <1>2, IdleTyped DEF Request
<1>7. q.pc = pc /\ q.run = n /\ q.next = 1 /\ q.todo = todo /\ q.verdict = verdict
  BY IdleTyped DEF Request, IdleRequest
<1>8. Fits(q)
  BY <1>2, <1>6, <1>7 DEF Fits, Request
<1> HIDE DEF q
<1>9. Begun(s, q) /\ RequestsTyped'
  BY <1>5, <1>6, <1>8, BeginFacts DEF AgentInv, AgentTyped
<1>10. req[s].pc = "idle" /\ runs[n].status # "absent"
       /\ UNCHANGED <<runs, draft, creator, hold, trail>>
  BY DEF ReadRun
<1>11. AgentSound'
  BY <1>2, <1>3, <1>4, <1>5, <1>6, <1>7, <1>9, <1>10, BeginSound
<1>12. QED
  BY <1>9, <1>10, <1>11, RowsStayTyped DEF AgentInv

LEMMA ReadFixInv ==
  ASSUME AgentAssumption, AgentInv, NEW s \in Sessions, NEW n \in Runs,
         NEW list \in FixLists, ReadFix(s, n, list)
  PROVE  AgentInv'
<1> DEFINE q == [IdleRequest EXCEPT !.pc = "creating", !.run = n, !.read = runs[n],
                                    !.todo = list, !.tx = TRUE]
<1>1. runs[n] \in Run /\ list \in Seq(Actions) /\ "creating" \in Places
  BY AgentAssumption DEF AgentInv, AgentTyped, RowsTyped, AgentAssumption, Places
<1>2. q \in Request
  BY <1>1, IdleTyped DEF Request
<1>3. q.pc = "creating" /\ q.run = n /\ q.next = 1 /\ q.todo = list
  BY IdleTyped DEF Request, IdleRequest
<1>4. Fits(q)
  BY <1>2, <1>3 DEF Fits, Request
<1>5. s \in Fixers /\ s \notin Deciders /\ req' = [req EXCEPT ![s] = q]
  BY AgentAssumption DEF ReadFix, AgentAssumption
<1> HIDE DEF q
<1>6. Begun(s, q) /\ RequestsTyped'
  BY <1>2, <1>4, <1>5, BeginFacts DEF AgentInv, AgentTyped
<1>7. req[s].pc = "idle" /\ runs[n].status # "absent"
      /\ UNCHANGED <<runs, draft, creator, hold, trail>>
  BY DEF ReadFix
<1>8. AgentSound'
  BY <1>2, <1>3, <1>5, <1>6, <1>7, BeginSound
<1>9. QED
  BY <1>6, <1>7, <1>8, RowsStayTyped DEF AgentInv

LEMMA QueryInv ==
  ASSUME AgentAssumption, AgentInv, NEW s \in Sessions, QueryDatabase(s)
  PROVE  AgentInv'
<1>1. /\ Moved(s, "analysing", req[s].next)
      /\ req[s].pc = "analysing" /\ UNCHANGED <<runs, draft, creator, hold, trail>>
  BY QueryMoves DEF QueryDatabase, AgentInv, AgentTyped
<1>2. AgentSound'
  BY <1>1, QuietSound
<1>3. req[s].next \in 1..(Len(req[s].todo) + 1)
  BY DEF AgentInv, AgentTyped, RequestsTyped, Fits
<1>4. RequestsTyped'
  BY <1>1, <1>3, MovedTyped DEF AgentInv, AgentTyped
<1>5. QED
  BY <1>1, <1>2, <1>4, RowsStayTyped DEF AgentInv

LEMMA SelectInv ==
  ASSUME AgentAssumption, AgentInv, NEW s \in Sessions, SelectAction(s)
  PROVE  AgentInv'
<1>1. /\ req[s].pc = "creating" /\ req[s].next <= Len(req[s].todo)
      /\ UNCHANGED <<runs, draft, creator, hold, trail>>
  BY DEF SelectAction, HasNext
<1>2. req[s].todo \in Seq(Actions) /\ req[s].next \in 1..(Len(req[s].todo) + 1)
  BY DEF AgentInv, AgentTyped, RequestsTyped, Request, Fits
<1>3. CASE creator[NextAction(s)] # Nobody
  <2>1. Moved(s, "creating", req[s].next + 1)
    BY <1>1, <1>3, SkipMoves DEF SelectAction, AgentInv, AgentTyped
  <2>2. AgentSound'
    BY <1>1, <1>3, <2>1, QuietSound DEF NextAction, Deciding
  <2>3. RequestsTyped'
    BY <1>1, <1>2, <2>1, MovedTyped DEF AgentInv, AgentTyped
  <2>4. QED
    BY <1>1, <2>2, <2>3, RowsStayTyped DEF AgentInv
<1>4. CASE creator[NextAction(s)] = Nobody
  <2>1. Moved(s, "inserting", req[s].next)
    <3>1. GoTo(s, "inserting") /\ "inserting" \in Places
      BY <1>4 DEF SelectAction, Places
    <3>2. QED
      BY <3>1, GoToMoves DEF AgentInv, AgentTyped
  <2>2. AgentSound'
    BY <1>1, <2>1, QuietSound DEF Deciding
  <2>3. RequestsTyped'
    BY <1>1, <1>2, <2>1, MovedTyped DEF AgentInv, AgentTyped
  <2>4. QED
    BY <1>1, <2>2, <2>3, RowsStayTyped DEF AgentInv
<1>5. QED
  BY <1>3, <1>4

LEMMA CreatedInv ==
  ASSUME AgentAssumption, AgentInv, NEW s \in Sessions, ActionsCreated(s)
  PROVE  AgentInv'
<1>1. PICK pc \in {"committing", "deciding"} :
        /\ GoTo(s, pc)
        /\ pc = IF s \in Fixers THEN "committing" ELSE "deciding"
  BY DEF ActionsCreated
<1>2. Moved(s, pc, req[s].next)
  <2>1. pc \in Places
    BY DEF Places
  <2>2. QED
    BY <1>1, <2>1, GoToMoves DEF AgentInv, AgentTyped
<1>3. /\ req[s].pc = "creating" /\ req[s].next > Len(req[s].todo)
      /\ req[s].next \in 1..(Len(req[s].todo) + 1) /\ req[s].todo \in Seq(Actions)
      /\ UNCHANGED <<runs, draft, creator, hold, trail>>
  BY DEF ActionsCreated, HasNext, AgentInv, AgentTyped, RequestsTyped, Request, Fits
<1>4. req[s].next = Len(req[s].todo) + 1
  BY <1>3
<1>5. pc = "deciding" => s \in Deciders
  BY <1>1, <1>3 DEF AgentInv, AgentSound, RoleSound, Sessions
<1>6. AgentSound'
  BY <1>2, <1>3, <1>4, <1>5, QuietSound DEF Deciding
<1>7. RequestsTyped'
  BY <1>2, <1>3, MovedTyped DEF AgentInv, AgentTyped
<1>8. QED
  BY <1>3, <1>6, <1>7, RowsStayTyped DEF AgentInv

\* A draft of the run s works on.
LEMMA WriteTyped ==
  ASSUME AgentAssumption, AgentInv, NEW s \in Sessions, NEW pc, NEW row \in Run,
         NEW n \in Runs, n = req[s].run,
         req[s].pc # "idle", pc # "inserting",
         Moved(s, pc, req[s].next), WriteRun(s, n, row),
         UNCHANGED <<runs, creator, hold, trail>>
  PROVE  AgentTyped'
<1>1. RequestsTyped'
  BY MovedTyped DEF AgentInv, AgentTyped, RequestsTyped, Fits
<1>2. [owner |-> s, row |-> row] \in [owner : Sessions \cup {Nobody}, row : Run]
  OBVIOUS
<1>3. QED
  BY <1>1, <1>2 DEF AgentInv, AgentTyped, RowsTyped, WriteRun

LEMMA FinishInv ==
  ASSUME AgentAssumption, AgentInv, NEW s \in Sessions, Finish(s)
  PROVE  AgentInv'
<1>1. PICK row \in Run :
        /\ WriteRun(s, MyRun(s), row)
        /\ row.status = "completed" /\ row.decision = "none"
  <2>1. PICK b \in BOOLEAN : WriteRun(s, MyRun(s),
          [status |-> "completed", proposed |-> b, nodes |-> TRUE, decision |-> "none"])
    BY DEF Finish
  <2>2. [status |-> "completed", proposed |-> b, nodes |-> TRUE, decision |-> "none"] \in Run
    BY DEF Run
  <2>3. QED
    BY <2>1, <2>2
<1>2. PICK n : n = req[s].run
  OBVIOUS
<1>3. /\ req[s].pc = "analysing" /\ s \in Runners /\ n \in Runs
      /\ UNCHANGED <<runs, creator, hold, trail>>
  BY <1>2 DEF Finish, AgentInv, AgentSound, RoleSound, AgentTyped, RequestsTyped, Fits
<1>4. Moved(s, "committing", req[s].next)
  <2>1. "committing" \in Places /\ req' = [req EXCEPT ![s].pc = "committing", ![s].tx = TRUE]
    BY DEF Finish, Places
  <2>2. QED
    BY <2>1, OpenMoves DEF AgentInv, AgentTyped
<1>5. WriteRun(s, n, row)
  BY <1>1, <1>2 DEF MyRun
<1>6. AgentSound'
  BY <1>1, <1>2, <1>3, <1>4, <1>5, WriteSound
<1>7. AgentTyped'
  BY <1>2, <1>3, <1>4, <1>5, WriteTyped
<1>8. QED
  BY <1>6, <1>7 DEF AgentInv

LEMMA MarkFailedInv ==
  ASSUME AgentAssumption, AgentInv, NEW s \in Sessions, MarkFailed(s)
  PROVE  AgentInv'
<1>1. PICK n : n = req[s].run
  OBVIOUS
<1>2. /\ req[s].pc = "failing" /\ s \in Runners /\ n \in Runs
      /\ UNCHANGED <<runs, creator, hold, trail>>
  BY <1>1 DEF MarkFailed, AgentInv, AgentSound, RoleSound, AgentTyped, RequestsTyped, Fits
<1>3. PICK row : row = [runs[n] EXCEPT !.status = "failed"]
  OBVIOUS
<1>4. runs[n] \in Run
  BY <1>2 DEF AgentInv, AgentTyped, RowsTyped
<1>5. row \in Run /\ row.status = "failed" /\ row.decision = runs[n].decision
  BY <1>3, <1>4 DEF Run
<1>6. WriteRun(s, n, row)
  BY <1>1, <1>3 DEF MarkFailed, MyRun
<1>7. Moved(s, "marking", req[s].next)
  <2>1. "marking" \in Places /\ req' = [req EXCEPT ![s].pc = "marking", ![s].tx = TRUE]
    BY DEF MarkFailed, Places
  <2>2. QED
    BY <2>1, OpenMoves DEF AgentInv, AgentTyped
<1>8. AgentSound'
  BY <1>1, <1>2, <1>5, <1>6, <1>7, WriteSound
<1>9. AgentTyped'
  BY <1>1, <1>2, <1>5, <1>6, <1>7, WriteTyped
<1>10. QED
  BY <1>8, <1>9 DEF AgentInv

LEMMA DecideInv ==
  ASSUME AgentAssumption, AgentInv, NEW s \in Sessions, Decide(s)
  PROVE  AgentInv'
<1>1. PICK n : n = req[s].run
  OBVIOUS
<1>2. /\ req[s].pc = "deciding" /\ s \in Deciders /\ n \in Runs
      /\ req[s].verdict \in Verdicts /\ runs[n].status # "absent"
      /\ req[s].next = Len(req[s].todo) + 1
      /\ req[s].read \in Run /\ runs[n] \in Run
      /\ UNCHANGED <<runs, creator, hold, trail>>
  <2>1. req[s].pc = "deciding" /\ UNCHANGED <<runs, creator, hold, trail>>
    BY DEF Decide
  <2>2. s \in Deciders
    BY <2>1 DEF AgentInv, AgentSound, RoleSound
  <2>3. n \in Runs /\ req[s].read \in Run
    BY <1>1, <2>1 DEF AgentInv, AgentTyped, RequestsTyped, Fits, Request
  <2>4. req[s].verdict \in Verdicts /\ runs[n].status # "absent"
    BY <1>1, <2>1, <2>2 DEF AgentInv, AgentSound, RoleSound
  <2>5. req[s].next = Len(req[s].todo) + 1
    BY <2>1, <2>2 DEF AgentInv, AgentSound, CreationSound, CreationSoundAt
  <2>6. runs[n] \in Run
    BY <2>3 DEF AgentInv, AgentTyped, RowsTyped
  <2>7. QED
    BY <2>1, <2>2, <2>3, <2>4, <2>5, <2>6
<1>3. Moved(s, "committing", req[s].next)
  <2>1. "committing" \in Places /\ GoTo(s, "committing")
    BY DEF Decide, Places
  <2>2. QED
    BY <2>1, GoToMoves DEF AgentInv, AgentTyped
<1>4. CASE UNCHANGED draft
  <2>1. AgentSound'
    BY <1>2, <1>3, <1>4, QuietSound DEF Deciding
  <2>2. RequestsTyped'
    BY <1>2, <1>3, MovedTyped DEF AgentInv, AgentTyped, RequestsTyped, Fits
  <2>3. QED
    BY <1>2, <1>4, <2>1, <2>2, RowsStayTyped DEF AgentInv
<1>5. CASE WriteRun(s, n,
             [runs[n] EXCEPT !.nodes = req[s].read.nodes, !.decision = req[s].verdict])
  <2>1. PICK row : row = [runs[n] EXCEPT !.nodes = req[s].read.nodes, !.decision = req[s].verdict]
    OBVIOUS
  <2>2. req[s].read.nodes \in BOOLEAN
    BY <1>2 DEF Run
  <2>3. /\ row \in Run /\ row.status = runs[n].status /\ row.proposed = runs[n].proposed
        /\ row.decision = req[s].verdict
    BY <1>2, <2>1, <2>2 DEF Run
  <2>4. WriteRun(s, n, row)
    BY <1>5, <2>1
  <2>5. AgentSound'
    BY <1>1, <1>2, <1>3, <2>3, <2>4, WriteSound
  <2>6. AgentTyped'
    BY <1>1, <1>2, <1>3, <2>3, <2>4, WriteTyped
  <2>7. QED
    BY <2>5, <2>6 DEF AgentInv
<1>6. QED
  BY <1>1, <1>4, <1>5 DEF Decide, MyRun

LEMMA DropTyped ==
  ASSUME AgentAssumption, AgentInv, NEW s \in Sessions, NEW pc,
         req[s].pc # "idle", pc # "inserting",
         Moved(s, pc, req[s].next), DropDrafts(s), UNCHANGED <<runs, creator, trail>>
  PROVE  AgentTyped'
<1>1. RequestsTyped'
  BY MovedTyped DEF AgentInv, AgentTyped, RequestsTyped, Fits
<1>2. NoDraft \in [owner : Sessions \cup {Nobody}, row : Run]
  BY SeedTyped DEF NoDraft
<1>3. QED
  BY <1>1, <1>2 DEF AgentInv, AgentTyped, RowsTyped, DropDrafts

LEMMA FailInv ==
  ASSUME AgentAssumption, AgentInv, NEW s \in Sessions, Fail(s)
  PROVE  AgentInv'
<1>1. /\ s \in Runners /\ req[s].pc \in {"analysing", "committing"}
      /\ DropDrafts(s) /\ UNCHANGED <<runs, creator, trail>>
  BY DEF Fail
<1>2. Moved(s, "failing", req[s].next)
  BY FailMoves DEF AgentInv, AgentTyped
<1>3. AgentSound'
  BY <1>1, <1>2, DropSound DEF Working, Ended
<1>4. AgentTyped'
  BY <1>1, <1>2, DropTyped
<1>5. QED
  BY <1>3, <1>4 DEF AgentInv

\* LoseRun, InsertConflict, Abort and DeadlockVictim.
LEMMA EndInv ==
  ASSUME AgentAssumption, AgentInv, NEW s \in Sessions, NEW pc, EndWith(s, pc),
         req[s].pc \notin Ended \cup {"idle"},
         pc = "refused" \/ (pc = "raised" /\ s \in Runners)
  PROVE  AgentInv'
<1>1. DropDrafts(s) /\ UNCHANGED <<runs, creator, trail>>
  BY DEF EndWith
<1>2. Moved(s, pc, req[s].next)
  <2>1. pc \in Places /\ GoTo(s, pc)
    BY DEF EndWith, Places
  <2>2. QED
    BY <2>1, GoToMoves DEF AgentInv, AgentTyped
<1>3. AgentSound'
  BY <1>1, <1>2, DropSound
<1>4. AgentTyped'
  BY <1>1, <1>2, DropTyped
<1>5. QED
  BY <1>3, <1>4 DEF AgentInv

LEMMA InsertInv ==
  ASSUME AgentAssumption, AgentInv, NEW s \in Sessions, InsertAction(s)
  PROVE  AgentInv'
<1>1. AgentSound'
  BY InsertSound
<1>2. RequestsTyped'
  <2>1. Moved(s, "creating", req[s].next + 1)
    BY AdvanceMoves DEF InsertAction, AgentInv, AgentTyped, Places
  <2>2. /\ req[s].pc = "inserting" /\ req[s].todo \in Seq(Actions)
        /\ req[s].next <= Len(req[s].todo) /\ req[s].next \in 1..(Len(req[s].todo) + 1)
    BY DEF InsertAction, AgentInv, AgentTyped, RequestsTyped, Request, Fits
  <2>3. QED
    BY <2>1, <2>2, MovedTyped DEF AgentInv, AgentTyped
<1>3. QED
  BY <1>1, <1>2 DEF AgentInv, AgentTyped, RowsTyped, InsertAction

LEMMA CommitInv ==
  ASSUME AgentAssumption, AgentInv, NEW s \in Sessions, Commit(s)
  PROVE  AgentInv'
<1>1. AgentSound'
  BY CommitSound
<1>2. req[s].pc \in {"committing", "marking"}
  BY DEF Commit
<1>3. RequestsTyped'
  <2>1. req[s].next \in 1..(Len(req[s].todo) + 1) /\ CommitPC(s) # "inserting"
    BY DEF AgentInv, AgentTyped, RequestsTyped, Fits, CommitPC
  <2>2. QED
    BY <1>2, <2>1, CommitFacts, MovedTyped DEF AgentInv, AgentTyped
<1>4. NoDraft \in [owner : Sessions \cup {Nobody}, row : Run]
  BY SeedTyped DEF NoDraft
<1>5. RowsTyped'
  BY <1>4 DEF AgentInv, AgentTyped, RowsTyped, Commit, PublishDrafts, DropDrafts
<1>6. trail' \subseteq Runs \X Verdicts
  <2>1. s \in Deciders => req[s].run \in Runs /\ req[s].verdict \in Verdicts
    BY <1>2 DEF AgentInv, AgentTyped, AgentSound, RequestsTyped, Fits, RoleSound
  <2>2. QED
    BY <2>1 DEF Commit, AuditRow, MyRun, AgentInv, AgentTyped
<1>7. QED
  BY <1>1, <1>3, <1>5, <1>6 DEF AgentInv, AgentTyped

LEMMA StepInv ==
  ASSUME AgentAssumption, AgentInv, [Next]_vars
  PROVE  AgentInv'
<1>1. CASE UNCHANGED vars
  BY <1>1 DEF vars, AgentInv, AgentTyped, RowsTyped, RequestsTyped, AgentSound, RunnerSound,
     RoleSound, DraftSound, DraftSoundAt, CreationSound, CreationSoundAt, Made, HoldSound,
     DecisionExplained
<1>2. ASSUME NEW s \in Sessions, Receive(s) PROVE AgentInv'
  BY <1>2, AgentAssumption, TriggerInv, ReadRunInv, ReadFixInv DEF Receive
<1>3. ASSUME NEW s \in Sessions, LoseRun(s) PROVE AgentInv'
  <2>1. s \in Runners
    BY <1>3 DEF LoseRun, AgentInv, AgentSound, RoleSound
  <2>2. QED
    BY <1>3, <2>1, AgentAssumption, EndInv DEF LoseRun, Ended
<1>4. ASSUME NEW s \in Sessions, InsertConflict(s) \/ Abort(s) PROVE AgentInv'
  BY <1>4, AgentAssumption, EndInv DEF InsertConflict, Abort, Ended
<1>5. ASSUME NEW s \in Sessions, DeadlockVictim(s) PROVE AgentInv'
  <2>1. req[s].pc \in {"inserting", "analysing", "failing", "deciding"} /\ EndWith(s, "refused")
    BY <1>5 DEF DeadlockVictim, WaitsFor
  <2>2. QED
    BY <2>1, AgentAssumption, EndInv DEF Ended
<1>6. ASSUME NEW s \in Sessions, Serve(s) PROVE AgentInv'
  BY <1>3, <1>4, <1>5, <1>6, AgentAssumption, FinishInv, MarkFailedInv, SelectInv,
     InsertInv, CreatedInv, DecideInv, CommitInv DEF Serve
<1>7. QED
  BY <1>1, <1>2, <1>4, <1>6, AgentAssumption, QueryInv, FailInv DEF Next

LEMMA InitAgent ==
  ASSUME AgentAssumption, Init
  PROVE  AgentInv
<1>1. PICK st \in [Runs -> SeedStatuses] : runs = [n \in Runs |-> SeedRun(st[n])]
  BY DEF Init
<1>2. \A n \in Runs : SeedRun(st[n]) \in Run /\ SeedRun(st[n]).decision = "none"
  BY AgentAssumption, SeedTyped DEF AgentAssumption, SeedRun
<1>3. NoDraft \in [owner : Sessions \cup {Nobody}, row : Run] /\ NoDraft.owner = Nobody
  BY SeedTyped DEF NoDraft
<1>4. AgentTyped
  BY <1>1, <1>2, <1>3, IdleTyped DEF Init, AgentTyped, RowsTyped, RequestsTyped
<1>5. \A s \in Sessions : req[s].pc = "idle"
  BY DEF Init, IdleRequest
<1>6. RunnerSound /\ RoleSound
  BY <1>5 DEF RunnerSound, RoleSound, Working, Sessions
<1>7. DraftSound
  BY <1>3 DEF Init, DraftSound, DraftSoundAt
<1>8. CreationSound
  BY <1>5 DEF CreationSound, CreationSoundAt, Deciding, Sessions
<1>9. HoldSound
  BY AgentAssumption DEF Init, HoldSound, AgentAssumption, Sessions
<1>10. DecisionExplained
  BY <1>1, <1>2 DEF DecisionExplained
<1>11. QED
  BY <1>4, <1>6, <1>7, <1>8, <1>9, <1>10 DEF AgentInv, AgentSound

LEMMA AgentInvariant == Spec => []AgentInv
<1>1. Init => AgentInv
  BY AgentAssumption, InitAgent
<1>2. AgentInv /\ [Next]_vars => AgentInv'
  BY AgentAssumption, StepInv
<1>3. QED
  BY <1>1, <1>2, PTL DEF Spec

-----------------------------------------------------------------------------
(* The theorems. *)

\* Every variable keeps its type (models/agent_run.py, api/agent.py).
THEOREM AgentTypeCorrect == Spec => []AgentTypeOK
<1>1. AgentInv => AgentTypeOK
  BY TypedMeansOK DEF AgentInv
<1>2. QED
  BY <1>1, AgentInvariant, PTL

\* Whatever users and runners write over each other, a decision a run shows is
\* in the audit log, and an accepted suggestion has its heal action
\* (api/agent.py, accept_suggestion).
THEOREM DecisionsExplained == Spec => []DecisionExplained
<1>1. AgentInv => DecisionExplained
  BY DEF AgentInv, AgentSound
<1>2. QED
  BY <1>1, AgentInvariant, PTL

\* A fix creates the actions of all its steps or none
\* (rca/service.py, execute_fix).
THEOREM FixesAtomic == Spec => []FixAllOrNothing
<1>1. AgentInv => FixAllOrNothing
  <2> SUFFICES ASSUME AgentInv, NEW s \in Fixers
               PROVE  /\ req[s].pc = "done" =>
                           \A k \in DOMAIN req[s].todo : creator[req[s].todo[k]] # Nobody
                      /\ req[s].pc # "done" => \A a \in Actions : creator[a] # s
    BY DEF FixAllOrNothing
  <2>1. CreationSoundAt(s) /\ HoldSound
    BY DEF AgentInv, AgentSound, CreationSound
  <2>2. QED
    BY <2>1 DEF CreationSoundAt, HoldSound
<1>2. QED
  BY <1>1, AgentInvariant, PTL

Stay == \A n \in Runs : runs[n].status \in {"completed", "failed"} =>
          runs'[n].status = runs[n].status /\ runs'[n].proposed = runs[n].proposed

LEMMA StepStays ==
  ASSUME AgentAssumption, AgentInv, [Next]_vars
  PROVE  Stay
<1>1. ASSUME UNCHANGED runs PROVE Stay
  BY <1>1 DEF Stay
<1>2. ASSUME NEW s \in Sessions, Commit(s) PROVE Stay
  BY <1>2, AgentAssumption, CommittedRun DEF Stay
<1>3. ASSUME NEW s \in Runners, NEW m \in Runs, Trigger(s, m) PROVE Stay
  <2>1. runs[m].status = "absent" /\ \A n \in Runs \ {m} : runs'[n] = runs[n]
    BY <1>3 DEF Trigger, AgentInv, AgentTyped, RowsTyped
  <2>2. QED
    BY <2>1 DEF Stay
<1>4. ASSUME NEW s \in Sessions, Receive(s) PROVE Stay
  BY <1>1, <1>3, <1>4 DEF Receive, ReadRun, ReadFix
<1>5. ASSUME NEW s \in Sessions, Serve(s) PROVE Stay
  BY <1>1, <1>2, <1>5 DEF Serve, Finish, MarkFailed, LoseRun, SelectAction, InsertAction,
     InsertConflict, ActionsCreated, Decide, DeadlockVictim, EndWith
<1>6. QED
  BY <1>1, <1>4, <1>5 DEF Next, QueryDatabase, Fail, Abort, EndWith, vars

\* A finished run keeps its status and its proposal
\* (repositories/agent_runs.py, finish; api/agent.py, _set_suggestion_status).
THEOREM FinishedRuns == Spec => FinishedRunsStay
<1>1. AgentInv /\ [Next]_vars => [Stay]_vars
  BY AgentAssumption, StepStays
<1>2. QED
  BY <1>1, AgentInvariant, PTL DEF Spec, FinishedRunsStay, Stay

=============================================================================
