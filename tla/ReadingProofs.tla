---------------------------- MODULE ReadingProofs ---------------------------
(***************************************************************************)
(* The invariants of those requests of the console that only read what     *)
(* others write: the WebSocket feeds, reports on the audit log and views   *)
(* of the cached logs, for any scripts, clients, entries, snapshots and    *)
(* faults.  ConsoleProofs has the theorems.                                *)
(*                                                                         *)
(* Feeds: what a feed has handed out of what was produced is its horizon;  *)
(* the list of alerts is what lies behind it, and what a client has been   *)
(* given lies before it, in its order, and apart from what any other       *)
(* client of the same list was given.  Each action of a handler either     *)
(* leaves what is on the way to the client as it is, sends its first       *)
(* message, drops it, or drops all of it (lemma HandlerStep).              *)
(*                                                                         *)
(* Reports: an entry that was there is shown or lies behind the page that  *)
(* is read next; an entry added pushes at most one other over the end of a *)
(* page (lemma OneMoreMoves), which pays for its being shown again.        *)
(*                                                                         *)
(* Views: what a view keeps is what matched at one reading of the clock,   *)
(* and what it draws fits a window made at a later one.                    *)
(***************************************************************************)
EXTENDS Feeds, LogViews, AuditReports, FiniteSetTheorems, SequenceTheorems, TLAPS

-----------------------------------------------------------------------------
(* Feeds (Feeds).                                                          *)

\* How much of what was produced has been handed out, to whoever was there.
Horizon(source) ==
  IF source[2] = "alerts" THEN produced[source] - Len(queue[source[1]]) ELSE produced[source]

HandedOut(source, m) == \E k \in 1 .. Horizon(source) : Script[source][k] = m

\* The Redis list of a project is the end of what was pushed.
QueueSound(p) ==
  /\ Len(queue[p]) <= produced[<<p, "alerts">>]
  /\ \A i \in DOMAIN queue[p] :
       queue[p][i] = Script[<<p, "alerts">>][Horizon(<<p, "alerts">>) + i]

Flow(c) == seen[c] \o OnTheWay(c)

\* What a handler holds fits the place where it stands.
HandlerSound(c) ==
  /\ conn[c].pc \in {"new", "accepted", "refused"} =>
       seen[c] = <<>> /\ due[c] = <<>> /\ conn[c].inbox = <<>> /\ ~conn[c].sub
  /\ conn[c].pc \notin {"new", "refused"} => conn[c].ask.project \in EnabledProjects
  /\ conn[c].pc \notin {"waiting", "sending"} => conn[c].hand = NoMessage
  /\ conn[c].pc = "sending" => conn[c].hand # NoMessage /\ Wanted(c, conn[c].hand)
  /\ conn[c].pc = "waiting" /\ conn[c].ask.feed # "alerts" => conn[c].hand = NoMessage
  /\ conn[c].pc = "accepted" => conn[c].ask.feed # "alerts"
  /\ conn[c].ask.feed = "alerts" => conn[c].inbox = <<>> /\ ~conn[c].sub
  /\ conn[c].pc = "closed" => ~conn[c].sub
  /\ conn[c].event # "none" => ~conn[c].quiet

Sorted(s, source) == \A i, j \in DOMAIN s : i < j => Before(source, s[i], s[j])

\* A client is given what was handed out, in its order.
MessagesSound(c) ==
  /\ \A m \in Range(seen[c]) : Wanted(c, m)
  /\ \A m \in Range(Flow(c)) \cup Range(due[c]) : HandedOut(Source(c), m)
  /\ Sorted(Flow(c), Source(c))
  /\ Sorted(due[c], Source(c))

\* A client that only listens and is still there.
Listening(c) ==
  /\ conn[c].pc \in {"waiting", "sending"}
  /\ conn[c].quiet \/ conn[c].ask.feed # "alerts"
  /\ conn[c].event # "gone"

NothingMissed(c) ==
  Listening(c) => Range(due[c]) = Range(seen[c]) \cup {m \in Range(OnTheWay(c)) : Wanted(c, m)}

\* What is popped for one client is not popped for another.
DueApart ==
  \A c, d \in Clients : c # d /\ Source(c) = Source(d) /\ conn[c].ask.feed = "alerts" =>
    Range(due[c]) \cap Range(due[d]) = {}

FeedInv ==
  /\ FeedTypeOK
  /\ \A p \in EnabledProjects : QueueSound(p)
  /\ \A c \in Clients : HandlerSound(c) /\ MessagesSound(c) /\ NothingMissed(c)
  /\ DueApart

LEMMA RangeOfAppend ==
  ASSUME NEW S, NEW s \in Seq(S), NEW e \in S
  PROVE  Range(Append(s, e)) = Range(s) \cup {e}
<1>1. DOMAIN s = 1 .. Len(s) /\ Len(s) \in Nat  OBVIOUS
<1>2. DOMAIN Append(s, e) = 1 .. (Len(s) + 1)  OBVIOUS
<1>3. \A i \in 1 .. Len(s) : Append(s, e)[i] = s[i]  OBVIOUS
<1>4. Append(s, e)[Len(s) + 1] = e  OBVIOUS
<1>5. 1 .. (Len(s) + 1) = (1 .. Len(s)) \cup {Len(s) + 1}  BY <1>1
<1> QED  BY <1>1, <1>2, <1>3, <1>4, <1>5 DEF Range

LEMMA RangeOfTail ==
  ASSUME NEW S, NEW s \in Seq(S), s # <<>>
  PROVE  /\ Range(s) = {Head(s)} \cup Range(Tail(s))
         /\ Head(s) \in S /\ Tail(s) \in Seq(S)
<1>0. Len(s) \in Nat \ {0} /\ DOMAIN s = 1 .. Len(s)  OBVIOUS
<1>1. Tail(s) \in Seq(S) /\ Head(s) = s[1] /\ Head(s) \in S  OBVIOUS
<1>2. DOMAIN Tail(s) = 1 .. (Len(s) - 1)  BY <1>0
<1>3. \A i \in 1 .. (Len(s) - 1) : Tail(s)[i] = s[i + 1]  BY <1>0
<1>4. Range(s) \subseteq {Head(s)} \cup Range(Tail(s))
  <2> SUFFICES ASSUME NEW i \in 1 .. Len(s)
               PROVE  s[i] \in {Head(s)} \cup Range(Tail(s))
    BY <1>0 DEF Range
  <2>1. CASE i = 1  BY <2>1, <1>1
  <2>2. CASE i # 1
    <3>1. i - 1 \in 1 .. (Len(s) - 1) /\ s[i] = s[(i - 1) + 1]  BY <2>2, <1>0
    <3> QED  BY <3>1, <1>2, <1>3 DEF Range
  <2> QED  BY <2>1, <2>2
<1>5. {Head(s)} \cup Range(Tail(s)) \subseteq Range(s)
  <2>1. Head(s) \in Range(s)  BY <1>0, <1>1 DEF Range
  <2>2. ASSUME NEW i \in 1 .. (Len(s) - 1)  PROVE Tail(s)[i] \in Range(s)
    <3>1. i + 1 \in DOMAIN s  BY <1>0
    <3> QED  BY <3>1, <1>3 DEF Range
  <2> QED  BY <2>1, <2>2, <1>2 DEF Range
<1> QED  BY <1>1, <1>4, <1>5

LEMMA RangeOfOne ==
  ASSUME NEW e
  PROVE  Range(<<e>>) = {e} /\ Range(<<>>) = {}
BY DEF Range

\* What comes after all of s may be appended to it.
LEMMA SortedAppend ==
  ASSUME NEW S, NEW s \in Seq(S), NEW e \in S, NEW source, Sorted(s, source),
         \A m \in Range(s) : Before(source, m, e)
  PROVE  Sorted(Append(s, e), source)
<1>1. DOMAIN s = 1 .. Len(s) /\ Len(s) \in Nat  OBVIOUS
<1>2. DOMAIN Append(s, e) = 1 .. (Len(s) + 1)  OBVIOUS
<1>3. \A i \in 1 .. Len(s) : Append(s, e)[i] = s[i]  OBVIOUS
<1>4. Append(s, e)[Len(s) + 1] = e  OBVIOUS
<1>5. SUFFICES ASSUME NEW i \in 1 .. (Len(s) + 1), NEW j \in 1 .. (Len(s) + 1), i < j
               PROVE  Before(source, Append(s, e)[i], Append(s, e)[j])
  BY <1>2 DEF Sorted
<1>6. i \in 1 .. Len(s)  BY <1>1, <1>5
<1>7. CASE j = Len(s) + 1
  <2>1. s[i] \in Range(s)  BY <1>1, <1>6 DEF Range
  <2> QED  BY <1>3, <1>4, <1>6, <1>7, <2>1
<1>8. CASE j # Len(s) + 1
  <2>1. j \in 1 .. Len(s)  BY <1>1, <1>8
  <2> QED  BY <1>1, <1>3, <1>5, <1>6, <2>1 DEF Sorted
<1> QED  BY <1>7, <1>8

\* A message taken out, or the end left off, leaves the rest in its order.
LEMMA SortedWithout ==
  ASSUME NEW S, NEW s \in Seq(S), NEW t \in Seq(S), NEW source, Sorted(s \o t, source)
  PROVE  /\ Sorted(s, source)
         /\ t # <<>> => Sorted(s \o Tail(t), source)
<1>1. /\ DOMAIN s = 1 .. Len(s) /\ Len(s) \in Nat /\ Len(t) \in Nat
      /\ DOMAIN (s \o t) = 1 .. (Len(s) + Len(t))
      /\ \A i \in 1 .. (Len(s) + Len(t)) :
           (s \o t)[i] = IF i <= Len(s) THEN s[i] ELSE t[i - Len(s)]
  BY ConcatProperties
<1>2. Sorted(s, source)
  <2> SUFFICES ASSUME NEW i \in 1 .. Len(s), NEW j \in 1 .. Len(s), i < j
               PROVE  Before(source, s[i], s[j])
    BY <1>1 DEF Sorted
  <2>1. i \in 1 .. (Len(s) + Len(t)) /\ j \in 1 .. (Len(s) + Len(t)) /\ i <= Len(s) /\ j <= Len(s)
    BY <1>1
  <2>2. (s \o t)[i] = s[i] /\ (s \o t)[j] = s[j]  BY <1>1, <2>1
  <2> QED  BY <1>1, <2>1, <2>2 DEF Sorted
<1>3. ASSUME t # <<>>  PROVE Sorted(s \o Tail(t), source)
  <2>1. /\ Tail(t) \in Seq(S) /\ Len(Tail(t)) = Len(t) - 1
        /\ \A i \in 1 .. (Len(t) - 1) : Tail(t)[i] = t[i + 1]
    BY <1>3, HeadTailProperties
  <2>2. Len(t) >= 1  BY <1>1, <1>3
  <2>3. /\ DOMAIN (s \o Tail(t)) = 1 .. (Len(s) + Len(t) - 1)
        /\ \A i \in 1 .. (Len(s) + Len(t) - 1) :
             (s \o Tail(t))[i] = IF i <= Len(s) THEN s[i] ELSE Tail(t)[i - Len(s)]
    <3>1. /\ (s \o Tail(t)) \in Seq(S) /\ Len(s \o Tail(t)) = Len(s) + Len(Tail(t))
          /\ \A i \in 1 .. (Len(s) + Len(Tail(t))) :
               (s \o Tail(t))[i] = IF i <= Len(s) THEN s[i] ELSE Tail(t)[i - Len(s)]
      BY <2>1, ConcatProperties
    <3>2. Len(s) + Len(Tail(t)) = Len(s) + Len(t) - 1  BY <1>1, <2>1
    <3> QED  BY <3>1, <3>2
  <2> DEFINE f(i) == IF i <= Len(s) THEN i ELSE i + 1
  <2>4. ASSUME NEW i \in 1 .. (Len(s) + Len(t) - 1)
        PROVE  f(i) \in 1 .. (Len(s) + Len(t)) /\ (s \o Tail(t))[i] = (s \o t)[f(i)]
    <3>1. CASE i <= Len(s)
      BY <1>1, <2>2, <2>3, <3>1
    <3>2. CASE ~(i <= Len(s))
      <4>1. i \in Int /\ i > Len(s) /\ i <= Len(s) + Len(t) - 1  BY <1>1, <3>2
      <4>2. i - Len(s) \in 1 .. (Len(t) - 1)  BY <1>1, <4>1
      <4>3. (s \o Tail(t))[i] = t[i - Len(s) + 1]  BY <2>1, <2>3, <3>2, <4>2
      <4>4. i + 1 \in 1 .. (Len(s) + Len(t)) /\ ~(i + 1 <= Len(s))  BY <1>1, <4>1
      <4>5. (s \o t)[i + 1] = t[(i + 1) - Len(s)]  BY <1>1, <4>4
      <4>6. (i + 1) - Len(s) = i - Len(s) + 1  BY <1>1, <4>1
      <4> QED  BY <3>2, <4>3, <4>4, <4>5, <4>6
    <3> QED  BY <3>1, <3>2
  <2>5. ASSUME NEW i \in 1 .. (Len(s) + Len(t) - 1), NEW j \in 1 .. (Len(s) + Len(t) - 1), i < j
        PROVE  f(i) < f(j)
    BY <1>1, <2>5
  <2>6. SUFFICES ASSUME NEW i \in 1 .. (Len(s) + Len(t) - 1), NEW j \in 1 .. (Len(s) + Len(t) - 1),
                        i < j
                 PROVE  Before(source, (s \o Tail(t))[i], (s \o Tail(t))[j])
    BY <2>3 DEF Sorted
  <2>7. PICK k \in 1 .. (Len(s) + Len(t)) : k = f(i)  BY <2>4
  <2>8. PICK l \in 1 .. (Len(s) + Len(t)) : l = f(j)  BY <2>4
  <2>9. k < l /\ (s \o Tail(t))[i] = (s \o t)[k] /\ (s \o Tail(t))[j] = (s \o t)[l]
    BY <2>4, <2>5, <2>6, <2>7, <2>8
  <2> HIDE DEF f
  <2> QED  BY <1>1, <2>9 DEF Sorted
<1> QED  BY <1>2, <1>3

Way(hand, inbox) == (IF hand = NoMessage THEN <<>> ELSE <<hand>>) \o inbox

LEMMA WayFacts ==
  ASSUME FeedAssumption, NEW hand \in FeedMessages \cup {NoMessage}, NEW inbox \in Seq(FeedMessages)
  PROVE  /\ Way(hand, inbox) \in Seq(FeedMessages)
         /\ hand = NoMessage =>
              Way(hand, inbox) = inbox
         /\ hand # NoMessage =>
              /\ Way(hand, inbox) # <<>>
              /\ Head(Way(hand, inbox)) = hand
              /\ Tail(Way(hand, inbox)) = inbox
              /\ Range(Way(hand, inbox)) = {hand} \cup Range(inbox)
<1>1. CASE hand = NoMessage
  <2>1. <<>> \o inbox = inbox  BY ConcatEmptySeq
  <2> QED  BY <1>1, <2>1 DEF Way
<1>2. CASE hand # NoMessage
  <2>1. hand \in FeedMessages /\ <<hand>> \in Seq(FeedMessages) /\ Len(<<hand>>) = 1
    BY <1>2
  <2>2. Way(hand, inbox) = <<hand>> \o inbox  BY <1>2 DEF Way
  <2>3. /\ Way(hand, inbox) \in Seq(FeedMessages)
        /\ Len(Way(hand, inbox)) = 1 + Len(inbox) /\ Len(inbox) \in Nat
        /\ \A i \in 1 .. 1 + Len(inbox) :
             Way(hand, inbox)[i] = IF i <= 1 THEN <<hand>>[i] ELSE inbox[i - 1]
    BY <2>1, <2>2, ConcatProperties
  <2>4. Way(hand, inbox) # <<>>  BY <2>3
  <2>5. Head(Way(hand, inbox)) = hand
    BY <2>3, <2>4
  <2>6. /\ Tail(Way(hand, inbox)) \in Seq(FeedMessages)
        /\ Len(Tail(Way(hand, inbox))) = Len(inbox)
        /\ \A i \in 1 .. Len(inbox) : Tail(Way(hand, inbox))[i] = Way(hand, inbox)[i + 1]
    BY <2>3, <2>4, HeadTailProperties
  <2>7. \A i \in 1 .. Len(inbox) : Tail(Way(hand, inbox))[i] = inbox[i]
    BY <2>3, <2>6
  <2>8. Tail(Way(hand, inbox)) = inbox  BY <2>6, <2>7, SeqEqual
  <2>9. Range(Way(hand, inbox)) = {hand} \cup Range(inbox)
    BY <2>3, <2>4, <2>5, <2>8, RangeOfTail
  <2> QED  BY <1>2, <2>3, <2>4, <2>5, <2>8, <2>9
<1> QED  BY <1>1, <1>2

LEMMA FlowFacts ==
  ASSUME FeedAssumption, FeedTypeOK, NEW c \in Clients
  PROVE  /\ conn[c] \in Connection
         /\ OnTheWay(c) = Way(conn[c].hand, conn[c].inbox)
         /\ OnTheWay(c) \in Seq(FeedMessages)
         /\ seen[c] \in Seq(FeedMessages) /\ due[c] \in Seq(FeedMessages)
         /\ Flow(c) \in Seq(FeedMessages)
         /\ Range(Flow(c)) = Range(seen[c]) \cup Range(OnTheWay(c))
<1>1. conn[c] \in Connection /\ seen[c] \in Seq(FeedMessages) /\ due[c] \in Seq(FeedMessages)
  BY DEF FeedTypeOK
<1>2. conn[c].hand \in FeedMessages \cup {NoMessage} /\ conn[c].inbox \in Seq(FeedMessages)
  BY <1>1 DEF Connection
<1>3. OnTheWay(c) = Way(conn[c].hand, conn[c].inbox)  BY DEF OnTheWay, InHand, Way
<1>4. OnTheWay(c) \in Seq(FeedMessages)  BY <1>2, <1>3, WayFacts
<1> QED  BY <1>1, <1>3, <1>4, ConcatProperties, RangeConcatenation DEF Flow

LEMMA HorizonFacts ==
  ASSUME FeedAssumption, FeedTypeOK, \A p \in EnabledProjects : QueueSound(p),
         NEW source \in EnabledProjects \X FeedNames
  PROVE  /\ Script[source] \in Seq(FeedMessages)
         /\ produced[source] \in Nat /\ produced[source] <= Len(Script[source])
         /\ Horizon(source) \in Nat
         /\ Horizon(source) <= produced[source]
         /\ source[2] # "alerts" => Horizon(source) = produced[source]
         /\ source[2] = "alerts" =>
              /\ source = <<source[1], "alerts">> /\ source[1] \in EnabledProjects
              /\ Horizon(source) = produced[source] - Len(queue[source[1]])
<1>1. DOMAIN Script = EnabledProjects \X FeedNames  BY DEF FeedAssumption
<1>2. Script[source] \in Seq(FeedMessages)  BY DEF FeedAssumption
<1>3. produced[source] \in Nat /\ produced[source] <= Len(Script[source])
  BY <1>1 DEF FeedTypeOK
<1>4. CASE source[2] = "alerts"
  <2>1. source = <<source[1], "alerts">> /\ source[1] \in EnabledProjects  BY <1>4
  <2>2. Len(queue[source[1]]) <= produced[source]  BY <2>1 DEF QueueSound
  <2>3. Len(queue[source[1]]) \in Nat  BY <2>1 DEF FeedTypeOK
  <2> QED  BY <1>2, <1>3, <1>4, <2>1, <2>2, <2>3 DEF Horizon
<1>5. CASE source[2] # "alerts"
  BY <1>2, <1>3, <1>5 DEF Horizon
<1> QED  BY <1>4, <1>5

LEMMA SourceFacts ==
  ASSUME FeedAssumption, FeedInv, NEW c \in Clients
  PROVE  /\ conn[c].ask.feed \in FeedNames
         /\ conn[c].pc \notin {"new", "refused"} => Source(c) \in EnabledProjects \X FeedNames
         /\ conn[c].pc \in {"new", "accepted", "refused"} => Flow(c) = <<>> /\ due[c] = <<>>
<1>1. conn[c] \in Connection  BY DEF FeedInv, FeedTypeOK
<1>2. conn[c].ask.feed \in FeedNames  BY <1>1 DEF Connection, FeedAsk
<1>3. ASSUME conn[c].pc \notin {"new", "refused"}  PROVE Source(c) \in EnabledProjects \X FeedNames
  BY <1>2, <1>3 DEF FeedInv, HandlerSound, Source
<1>4. ASSUME conn[c].pc \in {"new", "accepted", "refused"}  PROVE Flow(c) = <<>> /\ due[c] = <<>>
  <2>1. /\ seen[c] = <<>> /\ due[c] = <<>> /\ conn[c].inbox = <<>> /\ conn[c].hand = NoMessage
    BY <1>4 DEF FeedInv, HandlerSound
  <2>2. <<>> \in Seq(FeedMessages)  BY EmptySeq
  <2>3. <<>> \o <<>> = <<>>  BY <2>2, ConcatEmptySeq
  <2> QED  BY <2>1, <2>3 DEF Flow, OnTheWay, InHand
<1> QED  BY <1>2, <1>3, <1>4

\* Nothing changes for a client whom a step does not concern.
LEMMA OtherClient ==
  ASSUME FeedAssumption, FeedInv, NEW d \in Clients,
         conn'[d] = conn[d], seen'[d] = seen[d], due'[d] = due[d],
         \A source \in EnabledProjects \X FeedNames :
           Horizon(source)' \in Nat /\ Horizon(source) <= Horizon(source)'
  PROVE  HandlerSound(d)' /\ MessagesSound(d)' /\ NothingMissed(d)'
<1>1. /\ Source(d)' = Source(d) /\ OnTheWay(d)' = OnTheWay(d) /\ Flow(d)' = Flow(d)
      /\ \A m : Wanted(d, m)' <=> Wanted(d, m)
      /\ Listening(d)' <=> Listening(d)
  BY DEF Source, OnTheWay, InHand, Flow, Wanted, Listening
<1>2. HandlerSound(d)'
  <2>1. HandlerSound(d)  BY DEF FeedInv
  <2> QED  BY <1>1, <2>1 DEF HandlerSound
<1>3. NothingMissed(d)'
  <2>1. NothingMissed(d)  BY DEF FeedInv
  <2> QED  BY <1>1, <2>1 DEF NothingMissed
<1>4. MessagesSound(d)'
  <2>1. MessagesSound(d)  BY DEF FeedInv
  <2>2. PICK source : source = Source(d)  OBVIOUS
  <2>3. ASSUME NEW m \in Range(Flow(d)) \cup Range(due[d])
        PROVE  HandedOut(source, m)'
    <3>1. conn[d].pc \notin {"new", "refused"}
      BY SourceFacts, <2>3, RangeOfOne
    <3>2. source \in EnabledProjects \X FeedNames  BY <2>2, <3>1, SourceFacts
    <3>3. HandedOut(source, m)  BY <2>1, <2>2 DEF MessagesSound
    <3>4. Horizon(source) \in Nat  BY <3>2, HorizonFacts DEF FeedInv
    <3> QED  BY <3>2, <3>3, <3>4 DEF HandedOut
  <2>4. \A m \in (Range(Flow(d)) \cup Range(due[d]))' : HandedOut(Source(d), m)'
    BY <1>1, <2>2, <2>3 DEF HandedOut, Horizon
  <2> QED  BY <1>1, <2>1, <2>4 DEF MessagesSound, Sorted, Before
<1> QED  BY <1>2, <1>3, <1>4

\* A step of one handler takes nothing from the queues; it may hand what it
\* holds on, drop the first message that is on the way, or all of them.
LEMMA HandlerStep ==
  ASSUME FeedAssumption, FeedInv, NEW c \in Clients, NEW new \in Connection,
         conn' = [conn EXCEPT ![c] = new], new.ask = conn[c].ask,
         UNCHANGED <<queue, produced, due>>,
         seen' \in [Clients -> Seq(FeedMessages)],
         \A d \in Clients \ {c} : seen'[d] = seen[d],
         \/ seen'[c] \o Way(new.hand, new.inbox) = Flow(c)
         \/ OnTheWay(c) # <<>> /\ seen'[c] \o Way(new.hand, new.inbox) = seen[c] \o Tail(OnTheWay(c))
         \/ seen'[c] \o Way(new.hand, new.inbox) = seen[c],
         \A m \in Range(seen'[c]) : Wanted(c, m),
         HandlerSound(c)', NothingMissed(c)'
  PROVE  FeedInv'
<1>1. /\ conn' \in [Clients -> Connection] /\ conn'[c] = new
      /\ \A d \in Clients \ {c} : conn'[d] = conn[d]
  BY DEF FeedInv, FeedTypeOK
<1>2. FeedTypeOK'
  BY <1>1 DEF FeedInv, FeedTypeOK
<1>3. \A source : Horizon(source)' = Horizon(source)
  BY DEF Horizon
<1>4. \A p \in EnabledProjects : QueueSound(p)'
  BY <1>3 DEF FeedInv, QueueSound
<1>5. \A d \in Clients : Source(d)' = Source(d) /\ conn'[d].ask = conn[d].ask
  BY <1>1 DEF Source
<1>6. DueApart'
  <2>1. SUFFICES ASSUME NEW a \in Clients, NEW b \in Clients, a # b, Source(a)' = Source(b)',
                        conn'[a].ask.feed = "alerts"
                 PROVE  Range(due'[a]) \cap Range(due'[b]) = {}
    BY DEF DueApart
  <2>2. Source(a) = Source(b) /\ conn[a].ask.feed = "alerts"  BY <1>5, <2>1
  <2> QED  BY <2>1, <2>2 DEF FeedInv, DueApart
<1>7. \A d \in Clients \ {c} : HandlerSound(d)' /\ MessagesSound(d)' /\ NothingMissed(d)'
  <2>1. \A source \in EnabledProjects \X FeedNames :
          Horizon(source)' \in Nat /\ Horizon(source) <= Horizon(source)'
    BY <1>3, HorizonFacts DEF FeedInv
  <2> QED  BY <1>1, <2>1, OtherClient
<1>8. MessagesSound(c)'
  <2>1. Flow(c)' = seen'[c] \o Way(new.hand, new.inbox)
    BY <1>1 DEF Flow, OnTheWay, InHand, Way
  <2>2. PICK source : source = Source(c)  OBVIOUS
  <2>3. /\ \A m \in Range(Flow(c)) \cup Range(due[c]) : HandedOut(source, m)
        /\ Sorted(Flow(c), source) /\ Sorted(due[c], source)
    BY <2>2 DEF FeedInv, MessagesSound
  <2>4. /\ Flow(c) = seen[c] \o OnTheWay(c)
        /\ seen[c] \in Seq(FeedMessages) /\ OnTheWay(c) \in Seq(FeedMessages)
        /\ Range(Flow(c)) = Range(seen[c]) \cup Range(OnTheWay(c))
    BY FlowFacts DEF FeedInv, Flow
  <2>5. /\ Range(Flow(c)') \subseteq Range(Flow(c))
        /\ Sorted(Flow(c)', source)
    <3>1. CASE Flow(c)' = Flow(c)
      BY <2>3, <3>1
    <3>2. CASE OnTheWay(c) # <<>> /\ Flow(c)' = seen[c] \o Tail(OnTheWay(c))
      <4>1. /\ Tail(OnTheWay(c)) \in Seq(FeedMessages)
            /\ Range(Tail(OnTheWay(c))) \subseteq Range(OnTheWay(c))
        BY <2>4, <3>2, RangeOfTail
      <4>a. PICK rest \in Seq(FeedMessages) : rest = Tail(OnTheWay(c))  BY <4>1
      <4>b. Range(seen[c] \o rest) = Range(seen[c]) \cup Range(rest)
        BY <2>4, RangeConcatenation
      <4>2. Range(seen[c] \o Tail(OnTheWay(c))) = Range(seen[c]) \cup Range(Tail(OnTheWay(c)))
        BY <4>a, <4>b
      <4>3. Sorted(seen[c] \o Tail(OnTheWay(c)), source)
        BY <2>3, <2>4, <3>2, SortedWithout
      <4> QED  BY <2>4, <3>2, <4>1, <4>2, <4>3
    <3>3. CASE Flow(c)' = seen[c]
      <4>1. Sorted(seen[c], source)  BY <2>3, <2>4, SortedWithout
      <4> QED  BY <2>4, <3>3, <4>1
    <3> QED  BY <2>1, <3>1, <3>2, <3>3
  <2>6. \A m \in Range(Flow(c)') \cup Range(due'[c]) : HandedOut(source, m)
    BY <2>3, <2>5
  <2>7. \A m : HandedOut(source, m) => HandedOut(Source(c), m)'
    BY <1>3, <1>5, <2>2 DEF HandedOut
  <2>8. \A m \in Range(seen'[c]) : Wanted(c, m)'
    BY <1>1 DEF Wanted
  <2>9. Sorted(Flow(c)', Source(c)') /\ Sorted(due'[c], Source(c)')
    BY <1>5, <2>2, <2>3, <2>5
  <2> QED  BY <2>6, <2>7, <2>8, <2>9 DEF MessagesSound, Sorted, Before
<1> QED
  BY <1>2, <1>4, <1>6, <1>7, <1>8 DEF FeedInv

\* Nothing is handed on or dropped.
LEMMA NothingHanded ==
  ASSUME FeedAssumption, FeedInv, NEW c \in Clients, NEW new \in Connection,
         conn' = [conn EXCEPT ![c] = new], new.ask = conn[c].ask,
         new.hand = conn[c].hand, new.inbox = conn[c].inbox,
         UNCHANGED <<queue, produced, seen, due>>,
         HandlerSound(c)', Listening(c)' => Listening(c) \/ (seen[c] = <<>> /\ due[c] = <<>> /\ Flow(c) = <<>>)
  PROVE  FeedInv'
<1>1. conn'[c] = new  BY DEF FeedInv, FeedTypeOK
<1>a. OnTheWay(c) = Way(new.hand, new.inbox)
  BY FlowFacts DEF FeedInv
<1>b. OnTheWay(c)' = Way(new.hand, new.inbox)
  <2>1. conn'[c].hand = new.hand /\ conn'[c].inbox = new.inbox  BY <1>1
  <2>2. InHand(c)' = IF new.hand = NoMessage THEN <<>> ELSE <<new.hand>>  BY <2>1 DEF InHand
  <2>3. OnTheWay(c)' = InHand(c)' \o conn'[c].inbox  BY DEF OnTheWay
  <2> QED  BY <2>1, <2>2, <2>3 DEF Way
<1>2. OnTheWay(c)' = OnTheWay(c) /\ OnTheWay(c) = Way(new.hand, new.inbox)
  BY <1>a, <1>b
<1>3. \A m : Wanted(c, m)' <=> Wanted(c, m)
  BY <1>1 DEF Wanted
<1>4. NothingMissed(c)'
  <2>1. ASSUME Listening(c)'
        PROVE  Range(due[c]) = Range(seen[c]) \cup {m \in Range(OnTheWay(c)) : Wanted(c, m)}
    <3>1. CASE Listening(c)  BY <3>1 DEF FeedInv, NothingMissed
    <3>2. CASE seen[c] = <<>> /\ due[c] = <<>> /\ Flow(c) = <<>>
      <4>1. Range(OnTheWay(c)) \subseteq Range(Flow(c))  BY FlowFacts DEF FeedInv
      <4> QED  BY <3>2, <4>1, RangeOfOne
    <3> QED  BY <2>1, <3>1, <3>2
  <2> QED  BY <1>2, <1>3, <2>1 DEF NothingMissed
<1>5. /\ seen' \in [Clients -> Seq(FeedMessages)] /\ \A d \in Clients : seen'[d] = seen[d]
      /\ \A m \in Range(seen'[c]) : Wanted(c, m)
  BY DEF FeedInv, FeedTypeOK, MessagesSound
<1>6. seen'[c] \o Way(new.hand, new.inbox) = Flow(c)
  BY <1>2 DEF Flow
<1> QED  BY <1>4, <1>5, <1>6, HandlerStep

\* What is in the hand is dropped, and the client was not listening.
LEMMA HandDropped ==
  ASSUME FeedAssumption, FeedInv, NEW c \in Clients, NEW new \in Connection,
         conn' = [conn EXCEPT ![c] = new], new.ask = conn[c].ask,
         new.hand = NoMessage, new.inbox = conn[c].inbox,
         UNCHANGED <<queue, produced, seen, due>>,
         HandlerSound(c)', Listening(c)' => Listening(c) /\ conn[c].hand = NoMessage
  PROVE  FeedInv'
<1>1. conn'[c] = new  BY DEF FeedInv, FeedTypeOK
<1>2. conn[c].hand \in FeedMessages \cup {NoMessage} /\ conn[c].inbox \in Seq(FeedMessages)
  BY DEF FeedInv, FeedTypeOK, Connection
<1>3. CASE conn[c].hand = NoMessage
  <2>1. Listening(c)' => Listening(c)  OBVIOUS
  <2> QED  BY <1>3, <2>1, NothingHanded
<1>4. CASE conn[c].hand # NoMessage
  <2>1. Way(new.hand, new.inbox) = conn[c].inbox
    BY <1>2, WayFacts
  <2>a. OnTheWay(c) = Way(conn[c].hand, conn[c].inbox)
    BY FlowFacts DEF FeedInv
  <2>b. PICK hand \in FeedMessages \cup {NoMessage}, inbox \in Seq(FeedMessages) :
          hand = conn[c].hand /\ inbox = conn[c].inbox
    BY <1>2
  <2>c. Way(hand, inbox) # <<>> /\ Tail(Way(hand, inbox)) = inbox
    BY <1>4, <2>b, WayFacts
  <2>2. OnTheWay(c) # <<>> /\ Tail(OnTheWay(c)) = conn[c].inbox
    BY <2>a, <2>b, <2>c
  <2>3. ~Listening(c)'  BY <1>4
  <2>4. NothingMissed(c)'  BY <2>3 DEF NothingMissed
  <2>5. /\ seen' \in [Clients -> Seq(FeedMessages)] /\ \A d \in Clients : seen'[d] = seen[d]
        /\ \A m \in Range(seen'[c]) : Wanted(c, m)
    BY DEF FeedInv, FeedTypeOK, MessagesSound
  <2>6. OnTheWay(c) # <<>> /\ seen'[c] \o Way(new.hand, new.inbox) = seen[c] \o Tail(OnTheWay(c))
    BY <2>1, <2>2
  <2> QED  BY <2>4, <2>5, <2>6, HandlerStep
<1> QED  BY <1>3, <1>4

LEMMA ClientSubscribes ==
  ASSUME FeedAssumption, FeedInv, NEW c \in Clients, Subscribe(c)
  PROVE  FeedInv'
<1> DEFINE new == [conn[c] EXCEPT !.pc = "waiting", !.sub = TRUE]
<1>1. conn[c] \in Connection  BY DEF FeedInv, FeedTypeOK
<1>2. new \in Connection  BY <1>1, Zenon DEF Connection
<1>3. /\ new.pc = "waiting" /\ new.ask = conn[c].ask /\ new.sub = TRUE /\ new.inbox = conn[c].inbox
      /\ new.hand = conn[c].hand /\ new.event = conn[c].event /\ new.quiet = conn[c].quiet
  BY <1>1 DEF Connection
<1>a. conn \in [Clients -> Connection]  BY DEF FeedInv, FeedTypeOK
<1>b. conn' = [conn EXCEPT ![c] = new]  BY <1>a DEF Subscribe
<1>4. conn' = [conn EXCEPT ![c] = new] /\ UNCHANGED <<queue, produced, seen, due>>
  BY <1>b DEF Subscribe
<1> HIDE DEF new
<1>5. conn'[c] = new  BY <1>4 DEF FeedInv, FeedTypeOK
<1>6. HandlerSound(c)  BY DEF FeedInv
<1>7. HandlerSound(c)'
  BY <1>3, <1>5, <1>6 DEF HandlerSound, Subscribe
<1>8. seen[c] = <<>> /\ due[c] = <<>> /\ Flow(c) = <<>>
  BY <1>6, SourceFacts DEF Subscribe, HandlerSound
<1> QED  BY <1>2, <1>3, <1>4, <1>7, <1>8, NothingHanded

LEMMA SubscriptionFails ==
  ASSUME FeedAssumption, FeedInv, NEW c \in Clients, SubscribeFails(c)
  PROVE  FeedInv'
<1> DEFINE new == [conn[c] EXCEPT !.pc = "closing"]
<1>1. conn[c] \in Connection  BY DEF FeedInv, FeedTypeOK
<1>2. new \in Connection  BY <1>1, Zenon DEF Connection
<1>3. /\ new.pc = "closing" /\ new.ask = conn[c].ask /\ new.sub = conn[c].sub /\ new.inbox = conn[c].inbox
      /\ new.hand = conn[c].hand /\ new.event = conn[c].event /\ new.quiet = conn[c].quiet
  BY <1>1 DEF Connection
<1>a. conn \in [Clients -> Connection]  BY DEF FeedInv, FeedTypeOK
<1>b. conn' = [conn EXCEPT ![c] = new]  BY <1>a DEF SubscribeFails
<1>4. conn' = [conn EXCEPT ![c] = new] /\ UNCHANGED <<queue, produced, seen, due>>
  BY <1>b DEF SubscribeFails
<1> HIDE DEF new
<1>5. conn'[c] = new  BY <1>4 DEF FeedInv, FeedTypeOK
<1>6. HandlerSound(c)  BY DEF FeedInv
<1>7. HandlerSound(c)'
  BY <1>3, <1>5, <1>6 DEF HandlerSound, SubscribeFails
<1>8. ~Listening(c)'
  BY <1>3, <1>5 DEF Listening, SubscribeFails
<1> QED  BY <1>2, <1>3, <1>4, <1>7, <1>8, NothingHanded

LEMMA DisconnectIsNoticed ==
  ASSUME FeedAssumption, FeedInv, NEW c \in Clients, NoticeLeft(c)
  PROVE  FeedInv'
<1> DEFINE new == [conn[c] EXCEPT !.pc = "closing", !.hand = NoMessage]
<1>1. conn[c] \in Connection  BY DEF FeedInv, FeedTypeOK
<1>2. new \in Connection  BY <1>1, Zenon DEF Connection
<1>3. /\ new.pc = "closing" /\ new.ask = conn[c].ask /\ new.sub = conn[c].sub /\ new.inbox = conn[c].inbox
      /\ new.hand = NoMessage /\ new.event = conn[c].event /\ new.quiet = conn[c].quiet
  BY <1>1 DEF Connection
<1>a. conn \in [Clients -> Connection]  BY DEF FeedInv, FeedTypeOK
<1>b. conn' = [conn EXCEPT ![c] = new]  BY <1>a DEF NoticeLeft
<1>4. conn' = [conn EXCEPT ![c] = new] /\ UNCHANGED <<queue, produced, seen, due>>
  BY <1>b DEF NoticeLeft
<1> HIDE DEF new
<1>5. conn'[c] = new  BY <1>4 DEF FeedInv, FeedTypeOK
<1>6. HandlerSound(c)  BY DEF FeedInv
<1>7. HandlerSound(c)'
  BY <1>3, <1>5, <1>6 DEF HandlerSound, NoticeLeft
<1>8. ~Listening(c)'
  BY <1>3, <1>5 DEF Listening, NoticeLeft
<1> QED  BY <1>2, <1>3, <1>4, <1>7, <1>8, HandDropped

LEMMA ReadFails ==
  ASSUME FeedAssumption, FeedInv, NEW c \in Clients, RedisFails(c)
  PROVE  FeedInv'
<1> DEFINE new == [conn[c] EXCEPT !.pc = "closing", !.hand = NoMessage]
<1>1. conn[c] \in Connection  BY DEF FeedInv, FeedTypeOK
<1>2. new \in Connection  BY <1>1, Zenon DEF Connection
<1>3. /\ new.pc = "closing" /\ new.ask = conn[c].ask /\ new.sub = conn[c].sub /\ new.inbox = conn[c].inbox
      /\ new.hand = NoMessage /\ new.event = conn[c].event /\ new.quiet = conn[c].quiet
  BY <1>1 DEF Connection
<1>a. conn \in [Clients -> Connection]  BY DEF FeedInv, FeedTypeOK
<1>b. conn' = [conn EXCEPT ![c] = new]  BY <1>a DEF RedisFails
<1>4. conn' = [conn EXCEPT ![c] = new] /\ UNCHANGED <<queue, produced, seen, due>>
  BY <1>b DEF RedisFails
<1> HIDE DEF new
<1>5. conn'[c] = new  BY <1>4 DEF FeedInv, FeedTypeOK
<1>6. HandlerSound(c)  BY DEF FeedInv
<1>7. HandlerSound(c)'
  BY <1>3, <1>5, <1>6 DEF HandlerSound, RedisFails
<1>8. ~Listening(c)'
  BY <1>3, <1>5 DEF Listening, RedisFails
<1> QED  BY <1>2, <1>3, <1>4, <1>7, <1>8, HandDropped

LEMMA SendingFails ==
  ASSUME FeedAssumption, FeedInv, NEW c \in Clients, SendFails(c)
  PROVE  FeedInv'
<1> DEFINE new == [conn[c] EXCEPT !.pc = "closing", !.hand = NoMessage]
<1>1. conn[c] \in Connection  BY DEF FeedInv, FeedTypeOK
<1>2. new \in Connection  BY <1>1, Zenon DEF Connection
<1>3. /\ new.pc = "closing" /\ new.ask = conn[c].ask /\ new.sub = conn[c].sub /\ new.inbox = conn[c].inbox
      /\ new.hand = NoMessage /\ new.event = conn[c].event /\ new.quiet = conn[c].quiet
  BY <1>1 DEF Connection
<1>a. conn \in [Clients -> Connection]  BY DEF FeedInv, FeedTypeOK
<1>b. conn' = [conn EXCEPT ![c] = new]  BY <1>a DEF SendFails
<1>4. conn' = [conn EXCEPT ![c] = new] /\ UNCHANGED <<queue, produced, seen, due>>
  BY <1>b DEF SendFails
<1> HIDE DEF new
<1>5. conn'[c] = new  BY <1>4 DEF FeedInv, FeedTypeOK
<1>6. HandlerSound(c)  BY DEF FeedInv
<1>7. HandlerSound(c)'
  BY <1>3, <1>5, <1>6 DEF HandlerSound, SendFails
<1>8. ~Listening(c)'
  BY <1>3, <1>5 DEF Listening, SendFails
<1> QED  BY <1>2, <1>3, <1>4, <1>7, <1>8, HandDropped

LEMMA HandlerIsCancelled ==
  ASSUME FeedAssumption, FeedInv, NEW c \in Clients, CancelHandler(c)
  PROVE  FeedInv'
<1> DEFINE new == [conn[c] EXCEPT !.pc = "closing", !.hand = NoMessage]
<1>1. conn[c] \in Connection  BY DEF FeedInv, FeedTypeOK
<1>2. new \in Connection  BY <1>1, Zenon DEF Connection
<1>3. /\ new.pc = "closing" /\ new.ask = conn[c].ask /\ new.sub = conn[c].sub /\ new.inbox = conn[c].inbox
      /\ new.hand = NoMessage /\ new.event = conn[c].event /\ new.quiet = conn[c].quiet
  BY <1>1 DEF Connection
<1>a. conn \in [Clients -> Connection]  BY DEF FeedInv, FeedTypeOK
<1>b. conn' = [conn EXCEPT ![c] = new]  BY <1>a DEF CancelHandler
<1>4. conn' = [conn EXCEPT ![c] = new] /\ UNCHANGED <<queue, produced, seen, due>>
  BY <1>b DEF CancelHandler
<1> HIDE DEF new
<1>5. conn'[c] = new  BY <1>4 DEF FeedInv, FeedTypeOK
<1>6. HandlerSound(c)  BY DEF FeedInv
<1>7. HandlerSound(c)'
  BY <1>3, <1>5, <1>6 DEF HandlerSound, CancelHandler
<1>8. ~Listening(c)'
  BY <1>3, <1>5 DEF Listening, CancelHandler
<1> QED  BY <1>2, <1>3, <1>4, <1>7, <1>8, HandDropped

LEMMA FrameIsIgnored ==
  ASSUME FeedAssumption, FeedInv, NEW c \in Clients, IgnoreFrame(c)
  PROVE  FeedInv'
<1> DEFINE new == [conn[c] EXCEPT !.event = "none", !.hand = NoMessage]
<1>1. conn[c] \in Connection  BY DEF FeedInv, FeedTypeOK
<1>2. new \in Connection  BY <1>1, Zenon DEF Connection
<1>3. /\ new.pc = conn[c].pc /\ new.ask = conn[c].ask /\ new.sub = conn[c].sub /\ new.inbox = conn[c].inbox
      /\ new.hand = NoMessage /\ new.event = "none" /\ new.quiet = conn[c].quiet
  BY <1>1 DEF Connection
<1>a. conn \in [Clients -> Connection]  BY DEF FeedInv, FeedTypeOK
<1>b. conn' = [conn EXCEPT ![c] = new]  BY <1>a DEF IgnoreFrame
<1>4. conn' = [conn EXCEPT ![c] = new] /\ UNCHANGED <<queue, produced, seen, due>>
  BY <1>b DEF IgnoreFrame
<1> HIDE DEF new
<1>5. conn'[c] = new  BY <1>4 DEF FeedInv, FeedTypeOK
<1>6. HandlerSound(c)  BY DEF FeedInv
<1>7. HandlerSound(c)'
  BY <1>3, <1>5, <1>6 DEF HandlerSound, IgnoreFrame
<1>8. Listening(c)' => Listening(c) /\ conn[c].hand = NoMessage
  BY <1>3, <1>5, <1>6 DEF Listening, IgnoreFrame, HandlerSound
<1> QED  BY <1>2, <1>3, <1>4, <1>7, <1>8, HandDropped

LEMMA ClientMoves ==
  ASSUME FeedAssumption, FeedInv, NEW c \in Clients, ClientActs(c)
  PROVE  FeedInv'
<1>1. PICK e \in {"frame", "gone"} : conn' = [conn EXCEPT ![c].event = e, ![c].quiet = FALSE]
  BY DEF ClientActs
<1> DEFINE new == [conn[c] EXCEPT !.event = e, !.quiet = FALSE]
<1>2. conn[c] \in Connection  BY DEF FeedInv, FeedTypeOK
<1>3. new \in Connection  BY <1>2, Zenon DEF Connection
<1>4. /\ new.pc = conn[c].pc /\ new.ask = conn[c].ask /\ new.sub = conn[c].sub
      /\ new.inbox = conn[c].inbox /\ new.hand = conn[c].hand /\ new.event = e /\ ~new.quiet
  BY <1>2 DEF Connection
<1>5. conn' = [conn EXCEPT ![c] = new] /\ UNCHANGED <<queue, produced, seen, due>>
  BY <1>1 DEF ClientActs
<1> HIDE DEF new
<1>6. conn'[c] = new  BY <1>5 DEF FeedInv, FeedTypeOK
<1>7. HandlerSound(c)  BY DEF FeedInv
<1>8. HandlerSound(c)'
  <2>3. conn[c].pc \notin {"new", "closed", "refused"}  BY DEF ClientActs
  <2> QED  BY <1>4, <1>5, <1>6, <1>7, <2>3 DEF HandlerSound, Wanted
<1>9. Listening(c)' => Listening(c)
  BY <1>4, <1>6 DEF Listening, ClientActs
<1> QED  BY <1>3, <1>4, <1>5, <1>8, <1>9, NothingHanded

LEMMA SubscriptionEnds ==
  ASSUME FeedAssumption, FeedInv, NEW c \in Clients, TearDown(c)
  PROVE  FeedInv'
<1> DEFINE new == [conn[c] EXCEPT !.pc = "closed", !.sub = FALSE, !.inbox = <<>>]
<1>1. conn[c] \in Connection /\ conn \in [Clients -> Connection]  BY DEF FeedInv, FeedTypeOK
<1>2. new \in Connection
  <2>1. <<>> \in Seq(FeedMessages)  BY EmptySeq
  <2> QED  BY <1>1, <2>1, Zenon DEF Connection
<1>3. /\ new.pc = "closed" /\ new.ask = conn[c].ask /\ new.sub = FALSE /\ new.inbox = <<>>
      /\ new.hand = conn[c].hand /\ new.event = conn[c].event /\ new.quiet = conn[c].quiet
  BY <1>1 DEF Connection
<1>4. conn' = [conn EXCEPT ![c] = new]  BY <1>1 DEF TearDown
<1>5. UNCHANGED <<queue, produced, seen, due>> /\ conn[c].pc = "closing"  BY DEF TearDown
<1> HIDE DEF new
<1>6. conn'[c] = new  BY <1>1, <1>4
<1>7. HandlerSound(c)  BY DEF FeedInv
<1>8. HandlerSound(c)'
  BY <1>3, <1>5, <1>6, <1>7 DEF HandlerSound
<1>9. NothingMissed(c)'
  BY <1>3, <1>6 DEF NothingMissed, Listening
<1>10. /\ seen' \in [Clients -> Seq(FeedMessages)] /\ \A d \in Clients : seen'[d] = seen[d]
       /\ \A m \in Range(seen'[c]) : Wanted(c, m)
  BY <1>5 DEF FeedInv, FeedTypeOK, MessagesSound
<1>11. seen'[c] \o Way(new.hand, new.inbox) = seen[c]
  <2>1. new.hand = NoMessage  BY <1>3, <1>5, <1>7 DEF HandlerSound
  <2>2. seen[c] \o <<>> = seen[c] /\ <<>> \o <<>> = <<>>
    BY <1>10, <1>5, EmptySeq, ConcatEmptySeq
  <2> QED  BY <1>3, <1>5, <2>1, <2>2 DEF Way
<1> QED  BY <1>2, <1>3, <1>4, <1>5, <1>8, <1>9, <1>10, <1>11, HandlerStep

\* What an attempt to send leaves behind, whether the client was there.
LEMMA MessageIsSent ==
  ASSUME FeedAssumption, FeedInv, NEW c \in Clients, Deliver(c)
  PROVE  FeedInv'
<1> DEFINE new == [conn[c] EXCEPT !.pc = "waiting", !.hand = NoMessage]
<1>1. conn[c] \in Connection /\ conn \in [Clients -> Connection]  BY DEF FeedInv, FeedTypeOK
<1>2. new \in Connection  BY <1>1, Zenon DEF Connection
<1>3. /\ new.pc = "waiting" /\ new.ask = conn[c].ask /\ new.sub = conn[c].sub
      /\ new.inbox = conn[c].inbox
      /\ new.hand = NoMessage /\ new.event = conn[c].event /\ new.quiet = conn[c].quiet
  BY <1>1 DEF Connection
<1>4. conn' = [conn EXCEPT ![c] = new]  BY <1>1 DEF Deliver
<1>5. UNCHANGED <<queue, produced, due>> /\ conn[c].pc = "sending"  BY DEF Deliver
<1> HIDE DEF new
<1>6. conn'[c] = new  BY <1>1, <1>4
<1>7. HandlerSound(c)  BY DEF FeedInv
<1>8. HandlerSound(c)'
  BY <1>3, <1>5, <1>6, <1>7 DEF HandlerSound
<1>9. CASE conn[c].event = "gone"
  <2>1. seen' = [seen EXCEPT ![c] = seen[c]]  BY <1>9 DEF Deliver
  <2>2. seen' = seen  BY <2>1 DEF FeedInv, FeedTypeOK
  <2>3. ~Listening(c)'  BY <1>3, <1>6, <1>9 DEF Listening
  <2> QED  BY <1>2, <1>3, <1>4, <1>5, <1>8, <2>2, <2>3, HandDropped
<1>10. CASE conn[c].event # "gone"
  <2>1. PICK m \in FeedMessages : m = conn[c].hand
    BY <1>1, <1>5, <1>7 DEF Connection, HandlerSound
  <2>2. PICK s \in Seq(FeedMessages) : s = seen[c]  BY FlowFacts DEF FeedInv
  <2>3. PICK inbox \in Seq(FeedMessages) : inbox = conn[c].inbox  BY <1>1 DEF Connection
  <2>4. Append(s, m) \in Seq(FeedMessages)  OBVIOUS
  <2>5. seen' = [seen EXCEPT ![c] = Append(s, m)]  BY <1>10, <2>1, <2>2 DEF Deliver
  <2>6. /\ seen' \in [Clients -> Seq(FeedMessages)] /\ seen'[c] = Append(s, m)
        /\ \A d \in Clients \ {c} : seen'[d] = seen[d]
    BY <2>4, <2>5 DEF FeedInv, FeedTypeOK
  <2>7. /\ Way(m, inbox) = <<m>> \o inbox
        /\ Range(Way(m, inbox)) = {m} \cup Range(inbox)
        /\ Way(NoMessage, inbox) = inbox
    <3>1. m # NoMessage  BY DEF FeedAssumption
    <3> QED  BY <3>1, WayFacts DEF Way
  <2>8. Flow(c) = s \o Way(m, inbox) /\ OnTheWay(c) = Way(m, inbox)
    BY <2>1, <2>2, <2>3, FlowFacts DEF FeedInv, Flow
  <2>9. Append(s, m) \o inbox = s \o (<<m>> \o inbox)
    <3>1. Append(s, m) = s \o <<m>> /\ <<m>> \in Seq(FeedMessages)  BY AppendIsConcat
    <3> QED  BY <3>1, ConcatAssociative
  <2>10. seen'[c] \o Way(new.hand, new.inbox) = Flow(c)
    BY <1>3, <2>3, <2>6, <2>7, <2>8, <2>9
  <2>11. Wanted(c, m)  BY <1>5, <1>7, <2>1 DEF HandlerSound
  <2>12. Range(seen'[c]) = Range(s) \cup {m}  BY <2>6, RangeOfAppend
  <2>13. \A x \in Range(seen'[c]) : Wanted(c, x)
    BY <2>2, <2>11, <2>12 DEF FeedInv, MessagesSound
  <2>14. NothingMissed(c)'
    <3>1. \A x : Wanted(c, x)' <=> Wanted(c, x)  BY <1>3, <1>6 DEF Wanted
    <3>2. Listening(c)' => Listening(c)  BY <1>3, <1>5, <1>6 DEF Listening
    <3>3. OnTheWay(c)' = inbox
      <4>1. conn'[c].hand = NoMessage /\ conn'[c].inbox = inbox  BY <1>3, <1>6, <2>3
      <4>2. InHand(c)' = <<>>  BY <4>1 DEF InHand
      <4>3. <<>> \o inbox = inbox  BY ConcatEmptySeq
      <4> QED  BY <4>1, <4>2, <4>3 DEF OnTheWay
    <3>4. Listening(c) =>
            Range(due[c]) = Range(s) \cup {x \in {m} \cup Range(inbox) : Wanted(c, x)}
      BY <2>2, <2>7, <2>8 DEF FeedInv, NothingMissed
    <3>5. Listening(c) =>
            Range(due[c]) = (Range(s) \cup {m}) \cup {x \in Range(inbox) : Wanted(c, x)}
      BY <2>11, <3>4
    <3> QED  BY <1>5, <2>12, <3>1, <3>2, <3>3, <3>5 DEF NothingMissed
  <2> QED  BY <1>2, <1>3, <1>4, <1>5, <1>8, <2>6, <2>10, <2>13, <2>14, HandlerStep
<1> QED  BY <1>9, <1>10

LEMMA HeadBeforeTail ==
  ASSUME NEW S, NEW s \in Seq(S), s # <<>>
  PROVE  <<Head(s)>> \o Tail(s) = s
<1>1. /\ Head(s) \in S /\ Tail(s) \in Seq(S) /\ Len(Tail(s)) = Len(s) - 1
      /\ \A i \in 1 .. Len(Tail(s)) : Tail(s)[i] = s[i + 1]
  BY HeadTailProperties
<1>2. Len(s) \in Nat \ {0} /\ Head(s) = s[1]  OBVIOUS
<1>3. <<Head(s)>> \in Seq(S) /\ Len(<<Head(s)>>) = 1  BY <1>1
<1>4. /\ <<Head(s)>> \o Tail(s) \in Seq(S)
      /\ Len(<<Head(s)>> \o Tail(s)) = Len(s)
      /\ \A i \in 1 .. Len(s) :
           (<<Head(s)>> \o Tail(s))[i] = IF i <= 1 THEN <<Head(s)>>[i] ELSE Tail(s)[i - 1]
  <2>1. 1 + Len(Tail(s)) = Len(s)  BY <1>1, <1>2
  <2> QED  BY <1>1, <1>3, <2>1, ConcatProperties
<1>5. ASSUME NEW i \in 1 .. Len(s)  PROVE (<<Head(s)>> \o Tail(s))[i] = s[i]
  <2>1. CASE i = 1  BY <1>2, <1>4, <2>1
  <2>2. CASE i # 1
    <3>1. i - 1 \in 1 .. Len(Tail(s)) /\ ~(i <= 1) /\ (i - 1) + 1 = i  BY <1>1, <1>2, <2>2
    <3> QED  BY <1>1, <1>4, <3>1
  <2> QED  BY <2>1, <2>2
<1> QED  BY <1>4, <1>5, SeqEqual

\* What arrives is the first message on the way.
LEMMA ArrivedFacts ==
  ASSUME FeedAssumption, FeedInv, NEW c \in Clients,
         conn[c].pc = "waiting", Arrived(c) # NoMessage
  PROVE  /\ OnTheWay(c) \in Seq(FeedMessages) /\ OnTheWay(c) # <<>>
         /\ Arrived(c) = Head(OnTheWay(c)) /\ Arrived(c) \in FeedMessages
         /\ RestOfInbox(c) = Tail(OnTheWay(c))
         /\ conn[c].ask.feed = "alerts" => RestOfInbox(c) = <<>>
<1>1. PICK hand \in FeedMessages \cup {NoMessage}, inbox \in Seq(FeedMessages) :
        hand = conn[c].hand /\ inbox = conn[c].inbox
  BY DEF FeedInv, FeedTypeOK, Connection
<1>2. OnTheWay(c) = Way(hand, inbox) /\ OnTheWay(c) \in Seq(FeedMessages)
  BY <1>1, FlowFacts DEF FeedInv
<1>3. HandlerSound(c)  BY DEF FeedInv
<1>4. CASE conn[c].ask.feed = "alerts"
  <2>1. Arrived(c) = hand /\ hand # NoMessage /\ inbox = <<>>
    BY <1>1, <1>3, <1>4 DEF Arrived, HandlerSound
  <2>2. RestOfInbox(c) = <<>>  BY <1>1, <2>1 DEF RestOfInbox
  <2> QED  BY <1>2, <2>1, <2>2, WayFacts
<1>5. CASE conn[c].ask.feed # "alerts"
  <2>1. hand = NoMessage /\ inbox # <<>> /\ Arrived(c) = Head(inbox)
    BY <1>1, <1>3, <1>5 DEF Arrived, HandlerSound
  <2>2. RestOfInbox(c) = Tail(inbox)  BY <1>1, <2>1 DEF RestOfInbox
  <2>3. OnTheWay(c) = inbox  BY <1>2, <2>1, WayFacts
  <2>4. Head(inbox) \in FeedMessages  BY <2>1, HeadTailProperties
  <2> QED  BY <1>2, <1>5, <2>1, <2>2, <2>3, <2>4
<1> QED  BY <1>4, <1>5

LEMMA MessageArrives ==
  ASSUME FeedAssumption, FeedInv, NEW c \in Clients, NEW e \in {"none", "frame", "gone"},
         conn[c].pc = "waiting", Arrived(c) # NoMessage,
         e = conn[c].event \/ (e = "none" /\ conn[c].event = "frame"),
         conn' = [conn EXCEPT ![c] =
           [conn[c] EXCEPT !.pc = IF Wanted(c, Arrived(c)) THEN "sending" ELSE "waiting",
                           !.hand = IF Wanted(c, Arrived(c)) THEN Arrived(c) ELSE NoMessage,
                           !.inbox = RestOfInbox(c),
                           !.event = e]],
         UNCHANGED <<queue, produced, seen, due>>
  PROVE  FeedInv'
<1>1. PICK m \in FeedMessages : m = Arrived(c)  BY ArrivedFacts
<1>2. PICK way \in Seq(FeedMessages) : way = OnTheWay(c)  BY ArrivedFacts
<1>3. way # <<>> /\ m = Head(way) /\ RestOfInbox(c) = Tail(way)
  BY <1>1, <1>2, ArrivedFacts
<1>4. PICK rest \in Seq(FeedMessages) : rest = Tail(way)  BY <1>3, HeadTailProperties
<1>5. /\ Range(way) = {m} \cup Range(rest) /\ <<m>> \o rest = way /\ m # NoMessage
  BY <1>3, <1>4, RangeOfTail, HeadBeforeTail DEF FeedAssumption
<1> DEFINE place == IF Wanted(c, m) THEN "sending" ELSE "waiting"
           held == IF Wanted(c, m) THEN m ELSE NoMessage
           new == [conn[c] EXCEPT !.pc = place, !.hand = held, !.inbox = rest, !.event = e]
<1>6. conn' = [conn EXCEPT ![c] = new]  BY <1>1, <1>3, <1>4
<1>7. conn[c] \in Connection /\ conn \in [Clients -> Connection]  BY DEF FeedInv, FeedTypeOK
<1>8. place \in {"waiting", "sending"} /\ held \in FeedMessages \cup {NoMessage}  OBVIOUS
<1>9. new \in Connection
  <2> HIDE DEF place, held
  <2> QED  BY <1>7, <1>8, Zenon DEF Connection
<1>10. /\ new.pc = place /\ new.ask = conn[c].ask /\ new.sub = conn[c].sub /\ new.inbox = rest
       /\ new.hand = held /\ new.event = e /\ new.quiet = conn[c].quiet
  BY <1>7 DEF Connection
<1> HIDE DEF new
<1>11. conn'[c] = new  BY <1>6, <1>7
<1>12. HandlerSound(c)  BY DEF FeedInv
<1>13. \A x : Wanted(c, x)' <=> Wanted(c, x)  BY <1>10, <1>11 DEF Wanted
<1>14. HandlerSound(c)'
  <2>1. conn[c].ask.feed = "alerts" => rest = <<>>  BY <1>3, <1>4, ArrivedFacts
  <2>2. Wanted(c, conn[c].hand)' <=> Wanted(c, held)  BY <1>10, <1>11 DEF Wanted
  <2>3. e # "none" => conn[c].event # "none"  OBVIOUS
  <2> QED  BY <1>5, <1>10, <1>11, <1>12, <2>1, <2>2, <2>3 DEF HandlerSound
<1>15. /\ Wanted(c, m) => Way(new.hand, new.inbox) = way
       /\ ~Wanted(c, m) => Way(new.hand, new.inbox) = rest
  BY <1>5, <1>10, WayFacts DEF Way
<1>16. OnTheWay(c)' = Way(new.hand, new.inbox)
  <2>1. conn'[c].hand = new.hand /\ conn'[c].inbox = new.inbox  BY <1>11
  <2>2. InHand(c)' = IF new.hand = NoMessage THEN <<>> ELSE <<new.hand>>  BY <2>1 DEF InHand
  <2>3. OnTheWay(c)' = InHand(c)' \o conn'[c].inbox  BY DEF OnTheWay
  <2> QED  BY <2>1, <2>2, <2>3 DEF Way
<1>17. NothingMissed(c)'
  <2>1. Listening(c)' => Listening(c)
    BY <1>10, <1>11 DEF Listening
  <2>2. Listening(c) => Range(due[c]) = Range(seen[c]) \cup {x \in Range(way) : Wanted(c, x)}
    BY <1>2 DEF FeedInv, NothingMissed
  <2>3. {x \in Range(way) : Wanted(c, x)}
          = {x \in Range(Way(new.hand, new.inbox)) : Wanted(c, x)}
    BY <1>5, <1>15
  <2> QED  BY <1>13, <1>16, <2>1, <2>2, <2>3 DEF NothingMissed
<1>18. /\ seen' \in [Clients -> Seq(FeedMessages)] /\ \A d \in Clients : seen'[d] = seen[d]
       /\ \A x \in Range(seen'[c]) : Wanted(c, x)
  BY DEF FeedInv, FeedTypeOK, MessagesSound
<1>19. \/ seen'[c] \o Way(new.hand, new.inbox) = Flow(c)
       \/ OnTheWay(c) # <<>> /\ seen'[c] \o Way(new.hand, new.inbox) = seen[c] \o Tail(OnTheWay(c))
  BY <1>2, <1>3, <1>4, <1>15 DEF Flow
<1> QED  BY <1>6, <1>9, <1>10, <1>14, <1>17, <1>18, <1>19, HandlerStep

LEMMA MessageIsReceived ==
  ASSUME FeedAssumption, FeedInv, NEW c \in Clients, Receive(c) \/ ReceiveWithFrame(c)
  PROVE  FeedInv'
<1>1. conn[c] \in Connection /\ conn \in [Clients -> Connection]  BY DEF FeedInv, FeedTypeOK
<1>2. CASE Receive(c)
  <2>1. conn[c] = [conn[c] EXCEPT !.event = conn[c].event] /\ conn[c].event \in {"none", "frame", "gone"}
    BY <1>1 DEF Connection
  <2>2. conn' = [conn EXCEPT ![c] =
           [conn[c] EXCEPT !.pc = IF Wanted(c, Arrived(c)) THEN "sending" ELSE "waiting",
                           !.hand = IF Wanted(c, Arrived(c)) THEN Arrived(c) ELSE NoMessage,
                           !.inbox = RestOfInbox(c),
                           !.event = conn[c].event]]
    <3> DEFINE place == IF Wanted(c, Arrived(c)) THEN "sending" ELSE "waiting"
               held == IF Wanted(c, Arrived(c)) THEN Arrived(c) ELSE NoMessage
               rest == RestOfInbox(c)
    <3>1. conn' = [conn EXCEPT ![c].pc = place, ![c].hand = held, ![c].inbox = rest]
      BY <1>2 DEF Receive
    <3> HIDE DEF place, held, rest
    <3>2. conn' = [conn EXCEPT ![c] = [conn[c] EXCEPT !.pc = place, !.hand = held, !.inbox = rest]]
      BY <1>1, <3>1
    <3>3. [conn[c] EXCEPT !.pc = place, !.hand = held, !.inbox = rest]
            = [conn[c] EXCEPT !.pc = place, !.hand = held, !.inbox = rest, !.event = conn[c].event]
      BY <1>1 DEF Connection
    <3> QED  BY <3>2, <3>3 DEF place, held, rest
  <2> QED  BY <1>2, <2>1, <2>2, MessageArrives DEF Receive
<1>3. CASE ReceiveWithFrame(c)
  <2>1. conn' = [conn EXCEPT ![c] =
           [conn[c] EXCEPT !.pc = IF Wanted(c, Arrived(c)) THEN "sending" ELSE "waiting",
                           !.hand = IF Wanted(c, Arrived(c)) THEN Arrived(c) ELSE NoMessage,
                           !.inbox = RestOfInbox(c),
                           !.event = "none"]]
    <3> DEFINE place == IF Wanted(c, Arrived(c)) THEN "sending" ELSE "waiting"
               held == IF Wanted(c, Arrived(c)) THEN Arrived(c) ELSE NoMessage
               rest == RestOfInbox(c)
    <3>1. conn' = [conn EXCEPT ![c].pc = place, ![c].hand = held, ![c].inbox = rest, ![c].event = "none"]
      BY <1>3 DEF ReceiveWithFrame
    <3> HIDE DEF place, held, rest
    <3>2. conn' = [conn EXCEPT ![c] =
                     [conn[c] EXCEPT !.pc = place, !.hand = held, !.inbox = rest, !.event = "none"]]
      BY <1>1, <3>1
    <3> QED  BY <3>2 DEF place, held, rest
  <2> QED  BY <1>3, <2>1, MessageArrives DEF ReceiveWithFrame
<1> QED  BY <1>2, <1>3

LEMMA ClientConnects ==
  ASSUME FeedAssumption, FeedInv, NEW c \in Clients, NEW ask \in FeedAsks[c],
         Connect(c, ask) \/ ConfigFails(c, ask)
  PROVE  FeedInv'
<1>1. conn[c] \in Connection /\ conn \in [Clients -> Connection]  BY DEF FeedInv, FeedTypeOK
<1>2. ask \in FeedAsk /\ conn[c].pc = "new" /\ UNCHANGED <<queue, produced, seen, due>>
  BY DEF FeedAssumption, Connect, ConfigFails
<1>3. PICK place \in {"refused", "waiting", "accepted"} :
        /\ conn' = [conn EXCEPT ![c].pc = place, ![c].ask = ask]
        /\ place # "refused" => ask.project \in EnabledProjects
        /\ place = "waiting" => ask.feed = "alerts"
        /\ place = "accepted" => ask.feed # "alerts"
  <2>1. CASE Connect(c, ask)
    <3> DEFINE label == IF ~(ask.token /\ ask.project \in EnabledProjects) THEN "refused"
                        ELSE IF ask.feed = "alerts" THEN "waiting" ELSE "accepted"
    <3>1. /\ conn' = [conn EXCEPT ![c].pc = label, ![c].ask = ask]
          /\ label \in {"refused", "waiting", "accepted"}
          /\ label # "refused" => ask.project \in EnabledProjects
          /\ label = "waiting" => ask.feed = "alerts"
          /\ label = "accepted" => ask.feed # "alerts"
      BY <2>1 DEF Connect
    <3> QED  BY <3>1
  <2>2. CASE ConfigFails(c, ask)
    BY <2>2 DEF ConfigFails
  <2> QED  BY <2>1, <2>2
<1> DEFINE new == [conn[c] EXCEPT !.pc = place, !.ask = ask]
<1>4. new \in Connection  BY <1>1, <1>2, Zenon DEF Connection
<1>5. /\ new.pc = place /\ new.ask = ask /\ new.sub = conn[c].sub /\ new.inbox = conn[c].inbox
      /\ new.hand = conn[c].hand /\ new.event = conn[c].event /\ new.quiet = conn[c].quiet
  BY <1>1 DEF Connection
<1>6. conn' = [conn EXCEPT ![c] = new]  BY <1>1, <1>3
<1> HIDE DEF new
<1>7. /\ conn' \in [Clients -> Connection] /\ conn'[c] = new
      /\ \A d \in Clients \ {c} : conn'[d] = conn[d]
  BY <1>1, <1>4, <1>6
<1>8. /\ seen[c] = <<>> /\ due[c] = <<>> /\ conn[c].inbox = <<>> /\ ~conn[c].sub
      /\ conn[c].hand = NoMessage /\ (conn[c].event # "none" => ~conn[c].quiet)
  BY <1>2 DEF FeedInv, HandlerSound
<1>9. HandlerSound(c)'
  BY <1>2, <1>3, <1>5, <1>7, <1>8 DEF HandlerSound
<1>10. Flow(c)' = <<>> /\ OnTheWay(c)' = <<>> /\ Range(<<>>) = {}
  <2>1. <<>> \o <<>> = <<>>  BY EmptySeq, ConcatEmptySeq
  <2>2. conn'[c].hand = NoMessage /\ conn'[c].inbox = <<>>  BY <1>5, <1>7, <1>8
  <2> QED  BY <1>2, <1>8, <2>1, <2>2, RangeOfOne DEF Flow, OnTheWay, InHand
<1>11. MessagesSound(c)' /\ NothingMissed(c)'
  BY <1>2, <1>8, <1>10 DEF MessagesSound, NothingMissed, Sorted
<1>12. \A source : Horizon(source)' = Horizon(source)  BY <1>2 DEF Horizon
<1>13. \A d \in Clients \ {c} : HandlerSound(d)' /\ MessagesSound(d)' /\ NothingMissed(d)'
  <2>1. \A source \in EnabledProjects \X FeedNames :
          Horizon(source)' \in Nat /\ Horizon(source) <= Horizon(source)'
    BY <1>12, HorizonFacts DEF FeedInv
  <2> QED  BY <1>2, <1>7, <2>1, OtherClient
<1>14. DueApart'
  <2>1. SUFFICES ASSUME NEW a \in Clients, NEW b \in Clients, a # b, Source(a)' = Source(b)',
                        conn'[a].ask.feed = "alerts"
                 PROVE  Range(due'[a]) \cap Range(due'[b]) = {}
    BY DEF DueApart
  <2>2. CASE a = c \/ b = c  BY <1>2, <1>8, <1>10, <2>2
  <2>3. CASE a # c /\ b # c
    <3>1. Source(a) = Source(b) /\ conn[a].ask.feed = "alerts"
      BY <1>7, <2>1, <2>3 DEF Source
    <3> QED  BY <1>2, <2>1, <3>1 DEF FeedInv, DueApart
  <2> QED  BY <2>2, <2>3
<1>15. FeedTypeOK' /\ \A p \in EnabledProjects : QueueSound(p)'
  BY <1>2, <1>7, <1>12 DEF FeedInv, FeedTypeOK, QueueSound
<1> QED  BY <1>9, <1>11, <1>13, <1>14, <1>15 DEF FeedInv

\* The next message of its source reaches a client.
LEMMA MessageAdded ==
  ASSUME FeedAssumption, FeedInv, NEW c \in Clients,
         NEW source \in EnabledProjects \X FeedNames, source = Source(c), source = Source(c)',
         NEW m \in FeedMessages, m = Script[source][Horizon(source) + 1],
         Horizon(source) + 1 <= Len(Script[source]),
         Horizon(source)' = Horizon(source) + 1,
         conn[c].pc \notin {"new", "accepted", "refused"},
         conn'[c].pc = conn[c].pc, conn'[c].ask = conn[c].ask,
         conn'[c].event = conn[c].event, conn'[c].quiet = conn[c].quiet,
         seen'[c] = seen[c],
         OnTheWay(c)' = Append(OnTheWay(c), m),
         due'[c] = IF Wanted(c, m) THEN Append(due[c], m) ELSE due[c]
  PROVE  MessagesSound(c)' /\ NothingMissed(c)'
<1>1. PICK h \in Nat : h = Horizon(source)  BY HorizonFacts DEF FeedInv
<1>2. /\ DOMAIN Script[source] = 1 .. Len(Script[source]) /\ Len(Script[source]) \in Nat
      /\ h + 1 \in 1 .. Len(Script[source])
  <2>1. Script[source] \in Seq(FeedMessages)  BY DEF FeedAssumption
  <2> QED  BY <1>1, <2>1
<1>3. PICK way \in Seq(FeedMessages) : way = OnTheWay(c)  BY FlowFacts DEF FeedInv
<1>4. PICK sent \in Seq(FeedMessages) : sent = seen[c]  BY FlowFacts DEF FeedInv
<1>5. PICK meant \in Seq(FeedMessages) : meant = due[c]  BY FlowFacts DEF FeedInv
<1>6. /\ Flow(c) = sent \o way /\ sent \o way \in Seq(FeedMessages)
      /\ Range(Flow(c)) = Range(sent) \cup Range(way)
  BY <1>3, <1>4, ConcatProperties, RangeConcatenation DEF Flow
<1>7. Flow(c)' = Append(sent \o way, m)
  <2>1. Flow(c)' = sent \o Append(way, m)  BY <1>3, <1>4 DEF Flow
  <2>2. /\ Append(way, m) = way \o <<m>> /\ Append(sent \o way, m) = (sent \o way) \o <<m>>
        /\ <<m>> \in Seq(FeedMessages)
    BY <1>6, AppendIsConcat
  <2> QED  BY <2>1, <2>2, ConcatAssociative
<1>s. /\ \A x \in Range(Flow(c)) \cup Range(due[c]) : HandedOut(Source(c), x)
      /\ Sorted(Flow(c), Source(c)) /\ Sorted(due[c], Source(c))
      /\ \A x \in Range(seen[c]) : Wanted(c, x)
  BY DEF FeedInv, MessagesSound
<1>8. /\ \A x \in Range(sent \o way) \cup Range(meant) : HandedOut(source, x)
      /\ Sorted(sent \o way, source) /\ Sorted(meant, source)
      /\ \A x \in Range(sent) : Wanted(c, x)
  <2>1. /\ \A x \in Range(sent \o way) \cup Range(meant) : HandedOut(Source(c), x)
        /\ Sorted(sent \o way, Source(c)) /\ Sorted(meant, Source(c))
        /\ \A x \in Range(sent) : Wanted(c, x)
    BY <1>s, <1>4, <1>5, <1>6, Zenon
  <2> QED  BY <2>1, Zenon
<1>9. ASSUME NEW x, HandedOut(source, x)  PROVE Before(source, x, m) /\ HandedOut(source, x)'
  <2>1. PICK k \in 1 .. h : Script[source][k] = x  BY <1>1, <1>9 DEF HandedOut
  <2>2. k \in DOMAIN Script[source] /\ h + 1 \in DOMAIN Script[source] /\ k < h + 1
    BY <1>2, <2>1
  <2>3. Before(source, x, m)  BY <1>1, <2>1, <2>2 DEF Before
  <2>4. k \in 1 .. Horizon(source)'  BY <1>1, <2>1
  <2> QED  BY <2>1, <2>3, <2>4 DEF HandedOut
<1>10. HandedOut(source, m)'
  <2>1. h + 1 \in 1 .. Horizon(source)'  BY <1>1
  <2> QED  BY <1>1, <2>1 DEF HandedOut
<1>11. /\ Sorted(Append(sent \o way, m), source)
       /\ Range(Append(sent \o way, m)) = Range(sent \o way) \cup {m}
  <2>1. PICK flow \in Seq(FeedMessages) : flow = sent \o way  BY <1>6
  <2>2. Sorted(flow, source) /\ \A x \in Range(flow) : Before(source, x, m)
    BY <1>8, <1>9, <2>1
  <2>3. Sorted(Append(flow, m), source) /\ Range(Append(flow, m)) = Range(flow) \cup {m}
    BY <2>2, SortedAppend, RangeOfAppend
  <2> QED  BY <2>1, <2>3
<1>12. /\ Sorted(Append(meant, m), source)
       /\ Range(Append(meant, m)) = Range(meant) \cup {m}
  BY <1>5, <1>8, <1>9, SortedAppend, RangeOfAppend
<1>13. due'[c] = IF Wanted(c, m) THEN Append(meant, m) ELSE meant  BY <1>5
<1>14. \A x : Wanted(c, x)' <=> Wanted(c, x)  BY DEF Wanted
<1>15. MessagesSound(c)'
  <2>1. \A x \in Range(seen'[c]) : Wanted(c, x)'  BY <1>4, <1>8, <1>14
  <2>2. \A x \in Range(Flow(c)') \cup Range(due'[c]) : HandedOut(source, x)'
    BY <1>7, <1>8, <1>9, <1>10, <1>11, <1>12, <1>13
  <2>3. \A x : HandedOut(source, x)' => HandedOut(Source(c), x)'
    BY DEF HandedOut
  <2>4. Sorted(Flow(c)', Source(c)') /\ Sorted(due'[c], Source(c)')
    BY <1>7, <1>8, <1>11, <1>12, <1>13
  <2> QED  BY <2>1, <2>2, <2>3, <2>4 DEF MessagesSound, Sorted, Before
<1>16. NothingMissed(c)'
  <2>1. Listening(c)' <=> Listening(c)  BY DEF Listening
  <2>2. Listening(c) => Range(meant) = Range(sent) \cup {x \in Range(way) : Wanted(c, x)}
    BY <1>3, <1>4, <1>5 DEF FeedInv, NothingMissed
  <2>3. Range(Append(way, m)) = Range(way) \cup {m}  BY <1>3, RangeOfAppend
  <2>4. Listening(c) => Range(due'[c]) = Range(sent) \cup {x \in Range(Append(way, m)) : Wanted(c, x)}
    BY <1>12, <1>13, <2>2, <2>3
  <2> QED  BY <1>3, <1>4, <1>14, <2>1, <2>4 DEF NothingMissed
<1> QED  BY <1>15, <1>16


LEMMA AlertIsPushed ==
  ASSUME FeedAssumption, FeedInv, NEW p \in EnabledProjects, Push(p)
  PROVE  FeedInv'
<1> DEFINE source == <<p, "alerts">>
<1>1. /\ source \in EnabledProjects \X FeedNames /\ produced[source] < Len(Script[source])
      /\ source[1] = p /\ source[2] = "alerts"
      /\ queue' = [queue EXCEPT ![p] = Append(@, NextOf(source))]
      /\ produced' = [produced EXCEPT ![source] = @ + 1]
      /\ UNCHANGED <<conn, seen, due>>
  BY DEF Push, FeedNames
<1>2. /\ queue \in [EnabledProjects -> Seq(FeedMessages)]
      /\ produced \in [EnabledProjects \X FeedNames -> Nat]
      /\ DOMAIN Script = EnabledProjects \X FeedNames
      /\ \A s \in DOMAIN Script : produced[s] <= Len(Script[s])
  BY DEF FeedInv, FeedTypeOK, FeedAssumption
<1>3. PICK line \in Seq(FeedMessages) : line = queue[p]  BY <1>2
<1>4. PICK n \in Nat : n = produced[source]  BY <1>1, <1>2
<1>5. PICK script \in Seq(FeedMessages) : script = Script[source]  BY <1>1, HorizonFacts DEF FeedInv
<1>6. PICK m \in FeedMessages : m = NextOf(source) /\ m = script[n + 1]
  <2>1. n + 1 \in 1 .. Len(script)  BY <1>1, <1>4, <1>5
  <2> QED  BY <1>4, <1>5, <2>1 DEF NextOf
<1> HIDE DEF source
<1>7. /\ queue' \in [EnabledProjects -> Seq(FeedMessages)]
      /\ queue'[p] = Append(line, m)
      /\ \A q \in EnabledProjects \ {p} : queue'[q] = queue[q]
  <2>1. queue' = [queue EXCEPT ![p] = Append(line, m)]  BY <1>1, <1>3, <1>6
  <2>2. Append(line, m) \in Seq(FeedMessages)  OBVIOUS
  <2> QED  BY <1>2, <2>1, <2>2
<1>8. /\ produced' \in [EnabledProjects \X FeedNames -> Nat]
      /\ produced'[source] = n + 1
      /\ \A s \in (EnabledProjects \X FeedNames) \ {source} : produced'[s] = produced[s]
  BY <1>1, <1>2, <1>4
<1>9. \A s \in DOMAIN Script : produced'[s] <= Len(Script[s])
  <2>1. n + 1 <= Len(script)  BY <1>1, <1>4, <1>5
  <2> QED  BY <1>2, <1>5, <1>8, <2>1
<1>10. Horizon(source) = n - Len(line) /\ Horizon(source)' = n - Len(line) /\ Len(line) <= n
  <2>1. Len(Append(line, m)) = Len(line) + 1 /\ Len(line) \in Nat  OBVIOUS
  <2>2. Horizon(source) = n - Len(line)  BY <1>1, <1>3, <1>4 DEF Horizon
  <2>3. Horizon(source)' = (n + 1) - (Len(line) + 1)  BY <1>1, <1>7, <1>8, <2>1 DEF Horizon
  <2>4. Len(line) <= n  BY <1>3, <1>4 DEF FeedInv, QueueSound, source
  <2> QED  BY <2>1, <2>2, <2>3, <2>4
<1>11. \A s \in EnabledProjects \X FeedNames : Horizon(s)' = Horizon(s)
  <2>1. SUFFICES ASSUME NEW s \in EnabledProjects \X FeedNames, s # source
                 PROVE  Horizon(s)' = Horizon(s)
    BY <1>10
  <2>2. produced'[s] = produced[s]  BY <1>8, <2>1
  <2>3. s[2] = "alerts" => s[1] \in EnabledProjects \ {p}  BY <2>1 DEF source
  <2> QED  BY <1>7, <2>2, <2>3 DEF Horizon
<1>12. \A q \in EnabledProjects : QueueSound(q)'
  <2>1. SUFFICES ASSUME NEW q \in EnabledProjects  PROVE QueueSound(q)'  OBVIOUS
  <2>2. CASE q # p
    <3>1. <<q, "alerts">> \in (EnabledProjects \X FeedNames) \ {source}
      BY <2>2 DEF source, FeedNames
    <3>2. QueueSound(q)  BY DEF FeedInv
    <3>3. produced'[<<q, "alerts">>] = produced[<<q, "alerts">>]  BY <1>8, <3>1
    <3>4. Horizon(<<q, "alerts">>)' = Horizon(<<q, "alerts">>)  BY <1>11, <3>1
    <3>5. queue'[q] = queue[q]  BY <1>7, <2>2
    <3> QED  BY <3>2, <3>3, <3>4, <3>5, Zenon DEF QueueSound
  <2>3. CASE q = p
    <3>1. /\ Len(Append(line, m)) = Len(line) + 1 /\ Len(line) \in Nat
          /\ DOMAIN line = 1 .. Len(line) /\ DOMAIN Append(line, m) = 1 .. (Len(line) + 1)
      OBVIOUS
    <3>2. \A i \in 1 .. Len(line) : line[i] = script[n - Len(line) + i]
      <4>1. QueueSound(p)  BY DEF FeedInv
      <4>2. \A i \in DOMAIN queue[p] : queue[p][i] = Script[source][Horizon(source) + i]
        BY <4>1, Zenon DEF QueueSound, source
      <4> QED  BY <1>3, <1>5, <1>10, <3>1, <4>2
    <3>3. ASSUME NEW i \in 1 .. (Len(line) + 1)
          PROVE  Append(line, m)[i] = script[n - Len(line) + i]
      <4>1. CASE i <= Len(line)
        <5>1. i \in 1 .. Len(line)  BY <3>1, <4>1
        <5>2. Append(line, m)[i] = line[i]  BY <5>1
        <5> QED  BY <3>2, <5>1, <5>2
      <4>2. CASE i = Len(line) + 1
        <5>1. n - Len(line) + i = n + 1  BY <3>1, <4>2
        <5>2. Append(line, m)[i] = m  BY <4>2
        <5> QED  BY <1>6, <5>1, <5>2
      <4> QED  BY <3>1, <4>1, <4>2
    <3>4. /\ Len(queue'[p]) <= produced'[source]
          /\ \A i \in DOMAIN queue'[p] : queue'[p][i] = Script[source][Horizon(source)' + i]
      BY <1>5, <1>7, <1>8, <1>10, <3>1, <3>3
    <3> QED  BY <2>3, <3>4 DEF QueueSound, source
  <2> QED  BY <2>2, <2>3
<1>13. \A d \in Clients : HandlerSound(d)' /\ MessagesSound(d)' /\ NothingMissed(d)'
  <2>1. \A s \in EnabledProjects \X FeedNames : Horizon(s)' \in Nat /\ Horizon(s) <= Horizon(s)'
    BY <1>11, HorizonFacts DEF FeedInv
  <2> QED  BY <1>1, <2>1, OtherClient
<1>14. FeedTypeOK' /\ DueApart'
  BY <1>1, <1>7, <1>8, <1>9 DEF FeedInv, FeedTypeOK, DueApart, Source
<1> QED  BY <1>12, <1>13, <1>14 DEF FeedInv

\* A copy of what is published is on its way to a subscriber.
LEMMA CopyArrives ==
  ASSUME FeedAssumption, FeedInv, NEW c \in Clients,
         NEW source \in EnabledProjects \X FeedNames, source = Source(c), source[2] # "alerts",
         NEW m \in FeedMessages, m = Script[source][Horizon(source) + 1],
         Horizon(source) + 1 <= Len(Script[source]),
         Horizon(source)' = Horizon(source) + 1,
         conn[c].sub,
         conn'[c] = [conn[c] EXCEPT !.inbox = Append(@, m)],
         seen'[c] = seen[c],
         due'[c] = IF Wanted(c, m) THEN Append(due[c], m) ELSE due[c]
  PROVE  conn'[c] \in Connection /\ HandlerSound(c)' /\ MessagesSound(c)' /\ NothingMissed(c)'
<1>1. conn[c] \in Connection /\ HandlerSound(c)  BY DEF FeedInv, FeedTypeOK
<1>2. PICK inbox \in Seq(FeedMessages) : inbox = conn[c].inbox  BY <1>1 DEF Connection
<1>3. Append(inbox, m) \in Seq(FeedMessages)  OBVIOUS
<1> DEFINE new == [conn[c] EXCEPT !.inbox = Append(inbox, m)]
<1>4. conn'[c] = new /\ new \in Connection
  <2>1. new \in Connection  BY <1>1, <1>3, Zenon DEF Connection
  <2> QED  BY <1>2, <2>1
<1>a. /\ new.inbox = Append(inbox, m) /\ new.pc = conn[c].pc /\ new.ask = conn[c].ask
      /\ new.sub = conn[c].sub /\ new.hand = conn[c].hand
      /\ new.event = conn[c].event /\ new.quiet = conn[c].quiet
  BY <1>1 DEF Connection
<1> HIDE DEF new
<1>5. /\ conn'[c].inbox = Append(inbox, m) /\ conn'[c].pc = conn[c].pc /\ conn'[c].ask = conn[c].ask
      /\ conn'[c].sub = conn[c].sub /\ conn'[c].hand = conn[c].hand
      /\ conn'[c].event = conn[c].event /\ conn'[c].quiet = conn[c].quiet
  BY <1>4, <1>a
<1>6. /\ conn[c].pc \notin {"new", "accepted", "refused"} /\ conn[c].ask.feed # "alerts"
      /\ Source(c)' = source
  BY <1>1, <1>5 DEF HandlerSound, Source
<1>7. HandlerSound(c)'
  <2>1. \A x : Wanted(c, x)' <=> Wanted(c, x)  BY <1>5 DEF Wanted
  <2> QED  BY <1>1, <1>5, <1>6, <2>1 DEF HandlerSound
<1>8. OnTheWay(c)' = Append(OnTheWay(c), m)
  <2>1. PICK hand \in FeedMessages \cup {NoMessage} : hand = conn[c].hand
    BY <1>1 DEF Connection
  <2>2. /\ OnTheWay(c) = Way(hand, inbox) /\ OnTheWay(c)' = Way(hand, Append(inbox, m))
    BY <1>2, <1>5, <2>1 DEF OnTheWay, InHand, Way
  <2>3. Way(hand, Append(inbox, m)) = Append(Way(hand, inbox), m)
    <3>1. CASE hand = NoMessage
      <4>1. Way(hand, inbox) = inbox  BY <3>1, WayFacts
      <4>2. Way(hand, Append(inbox, m)) = Append(inbox, m)  BY <1>3, <3>1, WayFacts
      <4> QED  BY <4>1, <4>2
    <3>2. CASE hand # NoMessage
      <4>1. hand \in FeedMessages  BY <3>2
      <4>2. <<hand>> \in Seq(FeedMessages) /\ <<m>> \in Seq(FeedMessages)  BY <4>1
      <4>3. Append(inbox, m) = inbox \o <<m>>  BY AppendIsConcat
      <4>4. <<hand>> \o inbox \in Seq(FeedMessages)  BY <4>2, ConcatProperties
      <4>5. Append(<<hand>> \o inbox, m) = (<<hand>> \o inbox) \o <<m>>  BY <4>4, AppendIsConcat
      <4>6. <<hand>> \o (inbox \o <<m>>) = (<<hand>> \o inbox) \o <<m>>
        BY <4>2, ConcatAssociative
      <4> QED  BY <3>2, <4>3, <4>5, <4>6, Zenon DEF Way
    <3> QED  BY <3>1, <3>2
  <2> QED  BY <2>2, <2>3
<1> QED  BY <1>4, <1>5, <1>6, <1>7, <1>8, MessageAdded

LEMMA MessageIsPublished ==
  ASSUME FeedAssumption, FeedInv, NEW p \in EnabledProjects, NEW feed \in FeedNames \ {"alerts"},
         Publish(p, feed)
  PROVE  FeedInv'
<1> DEFINE source == <<p, feed>>
           subscribers == {c \in Clients : conn[c].sub /\ Source(c) = source}
           m == NextOf(source)
<1>1. /\ source \in EnabledProjects \X FeedNames /\ produced[source] < Len(Script[source])
      /\ source[1] = p /\ source[2] = feed /\ source[2] # "alerts"
      /\ produced' = [produced EXCEPT ![source] = @ + 1]
      /\ conn' = [c \in Clients |->
                    IF c \in subscribers THEN [conn[c] EXCEPT !.inbox = Append(@, m)] ELSE conn[c]]
      /\ due' = [c \in Clients |->
                   IF c \in subscribers /\ Wanted(c, m) THEN Append(due[c], m) ELSE due[c]]
      /\ UNCHANGED <<queue, seen>>
  BY DEF Publish
<1>2. /\ produced \in [EnabledProjects \X FeedNames -> Nat]
      /\ DOMAIN Script = EnabledProjects \X FeedNames
      /\ \A s \in DOMAIN Script : produced[s] <= Len(Script[s])
      /\ due \in [Clients -> Seq(FeedMessages)]
  BY DEF FeedInv, FeedTypeOK, FeedAssumption
<1>3. PICK n \in Nat : n = produced[source]  BY <1>1, <1>2
<1>4. PICK script \in Seq(FeedMessages) : script = Script[source]  BY <1>1, HorizonFacts DEF FeedInv
<1>5. m \in FeedMessages /\ m = Script[source][n + 1] /\ n + 1 <= Len(Script[source])
  <2>1. n + 1 \in 1 .. Len(script)  BY <1>1, <1>3, <1>4
  <2> QED  BY <1>3, <1>4, <2>1 DEF NextOf
<1> HIDE DEF source, m
<1>6. /\ produced' \in [EnabledProjects \X FeedNames -> Nat]
      /\ produced'[source] = n + 1
      /\ \A s \in (EnabledProjects \X FeedNames) \ {source} : produced'[s] = produced[s]
  BY <1>1, <1>2, <1>3
<1>7. \A s \in DOMAIN Script : produced'[s] <= Len(Script[s])
  BY <1>2, <1>5, <1>6
<1>8. Horizon(source) = n /\ Horizon(source)' = n + 1
  BY <1>1, <1>3, <1>6 DEF Horizon
<1>9. \A s \in (EnabledProjects \X FeedNames) \ {source} : Horizon(s)' = Horizon(s)
  BY <1>1, <1>6 DEF Horizon
<1>10. \A q \in EnabledProjects : QueueSound(q)'
  <2>1. SUFFICES ASSUME NEW q \in EnabledProjects  PROVE QueueSound(q)'  OBVIOUS
  <2>2. <<q, "alerts">> \in (EnabledProjects \X FeedNames) \ {source}
    BY <1>1 DEF FeedNames
  <2>3. QueueSound(q)  BY DEF FeedInv
  <2>4. produced'[<<q, "alerts">>] = produced[<<q, "alerts">>]  BY <1>6, <2>2
  <2>5. Horizon(<<q, "alerts">>)' = Horizon(<<q, "alerts">>)  BY <1>9, <2>2
  <2> QED  BY <1>1, <2>3, <2>4, <2>5, Zenon DEF QueueSound
<1>11. ASSUME NEW c \in Clients, c \in subscribers
       PROVE  /\ conn'[c] \in Connection /\ due'[c] \in Seq(FeedMessages)
              /\ HandlerSound(c)' /\ MessagesSound(c)' /\ NothingMissed(c)'
  <2>1. /\ source = Source(c) /\ conn[c].sub
        /\ conn'[c] = [conn[c] EXCEPT !.inbox = Append(@, m)]
        /\ seen'[c] = seen[c]
        /\ due'[c] = IF Wanted(c, m) THEN Append(due[c], m) ELSE due[c]
    BY <1>1, <1>11
  <2>2. due'[c] \in Seq(FeedMessages)  BY <1>2, <1>5, <2>1
  <2> QED  BY <1>1, <1>5, <1>8, <2>1, <2>2, CopyArrives
<1>12. ASSUME NEW c \in Clients, c \notin subscribers
       PROVE  /\ conn'[c] \in Connection /\ due'[c] \in Seq(FeedMessages)
              /\ HandlerSound(c)' /\ MessagesSound(c)' /\ NothingMissed(c)'
  <2>1. conn'[c] = conn[c] /\ seen'[c] = seen[c] /\ due'[c] = due[c]  BY <1>1, <1>12
  <2>2. \A s \in EnabledProjects \X FeedNames : Horizon(s)' \in Nat /\ Horizon(s) <= Horizon(s)'
    <3>1. SUFFICES ASSUME NEW s \in EnabledProjects \X FeedNames
                   PROVE  Horizon(s)' \in Nat /\ Horizon(s) <= Horizon(s)'
      OBVIOUS
    <3>2. CASE s = source  BY <1>3, <1>8, <3>2
    <3>3. CASE s # source
      <4>1. PICK k \in Nat : k = Horizon(s)  BY HorizonFacts DEF FeedInv
      <4>2. Horizon(s)' = k  BY <1>9, <3>3, <4>1
      <4> QED  BY <4>1, <4>2
    <3> QED  BY <3>2, <3>3
  <2>3. HandlerSound(c)' /\ MessagesSound(c)' /\ NothingMissed(c)'  BY <2>1, <2>2, OtherClient
  <2> QED  BY <1>2, <2>1, <2>3 DEF FeedInv, FeedTypeOK
<1>13. DueApart'
  <2>1. SUFFICES ASSUME NEW a \in Clients, NEW b \in Clients, a # b, Source(a)' = Source(b)',
                        conn'[a].ask.feed = "alerts"
                 PROVE  Range(due'[a]) \cap Range(due'[b]) = {}
    BY DEF DueApart
  <2>2. \A c \in Clients : conn[c] \in Connection  BY DEF FeedInv, FeedTypeOK
  <2>3. \A c \in Clients : conn'[c].ask = conn[c].ask
    <3>1. SUFFICES ASSUME NEW c \in Clients  PROVE conn'[c].ask = conn[c].ask  OBVIOUS
    <3>2. [conn[c] EXCEPT !.inbox = Append(@, m)].ask = conn[c].ask  BY <2>2 DEF Connection
    <3> QED  BY <1>1, <3>2
  <2>4. Source(a) = Source(b) /\ conn[a].ask.feed = "alerts" /\ Source(a)[2] = "alerts"
    BY <2>1, <2>3 DEF Source
  <2>5. a \notin subscribers /\ b \notin subscribers  BY <1>1, <2>4
  <2> QED  BY <1>1, <2>1, <2>4, <2>5 DEF FeedInv, DueApart
<1>14. FeedTypeOK'
  <2>1. conn' \in [Clients -> Connection] /\ due' \in [Clients -> Seq(FeedMessages)]
    <3>1. DOMAIN conn' = Clients /\ DOMAIN due' = Clients /\ conn' = [c \in Clients |-> conn'[c]]
          /\ due' = [c \in Clients |-> due'[c]]
      BY <1>1
    <3>2. \A c \in Clients : conn'[c] \in Connection /\ due'[c] \in Seq(FeedMessages)
      BY <1>11, <1>12
    <3> QED  BY <3>1, <3>2
  <2> QED  BY <1>1, <1>6, <1>7, <2>1 DEF FeedInv, FeedTypeOK
<1> QED  BY <1>10, <1>11, <1>12, <1>13, <1>14 DEF FeedInv

LEMMA AlertIsPopped ==
  ASSUME FeedAssumption, FeedInv, NEW c \in Clients, Serve(c)
  PROVE  FeedInv'
<1>1. /\ conn[c] \in Connection /\ conn \in [Clients -> Connection] /\ HandlerSound(c)
      /\ queue \in [EnabledProjects -> Seq(FeedMessages)]
      /\ due \in [Clients -> Seq(FeedMessages)]
  BY DEF FeedInv, FeedTypeOK
<1>2. /\ conn[c].pc = "waiting" /\ conn[c].ask.feed = "alerts" /\ conn[c].hand = NoMessage
      /\ conn[c].inbox = <<>> /\ conn[c].ask.project \in EnabledProjects
      /\ UNCHANGED <<produced, seen>>
  BY <1>1 DEF Serve, HandlerSound
<1>3. PICK p \in EnabledProjects : p = conn[c].ask.project  BY <1>2
<1>4. PICK line \in Seq(FeedMessages) : line = queue[p]  BY <1>1
<1>5. PICK m \in FeedMessages : m = Head(line)
  BY <1>3, <1>4, RangeOfTail DEF Serve
<1>6. /\ line # <<>> /\ Tail(line) \in Seq(FeedMessages)
      /\ conn' = [conn EXCEPT ![c].hand = m]
      /\ due' = [due EXCEPT ![c] = IF Wanted(c, m) THEN Append(@, m) ELSE @]
      /\ queue' = [queue EXCEPT ![p] = Tail(line)]
  BY <1>3, <1>4, <1>5, RangeOfTail DEF Serve
<1> DEFINE source == <<p, "alerts">>
<1>7. source \in EnabledProjects \X FeedNames /\ source[1] = p /\ source[2] = "alerts" /\ source = Source(c)
  BY <1>2, <1>3 DEF FeedNames, Source
<1>8. PICK script \in Seq(FeedMessages) : script = Script[source]  BY <1>7, HorizonFacts DEF FeedInv
<1>9. PICK n \in Nat : n = produced[source] /\ n <= Len(script)
  BY <1>7, <1>8, HorizonFacts DEF FeedInv
<1>10. /\ Len(line) <= n
       /\ \A i \in DOMAIN line : line[i] = Script[source][Horizon(source) + i]
  <2>1. QueueSound(p)  BY DEF FeedInv
  <2> QED  BY <1>4, <1>9, <2>1, Zenon DEF QueueSound, source
<1> HIDE DEF source
<1>11. /\ Len(line) \in Nat \ {0} /\ DOMAIN line = 1 .. Len(line) /\ m = line[1]
       /\ Len(Tail(line)) = Len(line) - 1 /\ DOMAIN Tail(line) = 1 .. (Len(line) - 1)
       /\ \A i \in 1 .. (Len(line) - 1) : Tail(line)[i] = line[i + 1]
  <2>1. Len(line) \in Nat \ {0} /\ DOMAIN line = 1 .. Len(line) /\ m = line[1]  BY <1>5, <1>6
  <2>2. /\ Len(Tail(line)) = Len(line) - 1 /\ \A i \in 1 .. Len(Tail(line)) : Tail(line)[i] = line[i + 1]
    BY <1>6, HeadTailProperties
  <2>3. DOMAIN Tail(line) = 1 .. Len(Tail(line))  BY <1>6
  <2> QED  BY <2>1, <2>2, <2>3
<1>12. PICK h \in Nat : h = n - Len(line)
  <2>1. \A k \in Nat : k <= n => n - k \in Nat  OBVIOUS
  <2> QED  BY <1>10, <1>11, <2>1
<1>13. Horizon(source) = h  BY <1>4, <1>7, <1>9, <1>12 DEF Horizon
<1>14. /\ queue' \in [EnabledProjects -> Seq(FeedMessages)] /\ queue'[p] = Tail(line)
       /\ \A q \in EnabledProjects \ {p} : queue'[q] = queue[q]
  BY <1>1, <1>6
<1>15. Horizon(source)' = h + 1
  <2>1. Horizon(source)' = n - (Len(line) - 1)  BY <1>2, <1>7, <1>9, <1>11, <1>14 DEF Horizon
  <2> QED  BY <1>11, <1>12, <2>1
<1>16. \A s \in (EnabledProjects \X FeedNames) \ {source} : Horizon(s)' = Horizon(s)
  <2>1. SUFFICES ASSUME NEW s \in (EnabledProjects \X FeedNames) \ {source}
                 PROVE  Horizon(s)' = Horizon(s)
    OBVIOUS
  <2>2. s[2] = "alerts" => s[1] \in EnabledProjects \ {p}  BY DEF source
  <2> QED  BY <1>2, <1>14, <2>2 DEF Horizon
<1>17. m = Script[source][h + 1] /\ h + 1 <= Len(Script[source])
  <2>1. h + 1 <= n  BY <1>11, <1>12
  <2>2. m = Script[source][h + 1]  BY <1>10, <1>11, <1>13
  <2> QED  BY <1>8, <1>9, <2>1, <2>2
<1>18. \A q \in EnabledProjects : QueueSound(q)'
  <2>1. SUFFICES ASSUME NEW q \in EnabledProjects  PROVE QueueSound(q)'  OBVIOUS
  <2>2. CASE q # p
    <3>1. <<q, "alerts">> \in (EnabledProjects \X FeedNames) \ {source}
      BY <2>2 DEF source, FeedNames
    <3>2. QueueSound(q)  BY DEF FeedInv
    <3>3. Horizon(<<q, "alerts">>)' = Horizon(<<q, "alerts">>)  BY <1>16, <3>1
    <3>4. queue'[q] = queue[q] /\ produced' = produced  BY <1>2, <1>14, <2>2
    <3> QED  BY <3>2, <3>3, <3>4, Zenon DEF QueueSound
  <2>3. CASE q = p
    <3>1. Len(queue'[p]) <= produced'[source]  BY <1>2, <1>9, <1>10, <1>11, <1>14
    <3>2. ASSUME NEW i \in 1 .. (Len(line) - 1)
          PROVE  Tail(line)[i] = Script[source][(h + 1) + i]
      <4>1. i + 1 \in 1 .. Len(line) /\ h + (i + 1) = (h + 1) + i  BY <1>11
      <4>2. line[i + 1] = Script[source][h + (i + 1)]  BY <1>10, <1>11, <1>13, <4>1
      <4> QED  BY <1>11, <4>1, <4>2
    <3>3. \A i \in DOMAIN queue'[p] : queue'[p][i] = Script[source][Horizon(source)' + i]
      BY <1>11, <1>14, <1>15, <3>2
    <3> QED  BY <2>3, <3>1, <3>3 DEF QueueSound, source
  <2> QED  BY <2>2, <2>3
<1> DEFINE new == [conn[c] EXCEPT !.hand = m]
<1>19. new \in Connection  BY <1>1, <1>5, Zenon DEF Connection
<1>20. /\ new.hand = m /\ new.pc = conn[c].pc /\ new.ask = conn[c].ask /\ new.sub = conn[c].sub
       /\ new.inbox = conn[c].inbox /\ new.event = conn[c].event /\ new.quiet = conn[c].quiet
  BY <1>1 DEF Connection
<1>21. conn' = [conn EXCEPT ![c] = new]  BY <1>1, <1>6
<1> HIDE DEF new
<1>22. /\ conn' \in [Clients -> Connection] /\ conn'[c] = new
       /\ \A d \in Clients \ {c} : conn'[d] = conn[d]
  BY <1>1, <1>19, <1>21
<1>23. /\ due'[c] = IF Wanted(c, m) THEN Append(due[c], m) ELSE due[c]
       /\ \A d \in Clients \ {c} : due'[d] = due[d]
       /\ due' \in [Clients -> Seq(FeedMessages)]
  BY <1>1, <1>6
<1>24. m # NoMessage  BY DEF FeedAssumption
<1>25. HandlerSound(c)'
  BY <1>1, <1>2, <1>20, <1>22, <1>24 DEF HandlerSound
<1>26. OnTheWay(c)' = Append(OnTheWay(c), m)
  <2>1. OnTheWay(c) = <<>> /\ OnTheWay(c)' = <<m>>
    <3>1. <<>> \in Seq(FeedMessages) /\ <<m>> \in Seq(FeedMessages)  OBVIOUS
    <3>2. <<>> \o <<>> = <<>> /\ <<m>> \o <<>> = <<m>>  BY <3>1, ConcatEmptySeq
    <3>3. InHand(c) = <<>> /\ InHand(c)' = <<m>>  BY <1>2, <1>20, <1>22, <1>24 DEF InHand
    <3> QED  BY <1>2, <1>20, <1>22, <3>2, <3>3 DEF OnTheWay
  <2>2. Append(<<>>, m) = <<m>>  OBVIOUS
  <2> QED  BY <2>1, <2>2
<1>27. MessagesSound(c)' /\ NothingMissed(c)'
  <2>1. source = Source(c)' /\ conn[c].pc \notin {"new", "accepted", "refused"}
    BY <1>2, <1>7, <1>20, <1>22 DEF Source
  <2>2. /\ conn'[c].pc = conn[c].pc /\ conn'[c].ask = conn[c].ask
        /\ conn'[c].event = conn[c].event /\ conn'[c].quiet = conn[c].quiet /\ seen'[c] = seen[c]
    BY <1>2, <1>20, <1>22
  <2> QED  BY <1>5, <1>7, <1>13, <1>15, <1>17, <1>23, <1>26, <2>1, <2>2, MessageAdded
<1>28. \A d \in Clients \ {c} : HandlerSound(d)' /\ MessagesSound(d)' /\ NothingMissed(d)'
  <2>1. \A s \in EnabledProjects \X FeedNames : Horizon(s)' \in Nat /\ Horizon(s) <= Horizon(s)'
    <3>1. SUFFICES ASSUME NEW s \in EnabledProjects \X FeedNames
                   PROVE  Horizon(s)' \in Nat /\ Horizon(s) <= Horizon(s)'
      OBVIOUS
    <3>2. CASE s = source  BY <1>13, <1>15, <3>2
    <3>3. CASE s # source
      <4>1. PICK k \in Nat : k = Horizon(s)  BY HorizonFacts DEF FeedInv
      <4>2. Horizon(s)' = k  BY <1>16, <3>3, <4>1
      <4> QED  BY <4>1, <4>2
    <3> QED  BY <3>2, <3>3
  <2> QED  BY <1>2, <1>22, <1>23, <2>1, OtherClient
<1>29. \A d \in Clients : Source(d)' = Source(d) /\ conn'[d].ask = conn[d].ask
  BY <1>20, <1>22 DEF Source
<1>30. ASSUME NEW d \in Clients, Source(d) = source  PROVE m \notin Range(due[d])
  <2>1. SUFFICES ASSUME m \in Range(due[d])  PROVE FALSE  OBVIOUS
  <2>2. HandedOut(source, m)
    <3>1. MessagesSound(d)  BY DEF FeedInv
    <3> QED  BY <1>30, <2>1, <3>1 DEF MessagesSound
  <2>3. PICK k \in 1 .. h : script[k] = m  BY <1>8, <1>13, <2>2 DEF HandedOut
  <2>4. DOMAIN script = 1 .. Len(script) /\ Len(script) \in Nat  OBVIOUS
  <2>5. k \in DOMAIN script /\ h + 1 \in DOMAIN script  BY <1>8, <1>17, <2>3, <2>4
  <2>6. script[k] = script[h + 1]  BY <1>8, <1>17, <2>3
  <2>7. source \in DOMAIN Script  BY <1>7 DEF FeedAssumption
  <2>8. k = h + 1  BY <1>8, <2>5, <2>6, <2>7 DEF FeedAssumption
  <2> QED  BY <2>3, <2>8
<1>31. DueApart'
  <2>1. SUFFICES ASSUME NEW a \in Clients, NEW b \in Clients, a # b, Source(a)' = Source(b)',
                        conn'[a].ask.feed = "alerts"
                 PROVE  Range(due'[a]) \cap Range(due'[b]) = {}
    BY DEF DueApart
  <2>2. Source(a) = Source(b) /\ conn[a].ask.feed = "alerts"  BY <1>29, <2>1
  <2>3. Range(due[a]) \cap Range(due[b]) = {}  BY <2>1, <2>2 DEF FeedInv, DueApart
  <2>4. Range(due'[c]) \subseteq Range(due[c]) \cup {m}
    <3>1. PICK meant \in Seq(FeedMessages) : meant = due[c]  BY <1>1
    <3>2. Range(Append(meant, m)) = Range(meant) \cup {m}  BY RangeOfAppend
    <3> QED  BY <1>23, <3>1, <3>2
  <2>5. CASE a = c
    <3>1. due'[b] = due[b] /\ m \notin Range(due[b])  BY <1>7, <1>23, <1>30, <2>1, <2>2, <2>5
    <3> QED  BY <2>3, <2>4, <2>5, <3>1
  <2>6. CASE b = c
    <3>1. due'[a] = due[a] /\ m \notin Range(due[a])  BY <1>7, <1>23, <1>30, <2>1, <2>2, <2>6
    <3> QED  BY <2>3, <2>4, <2>6, <3>1
  <2>7. CASE a # c /\ b # c  BY <1>23, <2>3, <2>7
  <2> QED  BY <2>5, <2>6, <2>7
<1>32. FeedTypeOK'
  BY <1>2, <1>14, <1>22, <1>23 DEF FeedInv, FeedTypeOK
<1> QED  BY <1>18, <1>25, <1>27, <1>28, <1>31, <1>32 DEF FeedInv

LEMMA FeedInitial ==
  ASSUME FeedAssumption, FeedInit
  PROVE  FeedInv
<1>1. NewConnection \in Connection
  <2>1. NoAsk \in FeedAsk
    <3>1. "channel" \in FeedNames  BY DEF FeedNames
    <3>2. FALSE \in BOOLEAN  OBVIOUS
    <3>3. "unknown" \in EnabledProjects \cup {"unknown"}  OBVIOUS
    <3> QED  BY <3>1, <3>2, <3>3, Zenon DEF NoAsk, FeedAsk
  <2>2. <<>> \in Seq(FeedMessages)  OBVIOUS
  <2> QED  BY <2>1, <2>2 DEF NewConnection, Connection
<1>2. /\ NewConnection.pc = "new" /\ NewConnection.ask = NoAsk /\ NewConnection.sub = FALSE
      /\ NewConnection.inbox = <<>> /\ NewConnection.hand = NoMessage
      /\ NewConnection.event = "none" /\ NewConnection.quiet = TRUE
  BY DEF NewConnection
<1>3. NoAsk.feed = "channel"  BY DEF NoAsk
<1> HIDE DEF NewConnection
<1>4. /\ conn \in [Clients -> Connection] /\ \A c \in Clients : conn[c] = NewConnection
      /\ \A c \in Clients : seen[c] = <<>> /\ due[c] = <<>>
  BY <1>1 DEF FeedInit
<1>5. FeedTypeOK
  <2>1. <<>> \in Seq(FeedMessages)  OBVIOUS
  <2>2. \A source \in DOMAIN Script : produced[source] <= Len(Script[source])
    <3>1. \A source \in EnabledProjects \X FeedNames : Script[source] \in Seq(FeedMessages)
      BY DEF FeedAssumption
    <3>2. \A source \in EnabledProjects \X FeedNames : Len(Script[source]) \in Nat
      BY <3>1
    <3>3. DOMAIN Script = EnabledProjects \X FeedNames  BY DEF FeedAssumption
    <3> QED  BY <3>2, <3>3 DEF FeedInit
  <2> QED  BY <1>4, <2>1, <2>2 DEF FeedTypeOK, FeedInit
<1>6. \A p \in EnabledProjects : QueueSound(p)
  <2>1. \A p \in EnabledProjects : queue[p] = <<>> /\ produced[<<p, "alerts">>] = 0
    BY DEF FeedInit, FeedNames
  <2>2. Len(<<>>) = 0 /\ DOMAIN <<>> = {}  OBVIOUS
  <2>3. \A p \in EnabledProjects : Len(queue[p]) <= produced[<<p, "alerts">>] /\ DOMAIN queue[p] = {}
    <3>1. 0 <= 0  OBVIOUS
    <3> QED  BY <2>1, <2>2, <3>1, Zenon
  <2> QED  BY <2>3, Zenon DEF QueueSound
<1>7. ASSUME NEW c \in Clients
      PROVE  HandlerSound(c) /\ MessagesSound(c) /\ NothingMissed(c)
  <2>1. Flow(c) = <<>> /\ Range(Flow(c)) = {} /\ Range(due[c]) = {} /\ Range(seen[c]) = {}
    <3>1. <<>> \in Seq(FeedMessages)  BY EmptySeq
    <3>2. <<>> \o <<>> = <<>>  BY <3>1, ConcatEmptySeq
    <3>3. InHand(c) = <<>> /\ conn[c].inbox = <<>>  BY <1>2, <1>4 DEF InHand
    <3>4. OnTheWay(c) = <<>>  BY <3>2, <3>3 DEF OnTheWay
    <3>5. Flow(c) = <<>>  BY <1>4, <3>2, <3>4 DEF Flow
    <3>6. Range(<<>>) = {}  BY RangeOfOne
    <3> QED  BY <1>4, <3>5, <3>6
  <2>2. Sorted(Flow(c), Source(c)) /\ Sorted(due[c], Source(c))  BY <1>4, <2>1 DEF Sorted
  <2>3. MessagesSound(c)  BY <2>1, <2>2 DEF MessagesSound
  <2>4. HandlerSound(c)  BY <1>2, <1>3, <1>4 DEF HandlerSound
  <2>5. NothingMissed(c)  BY <1>2, <1>4 DEF NothingMissed, Listening
  <2> QED  BY <2>3, <2>4, <2>5
<1>8. DueApart  BY <1>4, RangeOfOne DEF DueApart
<1> QED  BY <1>5, <1>6, <1>7, <1>8 DEF FeedInv

LEMMA FeedInductive ==
  ASSUME FeedAssumption, FeedInv, [FeedNext]_feedVars
  PROVE  FeedInv'
<1>1. CASE UNCHANGED feedVars
  <2>1. UNCHANGED <<queue, produced, conn, seen, due>>  BY <1>1 DEF feedVars
  <2>2. \A source : Horizon(source)' = Horizon(source)  BY <2>1 DEF Horizon
  <2>3. \A p \in EnabledProjects : QueueSound(p)'  BY <2>1, <2>2 DEF FeedInv, QueueSound
  <2>4. \A c \in Clients : HandlerSound(c)' /\ MessagesSound(c)' /\ NothingMissed(c)'
    <3>1. \A source \in EnabledProjects \X FeedNames :
            Horizon(source)' \in Nat /\ Horizon(source) <= Horizon(source)'
      BY <2>2, HorizonFacts DEF FeedInv
    <3> QED  BY <2>1, <3>1, OtherClient
  <2>5. FeedTypeOK' /\ DueApart'  BY <2>1 DEF FeedInv, FeedTypeOK, DueApart, Source
  <2> QED  BY <2>3, <2>4, <2>5 DEF FeedInv
<1>2. CASE \E p \in EnabledProjects : Push(p) \/ \E feed \in FeedNames \ {"alerts"} : Publish(p, feed)
  BY <1>2, AlertIsPushed, MessageIsPublished
<1>3. ASSUME NEW c \in Clients, \E ask \in FeedAsks[c] : Connect(c, ask) \/ ConfigFails(c, ask)
      PROVE  FeedInv'
  BY <1>3, ClientConnects
<1>4. ASSUME NEW c \in Clients,
             ClientActs(c) \/ SubscribeFails(c) \/ RedisFails(c) \/ CancelHandler(c)
      PROVE  FeedInv'
  BY <1>4, ClientMoves, SubscriptionFails, ReadFails, HandlerIsCancelled
<1>5. ASSUME NEW c \in Clients, ServeClient(c)
      PROVE  FeedInv'
  BY <1>5, ClientSubscribes, AlertIsPopped, MessageIsReceived, FrameIsIgnored,
     DisconnectIsNoticed, MessageIsSent, SendingFails, SubscriptionEnds DEF ServeClient
<1> QED  BY <1>1, <1>2, <1>3, <1>4, <1>5 DEF FeedNext

LEMMA FeedInvDelivers ==
  ASSUME FeedAssumption, FeedInv
  PROVE  FeedsDeliver
<1>0. DOMAIN Script = EnabledProjects \X FeedNames  BY DEF FeedAssumption
<1>1. ASSUME NEW c \in Clients, NEW m \in Range(due[c])
      PROVE  /\ Source(c) \in DOMAIN Script
             /\ \E k \in DOMAIN Script[Source(c)] :
                  k <= Horizon(Source(c)) /\ Script[Source(c)][k] = m
  <2>1. due[c] # <<>>  BY <1>1, RangeOfOne
  <2>2. Source(c) \in EnabledProjects \X FeedNames  BY <2>1, SourceFacts
  <2>3. HandedOut(Source(c), m)
    <3>1. MessagesSound(c)  BY DEF FeedInv
    <3> QED  BY <3>1 DEF MessagesSound
  <2>4. PICK source \in EnabledProjects \X FeedNames : source = Source(c)  BY <2>2
  <2>5. PICK h \in Nat : h = Horizon(source) /\ h <= Len(Script[source])
    <3>1. Len(Script[source]) \in Nat  BY HorizonFacts DEF FeedInv
    <3> QED  BY <3>1, HorizonFacts DEF FeedInv
  <2>6. Len(Script[source]) \in Nat /\ DOMAIN Script[source] = 1 .. Len(Script[source])
    BY HorizonFacts DEF FeedInv
  <2>7. PICK k \in 1 .. h : Script[source][k] = m
    <3>1. HandedOut(source, m)  BY <2>3, <2>4
    <3> QED  BY <2>5, <3>1 DEF HandedOut
  <2>8. k \in DOMAIN Script[source] /\ k <= Horizon(source)  BY <2>5, <2>6, <2>7
  <2> QED  BY <1>0, <2>4, <2>7, <2>8
<1>2. AlertsHeldOnce
  <2>1. SUFFICES ASSUME NEW p \in EnabledProjects, NEW c \in Clients, Source(c) = <<p, "alerts">>,
                        NEW m \in Range(due[c])
                 PROVE  /\ ~Contains(queue[p], m)
                        /\ \A d \in Clients \ {c} : ~Contains(due[d], m)
    BY DEF AlertsHeldOnce
  <2>2. PICK source \in EnabledProjects \X FeedNames : source = <<p, "alerts">>
    BY DEF FeedNames
  <2>3. PICK k \in DOMAIN Script[source] : k <= Horizon(source) /\ Script[source][k] = m
    <3>1. \E k \in DOMAIN Script[Source(c)] :
            k <= Horizon(Source(c)) /\ Script[Source(c)][k] = m
      BY <1>1
    <3>2. source = Source(c)  BY <2>1, <2>2
    <3> QED  BY <3>1, <3>2
  <2>4. PICK h \in Nat, n \in Nat :
          h = Horizon(source) /\ n = Len(queue[p]) /\ h + n <= Len(Script[source])
    <3>1. PICK n \in Nat : n = Len(queue[p])  BY DEF FeedInv, FeedTypeOK
    <3>2. PICK h \in Nat : h = Horizon(source)  BY HorizonFacts DEF FeedInv
    <3>3. PICK w \in Nat : w = produced[source] /\ w <= Len(Script[source])
      BY HorizonFacts DEF FeedInv
    <3>4. h = w - n  BY <2>2, <3>1, <3>2, <3>3 DEF Horizon
    <3>5. h + n = w  BY <3>4
    <3> QED  BY <3>1, <3>2, <3>3, <3>5
  <2>5. DOMAIN Script[source] = 1 .. Len(Script[source]) /\ Len(Script[source]) \in Nat
    BY HorizonFacts DEF FeedInv
  <2>6. ~Contains(queue[p], m)
    <3>1. SUFFICES ASSUME NEW i \in 1 .. n, queue[p][i] = m  PROVE FALSE
      BY <2>4 DEF Contains
    <3>2. DOMAIN queue[p] = 1 .. n
      <4>1. queue[p] \in Seq(FeedMessages)  BY DEF FeedInv, FeedTypeOK
      <4> QED  BY <2>4, <4>1
    <3>3. Script[source][h + i] = m
      <4>1. QueueSound(p)  BY DEF FeedInv
      <4>2. \A j \in DOMAIN queue[p] : queue[p][j] = Script[source][Horizon(source) + j]
        BY <2>2, <4>1, Zenon DEF QueueSound
      <4> QED  BY <2>4, <3>1, <3>2, <4>2
    <3>4. h + i \in DOMAIN Script[source]
      <4>1. h + i \in 1 .. (h + n)  OBVIOUS
      <4> QED  BY <2>4, <2>5, <4>1
    <3>5. k = h + i  BY <1>0, <2>3, <3>3, <3>4 DEF FeedAssumption
    <3>6. k <= h  BY <2>3, <2>4
    <3> QED  BY <3>5, <3>6
  <2>7. ASSUME NEW d \in Clients \ {c}  PROVE ~Contains(due[d], m)
    <3>1. SUFFICES ASSUME m \in Range(due[d])  PROVE FALSE
      <4>1. due[d] \in Seq(FeedMessages)  BY DEF FeedInv, FeedTypeOK
      <4>2. DOMAIN due[d] = 1 .. Len(due[d])  BY <4>1
      <4>3. \A i \in DOMAIN due[d] : due[d][i] \in Range(due[d])  BY DEF Range
      <4> QED  BY <4>2, <4>3 DEF Contains
    <3>2. CASE Source(d) = Source(c)
      <4>1. conn[c].ask.feed = "alerts"  BY <2>1 DEF Source
      <4>2. Range(due[c]) \cap Range(due[d]) = {}  BY <2>7, <3>2, <4>1 DEF FeedInv, DueApart
      <4> QED  BY <2>1, <3>1, <4>2
    <3>3. CASE Source(d) # Source(c)
      <4>1. Source(d) \in DOMAIN Script  BY <1>1, <3>1
      <4>2. \E l \in DOMAIN Script[Source(d)] : Script[Source(d)][l] = m
        <5>1. \E l \in DOMAIN Script[Source(d)] :
                l <= Horizon(Source(d)) /\ Script[Source(d)][l] = m
          <6>1. d \in Clients  OBVIOUS
          <6> QED  BY <1>1, <3>1, <6>1, Zenon
        <5> QED  BY <5>1
      <4>3. Source(d) = source  BY <1>0, <2>3, <4>1, <4>2 DEF FeedAssumption
      <4> QED  BY <2>1, <2>2, <3>3, <4>3
    <3> QED  BY <3>2, <3>3
  <2> QED  BY <2>6, <2>7
<1>3. SeenInOrder
  <2>1. SUFFICES ASSUME NEW c \in Clients
                 PROVE  /\ InOrder(Flow(c), Source(c))
                        /\ InOrder(due[c], Source(c))
                        /\ \A m \in Range(seen[c]) : Wanted(c, m)
    BY DEF SeenInOrder, Flow
  <2>2. MessagesSound(c)  BY DEF FeedInv
  <2>3. ASSUME NEW m \in Range(Flow(c)) \cup Range(due[c])
        PROVE  \E k \in DOMAIN Script[Source(c)] : m = Script[Source(c)][k]
    <3>1. Flow(c) # <<>> \/ due[c] # <<>>  BY <2>3, RangeOfOne
    <3>2. PICK source \in EnabledProjects \X FeedNames : source = Source(c)  BY <3>1, SourceFacts
    <3>3. HandedOut(Source(c), m)  BY <2>2, <2>3 DEF MessagesSound
    <3>4. PICK w \in Nat : w = Len(Script[source]) /\ DOMAIN Script[source] = 1 .. w
      BY HorizonFacts DEF FeedInv
    <3>5. PICK n \in Nat : n = produced[source] /\ n <= w  BY <3>4, HorizonFacts DEF FeedInv
    <3>6. PICK h \in Nat : h = Horizon(source) /\ h <= w
      <4>1. PICK h \in Nat : h = Horizon(source) /\ h <= n  BY <3>5, HorizonFacts DEF FeedInv
      <4> QED  BY <3>5, <4>1
    <3>7. PICK k \in 1 .. h : Script[source][k] = m  BY <3>2, <3>3, <3>6 DEF HandedOut
    <3>8. k \in 1 .. w  BY <3>6
    <3> QED  BY <3>2, <3>4, <3>7, <3>8
  <2>4. \A s : \A i \in DOMAIN s : s[i] \in Range(s)  BY DEF Range
  <2>5. InOrder(Flow(c), Source(c)) /\ InOrder(due[c], Source(c))
    BY <2>2, <2>3, <2>4 DEF MessagesSound, Sorted, InOrder
  <2> QED  BY <2>2, <2>5 DEF MessagesSound
<1>4. ListenersMissNothing
  BY DEF ListenersMissNothing, FeedInv, NothingMissed, Listening
<1>5. NothingLeftBehind
  BY DEF NothingLeftBehind, FeedInv, HandlerSound
<1> QED  BY <1>2, <1>3, <1>4, <1>5 DEF FeedsDeliver

-----------------------------------------------------------------------------
(* Reports (AuditReports).                                                 *)

\* The entries a client has been promised nothing about: written since it began.
Later(r) == Was({"committed", "deleted"}) \ report[r].before

\* The rows its client has asked for already.
PageEnd(r) == (report[r].page - 1) * SearchLimit[report[r].ask.kind]

\* A reset deletes entries of one project.  Either a client began after its
\* DELETE and counts on all of them, or all that it counts on there will go.
LogResetSound ==
  \E p \in LogProjects :
    /\ doomed \subseteq {e \in Was({"committed"}) : ProjectOf[e] = p}
    /\ \A r \in Reports : report[r].pc # "idle" =>
         \/ doomed \subseteq report[r].before
         \/ {e \in report[r].before \cap Was({"committed"}) : ProjectOf[e] = p} \subseteq doomed

\* What a client holds fits the place where it stands.
ReaderSound(r) ==
  /\ report[r].page > 0
  /\ report[r].before \subseteq Was({"committed", "deleted"})
  /\ Range(report[r].found) \subseteq Was({"committed", "deleted"})
  /\ report[r].pc = "idle" => report[r].page = 1 /\ report[r].found = <<>> /\ report[r].before = {}
  /\ report[r].pc \in {"saving", "limiting"} => report[r].ask.kind # "pages"
  /\ report[r].pc \in {"counting", "reading"} => report[r].ask.kind # "other"
  /\ report[r].ask.kind = "export" /\ report[r].pc \in {"counting", "reading"} => report[r].page = 1
  /\ report[r].ask.kind = "other" => report[r].found = <<>>
  /\ report[r].page = 1 => report[r].found = <<>>

\* An entry that was there is shown, or is on a page still to come.
PagesSound(r) ==
  report[r].ask.kind = "pages" /\ report[r].before \cap Was({"deleted"}) = {} =>
    \A e \in Owed(r) \ Range(report[r].found) :
      report[r].pc # "answered" /\ Rank(Selected(r), e) > PageEnd(r)

\* What will be shown again: entries that later ones have moved to a page
\* still to come.
Again(r) == {e \in Range(report[r].found) \cap Selected(r) : Rank(Selected(r), e) > PageEnd(r)}

RepeatsSound(r) ==
  report[r].ask.kind = "pages" =>
    Len(report[r].found) + Cardinality(Again(r))
      <= Cardinality(Range(report[r].found)) + Cardinality(Later(r))

ExportSound(r) ==
  /\ report[r].ask.kind = "export" =>
       /\ Len(report[r].found) = Cardinality(Range(report[r].found))
       /\ report[r].page > 1 => \A e \in Owed(r) \ Range(report[r].found) :
            /\ Len(report[r].found) = SearchLimit["export"]
            /\ \A shown \in Range(report[r].found) : shown > e
  /\ report[r].pc \in {"reading", "saving", "limiting", "answered"} /\ report[r].ask.kind # "other" =>
       Cardinality(Owed(r)) <= report[r].total

Artefact == [content : Seq(LogEntries), there : BOOLEAN, limited : BOOLEAN]

\* A key is there for the project of the report only, from its HSET on.
ArtefactSound(r) ==
  LET own == artefact[r][report[r].ask.project]
  IN  /\ \A p \in LogProjects \ {report[r].ask.project} : artefact[r][p] = NoArtefact
      /\ own.limited => own.there
      /\ ~own.there => own = NoArtefact
      /\ own.there =>
           /\ report[r].ask.kind # "pages" /\ report[r].pc \in {"limiting", "answered", "error"}
           /\ own.limited \/ report[r].pc # "answered"
      /\ report[r].pc = "limiting" => own.there /\ ~own.limited /\ own.content = report[r].found
      /\ report[r].ask.kind # "pages" /\ report[r].pc = "answered" /\ r \notin expired =>
           own.there /\ own.limited /\ own.content = report[r].found

ReportInv ==
  /\ ReportTypeOK
  /\ artefact \in [Reports -> [LogProjects -> Artefact]]
  /\ LogResetSound
  /\ \A r \in Reports :
       ReaderSound(r) /\ PagesSound(r) /\ RepeatsSound(r) /\ ExportSound(r) /\ ArtefactSound(r)

\* Places in an order: each is taken once, the newest entry takes the first.
LEMMA RankFacts ==
  ASSUME NEW S, IsFiniteSet(S), S \subseteq Nat
  PROVE  /\ \A e \in S : Rank(S, e) \in 1 .. Cardinality(S)
         /\ \A e, f \in S : f > e => Rank(S, f) < Rank(S, e)
         /\ \A i \in 1 .. Cardinality(S) : \E e \in S : Rank(S, e) = i
<1>1. Cardinality(S) \in Nat  BY FS_CardinalityType
<1>2. ASSUME NEW e \in S
      PROVE  /\ IsFiniteSet({f \in S : f >= e})
             /\ Rank(S, e) \in 1 .. Cardinality(S)
  <2> DEFINE T == {f \in S : f >= e}
  <2>1. T \in SUBSET S /\ e \in T  OBVIOUS
  <2>2. IsFiniteSet(T) /\ Cardinality(T) <= Cardinality(S)  BY <2>1, FS_Subset
  <2>3. Cardinality(T) \in Nat  BY <2>2, FS_CardinalityType
  <2>4. Cardinality(T) # 0  BY <2>1, <2>2, FS_EmptySet
  <2>5. Rank(S, e) = Cardinality(T)  BY DEF Rank
  <2> HIDE DEF T
  <2>6. Rank(S, e) \in 1 .. Cardinality(S)  BY <1>1, <2>2, <2>3, <2>4, <2>5
  <2> QED  BY <2>2, <2>6 DEF T
<1>a. \A e \in S : Rank(S, e) \in Nat
  <2>1. PICK n \in Nat : n = Cardinality(S)  BY <1>1
  <2>2. \A e \in S : Rank(S, e) \in 1 .. n  BY <1>2, <2>1
  <2> QED  BY <2>2
<1>3. ASSUME NEW e \in S, NEW f \in S, f > e
      PROVE  Rank(S, f) < Rank(S, e)
  <2> DEFINE T == {g \in S : g >= e}
             U == {g \in S : g >= f}
  <2>1. IsFiniteSet(T) /\ U \in SUBSET T /\ e \in T /\ e \notin U
    <3>1. e \in Nat /\ f \in Nat /\ \A g \in S : g \in Nat  OBVIOUS
    <3>2. \A g \in S : g >= f => g >= e  BY <1>3, <3>1
    <3>3. IsFiniteSet(T)  BY <1>2
    <3>4. U \in SUBSET T  BY <3>2
    <3>5. e \in T /\ e \notin U  BY <1>3, <3>1
    <3> QED  BY <3>3, <3>4, <3>5
  <2>2. U # T  BY <2>1
  <2>3. Rank(S, e) = Cardinality(T) /\ Rank(S, f) = Cardinality(U)  BY DEF Rank
  <2> HIDE DEF T, U
  <2>4. Cardinality(U) <= Cardinality(T) /\ Cardinality(U) # Cardinality(T)  BY <2>1, <2>2, FS_Subset
  <2>5. Rank(S, e) \in Nat /\ Rank(S, f) \in Nat  BY <1>a
  <2> QED  BY <2>3, <2>4, <2>5
<1>4. \A i \in 1 .. Cardinality(S) : \E e \in S : Rank(S, e) = i
  <2> DEFINE T == 1 .. Cardinality(S)
             place == [e \in S |-> Rank(S, e)]
  <2>1. place \in [S -> T]  BY <1>2
  <2>2. \A e, f \in S : place[e] = place[f] => e = f
    <3>1. SUFFICES ASSUME NEW e \in S, NEW f \in S, e # f, Rank(S, e) = Rank(S, f)  PROVE FALSE
      OBVIOUS
    <3>2. e > f \/ f > e  BY <3>1
    <3>3. Rank(S, e) \in Nat /\ Rank(S, f) \in Nat  BY <1>a
    <3> QED  BY <1>3, <3>1, <3>2, <3>3
  <2>3. place \in Injection(S, T)  BY <2>1, <2>2 DEF Injection, IsInjective
  <2>4. IsFiniteSet(T) /\ Cardinality(T) = Cardinality(S)
    <3>1. PICK n \in Nat : n = Cardinality(S)  BY <1>1
    <3>2. IsFiniteSet(1 .. n) /\ Cardinality(1 .. n) = n  BY FS_Interval
    <3> QED  BY <3>1, <3>2
  <2>5. \A e \in S : place[e] = Rank(S, e)  OBVIOUS
  <2> HIDE DEF place, T
  <2>6. place \in Surjection(S, T)  BY <2>3, <2>4, FS_Injection
  <2>7. \A i \in T : \E e \in S : place[e] = i  BY <2>6 DEF Surjection
  <2> QED  BY <2>5, <2>7 DEF T
<1> QED  BY <1>2, <1>3, <1>4

\* An entry lies behind those that are newer, whichever rows are selected.
LEMMA RankGrows ==
  ASSUME NEW S, NEW T, IsFiniteSet(T), T \subseteq Nat, S \subseteq T, NEW e
  PROVE  Rank(S, e) \in Nat /\ Rank(S, e) <= Rank(T, e)
<1> DEFINE U == {f \in T : f >= e}
           V == {f \in S : f >= e}
<1>1. U \in SUBSET T /\ V \in SUBSET U  OBVIOUS
<1>2. Rank(S, e) = Cardinality(V) /\ Rank(T, e) = Cardinality(U)  BY DEF Rank
<1> HIDE DEF U, V
<1>3. IsFiniteSet(U)  BY <1>1, FS_Subset
<1>4. IsFiniteSet(V) /\ Cardinality(V) <= Cardinality(U)  BY <1>1, <1>3, FS_Subset
<1> QED  BY <1>2, <1>4, FS_CardinalityType

\* The rows of a statement, in the order in which it returns them.
LEMMA OrderFacts ==
  ASSUME NEW S, IsFiniteSet(S), S \subseteq Nat
  PROVE  /\ NewestFirst(S) \in Seq(S)
         /\ Len(NewestFirst(S)) = Cardinality(S)
         /\ Range(NewestFirst(S)) = S
<1>1. PICK n \in Nat : n = Cardinality(S)  BY FS_CardinalityType
<1> DEFINE e(i) == CHOOSE x \in S : Rank(S, x) = i
<1>2. \A i \in 1 .. n : e(i) \in S /\ Rank(S, e(i)) = i
  <2>1. SUFFICES ASSUME NEW i \in 1 .. n  PROVE e(i) \in S /\ Rank(S, e(i)) = i
    OBVIOUS
  <2>2. \E x \in S : Rank(S, x) = i  BY <1>1, RankFacts
  <2> QED  BY <2>2
<1>3. NewestFirst(S) = [i \in 1 .. n |-> e(i)]  BY <1>1 DEF NewestFirst
<1>4. \A x \in S : \E i \in 1 .. n : e(i) = x
  <2>1. SUFFICES ASSUME NEW x \in S  PROVE \E i \in 1 .. n : e(i) = x
    OBVIOUS
  <2>2. Rank(S, x) \in 1 .. n  BY <1>1, RankFacts
  <2>3. PICK y \in S : y = e(Rank(S, x)) /\ Rank(S, y) = Rank(S, x)  BY <1>2, <2>2
  <2>4. y = x
    <3>1. CASE y > x
      <4>1. Rank(S, y) < Rank(S, x)  BY <3>1, RankFacts
      <4> QED  BY <2>2, <2>3, <4>1
    <3>2. CASE x > y
      <4>1. Rank(S, x) < Rank(S, y)  BY <3>2, RankFacts
      <4> QED  BY <2>2, <2>3, <4>1
    <3> QED  BY <3>1, <3>2
  <2> QED  BY <2>2, <2>3, <2>4
<1> HIDE DEF e
<1>5. NewestFirst(S) \in Seq(S) /\ Len(NewestFirst(S)) = n
  <2>1. NewestFirst(S) \in [1 .. n -> S]  BY <1>2, <1>3
  <2> QED  BY <2>1
<1>6. Range(NewestFirst(S)) = S
  <2>1. DOMAIN NewestFirst(S) = 1 .. n /\ \A i \in 1 .. n : NewestFirst(S)[i] = e(i)  BY <1>3
  <2>2. Range(NewestFirst(S)) = {NewestFirst(S)[i] : i \in 1 .. n}  BY <2>1 DEF Range
  <2>3. \A x \in Range(NewestFirst(S)) : x \in S  BY <1>2, <2>1, <2>2
  <2>4. \A x \in S : x \in Range(NewestFirst(S))  BY <1>4, <2>1, <2>2
  <2> QED  BY <2>3, <2>4
<1> QED  BY <1>1, <1>5, <1>6

\* A page is full if there are rows behind it.
LEMMA PageFacts ==
  ASSUME NEW S, IsFiniteSet(S), S \subseteq Nat, NEW page \in Nat \ {0}, NEW size \in Nat \ {0}
  PROVE  /\ PageRows(S, page, size) \subseteq S
         /\ IsFiniteSet(PageRows(S, page, size))
         /\ Cardinality(PageRows(S, page, size)) \in 0 .. size
         /\ \A e \in S : Rank(S, e) > page * size => Cardinality(PageRows(S, page, size)) = size
<1> DEFINE rows == PageRows(S, page, size)
<1>1. PICK from \in Nat : from = (page - 1) * size /\ page * size = from + size
  <2>1. page - 1 \in Nat /\ (page - 1) * size \in Nat  OBVIOUS
  <2>2. page * size = (page - 1) * size + size  OBVIOUS
  <2> QED  BY <2>1, <2>2
<1>2. rows = {e \in S : Rank(S, e) > from /\ Rank(S, e) <= from + size}  BY <1>1 DEF PageRows
<1>3. rows \in SUBSET S  BY <1>2
<1>a. \A e \in S : Rank(S, e) \in Nat
  <2>1. PICK n \in Nat : n = Cardinality(S)  BY FS_CardinalityType
  <2>2. \A e \in S : Rank(S, e) \in 1 .. n  BY <2>1, RankFacts
  <2> QED  BY <2>2
<1>4. IsFiniteSet(rows) /\ Cardinality(rows) \in Nat  BY <1>3, FS_Subset, FS_CardinalityType
<1> DEFINE T == from + 1 .. from + size
           place == [e \in rows |-> Rank(S, e)]
<1>5. IsFiniteSet(T) /\ Cardinality(T) = size
  <2>1. from + 1 \in Int /\ from + size \in Int /\ ~(from + 1 > from + size)
        /\ (from + size) - (from + 1) + 1 = size
    OBVIOUS
  <2> QED  BY <2>1, FS_Interval
<1>6. place \in Injection(rows, T)
  <2>1. \A e \in rows : Rank(S, e) \in T
    <3>1. SUFFICES ASSUME NEW e \in rows  PROVE Rank(S, e) \in T  OBVIOUS
    <3>2. Rank(S, e) \in Nat  BY <1>3, <1>a
    <3>3. Rank(S, e) > from /\ Rank(S, e) <= from + size  BY <1>2
    <3> QED  BY <3>2, <3>3
  <2>2. \A e, f \in rows : Rank(S, e) = Rank(S, f) => e = f
    <3>1. SUFFICES ASSUME NEW e \in rows, NEW f \in rows, e # f, Rank(S, e) = Rank(S, f)  PROVE FALSE
      OBVIOUS
    <3>2. e \in S /\ f \in S /\ (e > f \/ f > e)
      <4>1. e \in S /\ f \in S  BY <1>3
      <4>2. e \in Nat /\ f \in Nat  BY <4>1
      <4> QED  BY <3>1, <4>1, <4>2
    <3>3. Rank(S, e) \in Nat /\ Rank(S, f) \in Nat  BY <1>a, <3>2
    <3>4. Rank(S, e) < Rank(S, f) \/ Rank(S, f) < Rank(S, e)  BY <3>2, RankFacts
    <3> QED  BY <3>1, <3>3, <3>4
  <2> QED  BY <2>1, <2>2 DEF Injection, IsInjective
<1>7. Cardinality(rows) <= size
  <2> HIDE DEF place, rows, T
  <2> QED  BY <1>5, <1>6, FS_Injection
<1>8. ASSUME NEW e \in S, Rank(S, e) > page * size  PROVE Cardinality(rows) = size
  <2>1. PICK n \in Nat : n = Cardinality(S)  BY FS_CardinalityType
  <2>2. Rank(S, e) \in 1 .. n  BY <2>1, RankFacts
  <2>3. from + size <= n  BY <1>1, <1>8, <2>2
  <2>4. \A i \in T : \E f \in rows : place[f] = i
    <3>1. SUFFICES ASSUME NEW i \in T  PROVE \E f \in rows : place[f] = i  OBVIOUS
    <3>2. i \in 1 .. n  BY <2>3
    <3>3. PICK f \in S : Rank(S, f) = i  BY <2>1, <3>2, RankFacts
    <3>4. f \in rows  BY <1>2, <3>3
    <3> QED  BY <3>3, <3>4
  <2>5. place \in Surjection(rows, T)
    BY <1>6, <2>4 DEF Injection, Surjection
  <2> HIDE DEF place, rows, T
  <2> QED  BY <1>5, <1>6, <2>5, FS_Injection
<1> HIDE DEF rows
<1>9. rows \subseteq S /\ IsFiniteSet(rows) /\ Cardinality(rows) \in 0 .. size
  BY <1>3, <1>4, <1>7
<1> QED  BY <1>8, <1>9 DEF rows

\* One more row moves at most one of the others over the end of a page.
LEMMA OneMoreMoves ==
  ASSUME NEW S, IsFiniteSet(S), S \subseteq Nat, NEW e, e \in Nat, e \notin S, NEW T, T = S \cup {e},
         NEW F, F \subseteq S, NEW end \in Nat,
         NEW A, \A x : x \in A <=> x \in F /\ Rank(S, x) > end,
         NEW B, \A x : x \in B <=> x \in F /\ Rank(T, x) > end
  PROVE  IsFiniteSet(B) /\ Cardinality(B) <= Cardinality(A) + 1
<1>1. IsFiniteSet(T) /\ T \subseteq Nat /\ IsFiniteSet(F)  BY FS_AddElement, FS_Subset
<1>2. \A x \in F : Rank(S, x) \in Nat /\ Rank(T, x) \in Nat /\ Rank(T, x) <= Rank(S, x) + 1
  <2>1. SUFFICES ASSUME NEW x \in F
                 PROVE  Rank(S, x) \in Nat /\ Rank(T, x) \in Nat /\ Rank(T, x) <= Rank(S, x) + 1
    OBVIOUS
  <2> DEFINE U == {f \in S : f >= x}
             V == {f \in T : f >= x}
  <2>2. Rank(S, x) = Cardinality(U) /\ Rank(T, x) = Cardinality(V)  BY DEF Rank
  <2>3. V \in SUBSET (U \cup {e}) /\ U \in SUBSET S  OBVIOUS
  <2> HIDE DEF U, V
  <2>4. IsFiniteSet(U) /\ Cardinality(U) \in Nat  BY <2>3, FS_Subset, FS_CardinalityType
  <2>5. /\ IsFiniteSet(U \cup {e})
        /\ Cardinality(U \cup {e}) = IF e \in U THEN Cardinality(U) ELSE Cardinality(U) + 1
    BY <2>4, FS_AddElement
  <2>6. IsFiniteSet(V) /\ Cardinality(V) <= Cardinality(U \cup {e})  BY <2>3, <2>5, FS_Subset
  <2>7. Cardinality(V) \in Nat  BY <2>6, FS_CardinalityType
  <2> QED  BY <2>2, <2>4, <2>5, <2>6, <2>7
<1>3. IsFiniteSet(A) /\ IsFiniteSet(B) /\ Cardinality(A) \in Nat /\ Cardinality(B) \in Nat
  <2>1. A \in SUBSET F /\ B \in SUBSET F  OBVIOUS
  <2> QED  BY <1>1, <2>1, FS_Subset, FS_CardinalityType
<1>4. \E y : B \subseteq A \cup {y}
  <2>1. CASE B \subseteq A  BY <2>1
  <2>2. CASE ~(B \subseteq A)
    <3>1. PICK y \in B : y \notin A  BY <2>2
    <3>2. \A x \in B \ A : Rank(S, x) = end
      <4>1. SUFFICES ASSUME NEW x \in B, x \notin A  PROVE Rank(S, x) = end  OBVIOUS
      <4>2. x \in F /\ Rank(T, x) > end /\ ~(Rank(S, x) > end)  BY <4>1
      <4> QED  BY <1>2, <4>2
    <3>3. \A x \in B \ A : x = y
      <4>1. SUFFICES ASSUME NEW x \in B, x \notin A, x # y  PROVE FALSE  OBVIOUS
      <4>2. x \in S /\ y \in S /\ Rank(S, x) = Rank(S, y)  BY <3>1, <3>2, <4>1
      <4>3. x > y \/ y > x
        <5>1. x \in Nat /\ y \in Nat  BY <4>2
        <5> QED  BY <4>1, <5>1
      <4>4. Rank(S, x) < Rank(S, y) \/ Rank(S, y) < Rank(S, x)  BY <4>2, <4>3, RankFacts
      <4>5. Rank(S, x) \in Nat
        <5>1. x \in F  BY <4>1
        <5> QED  BY <1>2, <5>1
      <4> QED  BY <4>2, <4>4, <4>5
    <3> QED  BY <3>3
  <2> QED  BY <2>1, <2>2
<1>5. PICK y : B \in SUBSET (A \cup {y})  BY <1>4
<1>6. /\ IsFiniteSet(A \cup {y})
      /\ Cardinality(A \cup {y}) = IF y \in A THEN Cardinality(A) ELSE Cardinality(A) + 1
  BY <1>3, FS_AddElement
<1>7. Cardinality(B) <= Cardinality(A \cup {y})  BY <1>5, <1>6, FS_Subset
<1>8. Cardinality(B) <= Cardinality(A) + 1  BY <1>3, <1>6, <1>7
<1> QED  BY <1>3, <1>8

\* The rows of a page that were shown before are those that were to be shown
\* again.
LEMMA PageTurned ==
  ASSUME NEW S, IsFiniteSet(S), S \subseteq Nat, NEW F, IsFiniteSet(F),
         NEW page \in Nat \ {0}, NEW size \in Nat \ {0}
  PROVE  LET rows == PageRows(S, page, size)
         IN  Cardinality(rows) + Cardinality(F)
               + Cardinality({x \in (F \cup rows) \cap S : Rank(S, x) > page * size})
             = Cardinality(F \cup rows)
               + Cardinality({x \in F \cap S : Rank(S, x) > (page - 1) * size})
<1> DEFINE rows == PageRows(S, page, size)
           A == {x \in F \cap S : Rank(S, x) > (page - 1) * size}
           B == {x \in (F \cup rows) \cap S : Rank(S, x) > page * size}
<1>1. PICK from \in Nat : from = (page - 1) * size /\ page * size = from + size
  <2>1. page - 1 \in Nat /\ (page - 1) * size \in Nat  OBVIOUS
  <2>2. page * size = (page - 1) * size + size  OBVIOUS
  <2> QED  BY <2>1, <2>2
<1>2. /\ rows = {e \in S : Rank(S, e) > from /\ Rank(S, e) <= from + size}
      /\ A = {x \in F \cap S : Rank(S, x) > from}
      /\ B = {x \in (F \cup rows) \cap S : Rank(S, x) > from + size}
  BY <1>1 DEF PageRows
<1>3. \A e \in S : Rank(S, e) \in Nat
  <2>1. PICK n \in Nat : n = Cardinality(S)  BY FS_CardinalityType
  <2>2. \A e \in S : Rank(S, e) \in 1 .. n  BY <2>1, RankFacts
  <2> QED  BY <2>2
<1> HIDE DEF rows, A, B
<1>4. A = B \cup (F \cap rows) /\ B \cap (F \cap rows) = {}
  <2>1. ASSUME NEW x \in A  PROVE x \in B \/ x \in F \cap rows
    <3>1. x \in F /\ x \in S /\ Rank(S, x) > from  BY <1>2
    <3>2. Rank(S, x) > from + size \/ Rank(S, x) <= from + size  BY <1>3, <3>1
    <3> QED  BY <1>2, <3>1, <3>2
  <2>2. ASSUME NEW x \in B  PROVE x \in A /\ x \notin rows
    <3>1. x \in S /\ Rank(S, x) \in Nat /\ Rank(S, x) > from + size /\ x \in F \cup rows
      BY <1>2, <1>3
    <3>2. ~(Rank(S, x) <= from + size) /\ Rank(S, x) > from  BY <3>1
    <3>3. x \notin rows  BY <1>2, <3>2
    <3> QED  BY <1>2, <3>1, <3>2, <3>3
  <2>3. F \cap rows \subseteq A  BY <1>2
  <2> QED  BY <2>1, <2>2, <2>3
<1>5. rows \in SUBSET S /\ B \in SUBSET A /\ F \cap rows \in SUBSET F  BY <1>2, <1>4
<1>6. IsFiniteSet(rows) /\ IsFiniteSet(F \cap rows)  BY <1>5, FS_Subset
<1>7. IsFiniteSet(A) /\ IsFiniteSet(B)
  <2>1. A \in SUBSET F  BY <1>2
  <2>2. IsFiniteSet(A)  BY <2>1, FS_Subset
  <2> QED  BY <1>5, <2>2, FS_Subset
<1>8. Cardinality(A) = Cardinality(B) + Cardinality(F \cap rows) - Cardinality(B \cap (F \cap rows))
  BY <1>4, <1>6, <1>7, FS_Union
<1>9. Cardinality(B \cap (F \cap rows)) = 0  BY <1>4, FS_EmptySet
<1>10. Cardinality(F \cup rows) = Cardinality(F) + Cardinality(rows) - Cardinality(F \cap rows)
  BY <1>6, FS_Union
<1>11. /\ Cardinality(A) \in Nat /\ Cardinality(B) \in Nat /\ Cardinality(F \cap rows) \in Nat
       /\ Cardinality(F) \in Nat /\ Cardinality(rows) \in Nat /\ Cardinality(F \cup rows) \in Int
  <2>1. /\ Cardinality(A) \in Nat /\ Cardinality(B) \in Nat /\ Cardinality(F \cap rows) \in Nat
        /\ Cardinality(F) \in Nat /\ Cardinality(rows) \in Nat
    BY <1>6, <1>7, FS_CardinalityType
  <2> QED  BY <1>10, <2>1
<1>12. Cardinality(rows) + Cardinality(F) + Cardinality(B) = Cardinality(F \cup rows) + Cardinality(A)
  BY <1>8, <1>9, <1>10, <1>11
<1> QED  BY <1>12 DEF rows, A, B

\* What is kept about a reader.
ReaderInv(r) ==
  ReaderSound(r) /\ PagesSound(r) /\ RepeatsSound(r) /\ ExportSound(r) /\ ArtefactSound(r)

LEMMA ReportFacts ==
  ASSUME ReportAssumption, ReportInv, NEW r \in Reports
  PROVE  /\ report[r] \in Report /\ report \in [Reports -> Report]
         /\ report[r].page \in Nat \ {0} /\ report[r].total \in Nat
         /\ report[r].found \in Seq(LogEntries) /\ report[r].before \subseteq LogEntries
         /\ ReaderInv(r)
         /\ IsFiniteSet(LogEntries) /\ LogEntries \subseteq Nat
         /\ IsFiniteSet(Selected(r)) /\ Selected(r) \subseteq LogEntries
         /\ IsFiniteSet(Later(r)) /\ IsFiniteSet(Owed(r)) /\ IsFiniteSet(Again(r))
         /\ IsFiniteSet(Range(report[r].found)) /\ Range(report[r].found) \subseteq LogEntries
<1>1. report[r] \in Report /\ report \in [Reports -> Report] /\ ReaderInv(r)
  BY DEF ReportInv, ReportTypeOK, ReaderInv
<1>2. /\ report[r].page \in Nat /\ report[r].total \in Nat
      /\ report[r].found \in Seq(LogEntries) /\ report[r].before \subseteq LogEntries
  BY <1>1 DEF Report
<1>3. report[r].page \in Nat \ {0}  BY <1>1, <1>2 DEF ReaderInv, ReaderSound
<1>4. IsFiniteSet(LogEntries) /\ LogEntries \subseteq Nat
  <2>1. EntryCount \in Nat  BY DEF ReportAssumption
  <2>2. IsFiniteSet(1 .. EntryCount)  BY <2>1, FS_Interval
  <2> QED  BY <2>1, <2>2 DEF LogEntries
<1>5. /\ Selected(r) \in SUBSET LogEntries /\ Later(r) \in SUBSET LogEntries
      /\ Owed(r) \in SUBSET LogEntries /\ Again(r) \in SUBSET LogEntries
  BY DEF Selected, Later, Owed, Again, Was
<1>6. Range(report[r].found) \in SUBSET LogEntries  BY <1>1 DEF ReaderInv, ReaderSound, Was
<1> QED  BY <1>1, <1>2, <1>3, <1>4, <1>5, <1>6, FS_Subset

LEMMA PageEndIsNat ==
  ASSUME ReportAssumption, ReportInv, NEW r \in Reports, report[r].ask.kind \in {"pages", "export"}
  PROVE  PageEnd(r) \in Nat /\ SearchLimit[report[r].ask.kind] \in Nat \ {0}
<1>1. PICK size \in Nat \ {0} : size = SearchLimit[report[r].ask.kind]  BY DEF ReportAssumption
<1>2. PICK page \in Nat \ {0} : page = report[r].page  BY ReportFacts
<1>3. (page - 1) * size \in Nat
  <2>1. page - 1 \in Nat  OBVIOUS
  <2> QED  BY <2>1
<1> QED  BY <1>1, <1>2, <1>3 DEF PageEnd

EntryStates == {"none", "open", "committed", "undone", "deleted"}

\* A step of the log leaves the readers where they are.
LEMMA LogStep ==
  ASSUME ReportAssumption, ReportInv, UNCHANGED <<report, artefact, expired>>,
         entry' \in [LogEntries -> EntryStates], doomed' \subseteq LogEntries, LogResetSound',
         Was({"committed", "deleted"}) \subseteq Was({"committed", "deleted"})',
         \A r \in Reports : PagesSound(r)' /\ RepeatsSound(r)' /\ Owed(r)' \subseteq Owed(r)
  PROVE  ReportInv'
<1>1. ReportTypeOK'
  BY DEF ReportInv, ReportTypeOK, EntryStates
<1>2. ASSUME NEW r \in Reports
      PROVE  ReaderSound(r)' /\ ExportSound(r)' /\ ArtefactSound(r)'
  <2>1. ReaderSound(r) /\ ExportSound(r) /\ ArtefactSound(r)  BY DEF ReportInv
  <2>2. ReaderSound(r)'  BY <2>1 DEF ReaderSound
  <2>3. ArtefactSound(r)'  BY <2>1 DEF ArtefactSound
  <2>4. Cardinality(Owed(r)') <= Cardinality(Owed(r))
    BY ReportFacts, FS_Subset
  <2>5. Cardinality(Owed(r)') \in Nat /\ Cardinality(Owed(r)) \in Nat /\ report[r].total \in Nat
    BY ReportFacts, FS_Subset, FS_CardinalityType
  <2>6. ExportSound(r)'
    <3>1. report[r].ask.kind = "export" =>
            /\ Len(report[r].found) = Cardinality(Range(report[r].found))
            /\ report[r].page > 1 => \A e \in Owed(r)' \ Range(report[r].found) :
                 /\ Len(report[r].found) = SearchLimit["export"]
                 /\ \A shown \in Range(report[r].found) : shown > e
      BY <2>1 DEF ExportSound
    <3>2. report[r].pc \in {"reading", "saving", "limiting", "answered"} /\ report[r].ask.kind # "other" =>
            Cardinality(Owed(r)') <= report[r].total
      BY <2>1, <2>4, <2>5 DEF ExportSound
    <3> QED  BY <3>1, <3>2 DEF ExportSound
  <2> QED  BY <2>2, <2>3, <2>6
<1> QED  BY <1>1, <1>2 DEF ReportInv

\* What is not committed is not seen.
LEMMA NothingMoreSeen ==
  ASSUME ReportAssumption, ReportInv, UNCHANGED <<report, artefact, expired>>,
         entry' \in [LogEntries -> EntryStates], doomed' \subseteq LogEntries,
         doomed' = doomed \/ LogResetSound',
         \A x \in LogEntries : entry'[x] = "committed" <=> entry[x] = "committed",
         \A x \in LogEntries : entry'[x] = "deleted" <=> entry[x] = "deleted"
  PROVE  ReportInv'
<1>1. /\ Was({"committed"})' = Was({"committed"}) /\ Was({"deleted"})' = Was({"deleted"})
      /\ Was({"committed", "deleted"})' = Was({"committed", "deleted"})
  BY DEF Was
<1>2. ASSUME NEW r \in Reports
      PROVE  PagesSound(r)' /\ RepeatsSound(r)' /\ Owed(r)' \subseteq Owed(r)
  <2>1. /\ Selected(r)' = Selected(r) /\ Owed(r)' = Owed(r) /\ Later(r)' = Later(r)
        /\ PageEnd(r)' = PageEnd(r)
    BY <1>1 DEF Selected, Owed, Later, PageEnd
  <2>2. Again(r)' = Again(r)  BY <2>1 DEF Again
  <2>3. PagesSound(r) /\ RepeatsSound(r)  BY DEF ReportInv
  <2> QED  BY <1>1, <2>1, <2>2, <2>3 DEF PagesSound, RepeatsSound
<1>3. LogResetSound'
  <2>1. LogResetSound  BY DEF ReportInv
  <2>2. doomed' = doomed => LogResetSound'  BY <1>1, <2>1 DEF LogResetSound
  <2> QED  BY <2>2
<1> QED  BY <1>1, <1>2, <1>3, LogStep

LEMMA EntryIsFlushed ==
  ASSUME ReportAssumption, ReportInv, NEW e \in LogEntries, FlushEntry(e)
  PROVE  ReportInv'
<1>1. entry \in [LogEntries -> EntryStates] /\ doomed \subseteq LogEntries
  BY DEF ReportInv, ReportTypeOK, EntryStates
<1>2. entry' = [entry EXCEPT ![e] = "open"] /\ entry[e] = "none"
      /\ UNCHANGED <<doomed, report, artefact, expired>>
  BY DEF FlushEntry
<1>3. entry' \in [LogEntries -> EntryStates]  BY <1>1, <1>2 DEF EntryStates
<1>4. \A x \in LogEntries : (entry'[x] = "committed" <=> entry[x] = "committed")
                         /\ (entry'[x] = "deleted" <=> entry[x] = "deleted")
  BY <1>1, <1>2
<1> QED  BY <1>1, <1>2, <1>3, <1>4, NothingMoreSeen

LEMMA EntryIsUndone ==
  ASSUME ReportAssumption, ReportInv, NEW e \in LogEntries, entry[e] = "open",
         entry' = [entry EXCEPT ![e] = "undone"], UNCHANGED <<doomed, report, artefact, expired>>
  PROVE  ReportInv'
<1>1. entry \in [LogEntries -> EntryStates] /\ doomed \subseteq LogEntries
  BY DEF ReportInv, ReportTypeOK, EntryStates
<1>3. entry' \in [LogEntries -> EntryStates]  BY <1>1 DEF EntryStates
<1>4. \A x \in LogEntries : (entry'[x] = "committed" <=> entry[x] = "committed")
                         /\ (entry'[x] = "deleted" <=> entry[x] = "deleted")
  BY <1>1
<1> QED  BY <1>1, <1>3, <1>4, NothingMoreSeen

LEMMA EntryIsCommitted ==
  ASSUME ReportAssumption, ReportInv, NEW e \in LogEntries, entry[e] = "open",
         entry' = [entry EXCEPT ![e] = "committed"], UNCHANGED <<doomed, report, artefact, expired>>
  PROVE  ReportInv'
<1>1. entry \in [LogEntries -> EntryStates] /\ doomed \subseteq LogEntries
  BY DEF ReportInv, ReportTypeOK, EntryStates
<1>2. entry' \in [LogEntries -> EntryStates]  BY <1>1 DEF EntryStates
<1>3. /\ Was({"committed"})' = Was({"committed"}) \cup {e} /\ Was({"deleted"})' = Was({"deleted"})
      /\ Was({"committed", "deleted"})' = Was({"committed", "deleted"}) \cup {e}
      /\ e \notin Was({"committed", "deleted"})
      /\ Was({"committed"}) \subseteq Was({"committed", "deleted"})
  <2>1. \A x \in LogEntries : entry'[x] = IF x = e THEN "committed" ELSE entry[x]  BY <1>1
  <2> QED  BY <2>1 DEF Was
<1>4. ASSUME NEW r \in Reports
      PROVE  PagesSound(r)' /\ RepeatsSound(r)' /\ Owed(r)' \subseteq Owed(r)
  <2>1. /\ report[r].before \subseteq Was({"committed", "deleted"})
        /\ Range(report[r].found) \subseteq Was({"committed", "deleted"})
    BY DEF ReportInv, ReaderSound
  <2>2. e \notin report[r].before /\ e \notin Range(report[r].found) /\ e \notin Selected(r)
    BY <1>3, <2>1 DEF Selected
  <2>3. Selected(r)' = Selected(r) \/ Selected(r)' = Selected(r) \cup {e}
    BY <1>3 DEF Selected
  <2>4. /\ Owed(r)' = Owed(r) /\ PageEnd(r)' = PageEnd(r)
        /\ Later(r)' = Later(r) \cup {e} /\ e \notin Later(r)
    BY <1>3, <2>2, <2>3 DEF Owed, PageEnd, Later
  <2>5. PICK S, T : S = Selected(r) /\ T = Selected(r)'  OBVIOUS
  <2>6. /\ IsFiniteSet(S) /\ S \subseteq Nat /\ IsFiniteSet(T) /\ T \subseteq Nat /\ S \subseteq T
        /\ e \in Nat \ S /\ (T = S \/ T = S \cup {e})
    <3>1. IsFiniteSet(S) /\ S \subseteq Nat /\ e \in Nat  BY <2>5, ReportFacts
    <3> QED  BY <2>2, <2>3, <2>5, <3>1, FS_AddElement
  <2>7. CASE report[r].ask.kind # "pages"
    BY <2>4, <2>7 DEF PagesSound, RepeatsSound
  <2>8. CASE report[r].ask.kind = "pages"
    <3>1. PICK end \in Nat : end = PageEnd(r)  BY <2>8, PageEndIsNat
    <3>2. PagesSound(r)'
      <4>1. PagesSound(r)  BY DEF ReportInv
      <4>2. SUFFICES ASSUME report[r].before \cap Was({"deleted"}) = {},
                            NEW x \in Owed(r) \ Range(report[r].found)
                     PROVE  report[r].pc # "answered" /\ Rank(T, x) > end
        BY <1>3, <2>4, <2>5, <3>1 DEF PagesSound
      <4>3. report[r].pc # "answered" /\ Rank(S, x) > end
        BY <2>5, <2>8, <3>1, <4>1, <4>2 DEF PagesSound
      <4>4. Rank(S, x) \in Nat /\ Rank(S, x) <= Rank(T, x) /\ Rank(T, x) \in Nat
        BY <2>6, RankGrows
      <4> QED  BY <4>3, <4>4
    <3>3. RepeatsSound(r)'
      <4>1. PICK F : F = Range(report[r].found) \cap S  OBVIOUS
      <4>2. /\ Again(r) = {x \in F : Rank(S, x) > end}
            /\ Again(r)' = {x \in F : Rank(T, x) > end}
        <5>1. Range(report[r].found) \cap T = F  BY <2>2, <2>6, <4>1
        <5> QED  BY <2>4, <2>5, <3>1, <4>1, <5>1 DEF Again
      <4>3. F \subseteq S  BY <4>1
      <4>4. Cardinality(Again(r)') <= Cardinality(Again(r)) + 1 /\ IsFiniteSet(Again(r)')
        <5>1. CASE T = S
          <6>1. Again(r)' = Again(r)  BY <4>2, <5>1
          <6>2. Cardinality(Again(r)) \in Nat /\ IsFiniteSet(Again(r))
            BY ReportFacts, FS_CardinalityType
          <6> QED  BY <6>1, <6>2
        <5>2. CASE T = S \cup {e}
          <6>1. PICK A, B : A = Again(r) /\ B = Again(r)'  OBVIOUS
          <6>2. A = {x \in F : Rank(S, x) > end} /\ B = {x \in F : Rank(T, x) > end}
            BY <4>2, <6>1, Zenon
          <6>3. IsFiniteSet(S) /\ S \subseteq Nat /\ e \in Nat /\ e \notin S /\ F \subseteq S /\ end \in Nat
            BY <2>6, <4>3
          <6>4. IsFiniteSet(B) /\ Cardinality(B) <= Cardinality(A) + 1
            <7>1. /\ \A x : x \in A <=> x \in F /\ Rank(S, x) > end
                  /\ \A x : x \in B <=> x \in F /\ Rank(T, x) > end
              BY <6>2
            <7>2. T = S \cup {e}  BY <5>2
            <7> QED  BY <6>3, <7>1, <7>2, OneMoreMoves
          <6> QED  BY <6>1, <6>4
        <5> QED  BY <2>6, <5>1, <5>2
      <4>5. Cardinality(Later(r)') = Cardinality(Later(r)) + 1
        BY <2>4, ReportFacts, FS_AddElement
      <4>6. /\ Cardinality(Later(r)) \in Nat /\ Cardinality(Again(r)) \in Nat
            /\ Cardinality(Again(r)') \in Nat /\ Cardinality(Range(report[r].found)) \in Nat
            /\ Len(report[r].found) \in Nat
        <5>1. Len(report[r].found) \in Nat  BY ReportFacts
        <5> QED  BY <4>4, <5>1, ReportFacts, FS_CardinalityType
      <4>7. Len(report[r].found) + Cardinality(Again(r))
              <= Cardinality(Range(report[r].found)) + Cardinality(Later(r))
        BY <2>8 DEF ReportInv, RepeatsSound
      <4>8. Len(report[r].found) + Cardinality(Again(r)')
              <= Cardinality(Range(report[r].found)) + Cardinality(Later(r)')
        BY <4>4, <4>5, <4>6, <4>7
      <4> QED  BY <4>8 DEF RepeatsSound
    <3> QED  BY <2>4, <3>2, <3>3
  <2> QED  BY <2>7, <2>8
<1>5. LogResetSound'
  <2>1. PICK p \in LogProjects :
          /\ doomed \subseteq {x \in Was({"committed"}) : ProjectOf[x] = p}
          /\ \A r \in Reports : report[r].pc # "idle" =>
               \/ doomed \subseteq report[r].before
               \/ {x \in report[r].before \cap Was({"committed"}) : ProjectOf[x] = p} \subseteq doomed
    BY DEF ReportInv, LogResetSound
  <2>2. \A r \in Reports : e \notin report[r].before
    BY <1>3 DEF ReportInv, ReaderSound
  <2>3. doomed \subseteq {x \in Was({"committed"})' : ProjectOf[x] = p}  BY <1>3, <2>1
  <2>4. \A r \in Reports : report[r].before \cap Was({"committed"})' = report[r].before \cap Was({"committed"})
    BY <1>3, <2>2
  <2> QED  BY <2>1, <2>3, <2>4 DEF LogResetSound
<1> QED  BY <1>1, <1>2, <1>3, <1>4, <1>5, LogStep

LEMMA RowsAreDoomed ==
  ASSUME ReportAssumption, ReportInv, NEW p \in LogProjects, ResetLog(p)
  PROVE  ReportInv'
<1>1. /\ doomed' = {e \in Was({"committed"}) : ProjectOf[e] = p}
      /\ UNCHANGED <<entry, report, artefact, expired>>
      /\ entry \in [LogEntries -> EntryStates]
  BY DEF ResetLog, ReportInv, ReportTypeOK, EntryStates
<1>2. Was({"committed"})' = Was({"committed"}) /\ Was({"committed"}) \subseteq LogEntries
  BY <1>1 DEF Was
<1>3. LogResetSound'  BY <1>1, <1>2 DEF LogResetSound
<1>4. doomed' \subseteq LogEntries  BY <1>1, <1>2
<1> QED  BY <1>1, <1>3, <1>4, NothingMoreSeen

LEMMA RowsAreDeleted ==
  ASSUME ReportAssumption, ReportInv, CommitLogReset
  PROVE  ReportInv'
<1>1. /\ doomed # {} /\ doomed' = {}
      /\ entry' = [e \in LogEntries |-> IF e \in doomed THEN "deleted" ELSE entry[e]]
      /\ UNCHANGED <<report, artefact, expired>>
      /\ entry \in [LogEntries -> EntryStates]
  BY DEF CommitLogReset, ReportInv, ReportTypeOK, EntryStates
<1>2. PICK p \in LogProjects :
        /\ doomed \subseteq {x \in Was({"committed"}) : ProjectOf[x] = p}
        /\ \A r \in Reports : report[r].pc # "idle" =>
             \/ doomed \subseteq report[r].before
             \/ {x \in report[r].before \cap Was({"committed"}) : ProjectOf[x] = p} \subseteq doomed
  BY DEF ReportInv, LogResetSound
<1>3. entry' \in [LogEntries -> EntryStates]  BY <1>1 DEF EntryStates
<1>4. /\ Was({"committed"})' = Was({"committed"}) \ doomed
      /\ Was({"deleted"})' = Was({"deleted"}) \cup doomed
      /\ Was({"committed", "deleted"})' = Was({"committed", "deleted"})
  BY <1>1, <1>2 DEF Was
<1>5. LogResetSound'  BY <1>1, <1>2 DEF LogResetSound
<1>6. ASSUME NEW r \in Reports
      PROVE  PagesSound(r)' /\ RepeatsSound(r)' /\ Owed(r)' \subseteq Owed(r)
  <2>1. /\ Selected(r)' = Selected(r) \ doomed /\ PageEnd(r)' = PageEnd(r)
        /\ Owed(r)' = Owed(r) \ doomed /\ Later(r)' = Later(r)
    BY <1>1, <1>4 DEF Selected, Owed, PageEnd, Later
  <2>2. CASE report[r].ask.kind # "pages"
    BY <1>1, <2>1, <2>2 DEF PagesSound, RepeatsSound
  <2>3. CASE report[r].ask.kind = "pages"
    <3>1. PICK end \in Nat : end = PageEnd(r)  BY <2>3, PageEndIsNat
    <3>2. PagesSound(r)'
      <4>1. SUFFICES ASSUME report[r].before \cap Was({"deleted"})' = {},
                            NEW x \in Owed(r)' \ Range(report[r].found)
                     PROVE  report[r].pc # "answered" /\ Rank(Selected(r)', x) > PageEnd(r)
        BY <1>1, <2>1 DEF PagesSound
      <4>2. /\ report[r].before \cap Was({"deleted"}) = {} /\ report[r].before \cap doomed = {}
            /\ x \in Owed(r) /\ x \in report[r].before /\ x \in Was({"committed"}) /\ x \notin doomed
            /\ ProjectOf[x] = report[r].ask.project
        BY <1>4, <2>1, <4>1 DEF Owed, Selected
      <4>3. report[r].pc # "idle"
        BY <4>2 DEF ReportInv, ReaderSound
      <4>4. {y \in report[r].before \cap Was({"committed"}) : ProjectOf[y] = p} \subseteq doomed
        BY <1>1, <1>2, <4>2, <4>3
      <4>5. report[r].ask.project # p  BY <4>2, <4>4
      <4>6. \A y \in doomed : ProjectOf[y] = p  BY <1>2
      <4>7. Selected(r)' = Selected(r)
        <5>1. \A y \in Selected(r) : y \notin doomed  BY <4>5, <4>6 DEF Selected
        <5> QED  BY <2>1, <5>1
      <4>8. PagesSound(r)  BY DEF ReportInv
      <4> QED  BY <2>3, <4>1, <4>2, <4>7, <4>8 DEF PagesSound
    <3>3. RepeatsSound(r)'
      <4>1. PICK S, T, F : S = Selected(r) /\ T = Selected(r)' /\ F = Range(report[r].found)
        OBVIOUS
      <4>2. IsFiniteSet(S) /\ S \subseteq Nat /\ T \subseteq S
        BY <2>1, <4>1, ReportFacts
      <4>3. /\ Again(r) = {x \in F \cap S : Rank(S, x) > end}
            /\ Again(r)' = {x \in F \cap T : Rank(T, x) > end}
        BY <1>1, <2>1, <3>1, <4>1 DEF Again
      <4>4. Again(r)' \subseteq Again(r)
        <5>1. SUFFICES ASSUME NEW x \in F \cap T, Rank(T, x) > end  PROVE Rank(S, x) > end
          BY <4>2, <4>3
        <5>2. IsFiniteSet(T)  BY <4>2, FS_Subset
        <5>3. Rank(T, x) \in Nat /\ Rank(T, x) <= Rank(S, x)  BY <4>2, RankGrows
        <5>4. Rank(S, x) \in Nat  BY <4>2, RankGrows
        <5> QED  BY <5>1, <5>3, <5>4
      <4>5. Cardinality(Again(r)') <= Cardinality(Again(r)) /\ IsFiniteSet(Again(r)')
        BY <4>4, ReportFacts, FS_Subset
      <4>6. /\ Cardinality(Later(r)) \in Nat /\ Cardinality(Again(r)) \in Nat
            /\ Cardinality(Again(r)') \in Nat /\ Cardinality(Range(report[r].found)) \in Nat
            /\ Len(report[r].found) \in Nat
        <5>1. Len(report[r].found) \in Nat  BY ReportFacts
        <5> QED  BY <4>5, <5>1, ReportFacts, FS_CardinalityType
      <4>7. Len(report[r].found) + Cardinality(Again(r))
              <= Cardinality(Range(report[r].found)) + Cardinality(Later(r))
        BY <2>3 DEF ReportInv, RepeatsSound
      <4>8. Len(report[r].found) + Cardinality(Again(r)')
              <= Cardinality(Range(report[r].found)) + Cardinality(Later(r))
        BY <4>5, <4>6, <4>7
      <4> QED  BY <1>1, <2>1, <4>8 DEF RepeatsSound
    <3> QED  BY <2>1, <3>2, <3>3
  <2> QED  BY <2>2, <2>3
<1>7. doomed' \subseteq LogEntries  BY <1>1
<1> QED  BY <1>1, <1>3, <1>4, <1>5, <1>6, <1>7, LogStep

\* A step of one reader leaves the log and the other readers alone.
LEMMA ReaderStep ==
  ASSUME ReportAssumption, ReportInv, NEW r \in Reports, NEW new \in Report,
         report' = [report EXCEPT ![r] = new], UNCHANGED <<entry, doomed>>,
         artefact' \in [Reports -> [LogProjects -> Artefact]],
         \A q \in Reports \ {r} : artefact'[q] = artefact[q] /\ (q \in expired' <=> q \in expired),
         Range(new.found) \subseteq Was({"committed", "deleted"}),
         new.pc # "idle" => \/ report[r].pc # "idle" /\ new.before = report[r].before
                            \/ new.before = Was({"committed"}),
         ReaderInv(r)'
  PROVE  ReportInv'
<1>1. report \in [Reports -> Report]  BY DEF ReportInv, ReportTypeOK
<1>2. /\ report' \in [Reports -> Report] /\ report'[r] = new
      /\ \A q \in Reports \ {r} : report'[q] = report[q]
  BY <1>1
<1>3. \A states : Was(states)' = Was(states)  BY DEF Was
<1>4. ReportTypeOK'  BY <1>2, <1>3 DEF ReportInv, ReportTypeOK
<1>5. LogResetSound'
  <2>1. PICK p \in LogProjects :
          /\ doomed \subseteq {x \in Was({"committed"}) : ProjectOf[x] = p}
          /\ \A q \in Reports : report[q].pc # "idle" =>
               \/ doomed \subseteq report[q].before
               \/ {x \in report[q].before \cap Was({"committed"}) : ProjectOf[x] = p} \subseteq doomed
    BY DEF ReportInv, LogResetSound
  <2>2. doomed \subseteq Was({"committed"})  BY <2>1
  <2>3. ASSUME NEW q \in Reports, report'[q].pc # "idle"
        PROVE  \/ doomed \subseteq report'[q].before
               \/ {x \in report'[q].before \cap Was({"committed"}) : ProjectOf[x] = p} \subseteq doomed
    BY <1>2, <2>1, <2>2, <2>3
  <2> QED  BY <1>3, <2>1, <2>3 DEF LogResetSound
<1>6. ASSUME NEW q \in Reports, q # r
      PROVE  ReaderSound(q)' /\ PagesSound(q)' /\ RepeatsSound(q)' /\ ExportSound(q)' /\ ArtefactSound(q)'
  <2>1. report'[q] = report[q] /\ artefact'[q] = artefact[q] /\ (q \in expired' <=> q \in expired)
    BY <1>2, <1>6
  <2>2. /\ Selected(q)' = Selected(q) /\ Owed(q)' = Owed(q) /\ Later(q)' = Later(q)
        /\ PageEnd(q)' = PageEnd(q)
    BY <1>3, <2>1 DEF Selected, Owed, Later, PageEnd
  <2>3. Again(q)' = Again(q)  BY <2>1, <2>2 DEF Again
  <2>4. ReaderSound(q) /\ PagesSound(q) /\ RepeatsSound(q) /\ ExportSound(q) /\ ArtefactSound(q)
    BY DEF ReportInv
  <2>5. ReaderSound(q)' /\ ArtefactSound(q)'  BY <1>3, <2>1, <2>4 DEF ReaderSound, ArtefactSound
  <2>6. PagesSound(q)' /\ RepeatsSound(q)' /\ ExportSound(q)'
    BY <1>3, <2>1, <2>2, <2>3, <2>4 DEF PagesSound, RepeatsSound, ExportSound
  <2> QED  BY <2>5, <2>6
<1> QED  BY <1>4, <1>5, <1>6 DEF ReportInv, ReaderInv

\* A step of a reader that reads no rows.
LEMMA NothingRead ==
  ASSUME ReportAssumption, ReportInv, NEW r \in Reports, NEW new \in Report,
         report' = [report EXCEPT ![r] = new], UNCHANGED <<entry, doomed>>,
         artefact' \in [Reports -> [LogProjects -> Artefact]],
         \A q \in Reports \ {r} : artefact'[q] = artefact[q] /\ (q \in expired' <=> q \in expired),
         new.ask = report[r].ask, new.page = report[r].page, new.found = report[r].found,
         new.before = report[r].before, report[r].pc # "idle",
         new.pc = "answered" => report[r].ask.kind # "pages" \/ report[r].pc = "answered",
         new.pc \in {"reading", "saving", "limiting", "answered"} /\ new.ask.kind # "other" =>
           \/ report[r].pc \in {"reading", "saving", "limiting", "answered"} /\ new.total = report[r].total
           \/ new.total = Cardinality(Selected(r)),
         ReaderSound(r)', ArtefactSound(r)'
  PROVE  ReportInv'
<1>1. report'[r] = new  BY ReportFacts
<1>2. \A states : Was(states)' = Was(states)  BY DEF Was
<1>3. /\ Selected(r)' = Selected(r) /\ Owed(r)' = Owed(r) /\ Later(r)' = Later(r)
      /\ PageEnd(r)' = PageEnd(r)
  BY <1>1, <1>2 DEF Selected, Owed, Later, PageEnd
<1>4. Again(r)' = Again(r)  BY <1>1, <1>3 DEF Again
<1>5. ReaderInv(r)  BY ReportFacts
<1>6. PagesSound(r)'
  BY <1>1, <1>2, <1>3, <1>5 DEF PagesSound, ReaderInv
<1>7. RepeatsSound(r)'  BY <1>1, <1>3, <1>4, <1>5 DEF RepeatsSound, ReaderInv
<1>8. ExportSound(r)'
  <2>1. Cardinality(Owed(r)) <= Cardinality(Selected(r))
    <3>1. Owed(r) \in SUBSET Selected(r)  BY DEF Owed
    <3> QED  BY <3>1, ReportFacts, FS_Subset
  <2> QED  BY <1>1, <1>3, <1>5, <2>1 DEF ExportSound, ReaderInv
<1>9. Range(new.found) \subseteq Was({"committed", "deleted"})
  BY <1>5 DEF ReaderInv, ReaderSound
<1> QED  BY <1>6, <1>7, <1>8, <1>9, ReaderStep DEF ReaderInv

LEMMA ReportIsAsked ==
  ASSUME ReportAssumption, ReportInv, NEW r \in Reports, NEW asked \in ReportAsks[r],
         AskReport(r, asked)
  PROVE  ReportInv'
<1>1. /\ report[r].pc = "idle" /\ UNCHANGED <<entry, doomed, artefact, expired>>
      /\ asked \in ReportAsk
  BY DEF AskReport, ReportAssumption
<1> DEFINE label == IF asked.kind = "other" THEN "saving" ELSE "counting"
           new == [report[r] EXCEPT !.pc = label, !.ask = asked, !.before = Was({"committed"})]
<1>2. report[r] \in Report /\ report \in [Reports -> Report] /\ ReaderInv(r)  BY ReportFacts
<1>3. new \in Report
  <2>1. label \in {"counting", "saving"} /\ Was({"committed"}) \in SUBSET LogEntries  BY DEF Was
  <2> HIDE DEF label
  <2> QED  BY <1>1, <1>2, <2>1, Zenon DEF Report
<1>4. report' = [report EXCEPT ![r] = new]  BY <1>2 DEF AskReport
<1>5. /\ new.pc = label /\ new.ask = asked /\ new.before = Was({"committed"})
      /\ new.page = report[r].page /\ new.found = report[r].found /\ new.total = report[r].total
  BY <1>2 DEF Report
<1> HIDE DEF new
<1>6. report'[r] = new  BY <1>2, <1>4
<1>7. /\ report[r].page = 1 /\ report[r].found = <<>> /\ Range(<<>>) = {}
  BY <1>1, <1>2 DEF ReaderInv, ReaderSound, Range
<1>8. asked.kind \in {"pages", "export", "other"}  BY <1>1 DEF ReportAsk
<1>9. \A states : Was(states)' = Was(states)  BY <1>1 DEF Was
<1>10. ReaderSound(r)'
  <2>1. Was({"committed"}) \subseteq Was({"committed", "deleted"})  BY DEF Was
  <2> QED  BY <1>1, <1>5, <1>6, <1>7, <1>8, <1>9, <2>1 DEF ReaderSound
<1>11. ArtefactSound(r)'
  <2>1. \A p \in LogProjects : artefact[r][p] = NoArtefact
    <3>1. /\ \A p \in LogProjects \ {report[r].ask.project} : artefact[r][p] = NoArtefact
          /\ artefact[r][report[r].ask.project] = NoArtefact
      BY <1>1, <1>2 DEF ReaderInv, ArtefactSound
    <3> QED  BY <3>1
  <2>2. asked.project \in LogProjects  BY <1>1 DEF ReportAsk
  <2>3. NoArtefact.there = FALSE /\ NoArtefact.limited = FALSE  BY DEF NoArtefact
  <2> QED  BY <1>1, <1>5, <1>6, <2>1, <2>2, <2>3 DEF ArtefactSound
<1>12. IsFiniteSet(Selected(r)') /\ Selected(r)' \subseteq Nat
  <2>1. Selected(r)' \in SUBSET LogEntries  BY <1>9 DEF Selected, Was
  <2> QED  BY <2>1, ReportFacts, FS_Subset
<1>13. PagesSound(r)'
  <2>1. SUFFICES ASSUME asked.kind = "pages", NEW e \in Owed(r)'
                 PROVE  label # "answered" /\ Rank(Selected(r)', e) > PageEnd(r)'
    BY <1>5, <1>6 DEF PagesSound
  <2>2. PageEnd(r)' = 0
    <3>1. SearchLimit["pages"] \in Nat  BY DEF ReportAssumption
    <3>2. PageEnd(r)' = (1 - 1) * SearchLimit["pages"]  BY <1>5, <1>6, <1>7, <2>1 DEF PageEnd
    <3> QED  BY <3>1, <3>2
  <2>3. PICK S : S = Selected(r)'  OBVIOUS
  <2>4. e \in S  BY <2>1, <2>3 DEF Owed
  <2>5. PICK n \in Nat : n = Cardinality(S)  BY <1>12, <2>3, FS_CardinalityType
  <2>6. Rank(S, e) \in 1 .. n  BY <1>12, <2>3, <2>4, <2>5, RankFacts
  <2> QED  BY <2>2, <2>3, <2>6
<1>14. Again(r)' = {} /\ Cardinality({}) = 0 /\ Len(<<>>) = 0
  BY <1>5, <1>6, <1>7, FS_EmptySet DEF Again
<1>15. RepeatsSound(r)'
  <2>1. Later(r)' \in SUBSET LogEntries  BY DEF Later, Was, LogEntries
  <2>2. Cardinality(Later(r)') \in Nat  BY <2>1, ReportFacts, FS_Subset, FS_CardinalityType
  <2>3. /\ Len(report'[r].found) = 0 /\ Cardinality(Again(r)') = 0
        /\ Cardinality(Range(report'[r].found)) = 0
    BY <1>5, <1>6, <1>7, <1>14
  <2>4. Len(report'[r].found) + Cardinality(Again(r)')
          <= Cardinality(Range(report'[r].found)) + Cardinality(Later(r)')
    BY <2>2, <2>3
  <2> QED  BY <2>4 DEF RepeatsSound
<1>16. ExportSound(r)'
  <2>1. report'[r].found = <<>> /\ report'[r].page = 1 /\ report'[r].pc = label /\ report'[r].ask = asked
    BY <1>5, <1>6, <1>7
  <2>2. Len(report'[r].found) = Cardinality(Range(report'[r].found))  BY <1>7, <1>14, <2>1
  <2>3. ~(report'[r].page > 1)  BY <2>1
  <2>4. report'[r].pc \notin {"reading", "saving", "limiting", "answered"} \/ report'[r].ask.kind = "other"
    BY <2>1
  <2> QED  BY <2>2, <2>3, <2>4 DEF ExportSound
<1>17. artefact' \in [Reports -> [LogProjects -> Artefact]]  BY <1>1 DEF ReportInv
<1>18. Range(new.found) \subseteq Was({"committed", "deleted"})  BY <1>5, <1>7
<1> QED
  BY <1>1, <1>3, <1>4, <1>5, <1>10, <1>11, <1>13, <1>15, <1>16, <1>17, <1>18, ReaderStep
     DEF ReaderInv

LEMMA EntriesAreCounted ==
  ASSUME ReportAssumption, ReportInv, NEW r \in Reports, CountEntries(r)
  PROVE  ReportInv'
<1>1. /\ report[r].pc = "counting" /\ UNCHANGED <<entry, doomed, artefact, expired>>
      /\ report' = [report EXCEPT ![r].pc = "reading", ![r].total = Cardinality(Selected(r))]
  BY DEF CountEntries
<1> DEFINE new == [report[r] EXCEPT !.pc = "reading", !.total = Cardinality(Selected(r))]
<1>2. report[r] \in Report /\ report \in [Reports -> Report] /\ ReaderInv(r)  BY ReportFacts
<1>3. new \in Report
  <2>1. Cardinality(Selected(r)) \in Nat  BY ReportFacts, FS_CardinalityType
  <2> QED  BY <1>2, <2>1, Zenon DEF Report
<1>4. report' = [report EXCEPT ![r] = new]  BY <1>1, <1>2
<1>5. /\ new.pc = "reading" /\ new.ask = report[r].ask /\ new.before = report[r].before
      /\ new.page = report[r].page /\ new.found = report[r].found
      /\ new.total = Cardinality(Selected(r))
  BY <1>2 DEF Report
<1> HIDE DEF new
<1>6. report'[r] = new  BY <1>2, <1>4
<1>7. \A states : Was(states)' = Was(states)  BY <1>1 DEF Was
<1>8. ReaderSound(r)' /\ ArtefactSound(r)'
  BY <1>1, <1>2, <1>5, <1>6, <1>7 DEF ReaderInv, ReaderSound, ArtefactSound
<1>9. artefact' \in [Reports -> [LogProjects -> Artefact]]  BY <1>1 DEF ReportInv
<1> QED  BY <1>1, <1>3, <1>4, <1>5, <1>8, <1>9, NothingRead

LEMMA ReportIsGivenUp ==
  ASSUME ReportAssumption, ReportInv, NEW r \in Reports, ReportFails(r)
  PROVE  ReportInv'
<1>1. /\ report[r].pc \in {"counting", "reading", "saving", "limiting"}
      /\ UNCHANGED <<entry, doomed, artefact, expired>>
      /\ report' = [report EXCEPT ![r].pc = "error"]
  BY DEF ReportFails, ReportAt
<1> DEFINE new == [report[r] EXCEPT !.pc = "error"]
<1>2. report[r] \in Report /\ report \in [Reports -> Report] /\ ReaderInv(r)  BY ReportFacts
<1>3. new \in Report  BY <1>2, Zenon DEF Report
<1>4. report' = [report EXCEPT ![r] = new]  BY <1>1, <1>2
<1>5. /\ new.pc = "error" /\ new.ask = report[r].ask /\ new.before = report[r].before
      /\ new.page = report[r].page /\ new.found = report[r].found /\ new.total = report[r].total
  BY <1>2 DEF Report
<1> HIDE DEF new
<1>6. report'[r] = new  BY <1>2, <1>4
<1>7. \A states : Was(states)' = Was(states)  BY <1>1 DEF Was
<1>8. ReaderSound(r)' /\ ArtefactSound(r)'
  BY <1>1, <1>2, <1>5, <1>6, <1>7 DEF ReaderInv, ReaderSound, ArtefactSound
<1>9. artefact' \in [Reports -> [LogProjects -> Artefact]]  BY <1>1 DEF ReportInv
<1> QED  BY <1>1, <1>3, <1>4, <1>5, <1>8, <1>9, NothingRead

LEMMA ExportIsSaved ==
  ASSUME ReportAssumption, ReportInv, NEW r \in Reports, SaveExport(r)
  PROVE  ReportInv'
<1> DEFINE saved == [content |-> report[r].found, there |-> TRUE, limited |-> FALSE]
           own == report[r].ask.project
<1>1. /\ report[r].pc = "saving" /\ UNCHANGED <<entry, doomed, expired>>
      /\ report' = [report EXCEPT ![r].pc = "limiting"]
      /\ artefact' = [artefact EXCEPT ![r][own] = saved]
  BY DEF SaveExport, ReportAt
<1> DEFINE new == [report[r] EXCEPT !.pc = "limiting"]
<1>2. /\ report[r] \in Report /\ report \in [Reports -> Report] /\ ReaderInv(r)
      /\ artefact \in [Reports -> [LogProjects -> Artefact]]
  BY ReportFacts DEF ReportInv
<1>3. new \in Report  BY <1>2, Zenon DEF Report
<1>4. report' = [report EXCEPT ![r] = new]  BY <1>1, <1>2
<1>5. /\ new.pc = "limiting" /\ new.ask = report[r].ask /\ new.before = report[r].before
      /\ new.page = report[r].page /\ new.found = report[r].found /\ new.total = report[r].total
  BY <1>2 DEF Report
<1> HIDE DEF new
<1>6. report'[r] = new  BY <1>2, <1>4
<1>7. \A states : Was(states)' = Was(states)  BY <1>1 DEF Was
<1>8. own \in LogProjects  BY <1>2 DEF Report, ReportAsk
<1>9. saved \in Artefact  BY ReportFacts DEF Artefact
<1>10. saved.content = report[r].found /\ saved.there = TRUE /\ saved.limited = FALSE  OBVIOUS
<1> HIDE DEF saved
<1>11. /\ artefact' \in [Reports -> [LogProjects -> Artefact]]
       /\ artefact'[r][own] = saved
       /\ \A p \in LogProjects \ {own} : artefact'[r][p] = artefact[r][p]
       /\ \A q \in Reports \ {r} : artefact'[q] = artefact[q]
  BY <1>1, <1>2, <1>8, <1>9
<1>12. ReaderSound(r)'
  BY <1>1, <1>2, <1>5, <1>6, <1>7 DEF ReaderInv, ReaderSound
<1>13. ArtefactSound(r)'
  BY <1>1, <1>2, <1>5, <1>6, <1>10, <1>11 DEF ReaderInv, ReaderSound, ArtefactSound
<1> QED  BY <1>1, <1>3, <1>4, <1>5, <1>11, <1>12, <1>13, NothingRead

\* EXPIRE is carried out, and its reply arrives or is lost.
LEMMA ExportIsLimited ==
  ASSUME ReportAssumption, ReportInv, NEW r \in Reports, LimitExport(r) \/ LimitReplyLost(r)
  PROVE  ReportInv'
<1> DEFINE own == report[r].ask.project
           saved == [artefact[r][own] EXCEPT !.limited = TRUE]
<1>1. PICK label \in {"answered", "error"} :
        /\ report[r].pc = "limiting" /\ UNCHANGED <<entry, doomed, expired>>
        /\ report' = [report EXCEPT ![r].pc = label]
        /\ artefact' = [artefact EXCEPT ![r][own].limited = TRUE]
  BY DEF LimitExport, LimitReplyLost, ReportAt
<1> DEFINE new == [report[r] EXCEPT !.pc = label]
<1>2. /\ report[r] \in Report /\ report \in [Reports -> Report] /\ ReaderInv(r)
      /\ artefact \in [Reports -> [LogProjects -> Artefact]]
  BY ReportFacts DEF ReportInv
<1>3. new \in Report  BY <1>1, <1>2, Zenon DEF Report
<1>4. report' = [report EXCEPT ![r] = new]  BY <1>1, <1>2
<1>5. /\ new.pc = label /\ new.ask = report[r].ask /\ new.before = report[r].before
      /\ new.page = report[r].page /\ new.found = report[r].found /\ new.total = report[r].total
  BY <1>2 DEF Report
<1> HIDE DEF new
<1>6. report'[r] = new  BY <1>2, <1>4
<1>7. \A states : Was(states)' = Was(states)  BY <1>1 DEF Was
<1>8. own \in LogProjects  BY <1>2 DEF Report, ReportAsk
<1>9. artefact[r][own] \in Artefact  BY <1>2, <1>8
<1>10. saved \in Artefact  BY <1>9, Zenon DEF Artefact
<1>11. /\ saved.content = artefact[r][own].content /\ saved.there = artefact[r][own].there
       /\ saved.limited = TRUE
  BY <1>9 DEF Artefact
<1>12. artefact' = [artefact EXCEPT ![r][own] = saved]  BY <1>1, <1>2, <1>8
<1> HIDE DEF saved
<1>13. /\ artefact' \in [Reports -> [LogProjects -> Artefact]]
       /\ artefact'[r][own] = saved
       /\ \A p \in LogProjects \ {own} : artefact'[r][p] = artefact[r][p]
       /\ \A q \in Reports \ {r} : artefact'[q] = artefact[q]
  BY <1>2, <1>8, <1>10, <1>12
<1>14. report[r].ask.kind # "pages"  BY <1>1, <1>2 DEF ReaderInv, ReaderSound
<1>15. ReaderSound(r)'
  BY <1>1, <1>2, <1>5, <1>6, <1>7 DEF ReaderInv, ReaderSound
<1>16. ArtefactSound(r)'
  <2>1. /\ artefact[r][own].there /\ artefact[r][own].content = report[r].found
        /\ \A p \in LogProjects \ {own} : artefact[r][p] = NoArtefact
    BY <1>1, <1>2 DEF ReaderInv, ArtefactSound
  <2>2. /\ report'[r].ask = report[r].ask /\ report'[r].ask.project = own
        /\ report'[r].found = report[r].found /\ report'[r].pc = label
    BY <1>5, <1>6
  <2>3. /\ artefact'[r][own].there /\ artefact'[r][own].limited
        /\ artefact'[r][own].content = report'[r].found
    BY <1>11, <1>13, <2>1, <2>2
  <2>4. \A p \in LogProjects \ {own} : artefact'[r][p] = NoArtefact  BY <1>13, <2>1
  <2>5. label # "limiting" /\ label \in {"limiting", "answered", "error"}  BY <1>1
  <2> QED  BY <1>14, <2>2, <2>3, <2>4, <2>5 DEF ArtefactSound
<1> QED  BY <1>1, <1>3, <1>4, <1>5, <1>13, <1>14, <1>15, <1>16, NothingRead

LEMMA ArtefactIsGone ==
  ASSUME ReportAssumption, ReportInv, NEW r \in Reports, NEW p \in LogProjects, ExpireArtefact(r, p)
  PROVE  ReportInv'
<1>1. /\ artefact[r][p].limited /\ UNCHANGED <<entry, doomed, report>>
      /\ artefact' = [artefact EXCEPT ![r][p] = NoArtefact]
      /\ expired' = expired \cup {r}
  BY DEF ExpireArtefact
<1>2. /\ report[r] \in Report /\ report \in [Reports -> Report] /\ ReaderInv(r)
      /\ artefact \in [Reports -> [LogProjects -> Artefact]]
  BY ReportFacts DEF ReportInv
<1>3. NoArtefact \in Artefact /\ NoArtefact.there = FALSE /\ NoArtefact.limited = FALSE
  <2>1. <<>> \in Seq(LogEntries)  OBVIOUS
  <2> QED  BY <2>1 DEF NoArtefact, Artefact
<1>4. p = report[r].ask.project /\ artefact[r][p].there
      /\ report[r].pc \in {"limiting", "answered", "error"} /\ report[r].pc # "limiting"
  BY <1>1, <1>2, <1>3 DEF ReaderInv, ArtefactSound
<1>5. /\ artefact' \in [Reports -> [LogProjects -> Artefact]]
      /\ artefact'[r][p] = NoArtefact
      /\ \A o \in LogProjects \ {p} : artefact'[r][o] = artefact[r][o]
      /\ \A q \in Reports \ {r} : artefact'[q] = artefact[q]
  BY <1>1, <1>2, <1>3
<1>6. report' = [report EXCEPT ![r] = report[r]]  BY <1>1, <1>2
<1>7. \A states : Was(states)' = Was(states)  BY <1>1 DEF Was
<1>8. ReaderSound(r)'  BY <1>1, <1>2, <1>7 DEF ReaderInv, ReaderSound
<1>9. ArtefactSound(r)'
  BY <1>1, <1>2, <1>3, <1>4, <1>5 DEF ReaderInv, ArtefactSound
<1> QED  BY <1>1, <1>2, <1>4, <1>5, <1>6, <1>8, <1>9, NothingRead

\* A page is read, and with it what there was to be seen again.
LEMMA PageIsRead ==
  ASSUME ReportAssumption, ReportInv, NEW r \in Reports, ReadPage(r)
  PROVE  ReportInv'
<1> DEFINE kind == report[r].ask.kind
<1>1. /\ report[r].pc = "reading" /\ UNCHANGED <<entry, doomed, artefact, expired>>
      /\ kind \in {"pages", "export"}
  <2>1. kind \in {"pages", "export", "other"}  BY ReportFacts DEF Report, ReportAsk
  <2>2. report[r].pc = "reading"  BY DEF ReadPage
  <2>3. kind # "other"  BY <2>2, ReportFacts DEF ReaderInv, ReaderSound
  <2> QED  BY <2>1, <2>2, <2>3 DEF ReadPage
<1>2. /\ report[r] \in Report /\ report \in [Reports -> Report] /\ ReaderInv(r)
      /\ report[r].found \in Seq(LogEntries)
  BY ReportFacts
<1>3. PICK size \in Nat \ {0} : size = SearchLimit[kind]  BY <1>1 DEF ReportAssumption
<1>4. PICK page \in Nat \ {0} : page = report[r].page  BY ReportFacts
<1>5. PICK S : S = Selected(r) /\ IsFiniteSet(S) /\ S \subseteq LogEntries /\ S \subseteq Nat
  BY ReportFacts
<1>6. PICK R : /\ R = PageRows(S, page, size) /\ R \subseteq S /\ IsFiniteSet(R)
               /\ Cardinality(R) \in 0 .. size
               /\ \A e \in S : Rank(S, e) > page * size => Cardinality(R) = size
  BY <1>5, PageFacts
<1>7. PICK rows : /\ rows = NewestFirst(R) /\ rows \in Seq(LogEntries)
                  /\ Len(rows) = Cardinality(R) /\ Range(rows) = R
  <2>1. R \subseteq Nat /\ R \subseteq LogEntries  BY <1>5, <1>6
  <2>2. NewestFirst(R) \in Seq(R) /\ Len(NewestFirst(R)) = Cardinality(R) /\ Range(NewestFirst(R)) = R
    BY <1>6, <2>1, OrderFacts
  <2>3. NewestFirst(R) \in Seq(LogEntries)
    <3>1. PICK s \in Seq(R) : s = NewestFirst(R)  BY <2>2
    <3>2. Len(s) \in Nat /\ s = [i \in 1 .. Len(s) |-> s[i]] /\ \A i \in 1 .. Len(s) : s[i] \in R  BY <3>1
    <3>3. s \in [1 .. Len(s) -> LogEntries]  BY <2>1, <3>2
    <3>4. s \in Seq(LogEntries)  BY <3>2, <3>3
    <3> QED  BY <3>1, <3>4
  <2> QED  BY <2>2, <2>3
<1> DEFINE label == IF kind = "export" THEN "saving"
                    ELSE IF Len(rows) < size THEN "answered" ELSE "counting"
           found == report[r].found \o rows
           new == [report[r] EXCEPT !.pc = label, !.page = page + 1, !.found = found]
<1>8. report' = [report EXCEPT ![r] = new]
  <2>1. rows = NewestFirst(PageRows(Selected(r), report[r].page, SearchLimit[report[r].ask.kind]))
    BY <1>3, <1>4, <1>5, <1>6, <1>7
  <2> QED  BY <1>2, <1>3, <1>4, <2>1 DEF ReadPage
<1>9. found \in Seq(LogEntries)  BY <1>2, <1>7
<1>10. new \in Report
  <2>1. label \in {"saving", "answered", "counting"} /\ page + 1 \in Nat  OBVIOUS
  <2> HIDE DEF label, found
  <2> QED  BY <1>2, <1>9, <2>1, Zenon DEF Report
<1>11. /\ new.pc = label /\ new.ask = report[r].ask /\ new.before = report[r].before
       /\ new.page = page + 1 /\ new.found = found /\ new.total = report[r].total
  BY <1>2 DEF Report
<1> HIDE DEF new
<1>12. report'[r] = new  BY <1>2, <1>8
<1>13. \A states : Was(states)' = Was(states)  BY <1>1 DEF Was
<1>14. PICK F : /\ F = Range(report[r].found) /\ IsFiniteSet(F) /\ F \subseteq LogEntries
                /\ F \subseteq Was({"committed", "deleted"})
  BY ReportFacts DEF ReaderInv, ReaderSound
<1>15. Len(found) = Len(report[r].found) + Cardinality(R) /\ Range(found) = F \cup R
  <2>1. Len(found) = Len(report[r].found) + Len(rows)  BY <1>2, <1>7
  <2>2. Range(found) = Range(report[r].found) \cup Range(rows)
    <3>1. DOMAIN found = 1 .. (Len(report[r].found) + Len(rows))  BY <1>2, <1>7
    <3>2. \A i \in 1 .. Len(report[r].found) : i \in DOMAIN found /\ found[i] = report[r].found[i]
      BY <1>2, <1>7
    <3>3. \A i \in 1 .. Len(rows) :
            Len(report[r].found) + i \in DOMAIN found /\ found[Len(report[r].found) + i] = rows[i]
      BY <1>2, <1>7
    <3>4. \A i \in DOMAIN found : i \in 1 .. Len(report[r].found)
                               \/ i - Len(report[r].found) \in 1 .. Len(rows)
      BY <1>2, <1>7, <3>1
    <3>5. \A x \in Range(found) : x \in Range(report[r].found) \cup Range(rows)
      <4>1. SUFFICES ASSUME NEW i \in DOMAIN found
                     PROVE  found[i] \in Range(report[r].found) \cup Range(rows)
        BY DEF Range
      <4>2. CASE i \in 1 .. Len(report[r].found)
        <5>1. i \in DOMAIN report[r].found  BY <1>2, <4>2
        <5> QED  BY <3>2, <4>2, <5>1 DEF Range
      <4>3. CASE i - Len(report[r].found) \in 1 .. Len(rows)
        <5>1. i - Len(report[r].found) \in DOMAIN rows  BY <1>7, <4>3
        <5>2. Len(report[r].found) + (i - Len(report[r].found)) = i  BY <1>2, <3>1, <4>1
        <5>3. found[i] = rows[i - Len(report[r].found)]  BY <3>3, <4>3, <5>2
        <5> QED  BY <5>1, <5>3 DEF Range
      <4> QED  BY <3>4, <4>2, <4>3
    <3>6. \A x \in Range(report[r].found) \cup Range(rows) : x \in Range(found)
      <4>1. \A i \in DOMAIN report[r].found : report[r].found[i] \in Range(found)
        <5>1. \A i \in DOMAIN report[r].found : i \in 1 .. Len(report[r].found)  BY <1>2
        <5> QED  BY <3>2, <5>1 DEF Range
      <4>2. \A i \in DOMAIN rows : rows[i] \in Range(found)
        <5>1. \A i \in DOMAIN rows : i \in 1 .. Len(rows)  BY <1>7
        <5> QED  BY <3>3, <5>1 DEF Range
      <4> QED  BY <4>1, <4>2 DEF Range
    <3> HIDE DEF found
    <3> QED  BY <3>5, <3>6
  <2> QED  BY <1>7, <1>14, <2>1, <2>2
<1> HIDE DEF found
<1>16. /\ Selected(r)' = S /\ Owed(r)' = Owed(r) /\ Later(r)' = Later(r)
       /\ PageEnd(r)' = page * size
  <2>1. (page + 1) - 1 = page  OBVIOUS
  <2>2. Selected(r)' = Selected(r)  BY <1>11, <1>12, <1>13 DEF Selected
  <2> QED  BY <1>3, <1>5, <1>11, <1>12, <1>13, <2>1, <2>2 DEF Owed, Later, PageEnd
<1>17. R \subseteq Was({"committed", "deleted"}) /\ Range(found) \subseteq Was({"committed", "deleted"})
  BY <1>5, <1>6, <1>14, <1>15 DEF Selected, Was
<1>18. Owed(r) \subseteq S  BY <1>5 DEF Owed
<1>19. page * size \in Nat /\ (page - 1) * size \in Nat /\ PageEnd(r) = (page - 1) * size
  <2>1. page - 1 \in Nat  OBVIOUS
  <2>2. page * size \in Nat /\ (page - 1) * size \in Nat  BY <2>1
  <2> QED  BY <1>3, <1>4, <2>2 DEF PageEnd
<1>20. \A e \in S : Rank(S, e) \in Nat
  <2>1. PICK n \in Nat : n = Cardinality(S)  BY <1>5, FS_CardinalityType
  <2>2. \A e \in S : Rank(S, e) \in 1 .. n  BY <1>5, <2>1, RankFacts
  <2> QED  BY <2>2
<1>21. ReaderSound(r)'
  <2>1. ReaderSound(r)  BY <1>2 DEF ReaderInv
  <2>2. page + 1 > 0 /\ page + 1 # 1  OBVIOUS
  <2>3. /\ label \in {"saving", "answered", "counting"} /\ (label = "saving" => kind = "export")
        /\ (kind = "export" => label = "saving")
    OBVIOUS
  <2>4. report[r].before \subseteq Was({"committed", "deleted"})  BY <2>1 DEF ReaderSound
  <2> HIDE DEF label
  <2> QED  BY <1>1, <1>11, <1>12, <1>13, <1>17, <2>2, <2>3, <2>4 DEF ReaderSound
<1>22. PagesSound(r)'
  <2>1. SUFFICES ASSUME kind = "pages", report[r].before \cap Was({"deleted"}) = {},
                        NEW e \in Owed(r) \ Range(found)
                 PROVE  label # "answered" /\ Rank(S, e) > page * size
    BY <1>11, <1>12, <1>13, <1>16 DEF PagesSound
  <2>2. e \in S /\ e \notin F /\ e \notin R  BY <1>15, <1>18, <2>1
  <2>3. Rank(S, e) > (page - 1) * size
    BY <1>2, <1>5, <1>14, <1>19, <2>1, <2>2 DEF ReaderInv, PagesSound
  <2>4. ~(Rank(S, e) <= page * size)  BY <1>6, <2>2, <2>3 DEF PageRows
  <2>5. Rank(S, e) > page * size  BY <1>19, <1>20, <2>2, <2>4
  <2>6. ~(Len(rows) < size)
    <3>1. Len(rows) = size  BY <1>6, <1>7, <2>2, <2>5
    <3> QED  BY <3>1
  <2> QED  BY <2>1, <2>5, <2>6
<1>23. RepeatsSound(r)'
  <2>1. SUFFICES ASSUME kind = "pages"
                 PROVE  Len(found) + Cardinality(Again(r)') <= Cardinality(F \cup R) + Cardinality(Later(r))
    BY <1>11, <1>12, <1>15, <1>16 DEF RepeatsSound
  <2>2. Len(report[r].found) + Cardinality(Again(r)) <= Cardinality(F) + Cardinality(Later(r))
    BY <1>2, <1>14, <2>1 DEF ReaderInv, RepeatsSound
  <2>3. PICK A, B : /\ A = {x \in F \cap S : Rank(S, x) > (page - 1) * size}
                    /\ B = {x \in (F \cup R) \cap S : Rank(S, x) > page * size}
    OBVIOUS
  <2>4. A = Again(r) /\ B = Again(r)'
    <3>1. A = Again(r)  BY <1>5, <1>14, <1>19, <2>3 DEF Again
    <3>2. B = Again(r)'  BY <1>11, <1>12, <1>15, <1>16, <2>3 DEF Again
    <3> QED  BY <3>1, <3>2
  <2>5. Cardinality(R) + Cardinality(F) + Cardinality(B) = Cardinality(F \cup R) + Cardinality(A)
    BY <1>5, <1>6, <1>14, <2>3, PageTurned
  <2>6. /\ A \in SUBSET F /\ B \in SUBSET (F \cup R) /\ IsFiniteSet(F \cup R)
    BY <1>6, <1>14, <2>3, FS_Union
  <2>7. /\ Cardinality(A) \in Nat /\ Cardinality(B) \in Nat /\ Cardinality(R) \in Nat
        /\ Cardinality(F) \in Nat /\ Cardinality(F \cup R) \in Nat /\ Cardinality(Later(r)) \in Nat
    BY <1>6, <1>14, <2>6, ReportFacts, FS_Subset, FS_CardinalityType
  <2>8. Len(report[r].found) \in Nat  BY <1>2
  <2>9. Len(report[r].found) + Cardinality(A) <= Cardinality(F) + Cardinality(Later(r))  BY <2>2, <2>4
  <2>10. Len(report[r].found) + Cardinality(R) + Cardinality(B)
           <= Cardinality(F \cup R) + Cardinality(Later(r))
    <3>1. ASSUME NEW a \in Nat, NEW b \in Nat, NEW c \in Nat, NEW f \in Nat, NEW u \in Nat,
                 NEW n \in Nat, NEW k \in Nat, c + f + b = u + a, k + a <= f + n
          PROVE  k + c + b <= u + n
      BY <3>1
    <3> HIDE DEF kind, label
    <3> QED  BY <2>5, <2>7, <2>8, <2>9, <3>1
  <2> QED  BY <1>15, <2>4, <2>10
<1>24. ExportSound(r)'
  <2>1. kind = "export" => Len(found) = Cardinality(F \cup R)
    <3>1. SUFFICES ASSUME kind = "export"  PROVE Len(found) = Cardinality(F \cup R)  OBVIOUS
    <3>2. report[r].found = <<>>  BY <1>1, <1>2, <3>1 DEF ReaderInv, ReaderSound
    <3>3. F = {} /\ Len(report[r].found) = 0  BY <1>14, <3>2 DEF Range
    <3>4. F \cup R = R /\ Cardinality(R) \in Nat  BY <1>6, <3>3
    <3> QED  BY <1>15, <3>3, <3>4
  <2>2. ASSUME kind = "export", NEW e \in Owed(r) \ Range(found)
        PROVE  Len(found) = size /\ \A shown \in Range(found) : shown > e
    <3>1. report[r].found = <<>> /\ page = 1
      BY <1>1, <1>2, <1>4, <2>2 DEF ReaderInv, ReaderSound
    <3>2. F = {} /\ Range(found) = R /\ Len(report[r].found) = 0
      <4>1. F = {} /\ Len(report[r].found) = 0  BY <1>14, <3>1 DEF Range
      <4> QED  BY <1>15, <4>1
    <3>3. R = {x \in S : Rank(S, x) > 0 /\ Rank(S, x) <= size}
      <4>1. (1 - 1) * size = 0 /\ 1 * size = size  OBVIOUS
      <4> QED  BY <1>6, <3>1, <4>1 DEF PageRows
    <3>4. e \in S /\ e \notin R  BY <1>18, <2>2, <3>2
    <3>5. Rank(S, e) > size
      <4>1. PICK n \in Nat : n = Cardinality(S)  BY <1>5, FS_CardinalityType
      <4>2. Rank(S, e) \in 1 .. n  BY <1>5, <3>4, <4>1, RankFacts
      <4> QED  BY <3>3, <3>4, <4>2
    <3>6. Len(found) = size
      <4>1. 1 * size = size  OBVIOUS
      <4>2. Cardinality(R) = size  BY <1>6, <3>1, <3>4, <3>5, <4>1
      <4> QED  BY <1>15, <3>2, <4>2
    <3>7. \A shown \in R : shown > e
      <4>1. SUFFICES ASSUME NEW shown \in R, ~(shown > e)  PROVE FALSE  OBVIOUS
      <4>2. shown \in S /\ Rank(S, shown) <= size /\ shown \in Nat /\ e \in Nat /\ shown # e
        BY <1>5, <3>3, <3>4, <4>1
      <4>3. e > shown  BY <4>1, <4>2
      <4>4. Rank(S, e) < Rank(S, shown)  BY <1>5, <3>4, <4>2, <4>3, RankFacts
      <4>5. Rank(S, e) \in Nat /\ Rank(S, shown) \in Nat  BY <1>20, <3>4, <4>2
      <4> QED  BY <3>5, <4>2, <4>4, <4>5
    <3> QED  BY <3>2, <3>6, <3>7
  <2>3. Cardinality(Owed(r)) <= report[r].total
    BY <1>1, <1>2 DEF ReaderInv, ExportSound
  <2>4. report'[r].ask.kind = kind /\ report'[r].found = found /\ report'[r].total = report[r].total
        /\ report'[r].ask = report[r].ask
    BY <1>11, <1>12
  <2>5. report'[r].ask.kind = "export" =>
          /\ Len(report'[r].found) = Cardinality(Range(report'[r].found))
          /\ report'[r].page > 1 => \A e \in Owed(r)' \ Range(report'[r].found) :
               /\ Len(report'[r].found) = SearchLimit["export"]
               /\ \A shown \in Range(report'[r].found) : shown > e
    BY <1>3, <1>15, <1>16, <2>1, <2>2, <2>4
  <2>6. Cardinality(Owed(r)') <= report'[r].total  BY <1>16, <2>3, <2>4
  <2> HIDE DEF label
  <2> QED  BY <2>5, <2>6 DEF ExportSound
<1>25. ArtefactSound(r)'
  <2>1. ArtefactSound(r)  BY <1>2 DEF ReaderInv
  <2>2. label # "limiting" /\ (label = "answered" => kind = "pages")  BY <1>1
  <2>3. report'[r].ask = report[r].ask /\ report'[r].pc = label  BY <1>11, <1>12
  <2>4. ~artefact[r][report[r].ask.project].there  BY <1>1, <2>1 DEF ArtefactSound
  <2>5. /\ \A p \in LogProjects \ {report[r].ask.project} : artefact[r][p] = NoArtefact
        /\ artefact[r][report[r].ask.project] = NoArtefact
        /\ NoArtefact.limited = FALSE
    BY <2>1, <2>4 DEF ArtefactSound, NoArtefact
  <2> HIDE DEF label
  <2> QED  BY <1>1, <2>2, <2>3, <2>4, <2>5 DEF ArtefactSound
<1>26. artefact' \in [Reports -> [LogProjects -> Artefact]]
       /\ \A q \in Reports \ {r} : artefact'[q] = artefact[q] /\ (q \in expired' <=> q \in expired)
  BY <1>1 DEF ReportInv
<1>27. Range(new.found) \subseteq Was({"committed", "deleted"})  BY <1>11, <1>17
<1>28. ReaderInv(r)'  BY <1>21, <1>22, <1>23, <1>24, <1>25 DEF ReaderInv
<1>29. UNCHANGED <<entry, doomed>> /\ report[r].pc # "idle" /\ new.before = report[r].before
  BY <1>1, <1>11
<1> QED  BY <1>8, <1>10, <1>26, <1>27, <1>28, <1>29, ReaderStep

LEMMA ReportInitial ==
  ASSUME ReportAssumption, ReportInit
  PROVE  ReportInv
<1> DEFINE asking == [kind |-> "pages", project |-> ProjectOf[1], filtered |-> FALSE]
           start == [pc |-> "idle", page |-> 1, total |-> 0, found |-> <<>>, before |-> {}, ask |-> asking]
<1>1. /\ entry = [e \in LogEntries |-> "none"] /\ doomed = {} /\ expired = {}
      /\ report = [r \in Reports |-> start]
      /\ artefact = [r \in Reports |-> [p \in LogProjects |-> NoArtefact]]
  BY DEF ReportInit
<1>2. ProjectOf[1] \in LogProjects
  <2>1. 1 \in LogEntries  BY DEF ReportAssumption, LogEntries
  <2> QED  BY <2>1 DEF ReportAssumption
<1>3. start \in Report
  <2>1. asking \in ReportAsk  BY <1>2 DEF ReportAsk
  <2>2. <<>> \in Seq(LogEntries) /\ 1 \in Nat /\ 0 \in Nat /\ {} \in SUBSET LogEntries  OBVIOUS
  <2> HIDE DEF asking
  <2> QED  BY <2>1, <2>2 DEF Report
<1>4. /\ start.pc = "idle" /\ start.page = 1 /\ start.found = <<>> /\ start.before = {}
      /\ start.ask.kind = "pages" /\ start.ask.project \in LogProjects
  BY <1>2
<1> HIDE DEF start
<1>5. Was({"committed"}) = {} /\ Was({"committed", "deleted"}) = {} /\ Range(<<>>) = {}
  BY <1>1 DEF Was, Range
<1>6. NoArtefact \in Artefact /\ NoArtefact.there = FALSE /\ NoArtefact.limited = FALSE
  <2>1. <<>> \in Seq(LogEntries)  OBVIOUS
  <2> QED  BY <2>1 DEF NoArtefact, Artefact
<1>7. ReportTypeOK  BY <1>1, <1>3, <1>4, <1>5 DEF ReportTypeOK
<1>8. artefact \in [Reports -> [LogProjects -> Artefact]]  BY <1>1, <1>6
<1>9. LogResetSound  BY <1>1, <1>2, <1>4 DEF LogResetSound
<1>10. ASSUME NEW r \in Reports
       PROVE  ReaderSound(r) /\ PagesSound(r) /\ RepeatsSound(r) /\ ExportSound(r) /\ ArtefactSound(r)
  <2>1. report[r] = start  BY <1>1
  <2>2. ReaderSound(r)
    <3>1. 1 > 0  OBVIOUS
    <3> QED  BY <1>4, <1>5, <2>1, <3>1 DEF ReaderSound
  <2>3. Owed(r) = {} /\ Later(r) = {} /\ Again(r) = {}
    BY <1>4, <1>5, <2>1 DEF Owed, Later, Again
  <2>4. Cardinality({}) = 0 /\ Len(<<>>) = 0  BY FS_EmptySet
  <2>5. RepeatsSound(r)
    <3>1. /\ Len(report[r].found) = 0 /\ Cardinality(Again(r)) = 0
          /\ Cardinality(Range(report[r].found)) = 0 /\ Cardinality(Later(r)) = 0
      BY <1>4, <1>5, <2>1, <2>3, <2>4
    <3>2. Len(report[r].found) + Cardinality(Again(r))
            <= Cardinality(Range(report[r].found)) + Cardinality(Later(r))
      BY <3>1
    <3> QED  BY <3>2 DEF RepeatsSound
  <2>6. PagesSound(r) /\ ExportSound(r)  BY <1>4, <2>1, <2>3 DEF PagesSound, ExportSound
  <2>7. ArtefactSound(r)  BY <1>1, <1>4, <1>6, <2>1 DEF ArtefactSound
  <2> QED  BY <2>2, <2>5, <2>6, <2>7
<1> QED  BY <1>7, <1>8, <1>9, <1>10 DEF ReportInv

LEMMA ReportInductive ==
  ASSUME ReportAssumption, ReportInv, [ReportNext]_reportVars
  PROVE  ReportInv'
<1>1. CASE UNCHANGED reportVars
  <2>1. UNCHANGED <<entry, doomed, report, artefact, expired>>  BY <1>1 DEF reportVars
  <2>2. /\ \A x \in LogEntries : entry'[x] = "committed" <=> entry[x] = "committed"
        /\ \A x \in LogEntries : entry'[x] = "deleted" <=> entry[x] = "deleted"
        /\ entry' \in [LogEntries -> EntryStates] /\ doomed' \subseteq LogEntries
    BY <2>1 DEF ReportInv, ReportTypeOK, EntryStates
  <2> QED  BY <2>1, <2>2, NothingMoreSeen
<1>2. CASE ReportNext
  <2>1. CASE \E e \in LogEntries : FlushEntry(e) \/ EndEntry(e)
    <3>1. PICK e \in LogEntries : FlushEntry(e) \/ EndEntry(e)  BY <2>1
    <3>2. CASE FlushEntry(e)  BY <3>2, EntryIsFlushed
    <3>3. CASE EndEntry(e)
      <4>1. /\ entry[e] = "open" /\ UNCHANGED <<doomed, report, artefact, expired>>
            /\ \/ entry' = [entry EXCEPT ![e] = "committed"]
               \/ entry' = [entry EXCEPT ![e] = "undone"]
        BY <3>3 DEF EndEntry
      <4> QED  BY <4>1, EntryIsCommitted, EntryIsUndone
    <3> QED  BY <3>1, <3>2, <3>3
  <2>2. CASE \E p \in LogProjects : ResetLog(p)  BY <2>2, RowsAreDoomed
  <2>3. CASE CommitLogReset  BY <2>3, RowsAreDeleted
  <2>4. CASE \E r \in Reports :
               \/ \E asked \in ReportAsks[r] : AskReport(r, asked)
               \/ \E p \in LogProjects : ExpireArtefact(r, p)
               \/ ReportFails(r)
               \/ LimitReplyLost(r)
               \/ ServeReport(r)
    <3>1. PICK r \in Reports :
               \/ \E asked \in ReportAsks[r] : AskReport(r, asked)
               \/ \E p \in LogProjects : ExpireArtefact(r, p)
               \/ ReportFails(r)
               \/ LimitReplyLost(r)
               \/ ServeReport(r)
      BY <2>4
    <3>2. CASE \E asked \in ReportAsks[r] : AskReport(r, asked)  BY <3>2, ReportIsAsked
    <3>3. CASE \E p \in LogProjects : ExpireArtefact(r, p)  BY <3>3, ArtefactIsGone
    <3>4. CASE ReportFails(r)  BY <3>4, ReportIsGivenUp
    <3>5. CASE LimitReplyLost(r)  BY <3>5, ExportIsLimited
    <3>6. CASE ServeReport(r)
      <4>1. CASE CountEntries(r)  BY <4>1, EntriesAreCounted
      <4>2. CASE ReadPage(r)  BY <4>2, PageIsRead
      <4>3. CASE SaveExport(r)  BY <4>3, ExportIsSaved
      <4>4. CASE LimitExport(r)  BY <4>4, ExportIsLimited
      <4> QED  BY <3>6, <4>1, <4>2, <4>3, <4>4 DEF ServeReport
    <3> QED  BY <3>1, <3>2, <3>3, <3>4, <3>5, <3>6
  <2> QED  BY <1>2, <2>1, <2>2, <2>3, <2>4 DEF ReportNext
<1> QED  BY <1>1, <1>2

LEMMA ReportSuffices ==
  ASSUME ReportAssumption, ReportInv
  PROVE  ReportsSound
<1>1. NothingSkipped
  <2>1. SUFFICES ASSUME NEW r \in Reports
                 PROVE  /\ report[r].ask.kind = "pages" /\ report[r].pc = "answered"
                             /\ report[r].before \cap Was({"deleted"}) = {}
                           => Owed(r) \subseteq Range(report[r].found)
                        /\ report[r].ask.kind = "export" /\ report[r].page > 1 =>
                             \A e \in Owed(r) \ Range(report[r].found) :
                               /\ Len(report[r].found) = SearchLimit["export"]
                               /\ \A shown \in Range(report[r].found) : shown > e
    BY DEF NothingSkipped
  <2>2. PagesSound(r) /\ ExportSound(r)  BY DEF ReportInv
  <2> QED  BY <2>2 DEF PagesSound, ExportSound
<1>2. RepeatsExplained
  <2>1. SUFFICES ASSUME NEW r \in Reports
                 PROVE  IF report[r].ask.kind = "pages"
                        THEN Len(report[r].found) - Cardinality(Range(report[r].found))
                               <= Cardinality(Was({"committed", "deleted"}) \ report[r].before)
                        ELSE Len(report[r].found) - Cardinality(Range(report[r].found)) = 0
    BY DEF RepeatsExplained
  <2>2. PICK k \in Nat, n \in Nat, a \in Nat, l \in Nat :
          /\ k = Len(report[r].found) /\ n = Cardinality(Range(report[r].found))
          /\ a = Cardinality(Again(r)) /\ l = Cardinality(Later(r))
    <3>1. Len(report[r].found) \in Nat  BY ReportFacts
    <3> QED  BY <3>1, ReportFacts, FS_CardinalityType
  <2>3. CASE report[r].ask.kind = "pages"
    <3>1. k + a <= n + l  BY <2>2, <2>3 DEF ReportInv, RepeatsSound
    <3>2. k - n <= l  BY <3>1
    <3> QED  BY <2>2, <2>3, <3>2 DEF Later
  <2>4. CASE report[r].ask.kind = "export"
    <3>1. k = n  BY <2>2, <2>4 DEF ReportInv, ExportSound
    <3>2. k - n = 0  BY <3>1
    <3> QED  BY <2>2, <2>4, <3>2
  <2>5. CASE report[r].ask.kind = "other"
    <3>1. report[r].found = <<>>  BY <2>5 DEF ReportInv, ReaderSound
    <3>2. Range(<<>>) = {} /\ Len(<<>>) = 0  BY DEF Range
    <3>3. Cardinality(Range(report[r].found)) = 0 /\ Len(report[r].found) = 0
      BY <3>1, <3>2, FS_EmptySet
    <3>4. Len(report[r].found) - Cardinality(Range(report[r].found)) = 0  BY <3>3
    <3> QED  BY <2>5, <3>4
  <2>6. report[r].ask.kind \in {"pages", "export", "other"}
    BY ReportFacts DEF Report, ReportAsk
  <2> QED  BY <2>3, <2>4, <2>5, <2>6
<1>3. CountsWhole
  BY DEF CountsWhole, ReportInv, ExportSound
<1>4. ExportsKept
  <2>1. SUFFICES ASSUME NEW r \in Reports, NEW p \in LogProjects
                 PROVE  /\ report[r].ask.kind # "pages" /\ p = report[r].ask.project
                             /\ report[r].pc = "answered" /\ r \notin expired =>
                             Download(r, p) = {report[r].found}
                        /\ artefact[r][p].there =>
                             /\ p = report[r].ask.project
                             /\ artefact[r][p].limited \/ report[r].pc # "answered"
    BY DEF ExportsKept
  <2>2. ArtefactSound(r)  BY DEF ReportInv
  <2>3. NoArtefact.there = FALSE  BY DEF NoArtefact
  <2> QED  BY <2>2, <2>3 DEF ArtefactSound, Download
<1> QED  BY <1>1, <1>2, <1>3, <1>4 DEF ReportsSound

-----------------------------------------------------------------------------
(* Log views (LogViews).                                                   *)

\* A set of times has a first and a last one.
LEMMA FirstAndLast ==
  ASSUME NEW S, IsFiniteSet(S), S \subseteq Nat, S # {}
  PROVE  /\ Min(S) \in S /\ \A e \in S : e >= Min(S)
         /\ Max(S) \in S /\ \A e \in S : e <= Max(S)
<1>1. PICK n \in Nat : n = Cardinality(S)  BY FS_CardinalityType
<1>2. n # 0  BY <1>1, FS_EmptySet
<1>3. \A e \in S : Rank(S, e) \in 1 .. n  BY <1>1, RankFacts
<1>4. \E e \in S : \A f \in S : e <= f
  <2>1. n \in 1 .. n  BY <1>2
  <2>2. PICK e \in S : Rank(S, e) = n  BY <1>1, <2>1, RankFacts
  <2>3. SUFFICES ASSUME NEW f \in S, ~(e <= f)  PROVE FALSE  OBVIOUS
  <2>4. e > f
    <3>1. e \in Nat /\ f \in Nat  OBVIOUS
    <3> QED  BY <2>3, <3>1
  <2>5. Rank(S, e) < Rank(S, f)  BY <2>4, RankFacts
  <2>6. Rank(S, f) \in 1 .. n  BY <1>3
  <2> QED  BY <2>2, <2>5, <2>6
<1>5. \E e \in S : \A f \in S : e >= f
  <2>1. 1 \in 1 .. n  BY <1>2
  <2>2. PICK e \in S : Rank(S, e) = 1  BY <1>1, <2>1, RankFacts
  <2>3. SUFFICES ASSUME NEW f \in S, ~(e >= f)  PROVE FALSE  OBVIOUS
  <2>4. f > e
    <3>1. e \in Nat /\ f \in Nat  OBVIOUS
    <3> QED  BY <2>3, <3>1
  <2>5. Rank(S, f) < Rank(S, e)  BY <2>4, RankFacts
  <2>6. Rank(S, f) \in 1 .. n  BY <1>3
  <2> QED  BY <2>2, <2>5, <2>6
<1>6. Min(S) \in S /\ \A f \in S : Min(S) <= f  BY <1>4 DEF Min
<1>7. Max(S) \in S /\ \A f \in S : Max(S) >= f  BY <1>5 DEF Max
<1>8. \A e, f \in S : (e <= f <=> f >= e)
  <2>1. \A e \in S : e \in Nat  OBVIOUS
  <2> QED  BY <2>1
<1> QED  BY <1>6, <1>7, <1>8

\* The bucket of a time in the window: the one whose part of the window it is
\* in, or on the boundary of.
LEMMA BucketFits ==
  ASSUME NEW from \in Int, NEW to \in Int, NEW window, window = [start |-> from, end |-> to],
         NEW ts \in Int, ts >= from, ts <= to, NEW n \in Nat \ {0},
         NEW low, ts \in low => ts > from
  PROVE  LET length == Larger(to - from, 1)
             place == (ts - from) * n
             b == BucketOf(ts, window, n, low)
         IN  /\ b \in 1 .. n
             /\ place >= (b - 1) * length /\ place <= b * length
             /\ \A i \in 1 .. n : (i = 1 \/ place > (i - 1) * length) /\ (i = n \/ place < i * length)
                  => b = i
<1>1. PICK L \in Nat \ {0} : L = Larger(to - from, 1) /\ ts - from <= L  BY DEF Larger
<1>2. PICK d \in Nat : d = ts - from /\ (ts \in low => d > 0)
  <2>1. ts - from \in Nat /\ (ts \in low => ts - from > 0)  OBVIOUS
  <2> QED  BY <2>1
<1>3. PICK p \in Nat : p = d * n /\ (d > 0 => p > 0)  OBVIOUS
<1>4. p <= n * L
  <2>1. d <= L  BY <1>1, <1>2
  <2>2. d * n <= L * n  BY <2>1
  <2>3. L * n = n * L  OBVIOUS
  <2> QED  BY <1>3, <2>2, <2>3
<1>5. PICK early \in {0, 1} : early = (IF ts \in low THEN 1 ELSE 0) /\ p - early \in Nat
  BY <1>2, <1>3
<1>6. PICK q \in Nat : /\ q = (p - early) \div L
                       /\ q * L <= p - early /\ p - early < (q + 1) * L
  <2>1. PICK a \in Nat : a = p - early  BY <1>5
  <2>2. a \div L \in Nat /\ (a \div L) * L <= a /\ a < (a \div L + 1) * L  OBVIOUS
  <2> QED  BY <2>1, <2>2
<1>7. PICK b \in 1 .. n : b = Smaller(q, n - 1) + 1 /\ (b = q + 1 \/ (b = n /\ q >= n))
  <2>1. Smaller(q, n - 1) + 1 \in 1 .. n  BY DEF Smaller
  <2>2. Smaller(q, n - 1) + 1 = q + 1 \/ (Smaller(q, n - 1) + 1 = n /\ q >= n)  BY DEF Smaller
  <2> QED  BY <2>1, <2>2
<1>8. b = BucketOf(ts, window, n, low)
  <2>1. window.start = from /\ window.end = to  OBVIOUS
  <2> QED  BY <1>1, <1>2, <1>3, <1>5, <1>6, <1>7, <2>1 DEF BucketOf
<1>9. p >= (b - 1) * L
  <2>1. CASE b = q + 1
    <3>1. b - 1 = q  BY <2>1
    <3>2. q * L \in Nat  OBVIOUS
    <3> QED  BY <1>6, <3>1, <3>2
  <2>2. CASE b = n /\ q >= n
    <3>1. n - 1 \in Nat /\ n - 1 <= q  BY <2>2
    <3>2. (n - 1) * L <= q * L  BY <3>1
    <3>3. q * L \in Nat /\ (n - 1) * L \in Nat  BY <3>1
    <3> QED  BY <1>6, <2>2, <3>2, <3>3
  <2> QED  BY <1>7, <2>1, <2>2
<1>10. p <= b * L
  <2>1. CASE b = q + 1
    <3>1. (q + 1) * L \in Nat  OBVIOUS
    <3> QED  BY <1>6, <2>1, <3>1
  <2>2. CASE b = n  BY <1>4, <2>2
  <2> QED  BY <1>7, <2>1, <2>2
<1>11. ASSUME NEW i \in 1 .. n, i = 1 \/ p > (i - 1) * L, i = n \/ p < i * L
       PROVE  b = i
  <2>1. (i - 1) * L \in Nat /\ i * L \in Nat /\ i - 1 \in Nat
    <3>1. i - 1 \in Nat /\ i \in Nat  OBVIOUS
    <3> QED  BY <3>1
  <2>2. p - early >= (i - 1) * L
    <3>1. CASE i = 1
      <4>1. (i - 1) * L = 0
        <5>1. i - 1 = 0  BY <3>1
        <5> QED  BY <5>1
      <4> QED  BY <1>5, <4>1
    <3>2. CASE p > (i - 1) * L  BY <2>1, <3>2
    <3> QED  BY <1>11, <3>1, <3>2
  <2>3. (i - 1) * L < (q + 1) * L
    <3>1. (q + 1) * L \in Nat  OBVIOUS
    <3> QED  BY <1>5, <1>6, <2>1, <2>2, <3>1
  <2>4. i - 1 < q + 1  BY <2>1, <2>3
  <2>5. CASE i = n
    <3>1. q >= n - 1  BY <2>4, <2>5
    <3> QED  BY <1>7, <2>5, <3>1
  <2>6. CASE p < i * L
    <3>1. q * L < i * L
      <4>1. q * L \in Nat  OBVIOUS
      <4> QED  BY <1>5, <1>6, <2>1, <2>6, <4>1
    <3>2. q < i  BY <3>1
    <3> QED  BY <1>7, <2>4, <3>2
  <2> QED  BY <1>11, <2>5, <2>6
<1> QED  BY <1>1, <1>2, <1>3, <1>8, <1>9, <1>10, <1>11

\* A view that has filtered has kept what matched at a time that has been,
KeptSound(v) ==
  \E now \in 0 .. clock :
    /\ view[v].bounds = TimeBounds(view[v].asked, now)
    /\ view[v].kept = {k \in DOMAIN view[v].source :
                         Matches(view[v].source[k], view[v].asked, view[v].bounds)}

\* and one that has drawn did so at that time or later.
DrawnSound(v) ==
  \E earlier \in 0 .. clock : \E now \in earlier .. clock :
    /\ view[v].bounds = TimeBounds(view[v].asked, earlier)
    /\ view[v].window = WindowOf(TimesIn(view[v].source, view[v].kept), view[v].asked, now)
    /\ \E low \in SUBSET Boundaries(view[v].window, view[v].asked.buckets) :
         view[v].tallies =
           Histogram(view[v].source, view[v].kept, view[v].window, view[v].asked.buckets, low)

ViewSound(v) ==
  /\ view[v].pc \in {"idle", "reading", "fallback", "filtering"} => view[v].kept = {}
  /\ view[v].pc \in {"drawing", "done"} => KeptSound(v)
  /\ view[v].pc = "drawing" => view[v].asked.kind = "histogram"
  /\ Drawn(v) => DrawnSound(v)

LogInv == LogViewTypeOK /\ \A v \in Viewers : ViewSound(v)

LEMMA ViewFacts ==
  ASSUME LogAssumption, LogInv, NEW v \in Viewers
  PROVE  /\ view[v] \in View /\ view \in [Viewers -> View] /\ ViewSound(v)
         /\ view[v].source \in Seq(LogLine) /\ DOMAIN view[v].source \subseteq Nat
         /\ \A k \in DOMAIN view[v].source : view[v].source[k] \in LogLine
         /\ view[v].kept \subseteq DOMAIN view[v].source /\ IsFiniteSet(view[v].kept)
         /\ clock \in Times /\ LastTime \in Nat /\ NoTime \notin Int
<1>1. /\ view[v] \in View /\ view \in [Viewers -> View] /\ ViewSound(v)
      /\ clock \in Times /\ view[v].kept \subseteq DOMAIN view[v].source
  BY DEF LogInv, LogViewTypeOK
<1>2. LastTime \in Nat /\ NoTime \notin Int /\ Snapshots \subseteq Seq(LogLine)  BY DEF LogAssumption
<1>3. view[v].source \in Seq(LogLine)
  <2>1. view[v].source \in Snapshots \cup {<<>>}  BY <1>1 DEF View
  <2>2. <<>> \in Seq(LogLine)  OBVIOUS
  <2> QED  BY <1>2, <2>1, <2>2
<1>4. PICK s \in Seq(LogLine) : s = view[v].source  BY <1>3
<1>5. DOMAIN s = 1 .. Len(s) /\ Len(s) \in Nat /\ \A k \in 1 .. Len(s) : s[k] \in LogLine
  BY <1>4
<1>6. IsFiniteSet(1 .. Len(s))  BY <1>5, FS_Interval
<1>7. IsFiniteSet(view[v].kept)
  <2>1. view[v].kept \in SUBSET (1 .. Len(s))  BY <1>1, <1>4, <1>5
  <2> QED  BY <1>6, <2>1, FS_Subset
<1>8. DOMAIN view[v].source \subseteq Nat /\ \A k \in DOMAIN view[v].source : view[v].source[k] \in LogLine
  BY <1>4, <1>5
<1> QED  BY <1>1, <1>2, <1>3, <1>7, <1>8

\* A request asks for bounds that are times or are not there.
LEMMA AskFacts ==
  ASSUME LogAssumption, NEW asked \in ViewAsk, NEW now \in Nat
  PROVE  /\ asked.range \in Nat /\ asked.buckets \in Nat \ {0}
         /\ asked.kind \in {"search", "histogram"}
         /\ asked.start \in Nat \cup {NoTime} /\ asked.end \in Nat \cup {NoTime}
         /\ TimeBounds(asked, now) \in Bounds
         /\ TimeBounds(asked, now).start = (IF asked.range = 0 THEN asked.start ELSE now - asked.range)
         /\ TimeBounds(asked, now).end =
              (IF asked.range # 0 /\ asked.end = NoTime THEN now ELSE asked.end)
<1>1. /\ asked.range \in Nat /\ asked.buckets \in Nat \ {0}
      /\ asked.kind \in {"search", "histogram"}
      /\ asked.start \in Times \cup {NoTime} /\ asked.end \in Times \cup {NoTime}
  BY DEF ViewAsk
<1>2. Times \subseteq Nat  BY DEF Times
<1>3. TimeBounds(asked, now) = [start |-> IF asked.range = 0 THEN asked.start ELSE now - asked.range,
                               end |-> IF asked.range # 0 /\ asked.end = NoTime THEN now ELSE asked.end]
  BY DEF TimeBounds
<1>4. now - asked.range \in Int  BY <1>1
<1>9. asked.start \in Nat \cup {NoTime} /\ asked.end \in Nat \cup {NoTime}
  BY <1>1, <1>2
<1>a. /\ asked.start \in Int \cup {NoTime} /\ asked.end \in Int \cup {NoTime}
      /\ now \in Int \cup {NoTime} /\ now - asked.range \in Int \cup {NoTime}
  BY <1>4, <1>9
<1>5. (IF asked.range = 0 THEN asked.start ELSE now - asked.range) \in Int \cup {NoTime}
  <2>1. CASE asked.range = 0  BY <1>a, <2>1
  <2>2. CASE asked.range # 0  BY <1>a, <2>2
  <2> QED  BY <2>1, <2>2
<1>6. (IF asked.range # 0 /\ asked.end = NoTime THEN now ELSE asked.end) \in Int \cup {NoTime}
  <2>1. CASE asked.range # 0 /\ asked.end = NoTime  BY <1>a, <2>1
  <2>2. CASE ~(asked.range # 0 /\ asked.end = NoTime)  BY <1>a, <2>2
  <2> QED  BY <2>1, <2>2
<1>7. TimeBounds(asked, now) \in Bounds  BY <1>3, <1>5, <1>6 DEF Bounds
<1>8. /\ TimeBounds(asked, now).start = (IF asked.range = 0 THEN asked.start ELSE now - asked.range)
      /\ TimeBounds(asked, now).end =
           (IF asked.range # 0 /\ asked.end = NoTime THEN now ELSE asked.end)
  BY <1>3
<1> QED  BY <1>1, <1>7, <1>8, <1>9

LEMMA TimesAreFinite ==
  ASSUME LogAssumption, LogInv, NEW v \in Viewers
  PROVE  LET times == TimesIn(view[v].source, view[v].kept)
         IN  times \subseteq Nat /\ IsFiniteSet(times)
<1>1. TimesIn(view[v].source, view[v].kept) \in SUBSET Times
  <2>1. \A k \in view[v].kept : view[v].source[k] \in LogLine  BY ViewFacts
  <2>2. \A k \in view[v].kept : view[v].source[k].ts \in Times \cup {NoTime}  BY <2>1 DEF LogLine
  <2> QED  BY <2>2 DEF TimesIn
<1>2. IsFiniteSet(Times) /\ Times \subseteq Nat
  <2>1. LastTime \in Nat  BY DEF LogAssumption
  <2>2. IsFiniteSet(0 .. LastTime)  BY <2>1, FS_Interval
  <2> QED  BY <2>1, <2>2 DEF Times
<1> QED  BY <1>1, <1>2, FS_Subset

LEMMA WindowFacts ==
  ASSUME LogAssumption, NEW times, IsFiniteSet(times), times \subseteq Nat,
         NEW asked \in ViewAsk, NEW now \in Nat
  PROVE  /\ WindowOf(times, asked, now) \in [start : Int, end : Int]
         /\ TimeBounds(asked, now).start # NoTime =>
              WindowOf(times, asked, now).start = TimeBounds(asked, now).start
         /\ TimeBounds(asked, now).end # NoTime =>
              WindowOf(times, asked, now).end = TimeBounds(asked, now).end
         /\ TimeBounds(asked, now) = NoBounds => \A t \in times :
              t >= WindowOf(times, asked, now).start /\ t <= WindowOf(times, asked, now).end
<1> DEFINE bounds == TimeBounds(asked, now)
           window == WindowOf(times, asked, now)
           end == IF bounds.end = NoTime THEN now ELSE bounds.end
<1>1. DefaultSpan \in Nat /\ bounds \in Bounds  BY AskFacts DEF LogAssumption
<1>2. bounds.start \in Int \cup {NoTime} /\ bounds.end \in Int \cup {NoTime} /\ end \in Int
  BY <1>1 DEF Bounds
<1>3. bounds = NoBounds <=> bounds.start = NoTime /\ bounds.end = NoTime
  BY <1>1 DEF Bounds, NoBounds
<1>4. window = IF bounds # NoBounds
               THEN [start |-> IF bounds.start = NoTime THEN end - DefaultSpan ELSE bounds.start,
                     end |-> end]
               ELSE IF times # {} THEN [start |-> Min(times), end |-> Max(times)]
               ELSE [start |-> now - DefaultSpan, end |-> now]
  BY DEF WindowOf
<1> HIDE DEF bounds, window, end
<1>5. CASE bounds # NoBounds
  <2>1. window = [start |-> IF bounds.start = NoTime THEN end - DefaultSpan ELSE bounds.start,
                  end |-> end]
    BY <1>4, <1>5
  <2>2. end - DefaultSpan \in Int  BY <1>1, <1>2
  <2>3. bounds.end # NoTime => end = bounds.end  BY DEF end
  <2> QED  BY <1>2, <1>5, <2>1, <2>2, <2>3 DEF bounds, window
<1>6. CASE bounds = NoBounds /\ times # {}
  <2>1. window = [start |-> Min(times), end |-> Max(times)]  BY <1>4, <1>6
  <2>2. /\ Min(times) \in Int /\ Max(times) \in Int
        /\ \A t \in times : t >= Min(times) /\ t <= Max(times)
    <3>1. /\ Min(times) \in times /\ \A e \in times : e >= Min(times)
          /\ Max(times) \in times /\ \A e \in times : e <= Max(times)
      BY <1>6, FirstAndLast
    <3>2. \A t \in times : t \in Int  OBVIOUS
    <3> QED  BY <3>1, <3>2
  <2> QED  BY <1>3, <1>6, <2>1, <2>2 DEF bounds, window
<1>7. CASE bounds = NoBounds /\ times = {}
  <2>1. window = [start |-> now - DefaultSpan, end |-> now]  BY <1>4, <1>7
  <2>2. now - DefaultSpan \in Int  BY <1>1
  <2> QED  BY <1>3, <1>7, <2>1, <2>2 DEF bounds, window
<1> QED  BY <1>5, <1>6, <1>7

\* What drawing says of the logs that are in a bucket.
LEMMA DrawnFacts ==
  ASSUME LogAssumption, LogInv, NEW v \in Viewers, Drawn(v)
  PROVE  \E from, to \in Int : \E low :
           /\ view[v].window = [start |-> from, end |-> to]
           /\ \A t \in low : t > from
           /\ view[v].asked.buckets \in Nat \ {0}
           /\ DOMAIN view[v].tallies = 1 .. view[v].asked.buckets
           /\ \A i \in 1 .. view[v].asked.buckets : \A k :
                k \in view[v].tallies[i] <=>
                  /\ k \in Timed(v) /\ TimeAt(v, k) >= from /\ TimeAt(v, k) <= to
                  /\ BucketOf(TimeAt(v, k), view[v].window, view[v].asked.buckets, low) = i
<1>1. DrawnSound(v) /\ view[v].asked \in ViewAsk /\ clock \in Nat
  <2>1. DrawnSound(v)  BY ViewFacts DEF ViewSound
  <2>2. view[v].asked \in ViewAsk  BY ViewFacts DEF View
  <2>3. clock \in Nat  BY ViewFacts DEF Times
  <2> QED  BY <2>1, <2>2, <2>3
<1>2. PICK now \in 0 .. clock, low \in SUBSET Times :
        /\ view[v].window = WindowOf(TimesIn(view[v].source, view[v].kept), view[v].asked, now)
        /\ low \in SUBSET Boundaries(view[v].window, view[v].asked.buckets)
        /\ view[v].tallies =
             Histogram(view[v].source, view[v].kept, view[v].window, view[v].asked.buckets, low)
  <2>1. \A a \in 0 .. clock : \A b \in a .. clock : b \in 0 .. clock  BY <1>1
  <2>2. Boundaries(view[v].window, view[v].asked.buckets) \subseteq Times  BY DEF Boundaries
  <2> QED  BY <1>1, <2>1, <2>2 DEF DrawnSound
<1>3. view[v].window \in [start : Int, end : Int]
  <2>1. now \in Nat  BY <1>1
  <2> QED  BY <1>1, <1>2, <2>1, TimesAreFinite, WindowFacts
<1>4. PICK from \in Int, to \in Int : view[v].window = [start |-> from, end |-> to]  BY <1>3
<1>5. view[v].window.start = from /\ view[v].window.end = to  BY <1>4
<1>6. \A t \in low : t > from  BY <1>2, <1>5 DEF Boundaries
<1>7. view[v].asked.buckets \in Nat \ {0}  BY <1>1 DEF ViewAsk
<1>8. view[v].tallies = [i \in 1 .. view[v].asked.buckets |->
        {k \in view[v].kept :
           /\ view[v].source[k].ts # NoTime
           /\ view[v].source[k].ts >= from /\ view[v].source[k].ts <= to
           /\ BucketOf(view[v].source[k].ts, view[v].window, view[v].asked.buckets, low) = i}]
  BY <1>2, <1>5 DEF Histogram
<1>9. \A i \in 1 .. view[v].asked.buckets : \A k :
        k \in view[v].tallies[i] <=>
          /\ k \in Timed(v) /\ TimeAt(v, k) >= from /\ TimeAt(v, k) <= to
          /\ BucketOf(TimeAt(v, k), view[v].window, view[v].asked.buckets, low) = i
  BY <1>8 DEF Timed, TimeAt
<1>10. DOMAIN view[v].tallies = 1 .. view[v].asked.buckets  BY <1>8
<1> QED  BY <1>4, <1>6, <1>7, <1>9, <1>10

LEMMA TimedFacts ==
  ASSUME LogAssumption, LogInv, NEW v \in Viewers, NEW k \in Timed(v)
  PROVE  /\ TimeAt(v, k) \in Nat /\ k \in view[v].kept /\ TimeAt(v, k) = view[v].source[k].ts
         /\ TimeAt(v, k) \in TimesIn(view[v].source, view[v].kept)
         /\ TimeAt(v, k) # NoTime
<1>1. k \in view[v].kept /\ TimeAt(v, k) = view[v].source[k].ts /\ TimeAt(v, k) # NoTime
  BY DEF Timed, TimeAt
<1>2. view[v].source[k] \in LogLine  BY <1>1, ViewFacts
<1>3. TimeAt(v, k) \in Times  BY <1>1, <1>2 DEF LogLine
<1> QED  BY <1>1, <1>3 DEF Times, TimesIn

LEMMA BucketsAreRight ==
  ASSUME LogAssumption, LogInv
  PROVE  BucketsFit
<1>1. SUFFICES ASSUME NEW v \in Viewers, Drawn(v)
               PROVE  LET w == view[v].window
                          n == view[v].asked.buckets
                          bucket == view[v].tallies
                          length == Larger(w.end - w.start, 1)
                          place(k) == (TimeAt(v, k) - w.start) * n
                      IN  \A i \in 1 .. n :
                            /\ \A k \in Timed(v) :
                                 /\ TimeAt(v, k) >= w.start /\ TimeAt(v, k) <= w.end
                                 /\ i = 1 \/ place(k) > (i - 1) * length
                                 /\ i = n \/ place(k) < i * length
                                 => k \in bucket[i]
                            /\ \A k \in bucket[i] :
                                 /\ k \in Timed(v) /\ TimeAt(v, k) >= w.start /\ TimeAt(v, k) <= w.end
                                 /\ place(k) >= (i - 1) * length /\ place(k) <= i * length
                            /\ \A j \in 1 .. n : i # j => bucket[i] \cap bucket[j] = {}
  BY DEF BucketsFit
<1>a. PICK from \in Int, to \in Int : \E low :
        /\ view[v].window = [start |-> from, end |-> to]
        /\ \A t \in low : t > from
        /\ view[v].asked.buckets \in Nat \ {0}
        /\ DOMAIN view[v].tallies = 1 .. view[v].asked.buckets
        /\ \A i \in 1 .. view[v].asked.buckets : \A k :
             k \in view[v].tallies[i] <=>
               /\ k \in Timed(v) /\ TimeAt(v, k) >= from /\ TimeAt(v, k) <= to
               /\ BucketOf(TimeAt(v, k), view[v].window, view[v].asked.buckets, low) = i
  BY <1>1, DrawnFacts
<1>2. PICK low :
        /\ view[v].window = [start |-> from, end |-> to]
        /\ \A t \in low : t > from
        /\ view[v].asked.buckets \in Nat \ {0}
        /\ \A i \in 1 .. view[v].asked.buckets : \A k :
             k \in view[v].tallies[i] <=>
               /\ k \in Timed(v) /\ TimeAt(v, k) >= from /\ TimeAt(v, k) <= to
               /\ BucketOf(TimeAt(v, k), view[v].window, view[v].asked.buckets, low) = i
  BY <1>a
<1>3. PICK n \in Nat \ {0} : n = view[v].asked.buckets  BY <1>2
<1>4. view[v].window.start = from /\ view[v].window.end = to  BY <1>2
<1> DEFINE L == Larger(to - from, 1)
<1>5. ASSUME NEW k \in Timed(v), TimeAt(v, k) >= from, TimeAt(v, k) <= to
      PROVE  LET b == BucketOf(TimeAt(v, k), view[v].window, n, low)
                 p == (TimeAt(v, k) - from) * n
             IN  /\ b \in 1 .. n
                 /\ p >= (b - 1) * L /\ p <= b * L
                 /\ \A i \in 1 .. n : (i = 1 \/ p > (i - 1) * L) /\ (i = n \/ p < i * L) => b = i
  <2>1. PICK ts \in Int : ts = TimeAt(v, k)  BY TimedFacts
  <2>2. ts >= from /\ ts <= to /\ (ts \in low => ts > from)  BY <1>2, <1>5, <2>1
  <2>3. LET length == Larger(to - from, 1)
            place == (ts - from) * n
            b == BucketOf(ts, view[v].window, n, low)
        IN  /\ b \in 1 .. n
            /\ place >= (b - 1) * length /\ place <= b * length
            /\ \A i \in 1 .. n : (i = 1 \/ place > (i - 1) * length) /\ (i = n \/ place < i * length)
                 => b = i
    BY <1>2, <2>2, BucketFits
  <2> QED  BY <2>1, <2>3
<1>6. \A i \in 1 .. n : \A k :
        k \in view[v].tallies[i] <=>
          /\ k \in Timed(v) /\ TimeAt(v, k) >= from /\ TimeAt(v, k) <= to
          /\ BucketOf(TimeAt(v, k), view[v].window, n, low) = i
  BY <1>2, <1>3
<1>7. \A i \in 1 .. n :
        /\ \A k \in Timed(v) :
             /\ TimeAt(v, k) >= from /\ TimeAt(v, k) <= to
             /\ i = 1 \/ (TimeAt(v, k) - from) * n > (i - 1) * L
             /\ i = n \/ (TimeAt(v, k) - from) * n < i * L
             => k \in view[v].tallies[i]
        /\ \A k \in view[v].tallies[i] :
             /\ k \in Timed(v) /\ TimeAt(v, k) >= from /\ TimeAt(v, k) <= to
             /\ (TimeAt(v, k) - from) * n >= (i - 1) * L /\ (TimeAt(v, k) - from) * n <= i * L
        /\ \A j \in 1 .. n : i # j => view[v].tallies[i] \cap view[v].tallies[j] = {}
  <2>1. SUFFICES ASSUME NEW i \in 1 .. n
                 PROVE  /\ \A k \in Timed(v) :
                             /\ TimeAt(v, k) >= from /\ TimeAt(v, k) <= to
                             /\ i = 1 \/ (TimeAt(v, k) - from) * n > (i - 1) * L
                             /\ i = n \/ (TimeAt(v, k) - from) * n < i * L
                             => k \in view[v].tallies[i]
                        /\ \A k \in view[v].tallies[i] :
                             /\ k \in Timed(v) /\ TimeAt(v, k) >= from /\ TimeAt(v, k) <= to
                             /\ (TimeAt(v, k) - from) * n >= (i - 1) * L
                             /\ (TimeAt(v, k) - from) * n <= i * L
                        /\ \A j \in 1 .. n : i # j => view[v].tallies[i] \cap view[v].tallies[j] = {}
    OBVIOUS
  <2> HIDE DEF L
  <2>2. ASSUME NEW k \in Timed(v), TimeAt(v, k) >= from, TimeAt(v, k) <= to,
               i = 1 \/ (TimeAt(v, k) - from) * n > (i - 1) * L,
               i = n \/ (TimeAt(v, k) - from) * n < i * L
        PROVE  k \in view[v].tallies[i]
    <3>1. BucketOf(TimeAt(v, k), view[v].window, n, low) = i  BY <1>5, <2>2
    <3> QED  BY <1>6, <2>2, <3>1
  <2>3. ASSUME NEW k \in view[v].tallies[i]
        PROVE  /\ k \in Timed(v) /\ TimeAt(v, k) >= from /\ TimeAt(v, k) <= to
               /\ (TimeAt(v, k) - from) * n >= (i - 1) * L /\ (TimeAt(v, k) - from) * n <= i * L
    <3>1. /\ k \in Timed(v) /\ TimeAt(v, k) >= from /\ TimeAt(v, k) <= to
          /\ BucketOf(TimeAt(v, k), view[v].window, n, low) = i
      BY <1>6, <2>3
    <3> QED  BY <1>5, <3>1
  <2>4. ASSUME NEW j \in 1 .. n, i # j
        PROVE  view[v].tallies[i] \cap view[v].tallies[j] = {}
    <3>1. SUFFICES ASSUME NEW k \in view[v].tallies[i], k \in view[v].tallies[j]  PROVE FALSE
      OBVIOUS
    <3>2. /\ BucketOf(TimeAt(v, k), view[v].window, n, low) = i
          /\ BucketOf(TimeAt(v, k), view[v].window, n, low) = j
      BY <1>6, <2>4, <3>1
    <3> QED  BY <2>4, <3>2
  <2> QED  BY <2>2, <2>3, <2>4
<1> HIDE DEF L
<1>8. L = Larger(view[v].window.end - view[v].window.start, 1)  BY <1>4 DEF L
<1> QED  BY <1>3, <1>4, <1>7, <1>8

LEMMA KeptFacts ==
  ASSUME LogAssumption, LogInv, NEW v \in Viewers, view[v].pc \in {"drawing", "done"},
         NEW now \in 0 .. clock, view[v].bounds = TimeBounds(view[v].asked, now),
         view[v].kept = {k \in DOMAIN view[v].source :
                           Matches(view[v].source[k], view[v].asked, view[v].bounds)}
  PROVE  \A k \in view[v].kept :
           LET start == IF view[v].asked.range = 0 THEN view[v].asked.start
                        ELSE now - view[v].asked.range
               end == IF view[v].asked.range # 0 /\ view[v].asked.end = NoTime THEN now
                      ELSE view[v].asked.end
           IN  /\ k \in Timed(v) /\ start # NoTime => TimeAt(v, k) >= start
               /\ k \in Timed(v) /\ end # NoTime => TimeAt(v, k) <= end
               /\ view[v].bounds.start = start /\ view[v].bounds.end = end
<1> DEFINE start == IF view[v].asked.range = 0 THEN view[v].asked.start
                    ELSE now - view[v].asked.range
           end == IF view[v].asked.range # 0 /\ view[v].asked.end = NoTime THEN now
                  ELSE view[v].asked.end
<1>1. view[v].asked \in ViewAsk /\ now \in Nat
  <2>1. view[v].asked \in ViewAsk  BY ViewFacts DEF View
  <2>2. clock \in Nat  BY ViewFacts DEF Times
  <2> QED  BY <2>1, <2>2
<1>2. view[v].bounds.start = start /\ view[v].bounds.end = end  BY <1>1, AskFacts
<1> HIDE DEF start, end
<1>3. ASSUME NEW k \in view[v].kept
      PROVE  /\ k \in Timed(v) /\ start # NoTime => TimeAt(v, k) >= start
             /\ k \in Timed(v) /\ end # NoTime => TimeAt(v, k) <= end
  BY <1>2, <1>3 DEF Matches, Timed, TimeAt
<1> QED  BY <1>2, <1>3 DEF start, end

LEMMA NothingIsYounger ==
  ASSUME LogAssumption, LogInv
  PROVE  WithinBounds
<1>1. SUFFICES ASSUME NEW v \in Viewers, NEW k \in Timed(v)
               PROVE  /\ view[v].asked.end # NoTime => TimeAt(v, k) <= view[v].asked.end
                      /\ view[v].asked.range # 0 /\ view[v].asked.end = NoTime =>
                           /\ TimeAt(v, k) >= view[v].bounds.end - view[v].asked.range
                           /\ TimeAt(v, k) <= clock
  BY DEF WithinBounds
<1>2. k \in view[v].kept /\ TimeAt(v, k) \in Nat  BY TimedFacts
<1>3. view[v].pc \in {"drawing", "done"}
  <2>1. view[v].pc \in {"idle", "reading", "fallback", "filtering", "drawing", "done"}
    BY ViewFacts DEF View
  <2> QED  BY <1>2, <2>1, ViewFacts DEF ViewSound
<1>4. PICK now \in 0 .. clock :
        /\ view[v].bounds = TimeBounds(view[v].asked, now)
        /\ view[v].kept = {x \in DOMAIN view[v].source :
                             Matches(view[v].source[x], view[v].asked, view[v].bounds)}
  BY <1>3, ViewFacts DEF ViewSound, KeptSound
<1>5. clock \in Nat /\ now \in Nat /\ now <= clock /\ NoTime \notin Int /\ view[v].asked \in ViewAsk
  <2>1. clock \in Nat /\ NoTime \notin Int  BY ViewFacts DEF Times
  <2>2. view[v].asked \in ViewAsk  BY ViewFacts DEF View
  <2> QED  BY <2>1, <2>2
<1>6. view[v].asked.range \in Nat  BY <1>5 DEF ViewAsk
<1>7. LET start == IF view[v].asked.range = 0 THEN view[v].asked.start ELSE now - view[v].asked.range
          end == IF view[v].asked.range # 0 /\ view[v].asked.end = NoTime THEN now
                 ELSE view[v].asked.end
      IN  /\ start # NoTime => TimeAt(v, k) >= start
          /\ end # NoTime => TimeAt(v, k) <= end
          /\ view[v].bounds.end = end
  BY <1>1, <1>2, <1>3, <1>4, KeptFacts
<1>8. view[v].asked.end # NoTime => TimeAt(v, k) <= view[v].asked.end  BY <1>7
<1>9. ASSUME view[v].asked.range # 0, view[v].asked.end = NoTime
      PROVE  /\ TimeAt(v, k) >= view[v].bounds.end - view[v].asked.range
             /\ TimeAt(v, k) <= clock
  <2>1. now - view[v].asked.range \in Int /\ now \in Int  BY <1>5, <1>6
  <2>2. view[v].bounds.end = now /\ now # NoTime /\ now - view[v].asked.range # NoTime
    BY <1>5, <1>7, <1>9, <2>1
  <2>3. TimeAt(v, k) >= now - view[v].asked.range /\ TimeAt(v, k) <= now
    BY <1>7, <1>9, <2>2
  <2> QED  BY <1>2, <1>5, <2>2, <2>3
<1> QED  BY <1>8, <1>9

LEMMA NothingIsLost ==
  ASSUME LogAssumption, LogInv
  PROVE  HistogramComplete
<1>1. SUFFICES ASSUME NEW v \in Viewers, Drawn(v)
               PROVE  LET asked == view[v].asked
                          lost == Timed(v) \ UNION Range(view[v].tallies)
                      IN  /\ asked.range = 0 /\ (asked.start = NoTime <=> asked.end = NoTime) => lost = {}
                          /\ asked.range # 0 => lost = {k \in Timed(v) : TimeAt(v, k) < view[v].window.start}
  BY DEF HistogramComplete
<1> DEFINE asked == view[v].asked
           times == TimesIn(view[v].source, view[v].kept)
<1>a. PICK from \in Int, to \in Int : \E low :
        /\ view[v].window = [start |-> from, end |-> to]
        /\ \A t \in low : t > from
        /\ asked.buckets \in Nat \ {0}
        /\ DOMAIN view[v].tallies = 1 .. asked.buckets
        /\ \A i \in 1 .. asked.buckets : \A k :
             k \in view[v].tallies[i] <=>
               /\ k \in Timed(v) /\ TimeAt(v, k) >= from /\ TimeAt(v, k) <= to
               /\ BucketOf(TimeAt(v, k), view[v].window, asked.buckets, low) = i
  BY <1>1, DrawnFacts
<1>2. PICK low :
        /\ view[v].window = [start |-> from, end |-> to]
        /\ \A t \in low : t > from
        /\ asked.buckets \in Nat \ {0}
        /\ DOMAIN view[v].tallies = 1 .. asked.buckets
        /\ \A i \in 1 .. asked.buckets : \A k :
             k \in view[v].tallies[i] <=>
               /\ k \in Timed(v) /\ TimeAt(v, k) >= from /\ TimeAt(v, k) <= to
               /\ BucketOf(TimeAt(v, k), view[v].window, asked.buckets, low) = i
  BY <1>a
<1>3. UNION Range(view[v].tallies) = UNION {view[v].tallies[i] : i \in 1 .. asked.buckets}
  BY <1>2 DEF Range
<1>4. \A k \in Timed(v) : k \in UNION Range(view[v].tallies) <=> TimeAt(v, k) >= from /\ TimeAt(v, k) <= to
  <2>1. SUFFICES ASSUME NEW k \in Timed(v)
                 PROVE  k \in UNION Range(view[v].tallies) <=> TimeAt(v, k) >= from /\ TimeAt(v, k) <= to
    OBVIOUS
  <2>2. ASSUME k \in UNION Range(view[v].tallies)  PROVE TimeAt(v, k) >= from /\ TimeAt(v, k) <= to
    <3>1. PICK bucket \in Range(view[v].tallies) : k \in bucket  BY <2>2
    <3>2. PICK i \in 1 .. asked.buckets : bucket = view[v].tallies[i]  BY <1>2, <3>1 DEF Range
    <3>3. k \in view[v].tallies[i]  BY <3>1, <3>2
    <3> QED  BY <1>2, <3>3
  <2>3. ASSUME TimeAt(v, k) >= from, TimeAt(v, k) <= to  PROVE k \in UNION Range(view[v].tallies)
    <3>1. PICK ts \in Int, n \in Nat \ {0} : ts = TimeAt(v, k) /\ n = asked.buckets
      BY <1>2, TimedFacts
    <3>2. ts >= from /\ ts <= to /\ (ts \in low => ts > from)  BY <1>2, <2>3, <3>1
    <3>3. BucketOf(ts, view[v].window, n, low) \in 1 .. n  BY <1>2, <3>2, BucketFits
    <3>4. k \in view[v].tallies[BucketOf(ts, view[v].window, n, low)]
      BY <1>2, <2>3, <3>1, <3>3
    <3> QED  BY <1>3, <3>1, <3>3, <3>4
  <2> QED  BY <2>2, <2>3
<1>5. /\ asked \in ViewAsk /\ clock \in Nat /\ NoTime \notin Int /\ DrawnSound(v) /\ KeptSound(v)
      /\ view[v].pc = "done"
  <2>1. DrawnSound(v) /\ KeptSound(v) /\ view[v].pc = "done"  BY <1>1, ViewFacts DEF ViewSound, Drawn
  <2>2. asked \in ViewAsk  BY ViewFacts DEF View
  <2>3. clock \in Nat /\ NoTime \notin Int  BY ViewFacts DEF Times
  <2> QED  BY <2>1, <2>2, <2>3
<1>6. PICK earlier \in 0 .. clock : \E now \in earlier .. clock :
        /\ view[v].bounds = TimeBounds(asked, earlier)
        /\ view[v].window = WindowOf(times, asked, now)
  BY <1>5 DEF DrawnSound
<1>7. PICK now \in earlier .. clock :
        /\ view[v].bounds = TimeBounds(asked, earlier)
        /\ view[v].window = WindowOf(times, asked, now)
  BY <1>6
<1>8. earlier \in Nat /\ now \in Nat /\ earlier <= now  BY <1>5
<1>9. /\ asked.range \in Nat
      /\ asked.start \in Nat \cup {NoTime} /\ asked.end \in Nat \cup {NoTime}
      /\ TimeBounds(asked, now).start = (IF asked.range = 0 THEN asked.start ELSE now - asked.range)
      /\ TimeBounds(asked, now).end = (IF asked.range # 0 /\ asked.end = NoTime THEN now ELSE asked.end)
      /\ TimeBounds(asked, now) \in Bounds
  BY <1>5, <1>8, AskFacts
<1>10. /\ TimeBounds(asked, now).start # NoTime => from = TimeBounds(asked, now).start
       /\ TimeBounds(asked, now).end # NoTime => to = TimeBounds(asked, now).end
       /\ TimeBounds(asked, now) = NoBounds => \A t \in times : t >= from /\ t <= to
  <2>1. view[v].window.start = from /\ view[v].window.end = to  BY <1>2
  <2>2. /\ TimeBounds(asked, now).start # NoTime =>
             WindowOf(times, asked, now).start = TimeBounds(asked, now).start
        /\ TimeBounds(asked, now).end # NoTime =>
             WindowOf(times, asked, now).end = TimeBounds(asked, now).end
        /\ TimeBounds(asked, now) = NoBounds => \A t \in times :
             t >= WindowOf(times, asked, now).start /\ t <= WindowOf(times, asked, now).end
    BY <1>5, <1>8, TimesAreFinite, WindowFacts
  <2> HIDE DEF asked, times
  <2> QED  BY <1>7, <2>1, <2>2
<1>11. \A k \in Timed(v) : TimeAt(v, k) \in Nat /\ TimeAt(v, k) \in times  BY TimedFacts
<1>12. \A k \in Timed(v) :
         LET start == IF asked.range = 0 THEN asked.start ELSE earlier - asked.range
             end == IF asked.range # 0 /\ asked.end = NoTime THEN earlier ELSE asked.end
         IN  /\ start # NoTime => TimeAt(v, k) >= start
             /\ end # NoTime => TimeAt(v, k) <= end
  <2>1. PICK t \in 0 .. clock :
          /\ view[v].bounds = TimeBounds(asked, t)
          /\ view[v].kept = {x \in DOMAIN view[v].source :
                               Matches(view[v].source[x], asked, view[v].bounds)}
    BY <1>5 DEF KeptSound
  <2>2. \A k \in Timed(v) : k \in view[v].kept  BY TimedFacts
  <2> QED  BY <1>5, <1>7, <2>1, <2>2, KeptFacts
<1> HIDE DEF asked, times
<1>13. ASSUME asked.range = 0, asked.start = NoTime <=> asked.end = NoTime
       PROVE  \A k \in Timed(v) : TimeAt(v, k) >= from /\ TimeAt(v, k) <= to
  <2>1. CASE asked.start = NoTime
    <3>1. TimeBounds(asked, now) = NoBounds
      <4>1. TimeBounds(asked, now).start = NoTime /\ TimeBounds(asked, now).end = NoTime
        BY <1>9, <1>13, <2>1
      <4> QED  BY <1>9, <4>1 DEF Bounds, NoBounds
    <3> QED  BY <1>10, <1>11, <3>1
  <2>2. CASE asked.start # NoTime
    <3>1. from = asked.start /\ to = asked.end /\ asked.end # NoTime  BY <1>9, <1>10, <1>13, <2>2
    <3> QED  BY <1>12, <1>13, <2>2, <3>1
  <2> QED  BY <2>1, <2>2
<1>14. ASSUME asked.range # 0
       PROVE  \A k \in Timed(v) : ~(TimeAt(v, k) >= from /\ TimeAt(v, k) <= to) <=> TimeAt(v, k) < from
  <2>1. SUFFICES ASSUME NEW k \in Timed(v)
                 PROVE  ~(TimeAt(v, k) >= from /\ TimeAt(v, k) <= to) <=> TimeAt(v, k) < from
    OBVIOUS
  <2>2. TimeAt(v, k) <= to
    <3>1. CASE asked.end = NoTime
      <4>1. now \in Int /\ now # NoTime /\ earlier # NoTime  BY <1>5, <1>8
      <4>2. to = now  BY <1>9, <1>10, <1>14, <3>1, <4>1
      <4>3. TimeAt(v, k) <= earlier  BY <1>12, <1>14, <2>1, <3>1, <4>1
      <4>4. TimeAt(v, k) \in Nat  BY <1>11
      <4> QED  BY <1>8, <4>2, <4>3, <4>4
    <3>2. CASE asked.end # NoTime
      <4>1. to = asked.end  BY <1>9, <1>10, <3>2
      <4> QED  BY <1>12, <2>1, <3>2, <4>1
    <3> QED  BY <3>1, <3>2
  <2>3. TimeAt(v, k) \in Nat  BY <1>11
  <2> QED  BY <2>2, <2>3
<1>15. asked.range = 0 /\ (asked.start = NoTime <=> asked.end = NoTime) =>
         Timed(v) \ UNION Range(view[v].tallies) = {}
  BY <1>4, <1>13
<1>16. view[v].window.start = from  BY <1>2
<1>17. asked.range # 0 => Timed(v) \ UNION Range(view[v].tallies)
                            = {k \in Timed(v) : TimeAt(v, k) < view[v].window.start}
  <2>1. SUFFICES ASSUME asked.range # 0, NEW k \in Timed(v)
                 PROVE  k \notin UNION Range(view[v].tallies) <=> TimeAt(v, k) < from
    BY <1>16
  <2> QED  BY <1>4, <1>14, <2>1
<1> QED  BY <1>15, <1>17 DEF asked

LEMMA LogSuffices ==
  ASSUME LogAssumption, LogInv
  PROVE  ViewsFaithful
BY BucketsAreRight, NothingIsLost, NothingIsYounger DEF ViewsFaithful

\* Time passes and the cache changes: what a view has kept stays as it was.
LEMMA CacheStep ==
  ASSUME LogAssumption, LogInv, UNCHANGED view,
         cache' \in [LogKeys -> Snapshots \cup {Absent}], clock' \in Times, clock <= clock'
  PROVE  LogInv'
<1>1. LogViewTypeOK'  BY DEF LogInv, LogViewTypeOK
<1>2. clock \in Nat /\ clock' \in Nat
  BY DEF LogInv, LogViewTypeOK, Times
<1>3. ASSUME NEW v \in Viewers  PROVE ViewSound(v)'
  <2>1. ViewSound(v)  BY DEF LogInv
  <2>2. \A now \in 0 .. clock : now \in 0 .. clock'  BY <1>2
  <2>3. KeptSound(v) => KeptSound(v)'  BY <2>2 DEF KeptSound
  <2>4. DrawnSound(v) => DrawnSound(v)'
    <3>1. \A a \in 0 .. clock : \A b \in a .. clock : b \in a .. clock'  BY <1>2
    <3> QED  BY <2>2, <3>1 DEF DrawnSound
  <2>5. Drawn(v)' <=> Drawn(v)  BY DEF Drawn
  <2> QED  BY <2>1, <2>3, <2>4, <2>5 DEF ViewSound
<1> QED  BY <1>1, <1>3 DEF LogInv

\* A step of one view.
LEMMA ViewStep ==
  ASSUME LogAssumption, LogInv, NEW v \in Viewers, NEW new \in View,
         view' = [view EXCEPT ![v] = new], UNCHANGED <<cache, clock>>,
         new.kept \subseteq DOMAIN new.source, ViewSound(v)'
  PROVE  LogInv'
<1>1. view \in [Viewers -> View]  BY DEF LogInv, LogViewTypeOK
<1>2. /\ view' \in [Viewers -> View] /\ view'[v] = new
      /\ \A u \in Viewers \ {v} : view'[u] = view[u]
  BY <1>1
<1>3. LogViewTypeOK'  BY <1>2 DEF LogInv, LogViewTypeOK
<1>4. ASSUME NEW u \in Viewers, u # v  PROVE ViewSound(u)'
  <2>1. view'[u] = view[u] /\ ViewSound(u)  BY <1>2, <1>4 DEF LogInv
  <2>2. KeptSound(u) => KeptSound(u)'  BY <2>1 DEF KeptSound
  <2>3. DrawnSound(u) => DrawnSound(u)'  BY <2>1 DEF DrawnSound
  <2>4. Drawn(u)' <=> Drawn(u)  BY <2>1 DEF Drawn
  <2> QED  BY <2>1, <2>2, <2>3, <2>4 DEF ViewSound
<1> QED  BY <1>3, <1>4 DEF LogInv

LEMMA ViewIsAsked ==
  ASSUME LogAssumption, LogInv, NEW v \in Viewers, NEW asked \in ViewAsks[v], AskView(v, asked)
  PROVE  LogInv'
<1>1. /\ view[v].pc = "idle" /\ UNCHANGED <<cache, clock>> /\ asked \in ViewAsk
      /\ view' = [view EXCEPT ![v].pc = "reading", ![v].asked = asked]
  BY DEF AskView, LogAssumption
<1> DEFINE new == [view[v] EXCEPT !.pc = "reading", !.asked = asked]
<1>2. view[v] \in View /\ view \in [Viewers -> View]  BY ViewFacts
<1>3. new \in View  BY <1>1, <1>2, Zenon DEF View
<1>4. view' = [view EXCEPT ![v] = new]  BY <1>1, <1>2
<1>5. new.pc = "reading" /\ new.kept = view[v].kept /\ new.source = view[v].source
  BY <1>2 DEF View
<1> HIDE DEF new
<1>6. view'[v] = new  BY <1>2, <1>4
<1>7. view[v].kept = {} /\ view[v].kept \subseteq DOMAIN view[v].source
  BY <1>1, ViewFacts DEF ViewSound
<1>8. ViewSound(v)'  BY <1>5, <1>6, <1>7 DEF ViewSound, Drawn
<1> QED  BY <1>1, <1>3, <1>4, <1>5, <1>7, <1>8, ViewStep

\* Whatever Redis answers, the view has read what a key held, or nothing.
LEMMA SourceIsRead ==
  ASSUME LogAssumption, LogInv, NEW v \in Viewers, ReadRecent(v) \/ ReadErrors(v)
  PROVE  LogInv'
<1>1. ASSUME NEW k \in LogKeys  PROVE ContentOf(k) \in Snapshots \cup {<<>>}
  <2>1. cache[k] \in Snapshots \cup {Absent}  BY DEF LogInv, LogViewTypeOK
  <2> QED  BY <2>1 DEF ContentOf
<1>2. PICK content \in Snapshots \cup {<<>>}, label \in {"fallback", "filtering"} :
        view' = [view EXCEPT ![v].pc = label, ![v].source = content]
  <2>1. "recent_logs" \in LogKeys /\ "recent_errors" \in LogKeys  BY DEF LogKeys
  <2>2. CASE ReadRecent(v)
    <3>1. PICK content \in {ContentOf("recent_logs"), <<>>} :
            view' = [view EXCEPT ![v].pc = IF content = <<>> THEN "fallback" ELSE "filtering",
                                 ![v].source = content]
      BY <2>2 DEF ReadRecent
    <3>2. content \in Snapshots \cup {<<>>}  BY <1>1, <2>1, <3>1
    <3>3. (IF content = <<>> THEN "fallback" ELSE "filtering") \in {"fallback", "filtering"}  OBVIOUS
    <3> QED  BY <3>1, <3>2, <3>3
  <2>3. CASE ReadErrors(v)
    <3>1. PICK content \in {ContentOf("recent_errors"), <<>>} :
            view' = [view EXCEPT ![v].pc = "filtering", ![v].source = content]
      BY <2>3 DEF ReadErrors
    <3>2. content \in Snapshots \cup {<<>>}  BY <1>1, <2>1, <3>1
    <3> QED  BY <3>1, <3>2
  <2> QED  BY <2>2, <2>3
<1>3. view[v].pc \in {"reading", "fallback"} /\ UNCHANGED <<cache, clock>>
  BY DEF ReadRecent, ReadErrors
<1> DEFINE new == [view[v] EXCEPT !.pc = label, !.source = content]
<1>4. view[v] \in View /\ view \in [Viewers -> View]  BY ViewFacts
<1>5. new \in View
  <2>1. label \in {"idle", "reading", "fallback", "filtering", "drawing", "done"}  BY <1>2
  <2> QED  BY <1>2, <1>4, <2>1, Zenon DEF View
<1>6. view' = [view EXCEPT ![v] = new]  BY <1>2, <1>4
<1>7. new.pc = label /\ new.kept = view[v].kept
  BY <1>4 DEF View
<1> HIDE DEF new
<1>8. view'[v] = new  BY <1>4, <1>6
<1>9. view[v].kept = {}  BY <1>3, ViewFacts DEF ViewSound
<1>10. ViewSound(v)'  BY <1>2, <1>7, <1>8, <1>9 DEF ViewSound, Drawn
<1>11. new.kept \subseteq DOMAIN new.source  BY <1>7, <1>9
<1> QED  BY <1>3, <1>5, <1>6, <1>10, <1>11, ViewStep

LEMMA LogsAreFiltered ==
  ASSUME LogAssumption, LogInv, NEW v \in Viewers, FilterLogs(v)
  PROVE  LogInv'
<1> DEFINE asked == view[v].asked
           source == view[v].source
           bounds == TimeBounds(asked, clock)
           kept == {k \in DOMAIN source : Matches(source[k], asked, bounds)}
           label == IF asked.kind = "search" THEN "done" ELSE "drawing"
           tallies == IF asked.kind = "search" THEN LevelCounts(source, kept) ELSE <<>>
           new == [view[v] EXCEPT !.pc = label, !.bounds = bounds, !.kept = kept, !.tallies = tallies]
<1>1. view[v].pc = "filtering" /\ UNCHANGED <<cache, clock>>  BY DEF FilterLogs
<1>2. /\ view[v] \in View /\ view \in [Viewers -> View] /\ asked \in ViewAsk
      /\ clock \in Nat /\ DOMAIN source \subseteq Nat
  <2>1. view[v] \in View /\ view \in [Viewers -> View] /\ DOMAIN source \subseteq Nat  BY ViewFacts
  <2>2. asked \in ViewAsk  BY <2>1 DEF View
  <2>3. clock \in Nat  BY ViewFacts DEF Times
  <2> QED  BY <2>1, <2>2, <2>3
<1>3. view' = [view EXCEPT ![v] = new]  BY <1>2 DEF FilterLogs
<1>4. new \in View
  <2>1. bounds \in Bounds  BY <1>2, AskFacts
  <2>2. kept \in SUBSET Nat  BY <1>2
  <2>3. tallies \in Seq(SUBSET Nat)
    <3>1. CASE asked.kind = "search"
      <4>1. PICK X, Y : /\ X = {k \in kept : source[k].level = "error"}
                        /\ Y = {k \in kept : source[k].level = "info"}
        OBVIOUS
      <4>2. LevelCounts(source, kept) = <<X, Y>>  BY <4>1, Zenon DEF LevelCounts
      <4>3. X \in SUBSET Nat /\ Y \in SUBSET Nat  BY <2>2, <4>1
      <4>4. <<X, Y>> \in Seq(SUBSET Nat)  BY <4>3
      <4> QED  BY <3>1, <4>2, <4>4
    <3>2. CASE asked.kind # "search"
      <4>1. <<>> \in Seq(SUBSET Nat)  OBVIOUS
      <4> QED  BY <3>2, <4>1
    <3> QED  BY <3>1, <3>2
  <2>4. label \in {"idle", "reading", "fallback", "filtering", "drawing", "done"}  OBVIOUS
  <2> HIDE DEF label, bounds, kept, tallies
  <2> QED  BY <1>2, <2>1, <2>2, <2>3, <2>4, Zenon DEF View
<1>5. /\ new.pc = label /\ new.asked = asked /\ new.source = source /\ new.bounds = bounds
      /\ new.kept = kept /\ new.tallies = tallies
  BY <1>2 DEF View
<1> HIDE DEF new
<1>6. view'[v] = new  BY <1>2, <1>3
<1>7. kept \subseteq DOMAIN source  OBVIOUS
<1>8. asked.kind \in {"search", "histogram"}  BY <1>2 DEF ViewAsk
<1>9. KeptSound(v)'
  <2>1. /\ view'[v].asked = asked /\ view'[v].source = source
        /\ view'[v].bounds = bounds /\ view'[v].kept = kept /\ clock' = clock
    BY <1>1, <1>5, <1>6
  <2>2. clock \in 0 .. clock  BY <1>2
  <2>3. kept = {k \in DOMAIN source : Matches(source[k], asked, bounds)}  OBVIOUS
  <2>4. bounds = TimeBounds(asked, clock)  OBVIOUS
  <2> HIDE DEF bounds, kept, asked, source
  <2> QED  BY <2>1, <2>2, <2>3, <2>4 DEF KeptSound
<1>10. ViewSound(v)'
  <2>1. /\ view'[v].pc = label /\ view'[v].asked = asked /\ view'[v].source = source
        /\ view'[v].kept = kept
    BY <1>5, <1>6
  <2>2. label = "done" => asked.kind = "search"  OBVIOUS
  <2>3. label \in {"done", "drawing"} /\ (label = "drawing" => asked.kind = "histogram")  BY <1>8
  <2> HIDE DEF label, kept, asked, source
  <2> QED  BY <1>9, <2>1, <2>2, <2>3 DEF ViewSound, Drawn
<1>11. new.kept \subseteq DOMAIN new.source  BY <1>5, <1>7
<1> QED  BY <1>1, <1>3, <1>4, <1>10, <1>11, ViewStep

LEMMA HistogramIsDrawn ==
  ASSUME LogAssumption, LogInv, NEW v \in Viewers, DrawHistogram(v)
  PROVE  LogInv'
<1> DEFINE asked == view[v].asked
           source == view[v].source
           kept == view[v].kept
           window == WindowOf(TimesIn(source, kept), asked, clock)
<1>1. PICK low \in SUBSET Boundaries(window, asked.buckets) :
        view' = [view EXCEPT ![v].pc = "done", ![v].window = window,
                             ![v].tallies = Histogram(source, kept, window, asked.buckets, low)]
  BY DEF DrawHistogram
<1>2. view[v].pc = "drawing" /\ UNCHANGED <<cache, clock>>  BY DEF DrawHistogram
<1>3. /\ view[v] \in View /\ view \in [Viewers -> View] /\ asked \in ViewAsk
      /\ clock \in Nat /\ kept \subseteq DOMAIN source /\ DOMAIN source \subseteq Nat
  <2>1. /\ view[v] \in View /\ view \in [Viewers -> View]
        /\ kept \subseteq DOMAIN source /\ DOMAIN source \subseteq Nat
    BY ViewFacts
  <2>2. asked \in ViewAsk  BY <2>1 DEF View
  <2>3. clock \in Nat  BY ViewFacts DEF Times
  <2> QED  BY <2>1, <2>2, <2>3
<1> DEFINE tallies == Histogram(source, kept, window, asked.buckets, low)
           new == [view[v] EXCEPT !.pc = "done", !.window = window, !.tallies = tallies]
<1>4. view' = [view EXCEPT ![v] = new]  BY <1>1, <1>3
<1>5. new \in View
  <2>1. window \in [start : Int, end : Int]  BY <1>3, TimesAreFinite, WindowFacts
  <2>2. window \in Bounds  BY <2>1 DEF Bounds
  <2>3. tallies \in Seq(SUBSET Nat)
    <3>1. PICK n \in Nat : n = asked.buckets  BY <1>3 DEF ViewAsk
    <3>2. \A i \in 1 .. n : tallies[i] \in SUBSET Nat /\ DOMAIN tallies = 1 .. n
      BY <1>3, <3>1 DEF Histogram
    <3>3. tallies = [i \in 1 .. n |-> tallies[i]]  BY <3>1 DEF Histogram
    <3> HIDE DEF tallies
    <3>4. tallies \in [1 .. n -> SUBSET Nat]  BY <3>2, <3>3
    <3> QED  BY <3>1, <3>4
  <2> HIDE DEF window, tallies
  <2> QED  BY <1>3, <2>2, <2>3, Zenon DEF View
<1>6. /\ new.pc = "done" /\ new.asked = asked /\ new.source = source /\ new.bounds = view[v].bounds
      /\ new.kept = kept /\ new.window = window /\ new.tallies = tallies
  BY <1>3 DEF View
<1> HIDE DEF new
<1>7. /\ view'[v].pc = "done" /\ view'[v].asked = asked /\ view'[v].source = source
      /\ view'[v].bounds = view[v].bounds /\ view'[v].kept = kept /\ view'[v].window = window
      /\ view'[v].tallies = tallies /\ clock' = clock
  BY <1>2, <1>3, <1>4, <1>6
<1>8. KeptSound(v) /\ asked.kind = "histogram"  BY <1>2, ViewFacts DEF ViewSound
<1>9. KeptSound(v)'  BY <1>7, <1>8 DEF KeptSound
<1>10. DrawnSound(v)'
  <2>1. PICK earlier \in 0 .. clock : view[v].bounds = TimeBounds(asked, earlier)
    BY <1>8 DEF KeptSound
  <2>2. clock \in earlier .. clock  BY <1>3, <2>1
  <2>3. window = WindowOf(TimesIn(source, kept), asked, clock)  OBVIOUS
  <2>4. tallies = Histogram(source, kept, window, asked.buckets, low)  OBVIOUS
  <2> HIDE DEF window, tallies, asked, source, kept
  <2> QED  BY <1>1, <1>7, <2>1, <2>2, <2>3, <2>4 DEF DrawnSound
<1>11. ViewSound(v)'  BY <1>7, <1>8, <1>9, <1>10 DEF ViewSound
<1>12. new.kept \subseteq DOMAIN new.source  BY <1>3, <1>6
<1> QED  BY <1>2, <1>4, <1>5, <1>11, <1>12, ViewStep

LEMMA LogInitial ==
  ASSUME LogAssumption, LogInit
  PROVE  LogInv
<1>1. /\ cache = [k \in LogKeys |-> Absent] /\ clock = 0
      /\ view = [v \in Viewers |-> IdleView]
  BY DEF LogInit
<1>2. IdleView \in View /\ IdleView.pc = "idle" /\ IdleView.kept = {}
  <2> DEFINE asked == [kind |-> "search", range |-> 0, start |-> NoTime, end |-> NoTime,
                       level |-> "any", words |-> FALSE, buckets |-> 1]
  <2>1. asked \in ViewAsk
    <3>1. 1 \in Nat \ {0} /\ 0 \in Nat  OBVIOUS
    <3> QED  BY <3>1 DEF ViewAsk
  <2>2. NoBounds \in Bounds  BY DEF NoBounds, Bounds
  <2>3. <<>> \in Seq(SUBSET Nat) /\ {} \in SUBSET Nat  OBVIOUS
  <2>4. IdleView = [pc |-> "idle", asked |-> asked, source |-> <<>>, kept |-> {}, bounds |-> NoBounds,
                    window |-> NoBounds, tallies |-> <<>>]
    BY DEF IdleView
  <2> HIDE DEF asked
  <2> QED  BY <2>1, <2>2, <2>3, <2>4 DEF View
<1>3. 0 \in Times  BY DEF LogAssumption, Times
<1>4. LogViewTypeOK  BY <1>1, <1>2, <1>3 DEF LogViewTypeOK
<1>5. \A v \in Viewers : ViewSound(v)  BY <1>1, <1>2 DEF ViewSound, Drawn
<1> QED  BY <1>4, <1>5 DEF LogInv

LEMMA LogInductive ==
  ASSUME LogAssumption, LogInv, [LogNext]_logVars
  PROVE  LogInv'
<1>1. cache \in [LogKeys -> Snapshots \cup {Absent}] /\ clock \in Times /\ LastTime \in Nat
  BY DEF LogInv, LogViewTypeOK, LogAssumption
<1>2. clock \in Nat /\ clock <= clock  BY <1>1 DEF Times
<1>3. CASE UNCHANGED logVars
  BY <1>1, <1>2, <1>3, CacheStep DEF logVars
<1>4. CASE LogNext
  <2>1. CASE \E k \in LogKeys : ExpireLogs(k) \/ \E snapshot \in Snapshots : ReplaceLogs(k, snapshot)
    <3>1. UNCHANGED <<clock, view>> /\ cache' \in [LogKeys -> Snapshots \cup {Absent}]
      BY <1>1, <2>1 DEF ExpireLogs, ReplaceLogs
    <3> QED  BY <1>1, <1>2, <3>1, CacheStep
  <2>2. CASE LogTick
    <3>1. clock < LastTime /\ clock' = clock + 1 /\ UNCHANGED <<cache, view>>  BY <2>2 DEF LogTick
    <3>2. clock' \in Times /\ clock <= clock'  BY <1>1, <1>2, <3>1 DEF Times
    <3> QED  BY <1>1, <3>1, <3>2, CacheStep
  <2>3. CASE \E v \in Viewers : ServeView(v) \/ \E asked \in ViewAsks[v] : AskView(v, asked)
    <3>1. PICK v \in Viewers : ServeView(v) \/ \E asked \in ViewAsks[v] : AskView(v, asked)  BY <2>3
    <3>2. CASE \E asked \in ViewAsks[v] : AskView(v, asked)  BY <3>2, ViewIsAsked
    <3>3. CASE ReadRecent(v) \/ ReadErrors(v)  BY <3>3, SourceIsRead
    <3>4. CASE FilterLogs(v)  BY <3>4, LogsAreFiltered
    <3>5. CASE DrawHistogram(v)  BY <3>5, HistogramIsDrawn
    <3> QED  BY <3>1, <3>2, <3>3, <3>4, <3>5 DEF ServeView
  <2> QED  BY <1>4, <2>1, <2>2, <2>3 DEF LogNext
<1> QED  BY <1>3, <1>4

==================================================================================
