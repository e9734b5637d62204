-------------------------------- MODULE Feeds --------------------------------
(***************************************************************************)
(* The WebSocket handlers (app/ws).  Each connection is one coroutine that *)
(* waits for two tasks at once, its client's next frame and Redis's next   *)
(* message, and cancels the second when the first wins.                    *)
(*                                                                         *)
(* The alert feed pops a Redis list, which all its clients share; the      *)
(* other feeds subscribe to a channel, of which each client has a copy.    *)
(* Who pushes and publishes is outside of this module.                     *)
(***************************************************************************)
EXTENDS Naturals, Sequences, FiniteSets, SequencesExt

CONSTANTS
  Clients,        \* WebSocket connections
  FeedMessages,   \* messages, each produced once
  Script,         \* what is produced for a project and a feed, in this order
  AboutOf,        \* the heal action a message is about, or NoAction
  Readable,       \* the messages that are JSON objects
  EnabledProjects,
  FeedAsks,       \* what each client may connect with
  FeedFaults,     \* which of "config", "redis" and "shutdown" happen
  NoAction,
  NoMessage

FeedNames == {"alerts", "healing", "channel"}

\* token: it verifies.  "unknown" is a project that is none of the enabled
\* ones.  feed "channel" is any of agent, metrics, notifications.
FeedAsk ==
  [token   : BOOLEAN,
   project : EnabledProjects \cup {"unknown"},
   feed    : FeedNames,
   action  : {NoAction} \cup Range(AboutOf)]

ASSUME FeedAssumption ==
  /\ Script \in [EnabledProjects \X FeedNames -> Seq(FeedMessages)]
  /\ \A s, t \in DOMAIN Script : \A i \in DOMAIN Script[s], j \in DOMAIN Script[t] :
       Script[s][i] = Script[t][j] => s = t /\ i = j
  /\ DOMAIN AboutOf = FeedMessages
  /\ Readable \subseteq FeedMessages
  /\ NoMessage \notin FeedMessages
  /\ FeedAsks \in [Clients -> SUBSET FeedAsk]
  /\ FeedFaults \subseteq {"config", "redis", "shutdown"}

VARIABLES
  queue,     \* project -> the Redis list of alerts, oldest first
  produced,  \* how much of each script has been pushed or published
  conn,      \* the connections
  seen,      \* what the client of a connection has been sent
  due        \* history: what reached the connection and was meant for it

feedVars == <<queue, produced, conn, seen, due>>

-----------------------------------------------------------------------------

\* inbox: messages of the subscription not read yet; hand: the reply of BRPOP
\* on its way, or what is being sent; event: what the client did and the
\* handler has not noticed; quiet: the client has only listened so far.
Connection ==
  [pc    : {"new", "accepted", "waiting", "sending", "closing", "closed", "refused"},
   ask   : FeedAsk,
   sub   : BOOLEAN,
   inbox : Seq(FeedMessages),
   hand  : FeedMessages \cup {NoMessage},
   event : {"none", "frame", "gone"},
   quiet : BOOLEAN]

NoAsk == [token |-> FALSE, project |-> "unknown", feed |-> "channel", action |-> NoAction]

NewConnection ==
  [pc |-> "new", ask |-> NoAsk, sub |-> FALSE, inbox |-> <<>>, hand |-> NoMessage,
   event |-> "none", quiet |-> TRUE]

Source(c) == <<conn[c].ask.project, conn[c].ask.feed>>

\* The healing feed passes only the messages about its action.
Wanted(c, m) ==
  /\ m \in Readable
  /\ conn[c].ask.feed = "healing" => AboutOf[m] = conn[c].ask.action

-----------------------------------------------------------------------------
(* Outside: producers and clients. *)

NextOf(source) == Script[source][produced[source] + 1]

\* LPUSH on the list of alerts.
Push(p) ==
  /\ produced[<<p, "alerts">>] < Len(Script[<<p, "alerts">>])
  /\ queue' = [queue EXCEPT ![p] = Append(@, NextOf(<<p, "alerts">>))]
  /\ produced' = [produced EXCEPT ![<<p, "alerts">>] = @ + 1]
  /\ UNCHANGED <<conn, seen, due>>

\* PUBLISH: every subscriber of the channel gets a copy, and nobody else.
Publish(p, feed) ==
  LET subscribers == {c \in Clients : conn[c].sub /\ Source(c) = <<p, feed>>}
      m == NextOf(<<p, feed>>)
  IN  /\ produced[<<p, feed>>] < Len(Script[<<p, feed>>])
      /\ produced' = [produced EXCEPT ![<<p, feed>>] = @ + 1]
      /\ conn' = [c \in Clients |->
                    IF c \in subscribers THEN [conn[c] EXCEPT !.inbox = Append(@, m)] ELSE conn[c]]
      /\ due' = [c \in Clients |->
                   IF c \in subscribers /\ Wanted(c, m) THEN Append(due[c], m) ELSE due[c]]
      /\ UNCHANGED <<queue, seen>>

\* The client sends a frame nobody asked for, or leaves.
ClientActs(c) ==
  /\ conn[c].pc \notin {"new", "closed", "refused"}
  /\ conn[c].event = "none"
  /\ \E e \in {"frame", "gone"} :
       conn' = [conn EXCEPT ![c].event = e, ![c].quiet = FALSE]
  /\ UNCHANGED <<queue, produced, seen, due>>

-----------------------------------------------------------------------------
(* The handler. *)

Enter(c, label) == conn' = [conn EXCEPT ![c].pc = label]

\* authenticate_ws, projects_config and resolve_ws_project_id: each may
\* refuse, with a code of its own.
Connect(c, ask) ==
  /\ conn[c].pc = "new"
  /\ LET welcome == ask.token /\ ask.project \in EnabledProjects
     IN  conn' = [conn EXCEPT
           ![c].pc = IF ~welcome THEN "refused"
                     ELSE IF ask.feed = "alerts" THEN "waiting" ELSE "accepted",
           ![c].ask = ask]
  /\ UNCHANGED <<queue, produced, seen, due>>

\* The configuration of the projects cannot be read.
ConfigFails(c, ask) ==
  /\ conn[c].pc = "new"
  /\ "config" \in FeedFaults
  /\ ask.token
  /\ conn' = [conn EXCEPT ![c].pc = "refused", ![c].ask = ask]
  /\ UNCHANGED <<queue, produced, seen, due>>

Subscribe(c) ==
  /\ conn[c].pc = "accepted"
  /\ conn' = [conn EXCEPT ![c].pc = "waiting", ![c].sub = TRUE]
  /\ UNCHANGED <<queue, produced, seen, due>>

SubscribeFails(c) ==
  /\ conn[c].pc = "accepted"
  /\ "redis" \in FeedFaults
  /\ conn' = [conn EXCEPT ![c].pc = "closing"]
  /\ UNCHANGED <<queue, produced, seen, due>>

\* Redis serves one of the clients that wait in BRPOP; the reply is under way.
Serve(c) ==
  /\ conn[c].pc = "waiting"
  /\ conn[c].ask.feed = "alerts"
  /\ conn[c].hand = NoMessage
  /\ queue[conn[c].ask.project] # <<>>
  /\ LET m == Head(queue[conn[c].ask.project])
     IN  /\ conn' = [conn EXCEPT ![c].hand = m]
         /\ due' = [due EXCEPT ![c] = IF Wanted(c, m) THEN Append(@, m) ELSE @]
  /\ queue' = [queue EXCEPT ![conn[c].ask.project] = Tail(@)]
  /\ UNCHANGED <<produced, seen>>

\* get_message, or the reply of BRPOP.
Arrived(c) ==
  IF conn[c].ask.feed = "alerts" THEN conn[c].hand
  ELSE IF conn[c].inbox = <<>> THEN NoMessage ELSE Head(conn[c].inbox)

RestOfInbox(c) == IF conn[c].inbox = <<>> THEN <<>> ELSE Tail(conn[c].inbox)

\* asyncio.wait returns with the message and not with the client's task.
Receive(c) ==
  /\ conn[c].pc = "waiting"
  /\ Arrived(c) # NoMessage
  /\ conn' = [conn EXCEPT
       ![c].pc = IF Wanted(c, Arrived(c)) THEN "sending" ELSE "waiting",
       ![c].hand = IF Wanted(c, Arrived(c)) THEN Arrived(c) ELSE NoMessage,
       ![c].inbox = RestOfInbox(c)]
  /\ UNCHANGED <<queue, produced, seen, due>>

\* Not the code: the cancelled get_message has taken its message already.
IgnoreFrameAndMessage(c) ==
  /\ conn[c].pc = "waiting"
  /\ conn[c].event = "frame"
  /\ conn' = [conn EXCEPT ![c].event = "none", ![c].hand = NoMessage,
                          ![c].inbox = RestOfInbox(c)]
  /\ UNCHANGED <<queue, produced, seen, due>>

\* A frame has arrived and Redis is cancelled: a reply of BRPOP is dropped
\* with its connection, a message of a subscription stays in its buffer.
IgnoreFrame(c) ==
  /\ conn[c].pc = "waiting"
  /\ conn[c].event = "frame"
  /\ conn' = [conn EXCEPT ![c].event = "none", ![c].hand = NoMessage]
  /\ UNCHANGED <<queue, produced, seen, due>>

\* The frame and the message are both there: the frame is dropped, and
\* the message is sent.
ReceiveWithFrame(c) ==
  /\ conn[c].pc = "waiting"
  /\ conn[c].event = "frame"
  /\ Arrived(c) # NoMessage
  /\ conn' = [conn EXCEPT
       ![c].pc = IF Wanted(c, Arrived(c)) THEN "sending" ELSE "waiting",
       ![c].hand = IF Wanted(c, Arrived(c)) THEN Arrived(c) ELSE NoMessage,
       ![c].inbox = RestOfInbox(c),
       ![c].event = "none"]
  /\ UNCHANGED <<queue, produced, seen, due>>

\* Not the code: a disconnect is taken for a frame.
NoticeFrameOnly(c) ==
  /\ conn[c].pc = "waiting"
  /\ conn[c].event = "frame"
  /\ conn' = [conn EXCEPT ![c].event = "none"]
  /\ UNCHANGED <<queue, produced, seen, due>>

\* The disconnect is looked at first: a message that is there is dropped.
NoticeLeft(c) ==
  /\ conn[c].pc = "waiting"
  /\ conn[c].event = "gone"
  /\ conn' = [conn EXCEPT ![c].pc = "closing", ![c].hand = NoMessage]
  /\ UNCHANGED <<queue, produced, seen, due>>

\* BRPOP or get_message raises, the message it may have taken with it.
RedisFails(c) ==
  /\ conn[c].pc = "waiting"
  /\ "redis" \in FeedFaults
  /\ conn' = [conn EXCEPT ![c].pc = "closing", ![c].hand = NoMessage]
  /\ UNCHANGED <<queue, produced, seen, due>>

Deliver(c) ==
  /\ conn[c].pc = "sending"
  /\ conn' = [conn EXCEPT ![c].pc = "waiting", ![c].hand = NoMessage]
  /\ seen' = [seen EXCEPT ![c] =
       IF conn[c].event = "gone" THEN @ ELSE Append(@, conn[c].hand)]
  /\ UNCHANGED <<queue, produced, due>>

\* send_json raises: the handler breaks out of its loop or is left by the
\* exception, through the same finally.
SendFails(c) ==
  /\ conn[c].pc = "sending"
  /\ conn[c].event = "gone"
  /\ conn' = [conn EXCEPT ![c].pc = "closing", ![c].hand = NoMessage]
  /\ UNCHANGED <<queue, produced, seen, due>>

\* The server stops and cancels the handler where it stands.
CancelHandler(c) ==
  /\ "shutdown" \in FeedFaults
  /\ conn[c].pc \in {"accepted", "waiting", "sending"}
  /\ conn' = [conn EXCEPT ![c].pc = "closing", ![c].hand = NoMessage]
  /\ UNCHANGED <<queue, produced, seen, due>>

\* finally: the client's task is cancelled, the subscription is given up.
TearDown(c) ==
  /\ conn[c].pc = "closing"
  /\ conn' = [conn EXCEPT ![c].pc = "closed", ![c].sub = FALSE, ![c].inbox = <<>>]
  /\ UNCHANGED <<queue, produced, seen, due>>

-----------------------------------------------------------------------------

FeedInit ==
  /\ queue = [p \in EnabledProjects |-> <<>>]
  /\ produced = [source \in EnabledProjects \X FeedNames |-> 0]
  /\ conn = [c \in Clients |-> NewConnection]
  /\ seen = [c \in Clients |-> <<>>]
  /\ due = [c \in Clients |-> <<>>]

\* What the handler or Redis does next for a connection that is open.
ServeClient(c) ==
  \/ Subscribe(c)
  \/ Serve(c)
  \/ Receive(c)
  \/ ReceiveWithFrame(c)
  \/ IgnoreFrame(c)
  \/ NoticeLeft(c)
  \/ Deliver(c)
  \/ SendFails(c)
  \/ TearDown(c)

FeedNext ==
  \/ \E p \in EnabledProjects : Push(p) \/ \E feed \in FeedNames \ {"alerts"} : Publish(p, feed)
  \/ \E c \in Clients :
       \/ \E ask \in FeedAsks[c] : Connect(c, ask) \/ ConfigFails(c, ask)
       \/ ClientActs(c)
       \/ SubscribeFails(c)
       \/ RedisFails(c)
       \/ CancelHandler(c)
       \/ ServeClient(c)

FeedSpec == FeedInit /\ [][FeedNext]_feedVars

\* A handler is a coroutine that is resumed when what it waits for is there.
FeedFairness == \A c \in Clients : WF_feedVars(ServeClient(c))

FairFeedSpec == FeedSpec /\ FeedFairness

-----------------------------------------------------------------------------
(* Properties. *)

\* Types: in particular no feed gets ahead of what was produced, and a client
\* is sent, and holds, only messages.
FeedTypeOK ==
  /\ queue \in [EnabledProjects -> Seq(FeedMessages)]
  /\ produced \in [EnabledProjects \X FeedNames -> Nat]
  /\ \A source \in DOMAIN Script : produced[source] <= Len(Script[source])
  /\ conn \in [Clients -> Connection]
  /\ seen \in [Clients -> Seq(FeedMessages)]
  /\ due \in [Clients -> Seq(FeedMessages)]

\* Where the messages of a client are that the handler has not sent yet.
InHand(c) == IF conn[c].hand = NoMessage THEN <<>> ELSE <<conn[c].hand>>

OnTheWay(c) == InHand(c) \o conn[c].inbox

\* No alert is delivered twice, by whomever it was popped.
AlertsHeldOnce ==
  \A p \in EnabledProjects, c \in Clients : Source(c) = <<p, "alerts">> =>
    \A m \in Range(due[c]) :
      /\ ~Contains(queue[p], m)
      /\ \A d \in Clients \ {c} : ~Contains(due[d], m)

\* The messages of s are of one source, once each and in its order.
Before(source, m, n) ==
  \E k, l \in DOMAIN Script[source] : k < l /\ Script[source][k] = m /\ Script[source][l] = n

InOrder(s, source) ==
  /\ \A i \in DOMAIN s : \E k \in DOMAIN Script[source] : s[i] = Script[source][k]
  /\ \A i, j \in DOMAIN s : i < j => Before(source, s[i], s[j])

\* What a client has seen and what is on its way to it are messages of its
\* own project and feed, once each and in the order in which they were
\* produced, and it sees only those about its action.
SeenInOrder ==
  \A c \in Clients :
    /\ InOrder(seen[c] \o OnTheWay(c), Source(c))
    /\ InOrder(due[c], Source(c))
    /\ \A m \in Range(seen[c]) : Wanted(c, m)

\* A client that only listens misses nothing: whatever was published since
\* it subscribed, or popped for it, has been sent or is on its way.
ListenersMissNothing ==
  \A c \in Clients :
    conn[c].pc \in {"waiting", "sending"} /\ (conn[c].quiet \/ conn[c].ask.feed # "alerts")
      /\ conn[c].event # "gone"
    => Range(due[c]) = Range(seen[c]) \cup {m \in Range(OnTheWay(c)) : Wanted(c, m)}

\* A connection that is closed has left no subscription behind.
NothingLeftBehind ==
  \A c \in Clients : conn[c].pc \in {"closed", "refused"} => ~conn[c].sub /\ conn[c].hand = NoMessage

\* The feeds of app/ws deliver what they promise: an alert popped from the
\* shared list reaches at most one client, messages keep their order and
\* their addressee, a client that listens misses none, and a handler leaves
\* no subscription behind.
FeedsDeliver == AlertsHeldOnce /\ SeenInOrder /\ ListenersMissNothing /\ NothingLeftBehind
=============================================================================
