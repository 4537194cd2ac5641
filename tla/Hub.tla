-------------------------------- MODULE Hub ---------------------------------
(***************************************************************************)
(* The topic-based event hub, core/websocket/hub.rb.                       *)
(*                                                                         *)
(* Request threads publish, the event loop opens and closes sockets.       *)
(* publish holds the hub's monitor while it sends to one subscriber after  *)
(* another; subscribe and unsubscribe_all hold it while they change the    *)
(* tables; the "subscribed" confirmation is sent after it is released.     *)
(* ping and malformed messages are answered without touching this state.   *)
(*                                                                         *)
(* The entries with an empty list that reading @subscriptions creates are  *)
(* not distinguished from missing entries.                                 *)
(***************************************************************************)
EXTENDS Naturals, Sequences, FiniteSets, SequencesExt, Selection

CONSTANTS
  Sockets,
  Topics,
  Default,     \* the topic of a client that names none
  Queries,     \* what clients put in ?topics=, as sequences of topics
  Publishers,  \* request threads
  Free,        \* nobody holds the monitor
  MaxEvents    \* bound: events published in a behaviour

ASSUME DefaultAssumption == Default \in Topics
ASSUME QueriesAssumption == Queries \subseteq Seq(Topics)
ASSUME FreeAssumption == Free \notin Publishers
ASSUME MaxEventsAssumption == MaxEvents \in Nat

VARIABLES
  sock,           \* "new", "opening" (subscribed, confirmation not sent yet),
                  \* "open", "gone" (dropped, not yet cleaned up), "closed"
  connections,    \* @connections: the topics of a socket, {} for no entry
  subscriptions,  \* @subscriptions: the sockets of a topic, in order
  lock,           \* the holder of the monitor between two steps
  todo,           \* the sockets a publisher has still to send to
  event,          \* the event a publisher is sending
  log,            \* history: the topics published, in monitor order
  inbox,          \* what a socket has been sent: events (positions in log)
                  \* and, as 0, the confirmation
  since           \* history: Len(log) when a socket subscribed

tables == <<connections, subscriptions>>
publishing == <<lock, todo, event, log>>
vars == <<sock, connections, subscriptions, lock, todo, event, log, inbox, since>>

TypeOK ==
  /\ sock \in [Sockets -> {"new", "opening", "open", "gone", "closed"}]
  /\ connections \in [Sockets -> SUBSET Topics]
  /\ subscriptions \in [Topics -> Seq(Sockets)]
  /\ lock \in Publishers \cup {Free}
  /\ todo \in [Publishers -> Seq(Sockets)]
  /\ event \in [Publishers -> 0 .. MaxEvents]
  /\ log \in Seq(Topics) /\ Len(log) <= MaxEvents
  /\ inbox \in [Sockets -> Seq(0 .. MaxEvents)]
  /\ since \in [Sockets -> 0 .. MaxEvents]

Init ==
  /\ sock = [s \in Sockets |-> "new"]
  /\ connections = [s \in Sockets |-> {}]
  /\ subscriptions = [t \in Topics |-> <<>>]
  /\ lock = Free
  /\ todo = [w \in Publishers |-> <<>>]
  /\ event = [w \in Publishers |-> 0]
  /\ log = <<>>
  /\ inbox = [s \in Sockets |-> <<>>]
  /\ since = [s \in Sockets |-> 0]

\* ws.send: lost when the connection is down.
Sent(s, m) ==
  IF sock[s] \in {"opening", "open"} THEN [inbox EXCEPT ![s] = Append(@, m)] ELSE inbox

-----------------------------------------------------------------------------
(* Sockets. *)

\* parse_topics: each topic once, and the default topic when none is named.
parse_topics(query) == IF query = <<>> THEN {Default} ELSE ToSet(query)

\* Mutant: parse_topics without uniq.
MutSubscribe(s, query) ==
  LET named == IF query = <<>> THEN <<Default>> ELSE query IN
  /\ sock[s] = "new"
  /\ lock = Free
  /\ sock' = [sock EXCEPT ![s] = "opening"]
  /\ connections' = [connections EXCEPT ![s] = ToSet(named)]
  /\ subscriptions' = [t \in Topics |->
       subscriptions[t] \o [i \in 1 .. Cardinality({i \in DOMAIN named : named[i] = t}) |-> s]]
  /\ since' = [since EXCEPT ![s] = Len(log)]
  /\ UNCHANGED <<publishing, inbox>>

\* subscribe, up to the release of the monitor.
Subscribe(s, query) ==
  LET topics == parse_topics(query) IN
  /\ sock[s] = "new"
  /\ lock = Free
  /\ sock' = [sock EXCEPT ![s] = "opening"]
  /\ connections' = [connections EXCEPT ![s] = topics]
  /\ subscriptions' = [t \in Topics |->
       IF t \in topics THEN Append(subscriptions[t], s) ELSE subscriptions[t]]
  /\ since' = [since EXCEPT ![s] = Len(log)]
  /\ UNCHANGED <<publishing, inbox>>

\* subscribe, the confirmation.
Confirm(s) ==
  /\ sock[s] = "opening"
  /\ inbox' = Sent(s, 0)
  /\ sock' = [sock EXCEPT ![s] = "open"]
  /\ UNCHANGED <<tables, publishing, since>>

\* The connection drops.  (A socket that drops while it is opening is one that
\* drops right after the confirmation.)
Drop(s) ==
  /\ sock[s] = "open"
  /\ sock' = [sock EXCEPT ![s] = "gone"]
  /\ UNCHANGED <<tables, publishing, inbox, since>>

\* The close event: unsubscribe_all.
UnsubscribeAll(s) ==
  /\ sock[s] = "gone"
  /\ lock = Free
  /\ sock' = [sock EXCEPT ![s] = "closed"]
  /\ connections' = [connections EXCEPT ![s] = {}]
  /\ subscriptions' = [t \in Topics |->
       IF t \in connections[s] THEN Kept(subscriptions[t], Sockets \ {s})
       ELSE subscriptions[t]]
  /\ UNCHANGED <<publishing, inbox, since>>

-----------------------------------------------------------------------------
(* Publishers. *)

\* Mutant: events are numbered from the log that already holds them.
MutPublishLockNumber(w, t) ==
  /\ lock = Free
  /\ Len(log) < MaxEvents
  /\ lock' = w
  /\ log' = Append(log, t)
  /\ event' = [event EXCEPT ![w] = Len(log') + 1]
  /\ todo' = [todo EXCEPT ![w] = subscriptions[t]]
  /\ UNCHANGED <<sock, tables, inbox, since>>

\* Mutant: publish without synchronize.
MutPublishUnlocked(w, t) ==
  /\ todo[w] = <<>>
  /\ Len(log) < MaxEvents
  /\ log' = Append(log, t)
  /\ event' = [event EXCEPT ![w] = Len(log) + 1]
  /\ todo' = [todo EXCEPT ![w] = subscriptions[t]]
  /\ UNCHANGED <<sock, tables, lock, inbox, since>>

PublishLock(w, t) ==
  /\ lock = Free
  /\ Len(log) < MaxEvents
  /\ lock' = w
  /\ log' = Append(log, t)
  /\ event' = [event EXCEPT ![w] = Len(log) + 1]
  /\ todo' = [todo EXCEPT ![w] = subscriptions[t]]
  /\ UNCHANGED <<sock, tables, inbox, since>>

\* Mutant: a failing send ends the loop, as by rescuing outside it.
MutPublishSend(w) ==
  /\ todo[w] # <<>>
  /\ inbox' = Sent(Head(todo[w]), event[w])
  /\ todo' = [todo EXCEPT ![w] = IF sock[Head(@)] = "gone" THEN <<>> ELSE Tail(@)]
  /\ UNCHANGED <<sock, tables, lock, event, log, since>>

\* One ws.send of the loop; a failing send does not end the loop.
PublishSend(w) ==
  /\ todo[w] # <<>>
  /\ inbox' = Sent(Head(todo[w]), event[w])
  /\ todo' = [todo EXCEPT ![w] = Tail(@)]
  /\ UNCHANGED <<sock, tables, lock, event, log, since>>

PublishUnlock(w) ==
  /\ lock = w
  /\ todo[w] = <<>>
  /\ lock' = Free
  /\ UNCHANGED <<sock, tables, todo, event, log, inbox, since>>

-----------------------------------------------------------------------------
SocketStep(s) ==
  \/ \E query \in Queries : Subscribe(s, query)
  \/ Confirm(s)
  \/ Drop(s)
  \/ UnsubscribeAll(s)

Next ==
  \/ \E s \in Sockets : SocketStep(s)
  \/ \E w \in Publishers : \/ \E t \in Topics : PublishLock(w, t)
                           \/ PublishSend(w)
                           \/ PublishUnlock(w)

Spec == Init /\ [][Next]_vars

\* A publisher that holds the monitor finishes its loop and releases it; the
\* event loop finishes opening a socket.
Fairness ==
  /\ \A w \in Publishers : WF_vars(PublishSend(w)) /\ WF_vars(PublishUnlock(w))
  /\ \A s \in Sockets : WF_vars(Confirm(s))

FairSpec == Spec /\ Fairness

-----------------------------------------------------------------------------
(* Safety. *)

Subscribed(s, t) == s \in ToSet(subscriptions[t])

\* The two tables mirror each other and no socket is listed twice under a
\* topic: a duplicate or a left-over entry would deliver an event twice or to
\* a dead socket for ever.
TablesMirror ==
  \A s \in Sockets, t \in Topics :
    /\ Subscribed(s, t) <=> t \in connections[s]
    /\ Cardinality({i \in DOMAIN subscriptions[t] : subscriptions[t][i] = s}) <= 1

Events(s) == Kept(inbox[s], 1 .. MaxEvents)

\* Whenever nobody is publishing, an open socket has received exactly once,
\* and in the one order all sockets share, every event of its topics published
\* since it subscribed, however publishers and other sockets interleave.
ExactlyOnceInOrder ==
  lock = Free =>
    \A s \in Sockets : sock[s] = "open" =>
      Events(s) = Kept([i \in 1 .. Len(log) |-> i],
        {i \in 1 .. Len(log) : i > since[s] /\ log[i] \in connections[s]})

-----------------------------------------------------------------------------
(* The hub implements TopicBus: the steps of a publisher are one Emit and    *)
(* then Delivers, and the event loop attaches and detaches.                  *)

Bus == INSTANCE TopicBus WITH
  Subscribers <- Sockets, Subjects <- Topics, bus <- log,
  member <- [s \in Sockets |-> IF sock[s] \in {"opening", "open"}
                               THEN connections[s] ELSE {}],
  start <- since, got <- [s \in Sockets |-> Events(s)]

ImplementsFairTopicBus == Bus!BFairSpec
=============================================================================
