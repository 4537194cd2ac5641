------------------------------ MODULE HubProofs ------------------------------
(***************************************************************************)
(* Proofs about Hub, for any sockets, topics, queries and publishers, and, *)
(* in the last part, about Progress, whose pushes go through the hub.      *)
(*                                                                         *)
(* DeliveryInv extends exactly-once delivery to the states in which a      *)
(* publisher is half-way through its loop: the subscribers it has still to *)
(* send to lack the last event, and that one only.                         *)
(***************************************************************************)
EXTENDS Hub, Progress, SelectionProofs

-----------------------------------------------------------------------------
(* The inductive invariant. *)

\* Only the holder of the monitor has something to send, each subscriber of the
\* topic once, and what it sends is the last event.
MonitorInv ==
  /\ \A w \in Publishers : todo[w] # <<>> => lock = w
  /\ \A w \in Publishers : lock = w =>
       /\ Len(log) # 0 /\ event[w] = Len(log)
       /\ IsInjective(todo[w])
       /\ \A s \in ToSet(todo[w]) :
            Subscribed(s, log[Len(log)]) /\ since[s] < Len(log)

\* The tables mirror each other; a socket that was not opened is in neither,
\* and one that is open has topics.
TablesInv ==
  /\ \A s \in Sockets, t \in Topics : Subscribed(s, t) <=> t \in connections[s]
  /\ \A t \in Topics : IsInjective(subscriptions[t])
  /\ \A s \in Sockets : /\ sock[s] = "new" => connections[s] = {} /\ inbox[s] = <<>>
                        /\ sock[s] \in {"opening", "open"} => connections[s] # {}
                        /\ since[s] <= Len(log)

\* The events of its topics published since a socket subscribed.
Mine(s) == {i \in 1 .. Len(log) : i > since[s] /\ log[i] \in connections[s]}

\* Is a publisher still to send to s?
Awaits(s) == \E w \in Publishers : s \in ToSet(todo[w])

Listening(s) == sock[s] \in {"opening", "open"}

DeliveryInv == \A s \in Sockets : Listening(s) =>
  Events(s) = Kept(Positions(IF Awaits(s) THEN Len(log) - 1 ELSE Len(log)), Mine(s))

HubInv == TypeOK /\ MonitorInv /\ TablesInv /\ DeliveryInv

-----------------------------------------------------------------------------
(* Types. *)

LEMMA TopicFacts ==
  ASSUME NEW query \in Queries
  PROVE  parse_topics(query) \subseteq Topics /\ parse_topics(query) # {}
<1>1. query \in Seq(Topics)  BY QueriesAssumption
<1>2. CASE query = <<>>  BY <1>2, DefaultAssumption DEF parse_topics
<1>3. CASE query # <<>>
  <2>1. query[1] \in Topics /\ 1 \in DOMAIN query  BY <1>1, <1>3
  <2>2. ToSet(query) \subseteq Topics /\ query[1] \in ToSet(query)  BY <1>1, <2>1 DEF ToSet
  <2> QED BY <1>3, <2>2 DEF parse_topics
<1> QED BY <1>2, <1>3

LEMMA SentTypes ==
  ASSUME TypeOK, NEW s \in Sockets, NEW m \in 0 .. MaxEvents
  PROVE  Sent(s, m) \in [Sockets -> Seq(0 .. MaxEvents)]
<1>1. inbox \in [Sockets -> Seq(0 .. MaxEvents)]  BY DEF TypeOK
<1>2. Append(inbox[s], m) \in Seq(0 .. MaxEvents)  BY <1>1
<1> QED BY <1>1, <1>2 DEF Sent

LEMMA TypeStep ==
  ASSUME TypeOK, [Next]_vars
  PROVE  TypeOK'
<1>1. ASSUME NEW s \in Sockets, NEW query \in Queries, Subscribe(s, query) PROVE TypeOK'
  <2>1. parse_topics(query) \subseteq Topics  BY TopicFacts
  <2>2. subscriptions' \in [Topics -> Seq(Sockets)]
    <3>1. \A t \in Topics : Append(subscriptions[t], s) \in Seq(Sockets)  BY DEF TypeOK
    <3> QED BY <1>1, <3>1 DEF Subscribe, TypeOK
  <2>3. since' \in [Sockets -> 0 .. MaxEvents]
    BY <1>1, MaxEventsAssumption DEF Subscribe, TypeOK
  <2> QED BY <1>1, <2>1, <2>2, <2>3 DEF Subscribe, TypeOK, publishing
<1>2. ASSUME NEW s \in Sockets, Confirm(s) PROVE TypeOK'
  <2>1. 0 \in 0 .. MaxEvents  BY MaxEventsAssumption
  <2>2. inbox' \in [Sockets -> Seq(0 .. MaxEvents)]  BY <1>2, <2>1, SentTypes DEF Confirm
  <2> QED BY <1>2, <2>2 DEF Confirm, TypeOK, publishing, tables
<1>3. ASSUME NEW s \in Sockets, Drop(s) PROVE TypeOK'
  BY <1>3 DEF Drop, TypeOK, publishing, tables
<1>4. ASSUME NEW s \in Sockets, UnsubscribeAll(s) PROVE TypeOK'
  <2>1. \A t \in Topics : Kept(subscriptions[t], Sockets \ {s}) \in Seq(Sockets)
    BY KeptFacts DEF TypeOK
  <2>2. subscriptions' \in [Topics -> Seq(Sockets)]
    BY <1>4, <2>1 DEF UnsubscribeAll, TypeOK
  <2> QED BY <1>4, <2>2 DEF UnsubscribeAll, TypeOK, publishing
<1>5. ASSUME NEW w \in Publishers, NEW t \in Topics, PublishLock(w, t) PROVE TypeOK'
  <2>1. log' \in Seq(Topics) /\ Len(log') = Len(log) + 1 /\ Len(log') <= MaxEvents
        /\ Len(log) + 1 \in 0 .. MaxEvents
    BY <1>5, MaxEventsAssumption DEF PublishLock, TypeOK
  <2> QED BY <1>5, <2>1 DEF PublishLock, TypeOK, tables
<1>6. ASSUME NEW w \in Publishers, PublishSend(w) PROVE TypeOK'
  <2>1. todo[w] \in Seq(Sockets) /\ todo[w] # <<>>  BY <1>6 DEF PublishSend, TypeOK
  <2>2. Head(todo[w]) \in Sockets /\ Tail(todo[w]) \in Seq(Sockets)  BY <2>1
  <2>3. inbox' \in [Sockets -> Seq(0 .. MaxEvents)]
    <3>1. event[w] \in 0 .. MaxEvents  BY DEF TypeOK
    <3> QED BY <1>6, <2>2, <3>1, SentTypes DEF PublishSend
  <2>4. todo' \in [Publishers -> Seq(Sockets)]
    BY <1>6, <2>2 DEF PublishSend, TypeOK
  <2> QED BY <1>6, <2>3, <2>4 DEF PublishSend, TypeOK, tables
<1>7. ASSUME NEW w \in Publishers, PublishUnlock(w) PROVE TypeOK'
  BY <1>7 DEF PublishUnlock, TypeOK, tables
<1>8. CASE UNCHANGED vars  BY <1>8 DEF vars, TypeOK
<1> QED
  BY <1>1, <1>2, <1>3, <1>4, <1>5, <1>6, <1>7, <1>8 DEF Next, SocketStep

-----------------------------------------------------------------------------
(* The monitor. *)

\* While nobody holds the monitor nobody has anything to send; otherwise only
\* its holder has.
LEMMA HolderFacts ==
  ASSUME TypeOK, MonitorInv
  PROVE  /\ lock = Free => \A w \in Publishers : todo[w] = <<>> /\ lock # w
         /\ lock = Free => \A s : ~Awaits(s)
         /\ \A w \in Publishers : lock = w =>
              /\ \A x \in Publishers : x # w => todo[x] = <<>>
              /\ \A s : Awaits(s) <=> s \in ToSet(todo[w])
<1>1. lock = Free => \A w \in Publishers : todo[w] = <<>> /\ lock # w
  BY FreeAssumption DEF MonitorInv
<1>2. \A w \in Publishers : lock = w => \A x \in Publishers : x # w => todo[x] = <<>>
  BY DEF MonitorInv
<1> QED BY <1>1, <1>2, EmptyElements DEF Awaits

\* The holder and the next subscriber of a send.
LEMMA SendFacts ==
  ASSUME TypeOK, MonitorInv, NEW w \in Publishers, PublishSend(w)
  PROVE  /\ lock = w /\ Len(log) \in 1 .. MaxEvents /\ event[w] = Len(log)
         /\ Head(todo[w]) \in Sockets /\ Head(todo[w]) \in ToSet(todo[w])
         /\ todo'[w] = Tail(todo[w]) /\ IsInjective(todo'[w])
         /\ ToSet(todo'[w]) = ToSet(todo[w]) \ {Head(todo[w])}
         /\ \A x \in Publishers : x # w => todo'[x] = todo[x]
         /\ inbox' = Sent(Head(todo[w]), Len(log))
<1>1. todo[w] # <<>> /\ todo[w] \in Seq(Sockets) /\ lock = w
  BY DEF PublishSend, MonitorInv, TypeOK
<1>2. IsInjective(todo[w]) /\ Len(log) # 0 /\ event[w] = Len(log)  BY <1>1 DEF MonitorInv
<1>3. Len(log) \in 1 .. MaxEvents  BY <1>2, MaxEventsAssumption DEF TypeOK
<1>4. /\ Head(todo[w]) \in Sockets /\ Head(todo[w]) \in ToSet(todo[w])
      /\ IsInjective(Tail(todo[w])) /\ ToSet(Tail(todo[w])) = ToSet(todo[w]) \ {Head(todo[w])}
  BY <1>1, <1>2, TailElements
<1>5. todo'[w] = Tail(todo[w]) /\ \A x \in Publishers : x # w => todo'[x] = todo[x]
  BY DEF PublishSend, TypeOK
<1>6. inbox' = Sent(Head(todo[w]), Len(log))  BY <1>2 DEF PublishSend
<1> QED BY <1>1, <1>2, <1>3, <1>4, <1>5, <1>6

LEMMA MonitorStep ==
  ASSUME TypeOK, MonitorInv, TablesInv, [Next]_vars
  PROVE  MonitorInv'
<1>1. ASSUME NEW s \in Sockets, (\E query \in Queries : Subscribe(s, query)) \/ UnsubscribeAll(s)
      PROVE  MonitorInv'
  <2>1. lock = Free /\ UNCHANGED publishing  BY <1>1 DEF Subscribe, UnsubscribeAll
  <2> QED BY <2>1, HolderFacts, FreeAssumption DEF publishing, MonitorInv
<1>2. ASSUME UNCHANGED <<tables, publishing, since>> PROVE MonitorInv'
  BY <1>2 DEF tables, publishing, MonitorInv, Subscribed
<1>3. ASSUME NEW s \in Sockets, Confirm(s) \/ Drop(s) PROVE MonitorInv'
  BY <1>2, <1>3 DEF Confirm, Drop
<1>4. ASSUME NEW w \in Publishers, NEW t \in Topics, PublishLock(w, t) PROVE MonitorInv'
  <2>1. /\ lock = Free /\ lock' = w /\ log' = Append(log, t) /\ log \in Seq(Topics)
        /\ event'[w] = Len(log) + 1 /\ todo'[w] = subscriptions[t]
        /\ \A x \in Publishers : x # w => todo'[x] = todo[x]
        /\ UNCHANGED <<subscriptions, since>>
    BY <1>4 DEF PublishLock, tables, TypeOK
  <2>2. Len(log') = Len(log) + 1 /\ log'[Len(log')] = t /\ Len(log) \in Nat  BY <2>1
  <2>3. \A x \in Publishers : x # w => todo'[x] = <<>>  BY <2>1, HolderFacts
  <2>4. IsInjective(todo'[w])  BY <2>1 DEF TablesInv
  <2>5. \A s \in ToSet(todo'[w]) : s \in Sockets /\ since[s] <= Len(log) /\ since[s] \in Nat
    <3>1. subscriptions[t] \in Seq(Sockets)  BY DEF TypeOK
    <3>2. ToSet(subscriptions[t]) \subseteq Sockets  BY <3>1 DEF ToSet
    <3>3. \A s \in Sockets : since[s] \in Nat  BY MaxEventsAssumption DEF TypeOK
    <3> QED BY <2>1, <3>2, <3>3 DEF TablesInv
  <2>6. \A s \in ToSet(todo'[w]) : s \in ToSet(subscriptions'[log'[Len(log')]])
                                   /\ since'[s] < Len(log')
    BY <2>1, <2>2, <2>5
  <2>7. event'[w] = Len(log') /\ Len(log') # 0  BY <2>1, <2>2
  <2> QED BY <2>1, <2>3, <2>4, <2>6, <2>7 DEF MonitorInv, Subscribed
<1>5. ASSUME NEW w \in Publishers, PublishSend(w) PROVE MonitorInv'
  <2>1. UNCHANGED <<lock, log, event, subscriptions, since>>
    BY <1>5 DEF PublishSend, tables
  <2>2. /\ lock = w /\ IsInjective(todo'[w]) /\ ToSet(todo'[w]) \subseteq ToSet(todo[w])
        /\ \A x \in Publishers : x # w => todo'[x] = todo[x]
    BY <1>5, SendFacts
  <2> QED BY <2>1, <2>2 DEF MonitorInv, Subscribed
<1>6. ASSUME NEW w \in Publishers, PublishUnlock(w) PROVE MonitorInv'
  <2>1. lock = w /\ todo[w] = <<>> /\ lock' = Free /\ todo' = todo
    BY <1>6 DEF PublishUnlock
  <2>2. \A x \in Publishers : todo'[x] = <<>>  BY <2>1, HolderFacts
  <2> QED BY <2>1, <2>2, FreeAssumption DEF MonitorInv
<1>7. CASE UNCHANGED vars  BY <1>2, <1>7 DEF vars, tables, publishing
<1> QED BY <1>1, <1>3, <1>4, <1>5, <1>6, <1>7 DEF Next, SocketStep

-----------------------------------------------------------------------------
(* The tables. *)

LEMMA TablesStep ==
  ASSUME TypeOK, MonitorInv, TablesInv, [Next]_vars
  PROVE  TablesInv'
<1>0. \A t \in Topics : subscriptions[t] \in Seq(Sockets) /\ IsInjective(subscriptions[t])
  BY DEF TypeOK, TablesInv
<1>1. ASSUME NEW s \in Sockets, NEW query \in Queries, Subscribe(s, query) PROVE TablesInv'
  <2> DEFINE topics == parse_topics(query)
  <2>1. topics \subseteq Topics /\ topics # {}  BY TopicFacts
  <2>2. /\ sock[s] = "new" /\ sock' = [sock EXCEPT ![s] = "opening"]
        /\ connections' = [connections EXCEPT ![s] = topics]
        /\ subscriptions' = [t \in Topics |->
             IF t \in topics THEN Append(subscriptions[t], s) ELSE subscriptions[t]]
        /\ since' = [since EXCEPT ![s] = Len(log)] /\ UNCHANGED <<log, inbox>>
    BY <1>1 DEF Subscribe, publishing
  <2> HIDE DEF topics
  <2>3. \A t \in Topics : s \notin ToSet(subscriptions[t])
    BY <2>2 DEF TablesInv, Subscribed
  <2>4. \A t \in Topics : /\ ToSet(Append(subscriptions[t], s)) = ToSet(subscriptions[t]) \cup {s}
                          /\ IsInjective(Append(subscriptions[t], s))
    BY <1>0, <2>3, AppendElements
  <2>5. ASSUME NEW r \in Sockets, NEW t \in Topics PROVE (Subscribed(r, t) <=> t \in connections[r])'
    <3>1. Subscribed(r, t)' <=> Subscribed(r, t) \/ (r = s /\ t \in topics)
      <4>1. CASE t \in topics
        <5>1. subscriptions'[t] = Append(subscriptions[t], s)  BY <2>2, <4>1
        <5>2. ToSet(subscriptions'[t]) = ToSet(subscriptions[t]) \cup {s}  BY <2>4, <5>1
        <5> QED BY <4>1, <5>2 DEF Subscribed
      <4>2. CASE t \notin topics
        <5>1. subscriptions'[t] = subscriptions[t]  BY <2>2, <4>2
        <5> QED BY <4>2, <5>1 DEF Subscribed
      <4> QED BY <4>1, <4>2
    <3>2. connections'[r] = IF r = s THEN topics ELSE connections[r]
      BY <2>2 DEF TypeOK
    <3>3. ~Subscribed(s, t)  BY <2>3 DEF Subscribed
    <3> QED BY <3>1, <3>2, <3>3 DEF TablesInv
  <2>6. \A t \in Topics : IsInjective(subscriptions'[t])  BY <1>0, <2>2, <2>4
  <2>7. \A r \in Sockets : /\ sock'[r] = "new" => connections'[r] = {} /\ inbox'[r] = <<>>
                           /\ sock'[r] \in {"opening", "open"} => connections'[r] # {}
    BY <2>1, <2>2 DEF TypeOK, TablesInv
  <2>8. \A r \in Sockets : since'[r] <= Len(log')
    <3>1. Len(log) \in Nat  BY DEF TypeOK
    <3> QED BY <2>2, <3>1 DEF TypeOK, TablesInv
  <2> QED BY <2>5, <2>6, <2>7, <2>8 DEF TablesInv
<1>2. ASSUME NEW s \in Sockets, UnsubscribeAll(s) PROVE TablesInv'
  <2>1. /\ sock[s] = "gone" /\ sock' = [sock EXCEPT ![s] = "closed"]
        /\ connections' = [connections EXCEPT ![s] = {}]
        /\ subscriptions' = [t \in Topics |->
             IF t \in connections[s] THEN Kept(subscriptions[t], Sockets \ {s})
             ELSE subscriptions[t]]
        /\ UNCHANGED <<log, inbox, since>>
    BY <1>2 DEF UnsubscribeAll, publishing
  <2>2. \A t \in Topics :
          /\ ToSet(Kept(subscriptions[t], Sockets \ {s})) = ToSet(subscriptions[t]) \cap (Sockets \ {s})
          /\ IsInjective(Kept(subscriptions[t], Sockets \ {s}))
    BY <1>0, KeptFacts
  <2>3. ASSUME NEW r \in Sockets, NEW t \in Topics PROVE (Subscribed(r, t) <=> t \in connections[r])'
    <3>1. Subscribed(r, t) <=> t \in connections[r]  BY DEF TablesInv
    <3>2. Subscribed(s, t) <=> t \in connections[s]  BY DEF TablesInv
    <3>3. Subscribed(r, t)' <=> Subscribed(r, t) /\ r # s
      BY <2>1, <2>2, <3>2 DEF Subscribed
    <3>4. connections'[r] = IF r = s THEN {} ELSE connections[r]  BY <2>1 DEF TypeOK
    <3> QED BY <3>1, <3>3, <3>4
  <2>4. \A t \in Topics : IsInjective(subscriptions'[t])  BY <1>0, <2>1, <2>2
  <2>5. \A r \in Sockets : /\ sock'[r] = "new" => connections'[r] = {} /\ inbox'[r] = <<>>
                           /\ sock'[r] \in {"opening", "open"} => connections'[r] # {}
                           /\ since'[r] <= Len(log')
    BY <2>1 DEF TypeOK, TablesInv
  <2> QED BY <2>3, <2>4, <2>5 DEF TablesInv
<1>3. ASSUME UNCHANGED <<tables, since>>, Len(log) <= Len(log'),
             \A s \in Sockets :
               /\ sock'[s] = "new" => sock[s] = "new" /\ inbox'[s] = inbox[s]
               /\ sock'[s] \in {"opening", "open"} => sock[s] \in {"opening", "open"}
      PROVE  TablesInv'
  <2>1. \A s \in Sockets : since[s] \in Nat /\ since[s] <= Len(log) /\ since' = since
    BY <1>3, MaxEventsAssumption DEF TypeOK, TablesInv
  <2>2. Len(log) \in Nat /\ Len(log') \in Nat  BY TypeStep DEF TypeOK
  <2>3. \A s \in Sockets : since'[s] <= Len(log')
    BY <1>3, <2>1, <2>2
  <2> QED BY <1>3, <2>3 DEF TablesInv, tables, Subscribed
<1>4. ASSUME NEW s \in Sockets, Confirm(s) PROVE TablesInv'
  <2>1. /\ sock[s] = "opening" /\ sock' = [sock EXCEPT ![s] = "open"]
        /\ inbox' = [inbox EXCEPT ![s] = Append(inbox[s], 0)]
        /\ UNCHANGED <<tables, log, since>>
    BY <1>4 DEF Confirm, Sent, publishing
  <2>2. Len(log) <= Len(log')  BY <2>1 DEF TypeOK
  <2> QED BY <1>3, <2>1, <2>2 DEF TypeOK
<1>5. ASSUME NEW s \in Sockets, Drop(s) PROVE TablesInv'
  <2>1. sock' = [sock EXCEPT ![s] = "gone"] /\ UNCHANGED <<tables, inbox, log, since>>
    BY <1>5 DEF Drop, publishing
  <2>2. Len(log) <= Len(log')  BY <2>1 DEF TypeOK
  <2> QED BY <1>3, <2>1, <2>2 DEF TypeOK
<1>6. ASSUME NEW w \in Publishers, NEW t \in Topics, PublishLock(w, t) PROVE TablesInv'
  <2>1. log' = Append(log, t) /\ log \in Seq(Topics) /\ UNCHANGED <<sock, tables, inbox, since>>
    BY <1>6 DEF PublishLock, TypeOK
  <2>2. Len(log) <= Len(log') /\ Len(log) \in Nat  BY <2>1
  <2> QED BY <1>3, <2>1, <2>2
<1>7. ASSUME NEW w \in Publishers, PublishSend(w) PROVE TablesInv'
  <2>1. inbox' = Sent(Head(todo[w]), Len(log)) /\ Head(todo[w]) \in Sockets
    BY <1>7, SendFacts
  <2>2. UNCHANGED <<sock, tables, log, since>>  BY <1>7 DEF PublishSend
  <2>3. \A s \in Sockets : sock[s] = "new" => inbox'[s] = inbox[s]
    BY <2>1 DEF Sent, TypeOK
  <2>4. Len(log) <= Len(log')  BY <2>2 DEF TypeOK
  <2> QED BY <1>3, <2>2, <2>3, <2>4
<1>8. ASSUME UNCHANGED <<sock, tables, log, inbox, since>> PROVE TablesInv'
  <2>1. Len(log) <= Len(log')  BY <1>8 DEF TypeOK
  <2> QED BY <1>3, <1>8, <2>1
<1>9. ASSUME NEW w \in Publishers, PublishUnlock(w) PROVE TablesInv'
  BY <1>8, <1>9 DEF PublishUnlock
<1>10. CASE UNCHANGED vars  BY <1>8, <1>10 DEF vars, tables
<1> QED
  BY <1>1, <1>2, <1>4, <1>5, <1>6, <1>7, <1>9, <1>10 DEF Next, SocketStep

-----------------------------------------------------------------------------
(* Delivery. *)

\* What a message adds to the events of a socket: the confirmation nothing.
LEMMA EventsAppend ==
  ASSUME TypeOK, NEW s \in Sockets, NEW m \in 0 .. MaxEvents
  PROVE  Kept(Append(inbox[s], m), 1 .. MaxEvents) =
           IF m = 0 THEN Events(s) ELSE Append(Events(s), m)
<1> DEFINE T == 1 .. MaxEvents
<1>1. inbox[s] \in Seq(0 .. MaxEvents)  BY DEF TypeOK
<1>2. m \in T <=> m # 0  BY MaxEventsAssumption
<1> HIDE DEF T
<1>3. Kept(Append(inbox[s], m), T) =
        IF m \in T THEN Append(Kept(inbox[s], T), m) ELSE Kept(inbox[s], T)
  BY <1>1, KeptAppend
<1> QED BY <1>2, <1>3 DEF Events, T

\* A filter that lets nothing through.
LEMMA KeptNothing == \A n \in Nat : Kept(Positions(n), {}) = <<>>
<1> SUFFICES ASSUME NEW n \in Nat PROVE Kept(Positions(n), {}) = <<>>  OBVIOUS
<1> DEFINE k == Kept(Positions(n), {})
<1>1. Positions(n) \in Seq(Nat)  BY PositionsGrow, Zenon
<1>2. k \in Seq(Nat) /\ ToSet(k) = ToSet(Positions(n)) \cap {}  BY <1>1, KeptFacts
<1> HIDE DEF k
<1>3. ASSUME k # <<>> PROVE FALSE
  <2>1. 1 \in DOMAIN k  BY <1>2, <1>3
  <2>2. k[1] \in ToSet(k)  BY <2>1 DEF ToSet
  <2> QED BY <1>2, <2>2
<1> QED BY <1>3 DEF k

\* A socket to which nothing happens.
LEMMA DeliveryStays ==
  ASSUME DeliveryInv, NEW s \in Sockets, Listening(s), UNCHANGED log,
         inbox'[s] = inbox[s], connections'[s] = connections[s], since'[s] = since[s],
         Awaits(s)' <=> Awaits(s)
  PROVE  (Events(s) = Kept(Positions(IF Awaits(s) THEN Len(log) - 1 ELSE Len(log)), Mine(s)))'
<1>1. Events(s)' = Events(s) /\ Mine(s)' = Mine(s)  BY DEF Events, Mine
<1> QED BY <1>1 DEF DeliveryInv

LEMMA SubscribeDelivers ==
  ASSUME HubInv, NEW s \in Sockets, NEW query \in Queries, Subscribe(s, query)
  PROVE  DeliveryInv'
<1>1. TypeOK /\ MonitorInv /\ TablesInv /\ DeliveryInv  BY DEF HubInv
<1>2. /\ sock[s] = "new" /\ lock = Free /\ sock' = [sock EXCEPT ![s] = "opening"]
      /\ connections' = [connections EXCEPT ![s] = parse_topics(query)]
      /\ since' = [since EXCEPT ![s] = Len(log)]
      /\ UNCHANGED <<log, todo, inbox>>
  BY DEF Subscribe, publishing
<1>3. \A r : ~Awaits(r) /\ ~Awaits(r)'
  BY <1>1, <1>2, HolderFacts DEF Awaits
<1>4. ASSUME NEW r \in Sockets, r # s, Listening(r)'
      PROVE  (Events(r) = Kept(Positions(IF Awaits(r) THEN Len(log) - 1 ELSE Len(log)), Mine(r)))'
  <2>1. /\ inbox'[r] = inbox[r] /\ connections'[r] = connections[r] /\ since'[r] = since[r]
        /\ sock'[r] = sock[r]
    BY <1>1, <1>2, <1>4 DEF TypeOK
  <2>2. Listening(r)  BY <1>4, <2>1 DEF Listening
  <2> QED BY <1>1, <1>2, <1>3, <2>1, <2>2, DeliveryStays
<1>5. (Events(s) = Kept(Positions(IF Awaits(s) THEN Len(log) - 1 ELSE Len(log)), Mine(s)))'
  <2>1. Len(log) \in Nat /\ since'[s] = Len(log)  BY <1>1, <1>2 DEF TypeOK
  <2>2. Mine(s)' = {}  BY <1>2, <2>1 DEF Mine
  <2>3. inbox'[s] = <<>>  BY <1>1, <1>2 DEF TablesInv
  <2>4. Events(s)' = <<>>  BY <2>3, KeptEmpty DEF Events
  <2>5. Kept(Positions(Len(log')), {}) = <<>>  BY <1>2, <2>1, KeptNothing
  <2> QED BY <1>3, <2>2, <2>4, <2>5
<1> QED BY <1>4, <1>5 DEF DeliveryInv

\* A socket that is listening after a step of sockets was listening before it.
LEMMA SocketDelivers ==
  ASSUME HubInv, NEW s \in Sockets, Confirm(s) \/ Drop(s) \/ UnsubscribeAll(s)
  PROVE  DeliveryInv'
<1>1. TypeOK /\ DeliveryInv  BY DEF HubInv
<1>2. UNCHANGED <<log, todo, since>>
  BY DEF Confirm, Drop, UnsubscribeAll, publishing
<1>3. \A r : Awaits(r)' <=> Awaits(r)  BY <1>2 DEF Awaits
<1>4. ASSUME NEW r \in Sockets, Listening(r)'
      PROVE  /\ Listening(r) /\ Events(r)' = Events(r) /\ connections'[r] = connections[r]
  <2>1. CASE Confirm(s)
    <3>1. /\ sock[s] = "opening" /\ sock' = [sock EXCEPT ![s] = "open"]
          /\ inbox' = [inbox EXCEPT ![s] = Append(inbox[s], 0)] /\ UNCHANGED connections
      BY <2>1 DEF Confirm, Sent, tables
    <3>2. Listening(r)  BY <1>1, <1>4, <3>1 DEF Listening, TypeOK
    <3>3. CASE r = s
      <4>1. inbox'[s] = Append(inbox[s], 0)  BY <1>1, <3>1 DEF TypeOK
      <4>2. Events(s)' = Kept(Append(inbox[s], 0), 1 .. MaxEvents)  BY <4>1 DEF Events
      <4>3. 0 \in 0 .. MaxEvents  BY MaxEventsAssumption
      <4> QED BY <1>1, <3>1, <3>2, <3>3, <4>2, <4>3, EventsAppend
    <3>4. CASE r # s
      <4>1. inbox'[r] = inbox[r]  BY <1>1, <3>1, <3>4 DEF TypeOK
      <4> QED BY <3>1, <3>2, <4>1 DEF Events
    <3> QED BY <3>3, <3>4
  <2>2. CASE Drop(s)
    <3>1. sock' = [sock EXCEPT ![s] = "gone"] /\ UNCHANGED <<connections, inbox>>
      BY <2>2 DEF Drop, tables
    <3>2. Listening(r)  BY <1>1, <1>4, <3>1 DEF Listening, TypeOK
    <3> QED BY <3>1, <3>2 DEF Events
  <2>3. CASE UnsubscribeAll(s)
    <3>1. sock' = [sock EXCEPT ![s] = "closed"] /\ UNCHANGED inbox
          /\ connections' = [connections EXCEPT ![s] = {}]
      BY <2>3 DEF UnsubscribeAll
    <3>2. Listening(r) /\ r # s  BY <1>1, <1>4, <3>1 DEF Listening, TypeOK
    <3>3. connections'[r] = connections[r]  BY <1>1, <3>1, <3>2 DEF TypeOK
    <3> QED BY <3>1, <3>2, <3>3 DEF Events
  <2> QED BY <2>1, <2>2, <2>3
<1>5. ASSUME NEW r \in Sockets, Listening(r)'
      PROVE  (Events(r) = Kept(Positions(IF Awaits(r) THEN Len(log) - 1 ELSE Len(log)), Mine(r)))'
  <2>1. Listening(r) /\ Events(r)' = Events(r) /\ connections'[r] = connections[r]
    BY <1>4, <1>5
  <2>2. Mine(r)' = Mine(r)  BY <1>2, <2>1 DEF Mine
  <2> QED BY <1>1, <1>2, <1>3, <2>1, <2>2 DEF DeliveryInv
<1> QED BY <1>5 DEF DeliveryInv

\* A new event is owed to the sockets of its topic, and to those only.
LEMMA LockDelivers ==
  ASSUME HubInv, NEW w \in Publishers, NEW t \in Topics, PublishLock(w, t)
  PROVE  DeliveryInv'
<1> DEFINE n == Len(log)
<1>1. TypeOK /\ MonitorInv /\ TablesInv /\ DeliveryInv  BY DEF HubInv
<1>2. /\ lock = Free /\ log \in Seq(Topics) /\ n \in Nat /\ log' = Append(log, t)
      /\ todo' = [todo EXCEPT ![w] = subscriptions[t]]
      /\ UNCHANGED <<sock, connections, inbox, since>>
  BY <1>1 DEF PublishLock, TypeOK, tables
<1>3. Len(log') = n + 1 /\ log'[n + 1] = t /\ \A i \in 1 .. n : log'[i] = log[i]
  BY <1>2
<1>4. ASSUME NEW s \in Sockets, Listening(s)'
      PROVE  (Events(s) = Kept(Positions(IF Awaits(s) THEN Len(log) - 1 ELSE Len(log)), Mine(s)))'
  <2>1. Events(s) = Kept(Positions(n), Mine(s))
    <3>1. Listening(s) /\ ~Awaits(s)  BY <1>1, <1>2, <1>4, HolderFacts DEF Listening
    <3> QED BY <1>1, <3>1 DEF DeliveryInv
  <2>2. Awaits(s)' <=> t \in connections[s]
    <3>1. \A x \in Publishers : x # w => todo'[x] = <<>>
      BY <1>1, <1>2, HolderFacts DEF TypeOK
    <3>2. todo'[w] = subscriptions[t]  BY <1>1, <1>2 DEF TypeOK
    <3>3. Awaits(s)' <=> s \in ToSet(subscriptions[t])  BY <3>1, <3>2, EmptyElements DEF Awaits
    <3> QED BY <1>1, <3>3 DEF TablesInv, Subscribed
  <2>3. since[s] \in Nat /\ since[s] <= n
    BY <1>1, MaxEventsAssumption DEF TypeOK, TablesInv
  <2>4. n + 1 \in Mine(s)' <=> t \in connections[s]
    BY <1>2, <1>3, <2>3 DEF Mine
  <2>5. \A i \in 1 .. n : i \in Mine(s) <=> i \in Mine(s)'
    BY <1>2, <1>3 DEF Mine
  <2>6. Kept(Positions(n), Mine(s)) = Kept(Positions(n), Mine(s)')
    <3> DEFINE T == Mine(s)
               U == Mine(s)'
    <3>1. Positions(n) \in Seq(Nat)  BY <1>2, PositionsGrow, Zenon
    <3>2. DOMAIN Positions(n) = 1 .. n /\ \A i \in 1 .. n : Positions(n)[i] = i
      BY DEF Positions
    <3>3. \A i \in DOMAIN Positions(n) : Positions(n)[i] \in T <=> Positions(n)[i] \in U
      BY <2>5, <3>2
    <3> HIDE DEF T, U
    <3>4. Kept(Positions(n), T) = Kept(Positions(n), U)  BY <3>1, <3>3, KeptSame
    <3> QED BY <3>4 DEF T, U
  <2>7. Events(s)' = Kept(Positions(n), Mine(s)')  BY <1>2, <2>1, <2>6 DEF Events
  <2>8. CASE t \in connections[s]
    <3>1. Awaits(s)' /\ Len(log') - 1 = n  BY <1>2, <1>3, <2>2, <2>8
    <3> QED BY <2>7, <3>1
  <2>9. CASE t \notin connections[s]
    <3>1. ~Awaits(s)' /\ n + 1 \notin Mine(s)'  BY <2>2, <2>4, <2>9
    <3>2. Kept(Positions(n + 1), Mine(s)') = Kept(Positions(n), Mine(s)')
      BY <1>2, <3>1, KeptPosition
    <3> QED BY <1>3, <2>7, <3>1, <3>2
  <2> QED BY <2>8, <2>9
<1> QED BY <1>4 DEF DeliveryInv

\* One send delivers the last event to one socket that awaits it.
LEMMA SendDelivers ==
  ASSUME HubInv, NEW w \in Publishers, PublishSend(w)
  PROVE  DeliveryInv'
<1> DEFINE n == Len(log)
<1>1. TypeOK /\ MonitorInv /\ TablesInv /\ DeliveryInv  BY DEF HubInv
<1>2. PICK head \in Sockets :
      /\ lock = w /\ n \in 1 .. MaxEvents /\ head \in ToSet(todo[w])
      /\ ToSet(todo'[w]) = ToSet(todo[w]) \ {head}
      /\ \A x \in Publishers : x # w => todo'[x] = todo[x]
      /\ inbox' = Sent(head, n)
  BY <1>1, SendFacts
<1>3. UNCHANGED <<sock, connections, subscriptions, log, since>>
  BY DEF PublishSend, tables
<1>4. /\ \A s : Awaits(s) <=> s \in ToSet(todo[w])
      /\ \A s : Awaits(s)' <=> s \in ToSet(todo[w]) /\ s # head
  <2>1. \A x \in Publishers : x # w => todo[x] = <<>>  BY <1>1, <1>2, HolderFacts
  <2> QED BY <1>2, <2>1, EmptyElements DEF Awaits
<1> HIDE DEF n
<1>5. ASSUME NEW s \in Sockets, s # head, Listening(s)'
      PROVE  (Events(s) = Kept(Positions(IF Awaits(s) THEN Len(log) - 1 ELSE Len(log)), Mine(s)))'
  <2>1. inbox'[s] = inbox[s]  BY <1>1, <1>2, <1>5 DEF Sent, TypeOK
  <2>2. Listening(s)  BY <1>3, <1>5 DEF Listening
  <2> QED BY <1>1, <1>3, <1>4, <1>5, <2>1, <2>2, DeliveryStays
<1>6. ASSUME Listening(head)'
      PROVE  (Events(head) = Kept(Positions(IF Awaits(head) THEN Len(log) - 1 ELSE Len(log)), Mine(head)))'
  <2>1. sock[head] \in {"opening", "open"} /\ Listening(head)  BY <1>3, <1>6 DEF Listening
  <2>2. Events(head) = Kept(Positions(n - 1), Mine(head))
    BY <1>1, <1>2, <1>4, <2>1 DEF DeliveryInv, n
  <2>3. n \in Mine(head)
    <3>1. Subscribed(head, log[n]) /\ since[head] < n
      BY <1>1, <1>2 DEF MonitorInv, n
    <3>2. log[n] \in Topics  BY <1>1, <1>2 DEF TypeOK, n
    <3> QED BY <1>1, <1>2, <3>1, <3>2 DEF TablesInv, Mine, n
  <2>4. inbox'[head] = Append(inbox[head], n)
    BY <1>1, <1>2, <2>1 DEF Sent, TypeOK
  <2>5. Events(head)' = Kept(Append(inbox[head], n), 1 .. MaxEvents)  BY <2>4 DEF Events
  <2>6. Kept(Append(inbox[head], n), 1 .. MaxEvents) = Append(Events(head), n)
    <3>1. n \in 0 .. MaxEvents /\ n # 0  BY <1>2
    <3> QED BY <1>1, <1>2, <3>1, EventsAppend
  <2>7. Kept(Positions(n), Mine(head)) = Append(Kept(Positions(n - 1), Mine(head)), n)
    <3> DEFINE m == n - 1
    <3>1. m \in Nat /\ n = m + 1  BY <1>2
    <3> HIDE DEF m
    <3>2. Kept(Positions(m + 1), Mine(head)) = Append(Kept(Positions(m), Mine(head)), m + 1)
      BY <2>3, <3>1, KeptPosition
    <3> QED BY <3>1, <3>2 DEF m
  <2>8. Events(head)' = Kept(Positions(n), Mine(head))  BY <2>2, <2>5, <2>6, <2>7
  <2>9. Mine(head)' = Mine(head) /\ ~Awaits(head)' /\ Len(log') = n
    BY <1>3, <1>4 DEF Mine, n
  <2> QED BY <2>8, <2>9
<1> QED BY <1>5, <1>6 DEF DeliveryInv

LEMMA DeliveryStep ==
  ASSUME HubInv, [Next]_vars
  PROVE  DeliveryInv'
<1>1. ASSUME UNCHANGED <<sock, connections, todo, log, inbox, since>> PROVE DeliveryInv'
  <2>1. \A s \in Sockets : /\ Listening(s)' = Listening(s) /\ Events(s)' = Events(s)
                           /\ Mine(s)' = Mine(s) /\ (Awaits(s)' <=> Awaits(s))
    BY <1>1 DEF Listening, Events, Mine, Awaits
  <2> QED BY <1>1, <2>1 DEF HubInv, DeliveryInv
<1>2. ASSUME NEW w \in Publishers, PublishUnlock(w) PROVE DeliveryInv'
  BY <1>1, <1>2 DEF PublishUnlock, tables
<1>3. CASE UNCHANGED vars  BY <1>1, <1>3 DEF vars
<1> QED
  BY <1>2, <1>3, SubscribeDelivers, SocketDelivers, LockDelivers, SendDelivers
  DEF Next, SocketStep

-----------------------------------------------------------------------------
(* The theorems. *)

LEMMA HubInvariant == Spec => []HubInv
<1>1. Init => HubInv
  <2> SUFFICES ASSUME Init PROVE HubInv  OBVIOUS
  <2>1. TypeOK  BY MaxEventsAssumption DEF Init, TypeOK
  <2>2. MonitorInv  BY FreeAssumption DEF Init, MonitorInv
  <2>3. TablesInv
    <3>1. \A s \in Sockets, t \in Topics : Subscribed(s, t) <=> t \in connections[s]
      BY EmptyElements DEF Init, Subscribed
    <3>2. \A t \in Topics : IsInjective(subscriptions[t])  BY EmptyElements DEF Init
    <3>3. \A s \in Sockets : since[s] <= Len(log)  BY DEF Init
    <3> QED BY <3>1, <3>2, <3>3 DEF Init, TablesInv
  <2>4. DeliveryInv  BY DEF Init, DeliveryInv, Listening
  <2> QED BY <2>1, <2>2, <2>3, <2>4 DEF HubInv
<1>2. HubInv /\ [Next]_vars => HubInv'
  BY TypeStep, MonitorStep, TablesStep, DeliveryStep DEF HubInv
<1> QED BY <1>1, <1>2, PTL DEF Spec

\* Every variable keeps its type.
THEOREM TypeCorrect == Spec => []TypeOK
<1>1. HubInv => TypeOK  BY DEF HubInv
<1> QED BY <1>1, HubInvariant, PTL

\* The table of connections and the table of subscriptions tell the same, and
\* no socket is listed twice under a topic.
THEOREM TablesCorrect == Spec => []TablesMirror
<1>1. ASSUME HubInv PROVE TablesMirror
  <2>1. ASSUME NEW s \in Sockets, NEW t \in Topics
        PROVE  Cardinality({i \in DOMAIN subscriptions[t] : subscriptions[t][i] = s}) <= 1
    <3> DEFINE places == {i \in DOMAIN subscriptions[t] : subscriptions[t][i] = s}
    <3>1. \A i, k \in places : i = k
      BY <1>1 DEF HubInv, TablesInv, IsInjective
    <3>2. CASE places = {}
      <4>1. Cardinality(places) = 0  BY <3>2, FS_EmptySet
      <4> QED BY <4>1
    <3>3. CASE places # {}
      <4>1. PICK i : places = {i}  BY <3>1, <3>3
      <4>2. Cardinality(places) = 1  BY <4>1, FS_Singleton
      <4> QED BY <4>2
    <3> QED BY <3>2, <3>3
  <2> QED BY <1>1, <2>1 DEF HubInv, TablesInv, TablesMirror
<1> QED BY <1>1, HubInvariant, PTL

\* However publishers, openings and closings interleave, an open socket has,
\* whenever the monitor is free, every event of its topics since it subscribed,
\* once and in the order of the bus.
THEOREM DeliveryCorrect == Spec => []ExactlyOnceInOrder
<1>1. ASSUME HubInv PROVE ExactlyOnceInOrder
  <2>1. ASSUME lock = Free, NEW s \in Sockets, sock[s] = "open"
        PROVE  Events(s) = Kept(Positions(Len(log)), Mine(s))
    <3>1. Listening(s) /\ ~Awaits(s)
      BY <1>1, <2>1, HolderFacts DEF HubInv, Listening
    <3> QED BY <1>1, <3>1 DEF HubInv, DeliveryInv
  <2> QED BY <2>1 DEF ExactlyOnceInOrder, Positions, Mine
<1> QED BY <1>1, HubInvariant, PTL

-----------------------------------------------------------------------------
(* The hub implements TopicBus. *)

Joined == [s \in Sockets |-> IF sock[s] \in {"opening", "open"} THEN connections[s] ELSE {}]
Received == [s \in Sockets |-> Events(s)]

\* Steps the bus does not see.
LEMMA HiddenSteps ==
  ASSUME UNCHANGED <<log, since>>, Joined' = Joined, Received' = Received
  PROVE  UNCHANGED Bus!bvars
  BY DEF Bus!bvars, Joined, Received

LEMMA SocketImplements ==
  ASSUME HubInv, NEW s \in Sockets, SocketStep(s)
  PROVE  [Bus!BNext]_(Bus!bvars)
<1>1. TypeOK /\ TablesInv  BY DEF HubInv
<1>2. ASSUME NEW query \in Queries, Subscribe(s, query) PROVE Bus!BNext
  <2> DEFINE topics == parse_topics(query)
  <2>1. topics \in SUBSET Topics  BY TopicFacts
  <2>2. /\ sock[s] = "new" /\ sock' = [sock EXCEPT ![s] = "opening"]
        /\ connections' = [connections EXCEPT ![s] = topics]
        /\ since' = [since EXCEPT ![s] = Len(log)] /\ UNCHANGED <<log, inbox>>
    BY <1>2 DEF Subscribe, publishing
  <2> HIDE DEF topics
  <2>3. Joined[s] = {} /\ Joined' = [Joined EXCEPT ![s] = topics]
    BY <1>1, <2>2 DEF Joined, TypeOK
  <2>4. Received' = Received  BY <2>2 DEF Received, Events
  <2>5. Bus!Attach(s, topics)  BY <2>2, <2>3, <2>4 DEF Bus!Attach, Joined, Received
  <2> QED BY <2>1, <2>5 DEF Bus!BNext
<1>3. ASSUME Confirm(s) PROVE UNCHANGED Bus!bvars
  <2>1. /\ sock[s] = "opening" /\ sock' = [sock EXCEPT ![s] = "open"]
        /\ inbox' = [inbox EXCEPT ![s] = Append(inbox[s], 0)]
        /\ UNCHANGED <<connections, log, since>>
    BY <1>3 DEF Confirm, Sent, tables, publishing
  <2>2. Joined' = Joined  BY <1>1, <2>1 DEF Joined, TypeOK
  <2>3. ASSUME NEW r \in Sockets PROVE Events(r)' = Events(r)
    <3>1. CASE r = s
      <4>1. inbox'[s] = Append(inbox[s], 0) /\ 0 \in 0 .. MaxEvents
        BY <1>1, <2>1, MaxEventsAssumption DEF TypeOK
      <4>2. Kept(Append(inbox[s], 0), 1 .. MaxEvents) = Events(s)
        BY <1>1, <4>1, EventsAppend
      <4> QED BY <3>1, <4>1, <4>2 DEF Events
    <3>2. CASE r # s
      <4>1. inbox'[r] = inbox[r]  BY <1>1, <2>1, <3>2 DEF TypeOK
      <4> QED BY <4>1 DEF Events
    <3> QED BY <3>1, <3>2
  <2>4. Received' = Received  BY <2>3 DEF Received
  <2> QED BY <2>1, <2>2, <2>4, HiddenSteps
<1>4. ASSUME Drop(s) PROVE Bus!BNext
  <2>1. /\ sock[s] = "open" /\ sock' = [sock EXCEPT ![s] = "gone"]
        /\ UNCHANGED <<connections, log, inbox, since>>
    BY <1>4 DEF Drop, tables, publishing
  <2>2. Joined[s] # {} /\ Joined' = [Joined EXCEPT ![s] = {}]
    BY <1>1, <2>1 DEF Joined, TypeOK, TablesInv
  <2>3. Received' = Received  BY <2>1 DEF Received, Events
  <2>4. Bus!Detach(s)  BY <2>1, <2>2, <2>3 DEF Bus!Detach, Joined, Received
  <2> QED BY <2>4 DEF Bus!BNext
<1>5. ASSUME UnsubscribeAll(s) PROVE UNCHANGED Bus!bvars
  <2>1. /\ sock[s] = "gone" /\ sock' = [sock EXCEPT ![s] = "closed"]
        /\ connections' = [connections EXCEPT ![s] = {}]
        /\ UNCHANGED <<log, inbox, since>>
    BY <1>5 DEF UnsubscribeAll, publishing
  <2>2. Joined' = Joined  BY <1>1, <2>1 DEF Joined, TypeOK
  <2>3. Received' = Received  BY <2>1 DEF Received, Events
  <2> QED BY <2>1, <2>2, <2>3, HiddenSteps
<1> QED BY <1>2, <1>3, <1>4, <1>5 DEF SocketStep

\* The event a socket awaits is the first one it is owed.
LEMMA OwedFacts ==
  ASSUME HubInv, NEW s \in Sockets, Listening(s), Awaits(s), Len(log) \in Mine(s)
  PROVE  Bus!Owed(s) = {Len(log)}
<1> DEFINE n == Len(log)
           m == n - 1
           kept == Kept(Positions(m), Mine(s))
           last == IF kept = <<>> THEN since[s] ELSE kept[Len(kept)]
<1>1. TypeOK /\ DeliveryInv /\ TablesInv  BY DEF HubInv
<1>2. n \in Nat /\ n # 0 /\ m \in Nat /\ n = m + 1 /\ since[s] \in Nat /\ since[s] < n
  BY <1>1, MaxEventsAssumption DEF TypeOK, Mine
<1>3. Events(s) = kept  BY <1>1 DEF DeliveryInv
<1>4. kept \in Seq(1 .. m) /\ ToSet(kept) = ToSet(Positions(m)) \cap Mine(s)
  BY <1>2, PositionsGrow, KeptFacts
<1>5. ASSUME kept # <<>> PROVE last \in 1 .. m /\ last \in Mine(s)
  <2>1. Len(kept) \in DOMAIN kept /\ kept[Len(kept)] \in 1 .. m  BY <1>4, <1>5
  <2>2. kept[Len(kept)] \in ToSet(kept)  BY <2>1 DEF ToSet
  <2> QED BY <1>4, <1>5, <2>1, <2>2
<1>6. \A i \in 1 .. m : i \in Mine(s) => kept # <<>> /\ i <= kept[Len(kept)]
  BY <1>2, KeptLast
<1> HIDE DEF kept
<1>7. last \in Nat /\ since[s] <= last /\ last < n
  <2>1. CASE kept = <<>>  BY <1>2, <2>1
  <2>2. CASE kept # <<>>
    <3>1. last \in 1 .. m /\ last \in Mine(s)  BY <1>5, <2>2
    <3>2. since[s] < last  BY <3>1 DEF Mine
    <3> QED BY <1>2, <3>1, <3>2
  <2> QED BY <2>1, <2>2
<1>8. \A i \in 1 .. m : i \in Mine(s) => i <= last  BY <1>6
<1>9. Mine(s) = {i \in 1 .. n : i > since[s] /\ log[i] \in connections[s]}  BY DEF Mine
<1> HIDE DEF last, n, m
<1>10. {i \in last + 1 .. n : log[i] \in connections[s]} = {n}
  <2>1. log[n] \in connections[s]  BY <1>9 DEF n
  <2>2. \A i \in last + 1 .. n : log[i] \in connections[s] => i = n
    <3> SUFFICES ASSUME NEW i \in last + 1 .. n, log[i] \in connections[s], i # n
                 PROVE  FALSE
      OBVIOUS
    <3>1. i \in 1 .. m /\ i > since[s] /\ i > last  BY <1>2, <1>7
    <3>2. i \in Mine(s)  BY <1>2, <1>9, <3>1
    <3> QED BY <1>7, <1>8, <3>1, <3>2
  <2> QED BY <1>2, <1>7, <2>1, <2>2
<1>11. Bus!LastGot(s) = last  BY <1>3 DEF Bus!LastGot, last
<1> QED BY <1>10, <1>11 DEF Bus!Owed, Listening, n

LEMMA PublisherImplements ==
  ASSUME HubInv, NEW w \in Publishers,
         (\E t \in Topics : PublishLock(w, t)) \/ PublishSend(w) \/ PublishUnlock(w)
  PROVE  [Bus!BNext]_(Bus!bvars)
<1>1. TypeOK /\ MonitorInv /\ TablesInv /\ DeliveryInv  BY DEF HubInv
<1>2. ASSUME NEW t \in Topics, PublishLock(w, t) PROVE Bus!BNext
  <2>1. log' = Append(log, t) /\ UNCHANGED <<sock, connections, inbox, since>>
    BY <1>2 DEF PublishLock, tables
  <2>2. Joined' = Joined /\ Received' = Received  BY <2>1 DEF Joined, Received, Events
  <2>3. Bus!Emit(t)  BY <2>1, <2>2 DEF Bus!Emit, Joined, Received
  <2> QED BY <2>3 DEF Bus!BNext
<1>3. ASSUME PublishUnlock(w) PROVE UNCHANGED Bus!bvars
  <2>1. UNCHANGED <<sock, connections, log, inbox, since>>
    BY <1>3 DEF PublishUnlock, tables
  <2>2. Joined' = Joined /\ Received' = Received  BY <2>1 DEF Joined, Received, Events
  <2> QED BY <2>1, <2>2, HiddenSteps
<1>4. ASSUME PublishSend(w) PROVE [Bus!BNext]_(Bus!bvars)
  <2>1. PICK s \in Sockets :
          /\ lock = w /\ Len(log) \in 1 .. MaxEvents /\ s \in ToSet(todo[w])
          /\ inbox' = Sent(s, Len(log))
    BY <1>1, <1>4, SendFacts
  <2>2. UNCHANGED <<sock, connections, log, since>>  BY <1>4 DEF PublishSend, tables
  <2>3. Joined' = Joined  BY <2>2 DEF Joined
  <2>4. CASE ~Listening(s)
    <3>1. inbox' = inbox  BY <2>1, <2>4 DEF Sent, Listening
    <3>2. Received' = Received  BY <3>1 DEF Received, Events
    <3> QED BY <2>2, <2>3, <3>2, HiddenSteps
  <2>5. CASE Listening(s)
    <3> DEFINE n == Len(log)
    <3>1. Awaits(s)  BY <2>1 DEF Awaits
    <3>2. n \in Mine(s)
      <4>1. Subscribed(s, log[n]) /\ since[s] < n  BY <1>1, <2>1 DEF MonitorInv
      <4>2. log[n] \in Topics  BY <1>1, <2>1 DEF TypeOK
      <4> QED BY <1>1, <2>1, <4>1, <4>2 DEF TablesInv, Mine
    <3>3. Bus!Owed(s) = {n}  BY <2>5, <3>1, <3>2, OwedFacts
    <3>4. inbox' = [inbox EXCEPT ![s] = Append(inbox[s], n)]
      BY <2>1, <2>5 DEF Sent, Listening
    <3>5. Received' = [Received EXCEPT ![s] = Append(Received[s], n)]
      <4>1. Kept(Append(inbox[s], n), 1 .. MaxEvents) = Append(Events(s), n)
        <5>1. n \in 0 .. MaxEvents /\ n # 0  BY <2>1
        <5> QED BY <1>1, <5>1, EventsAppend
      <4>2. ASSUME NEW r \in Sockets
            PROVE  Events(r)' = IF r = s THEN Append(Events(s), n) ELSE Events(r)
        BY <1>1, <3>4, <4>1 DEF TypeOK, Events
      <4> QED BY <4>2 DEF Received
    <3>6. n \in Nat  BY <2>1
    <3> HIDE DEF n
    <3>7. Bus!Deliver(s)
      <4>1. n \in Bus!Owed(s) /\ \A k \in Bus!Owed(s) : n <= k  BY <3>3, <3>6
      <4> QED BY <2>2, <2>3, <3>5, <4>1 DEF Bus!Deliver, Joined, Received
    <3> QED BY <3>7 DEF Bus!BNext
  <2> QED BY <2>4, <2>5
<1> QED BY <1>2, <1>3, <1>4

\* The monitor, the two tables and the loops of the publishers implement the
\* bus that other components rely on: opening, dropping, publishing and sending
\* are its steps, and everything else is invisible to it.
THEOREM ImplementsTopicBus == Spec => Bus!BSpec
<1>1. Init => Bus!BInit
  <2> SUFFICES ASSUME Init PROVE Bus!BInit  OBVIOUS
  <2>1. Joined = [s \in Sockets |-> {}] /\ Received = [s \in Sockets |-> <<>>]
    BY KeptEmpty DEF Init, Joined, Received, Events
  <2> QED BY <2>1 DEF Init, Bus!BInit, Joined, Received
<1>2. HubInv /\ [Next]_vars => [Bus!BNext]_(Bus!bvars)
  <2> SUFFICES ASSUME HubInv, [Next]_vars PROVE [Bus!BNext]_(Bus!bvars)  OBVIOUS
  <2>1. ASSUME UNCHANGED vars PROVE UNCHANGED Bus!bvars
    <3>1. Joined' = Joined /\ Received' = Received
      BY <2>1 DEF vars, Joined, Received, Events
    <3> QED BY <2>1, <3>1, HiddenSteps DEF vars
  <2> QED BY <2>1, SocketImplements, PublisherImplements DEF Next
<1> QED BY <1>1, <1>2, HubInvariant, PTL DEF Spec, Bus!BSpec
-----------------------------------------------------------------------------
(***************************************************************************)
(* Proofs about Progress, which uses the hub through TopicBus, for any     *)
(* devices, resources, bodies, request threads, viewers and tabs.          *)
(***************************************************************************)

\* A device has one row of a resource.
KeysInv == \A i, j \in DOMAIN rows : rows[i].key = rows[j].key => i = j

\* Whatever is pushed was stored before.
StoredFirst ==
  /\ \A w \in Busy : Has(saving[w].key)
  /\ \A j \in DOMAIN bus : Has(<<bus[j], pushes[j].device>>)

RowTells(k, value) ==
  \E i \in DOMAIN rows : rows[i].key = k /\ Agrees(value, rows[i].row[Pushed])

\* What a save in progress will push is recent.
SavingInv == \A w \in Busy : saving[w].value \in recent[saving[w].key]

\* The table holds what a recent save has written.
RowInv == \A k \in Keys : Has(k) => \E value \in recent[k] : RowTells(k, value)

\* The newest event about a device that is not being saved is recent.
Newest(j, k) == j \in About(k) /\ \A m \in About(k) : m <= j

ToldInv == \A k \in Keys : (Unsaved(k) /\ Has(k)) =>
  \E j \in About(k) : Newest(j, k) /\ pushes[j].value \in recent[k]

RecentInv == SavingInv /\ RowInv /\ ToldInv

TableInv == ProgressTypeOK /\ KeysInv /\ StoredFirst

ProgressInv == TableInv /\ RecentInv

-----------------------------------------------------------------------------
(* Helpers. *)

LEMMA LargestExists ==
  ASSUME NEW n \in Nat, NEW S, S \subseteq 1 .. n, S # {}
  PROVE  \E m \in S : \A i \in S : i <= m
<1> DEFINE Reached == {i \in 0 .. n : \E j \in S : i <= j}
<1> SUFFICES ASSUME \A m \in S : \E i \in S : ~(i <= m) PROVE FALSE  OBVIOUS
<1>1. 0 \in Reached
  <2>1. PICK j \in S : j \in 1 .. n  OBVIOUS
  <2> QED BY <2>1
<1>2. ASSUME NEW i \in 0 .. n - 1, i \in Reached PROVE i + 1 \in Reached
  <2>1. PICK j \in S : i <= j  BY <1>2
  <2>2. PICK m \in S : ~(m <= j)  OBVIOUS
  <2>3. i \in Nat /\ j \in Nat /\ m \in Nat /\ i + 1 <= m /\ i + 1 \in 0 .. n  BY <2>1, <2>2
  <2> QED BY <2>2, <2>3
<1>3. n \in Reached
  <2> HIDE DEF Reached
  <2> QED BY <1>1, <1>2, Induction
<1>4. PICK j \in S : n <= j  BY <1>3
<1>5. PICK m \in S : ~(m <= j)  OBVIOUS
<1> QED BY <1>4, <1>5

LEMMA MaxIsLargest ==
  ASSUME NEW S, S \subseteq Nat, NEW m \in S, \A i \in S : i <= m
  PROVE  Max(S) = m
<1>1. \A x \in S : (\A i \in S : x >= i) => x = m  OBVIOUS
<1>2. \A i \in S : m >= i  OBVIOUS
<1> QED BY <1>1, <1>2, Zenon DEF Max

\* Which row holds what a device has stored is unambiguous.
LEMMA StoredFacts ==
  ASSUME KeysInv, NEW i \in DOMAIN rows
  PROVE  Stored(rows[i].key) = rows[i].row[Pushed]
<1>1. \A j \in DOMAIN rows : rows[j].key = rows[i].key => j = i  BY DEF KeysInv
<1>2. (CHOOSE j \in DOMAIN rows : rows[j].key = rows[i].key) = i  BY <1>1, Zenon
<1> QED BY <1>2 DEF Stored

\* What clients post has a value or NULL in every column.
LEMMA FieldTypes ==
  ASSUME NEW body, \A c \in DOMAIN body : body[c] \in Content
  PROVE  /\ \A c : Field(body, c) \in Content
         /\ \A row \in [Columns -> Content] : Updated(row, body) \in [Columns -> Content]
         /\ Inserted(body) \in [Columns -> Content]
<1>1. \A c : Field(body, c) \in Content  BY DEF Field, Content
<1>2. Zero \in Content  BY DEF Content
<1> QED BY <1>1, <1>2 DEF Updated, Inserted

LEMMA ClickTypes ==
  ASSUME NEW body \in Clicks
  PROVE  \A c \in DOMAIN body : body[c] \in Content
BY DEF Clicks

-----------------------------------------------------------------------------
(* The upsert. *)

\* The row of the device is there afterwards with what the request said, and
\* the other rows are as they were.
LEMMA UpsertFacts ==
  ASSUME ProgressTypeOK, KeysInv, Pushed \in Columns \ InsertOnly, ZeroOnInsert \subseteq Columns,
         NEW k \in Keys, NEW body, \A c \in DOMAIN body : body[c] \in Content,
         Upsert(k, body)
  PROVE  /\ rows' \in Seq([key : Keys, row : [Columns -> Content]])
         /\ KeysInv'
         /\ RowTells(k, Field(body, Pushed))'
         /\ \A i \in DOMAIN rows : i \in DOMAIN rows' /\ rows'[i].key = rows[i].key
                                   /\ (rows[i].key # k => rows'[i] = rows[i])
         /\ \A i \in DOMAIN rows' : rows'[i].key # k => i \in DOMAIN rows /\ rows'[i] = rows[i]
<1> DEFINE Rows == [key : Keys, row : [Columns -> Content]]
           fresh == [key |-> k, row |-> Inserted(body)]
           value == Field(body, Pushed)
<1>1. rows \in Seq(Rows) /\ Len(rows) \in Nat /\ DOMAIN rows = 1 .. Len(rows)
  BY DEF ProgressTypeOK
<1>2. /\ \A row \in [Columns -> Content] : Updated(row, body) \in [Columns -> Content]
      /\ Inserted(body) \in [Columns -> Content]
      /\ \A row : Agrees(value, Updated(row, body)[Pushed])
      /\ Agrees(value, Inserted(body)[Pushed])
  <2>1. \A row : Agrees(value, Updated(row, body)[Pushed])  BY DEF Agrees, Updated
  <2>2. Agrees(value, Inserted(body)[Pushed])  BY DEF Agrees, Inserted, Field
  <2> QED BY <2>1, <2>2, FieldTypes
<1>3. CASE Has(k)
  <2>1. PICK i \in DOMAIN rows : rows[i].key = k  BY <1>3 DEF Has
  <2>2. /\ DOMAIN rows' = 1 .. Len(rows)
        /\ \A j \in DOMAIN rows : rows'[j] = IF rows[j].key = k
             THEN [rows[j] EXCEPT !.row = Updated(rows[j].row, body)] ELSE rows[j]
        /\ rows' = [j \in 1 .. Len(rows) |-> rows'[j]]
    BY <1>1, <1>3 DEF Upsert
  <2>3. ASSUME NEW j \in DOMAIN rows
        PROVE  /\ rows'[j] \in Rows /\ rows'[j].key = rows[j].key
               /\ (rows[j].key # k => rows'[j] = rows[j])
               /\ (rows[j].key = k => rows'[j].row = Updated(rows[j].row, body))
    <3>1. rows[j] \in Rows
      <4> HIDE DEF Rows
      <4> QED BY <1>1
    <3> QED BY <1>2, <2>2, <3>1
  <2>4. rows' \in Seq(Rows)
    <3>1. [j \in 1 .. Len(rows) |-> rows'[j]] \in [1 .. Len(rows) -> Rows]  BY <1>1, <2>3
    <3> HIDE DEF Rows
    <3> QED BY <1>1, <2>2, <3>1
  <2>5. KeysInv'  BY <1>1, <2>2, <2>3 DEF KeysInv
  <2>6. RowTells(k, value)'
    <3>1. i \in DOMAIN rows' /\ rows'[i].key = k /\ rows'[i].row = Updated(rows[i].row, body)
      BY <1>1, <2>1, <2>2, <2>3
    <3> QED BY <1>2, <3>1 DEF RowTells, Agrees
  <2> HIDE DEF Rows, value
  <2> QED BY <1>1, <2>2, <2>3, <2>4, <2>5, <2>6 DEF Rows, value
<1>4. CASE ~Has(k)
  <2>1. rows' = Append(rows, fresh) /\ fresh \in Rows  BY <1>2, <1>4 DEF Upsert
  <2>2. /\ rows' \in Seq(Rows) /\ DOMAIN rows' = 1 .. Len(rows) + 1
        /\ rows'[Len(rows) + 1] = fresh /\ \A i \in DOMAIN rows : rows'[i] = rows[i]
    <3> HIDE DEF Rows, fresh
    <3> QED BY <1>1, <2>1
  <2>3. \A i \in DOMAIN rows : rows[i].key # k  BY <1>4 DEF Has
  <2>4. \A i \in DOMAIN rows' : i \in DOMAIN rows \/ i = Len(rows) + 1  BY <1>1, <2>2
  <2>5. fresh.key = k /\ fresh.row = Inserted(body)  OBVIOUS
  <2>6. KeysInv'
    <3>1. \A i \in DOMAIN rows' : rows'[i].key = k => i = Len(rows) + 1
      BY <2>2, <2>3, <2>4
    <3> QED BY <2>2, <2>4, <2>5, <3>1 DEF KeysInv
  <2>7. RowTells(k, value)'
    <3>1. Len(rows) + 1 \in DOMAIN rows'  BY <1>1, <2>2
    <3> QED BY <1>2, <2>2, <2>5, <3>1 DEF RowTells, Agrees
  <2>8. \A i \in DOMAIN rows : i \in DOMAIN rows'  BY <1>1, <2>2
  <2> HIDE DEF Rows, fresh, value
  <2> QED BY <2>2, <2>3, <2>4, <2>5, <2>6, <2>7, <2>8 DEF Rows, value
<1> QED BY <1>3, <1>4

-----------------------------------------------------------------------------
(* The actions. *)

LEMMA StoreFacts ==
  ASSUME TableInv, NEW w \in Workers, NEW k \in Keys, NEW body,
         \A c \in DOMAIN body : body[c] \in Content, NEW tab \in Tabs \cup {Nobody},
         Store(w, k, body, tab)
  PROVE  /\ rows' \in Seq([key : Keys, row : [Columns -> Content]])
         /\ saving' \in [Workers -> Requests \cup {Idle}] /\ saves' \in 0 .. MaxSaves
         /\ bus' = bus /\ pushes' = pushes
         /\ KeysInv' /\ StoredFirst'
         /\ w \notin Busy /\ Busy' = Busy \cup {w}
         /\ saving'[w].key = k /\ \A v \in Busy : saving'[v] = saving[v]
         /\ RowTells(k, saving[w].value)'
         /\ \A k2 \in Keys : k2 # k => /\ Has(k2)' => Has(k2)
                                       /\ \A v : RowTells(k2, v) => RowTells(k2, v)'
         /\ recent' \in [Keys -> SUBSET Content] /\ saving'[w].value \in recent'[k]
         /\ ~Unsaved(k) => recent[k] \subseteq recent'[k]
         /\ \A k2 \in Keys : k2 # k => recent'[k2] = recent[k2]
<1> DEFINE req == [key |-> k, value |-> Field(body, Pushed), tab |-> tab]
<1>1. /\ saving \in [Workers -> Requests \cup {Idle}] /\ saving[w] = Idle
      /\ saves \in 0 .. MaxSaves /\ saves < MaxSaves /\ saves' = saves + 1 /\ MaxSaves \in Nat
      /\ saving' = [saving EXCEPT ![w] = req] /\ bus' = bus /\ pushes' = pushes
  BY MaxSavesAssumption DEF Store, TableInv, ProgressTypeOK, hub
<1>2. req \in Requests /\ req # Idle
  <2>1. req \in Requests  BY FieldTypes DEF Requests
  <2> QED BY <2>1, IdleAssumption
<1>3. req.key = k /\ req.value = Field(body, Pushed)  OBVIOUS
<1>4. /\ rows' \in Seq([key : Keys, row : [Columns -> Content]]) /\ KeysInv'
      /\ RowTells(k, Field(body, Pushed))'
      /\ \A i \in DOMAIN rows : i \in DOMAIN rows' /\ rows'[i].key = rows[i].key
                                /\ (rows[i].key # k => rows'[i] = rows[i])
      /\ \A i \in DOMAIN rows' : rows'[i].key # k => i \in DOMAIN rows /\ rows'[i] = rows[i]
  BY UpsertFacts, PushedAssumption DEF TableInv, Store
<1> HIDE DEF req
<1>5. /\ saving'[w] = req /\ \A v \in Workers : v # w => saving'[v] = saving[v]
      /\ saving' \in [Workers -> Requests \cup {Idle}]
  BY <1>1, <1>2
<1>6. /\ w \notin Busy /\ Busy' = Busy \cup {w} /\ \A v \in Busy : saving'[v] = saving[v]
  BY <1>1, <1>2, <1>5 DEF Busy
<1>7. \A k2 \in Keys : Has(k2) => Has(k2)'  BY <1>4 DEF Has
<1>8. StoredFirst'
  <2>1. ASSUME NEW v \in Busy' PROVE Has(saving[v].key)'
    <3>1. CASE v = w
      <4>1. Has(k)'  BY <1>4 DEF RowTells, Has
      <4> QED BY <1>3, <1>5, <3>1, <4>1
    <3>2. CASE v # w
      <4>1. v \in Busy /\ saving'[v] = saving[v]  BY <1>6, <3>2
      <4>2. Has(saving[v].key)  BY <4>1 DEF TableInv, StoredFirst
      <4> QED BY <1>4, <4>1, <4>2 DEF Has
    <3> QED BY <3>1, <3>2
  <2>2. ASSUME NEW j \in DOMAIN bus PROVE Has(<<bus[j], pushes[j].device>>)'
    <3>1. Has(<<bus[j], pushes[j].device>>)  BY DEF TableInv, StoredFirst
    <3> QED BY <1>1, <1>4, <3>1 DEF Has
  <2> QED BY <1>1, <2>1, <2>2 DEF StoredFirst
<1>9. ASSUME NEW k2 \in Keys, k2 # k
      PROVE  /\ Has(k2)' => Has(k2)
             /\ \A v : RowTells(k2, v) => RowTells(k2, v)'
  BY <1>4, <1>9 DEF Has, RowTells, Agrees
<1>10. saves' \in 0 .. MaxSaves  BY <1>1
<1>11. RowTells(k, saving[w].value)'  BY <1>3, <1>4, <1>5 DEF RowTells
<1>12. /\ recent' \in [Keys -> SUBSET Content] /\ saving'[w].value \in recent'[k]
       /\ ~Unsaved(k) => recent[k] \subseteq recent'[k]
       /\ \A k2 \in Keys : k2 # k => recent'[k2] = recent[k2]
  <2>1. /\ recent \in [Keys -> SUBSET Content]
        /\ recent' = [recent EXCEPT ![k] =
             (IF Unsaved(k) THEN {} ELSE @) \cup {Field(body, Pushed)}]
    BY DEF Store, TableInv, ProgressTypeOK
  <2>2. Field(body, Pushed) \in Content  BY FieldTypes
  <2>3. saving'[w].value = Field(body, Pushed)  BY <1>3, <1>5
  <2> QED BY <2>1, <2>2, <2>3
<1> QED BY <1>1, <1>3, <1>4, <1>5, <1>6, <1>8, <1>9, <1>10, <1>11, <1>12

\* A save leaves what is told of the other devices as it was.
LEMMA StoreTells ==
  ASSUME ProgressInv, NEW w \in Workers, NEW k \in Keys, NEW body,
         \A c \in DOMAIN body : body[c] \in Content, NEW tab \in Tabs \cup {Nobody},
         Store(w, k, body, tab)
  PROVE  RecentInv'
<1>1. /\ bus' = bus /\ pushes' = pushes
      /\ w \notin Busy /\ Busy' = Busy \cup {w}
      /\ saving'[w].key = k /\ \A v \in Busy : saving'[v] = saving[v]
      /\ RowTells(k, saving[w].value)'
      /\ \A k2 \in Keys : k2 # k => /\ Has(k2)' => Has(k2)
                                    /\ \A v : RowTells(k2, v) => RowTells(k2, v)'
      /\ recent' \in [Keys -> SUBSET Content] /\ saving'[w].value \in recent'[k]
      /\ ~Unsaved(k) => recent[k] \subseteq recent'[k]
      /\ \A k2 \in Keys : k2 # k => recent'[k2] = recent[k2]
  BY StoreFacts DEF ProgressInv
<1>2. \A v \in Busy : saving[v].key \in Keys
  BY DEF ProgressInv, TableInv, ProgressTypeOK, Busy, Requests
<1>3. SavingInv'
  <2>1. ASSUME NEW v \in Busy' PROVE saving'[v].value \in recent'[saving'[v].key]
    <3>1. CASE v = w  BY <1>1, <3>1
    <3>2. CASE v # w
      <4>1. v \in Busy /\ saving'[v] = saving[v]  BY <1>1, <3>2
      <4>2. saving[v].value \in recent[saving[v].key]
        BY <4>1 DEF ProgressInv, RecentInv, SavingInv
      <4>3. CASE saving[v].key = k
        <5>1. ~Unsaved(k)  BY <4>1, <4>3 DEF Unsaved
        <5> QED BY <1>1, <4>1, <4>2, <4>3, <5>1
      <4>4. CASE saving[v].key # k  BY <1>1, <1>2, <4>1, <4>2, <4>4
      <4> QED BY <4>3, <4>4
    <3> QED BY <3>1, <3>2
  <2> QED BY <2>1 DEF SavingInv
<1>4. ASSUME NEW k2 \in Keys, Has(k2)'
      PROVE  \E x \in recent'[k2] : RowTells(k2, x)'
  <2>1. CASE k2 = k
    <3>1. PICK x : x = saving'[w].value  OBVIOUS
    <3>2. RowTells(k, x)'  BY <1>1, <3>1 DEF RowTells
    <3> QED BY <1>1, <2>1, <3>1, <3>2
  <2>2. CASE k2 # k
    <3>1. Has(k2) /\ recent'[k2] = recent[k2]  BY <1>1, <1>4, <2>2
    <3>2. PICK x \in recent[k2] : RowTells(k2, x)
      BY <3>1 DEF ProgressInv, RecentInv, RowInv
    <3>3. \A v : RowTells(k2, v) => RowTells(k2, v)'  BY <1>1, <2>2
    <3> QED BY <3>1, <3>2, <3>3
  <2> QED BY <2>1, <2>2
<1>5. ASSUME NEW k2 \in Keys, Unsaved(k2)', Has(k2)'
      PROVE  \E j \in About(k2)' : Newest(j, k2)' /\ (pushes[j].value \in recent[k2])'
  <2>1. k2 # k  BY <1>1, <1>5 DEF Unsaved
  <2>2. Unsaved(k2) /\ Has(k2)  BY <1>1, <1>5, <2>1 DEF Unsaved
  <2>3. PICK j \in About(k2) : Newest(j, k2) /\ pushes[j].value \in recent[k2]
    BY <2>2 DEF ProgressInv, RecentInv, ToldInv
  <2>4. About(k2)' = About(k2)  BY <1>1 DEF About
  <2>5. pushes'[j].value \in recent'[k2]  BY <1>1, <2>1, <2>3
  <2> QED BY <2>3, <2>4, <2>5 DEF Newest
<1>6. RowInv'  BY <1>4 DEF RowInv
<1>7. ToldInv'  BY <1>5 DEF ToldInv
<1> QED BY <1>3, <1>6, <1>7 DEF RecentInv

LEMMA PublishFacts ==
  ASSUME TableInv, NEW w \in Workers, Publish(w),
         NEW key, key = saving[w].key
  PROVE  /\ TableInv' /\ key \in Keys
         /\ rows' = rows /\ recent' = recent /\ saving[w] \in Requests
         /\ w \in Busy /\ Busy' = Busy \ {w}
         /\ \A v \in Busy : v # w => saving'[v] = saving[v]
         /\ Len(bus) \in Nat /\ About(key) \subseteq 1 .. Len(bus)
         /\ About(key)' = About(key) \cup {Len(bus) + 1}
         /\ pushes'[Len(bus) + 1].value = saving[w].value
         /\ \A k \in Keys : k # key => About(k)' = About(k)
         /\ \A j \in DOMAIN bus : pushes'[j] = pushes[j]
<1> DEFINE Notes == [device : Devices, value : Content]
           note == [device |-> saving[w].key[2], value |-> saving[w].value]
           n == Len(bus)
<1>1. /\ saving \in [Workers -> Requests \cup {Idle}] /\ saving[w] # Idle
      /\ rows' = rows /\ panel' = panel /\ saves' = saves /\ recent' = recent
      /\ saving' = [saving EXCEPT ![w] = Idle]
      /\ bus' = Append(bus, saving[w].key[1]) /\ pushes' = Append(pushes, note)
      /\ bus \in Seq(Resources) /\ pushes \in Seq(Notes) /\ Len(pushes) = n
  BY DEF Publish, Channel!Emit, TableInv, ProgressTypeOK
<1>2. saving[w] \in Requests  BY <1>1
<1>3. /\ saving[w].key \in Keys /\ saving[w].value \in Content  BY <1>2 DEF Requests
<1>4. /\ saving[w].key[1] \in Resources /\ saving[w].key[2] \in Devices
      /\ saving[w].key = <<saving[w].key[1], saving[w].key[2]>>
  BY <1>3 DEF Keys
<1>5. note \in Notes /\ note.device = saving[w].key[2] /\ note.value = saving[w].value
  BY <1>3, <1>4
<1> HIDE DEF note, Notes
<1>6. /\ n \in Nat /\ DOMAIN bus = 1 .. n /\ bus' \in Seq(Resources) /\ Len(bus') = n + 1
      /\ DOMAIN bus' = 1 .. n + 1 /\ bus'[n + 1] = saving[w].key[1]
      /\ \A j \in DOMAIN bus : bus'[j] = bus[j]
  BY <1>1, <1>4
<1>7. /\ pushes' \in Seq(Notes) /\ Len(pushes') = n + 1 /\ pushes'[n + 1] = note
      /\ \A j \in DOMAIN bus : pushes'[j] = pushes[j]
  <2>1. DOMAIN pushes = 1 .. n  BY <1>1, <1>6
  <2> QED BY <1>1, <1>5, <1>6, <2>1
<1>8. \A j \in DOMAIN bus' : j \in DOMAIN bus \/ j = n + 1  BY <1>6
<1>9. /\ w \in Busy /\ Busy' = Busy \ {w}
      /\ \A v \in Busy : v # w => saving'[v] = saving[v]
      /\ saving' \in [Workers -> Requests \cup {Idle}]
  BY <1>1 DEF Busy
<1>10. ProgressTypeOK'
  BY <1>1, <1>6, <1>7, <1>9 DEF TableInv, ProgressTypeOK, Notes
<1>11. KeysInv'  BY <1>1 DEF TableInv, KeysInv
<1>12. StoredFirst'
  <2>1. Has(saving[w].key) /\ \A k : Has(k) => Has(k)'
    BY <1>1, <1>9 DEF TableInv, StoredFirst, Has
  <2>2. ASSUME NEW v \in Busy' PROVE Has(saving[v].key)'
    <3>1. v \in Busy /\ saving'[v] = saving[v]  BY <1>9
    <3>2. Has(saving[v].key)  BY <3>1 DEF TableInv, StoredFirst
    <3> QED BY <1>1, <3>1, <3>2 DEF Has
  <2>3. ASSUME NEW j \in DOMAIN bus' PROVE Has(<<bus[j], pushes[j].device>>)'
    <3>1. CASE j \in DOMAIN bus
      <4>1. Has(<<bus[j], pushes[j].device>>)  BY <3>1 DEF TableInv, StoredFirst
      <4>2. bus'[j] = bus[j] /\ pushes'[j] = pushes[j]  BY <1>6, <1>7, <3>1
      <4> QED BY <1>1, <4>1, <4>2 DEF Has
    <3>2. CASE j = n + 1
      <4>1. <<bus'[j], pushes'[j].device>> = saving[w].key
        BY <1>4, <1>5, <1>6, <1>7, <3>2
      <4> QED BY <1>1, <2>1, <4>1 DEF Has
    <3> QED BY <1>8, <3>1, <3>2
  <2> QED BY <2>2, <2>3 DEF StoredFirst
<1>13. \A k : About(k) \subseteq 1 .. n  BY <1>6 DEF About
<1>14. ASSUME NEW k \in Keys
       PROVE About(k)' = About(k) \cup (IF k = key THEN {n + 1} ELSE {})
  <2>1. /\ \A j \in DOMAIN bus : j \in DOMAIN bus' /\ bus'[j] = bus[j] /\ pushes'[j] = pushes[j]
        /\ n + 1 \in DOMAIN bus'
    BY <1>6, <1>7
  <2>2. bus'[n + 1] = saving[w].key[1] /\ pushes'[n + 1].device = saving[w].key[2]
    BY <1>5, <1>6, <1>7
  <2>3. k = <<k[1], k[2]>>  BY DEF Keys
  <2>4. (k[1] = saving[w].key[1] /\ k[2] = saving[w].key[2]) <=> k = key
    BY <1>4, <2>3
  <2> HIDE DEF n
  <2> QED BY <1>8, <2>1, <2>2, <2>4 DEF About
<1>15. key \in Keys  BY <1>3
<1>16. About(key)' = About(key) \cup {n + 1}  BY <1>14, <1>15
<1>17. \A k \in Keys : k # key => About(k)' = About(k)  BY <1>14
<1>18. TableInv'  BY <1>10, <1>11, <1>12 DEF TableInv
<1>19. n \in Nat /\ pushes'[n + 1].value = saving[w].value  BY <1>5, <1>6, <1>7
<1>20. rows' = rows /\ recent' = recent /\ saving[w] \in Requests  BY <1>1, <1>2
<1> QED BY <1>7, <1>9, <1>13, <1>15, <1>16, <1>17, <1>18, <1>19, <1>20

LEMMA PublishTells ==
  ASSUME ProgressInv, NEW w \in Workers, Publish(w)
  PROVE  RecentInv'
<1> DEFINE n == Len(bus)
<1> PICK key : key = saving[w].key  OBVIOUS
<1>1. /\ rows' = rows /\ recent' = recent /\ w \in Busy /\ Busy' = Busy \ {w}
      /\ \A v \in Busy : v # w => saving'[v] = saving[v]
      /\ n \in Nat /\ About(key) \subseteq 1 .. n
      /\ About(key)' = About(key) \cup {n + 1}
      /\ pushes'[n + 1].value = saving[w].value
      /\ \A k \in Keys : k # key => About(k)' = About(k)
      /\ \A j \in DOMAIN bus : pushes'[j] = pushes[j]
  BY PublishFacts DEF ProgressInv
<1>2. SavingInv'
  <2>1. ASSUME NEW v \in Busy' PROVE saving'[v].value \in recent'[saving'[v].key]
    <3>1. v \in Busy /\ saving'[v] = saving[v]  BY <1>1
    <3>2. saving[v].value \in recent[saving[v].key]
      BY <3>1 DEF ProgressInv, RecentInv, SavingInv
    <3> QED BY <1>1, <3>1, <3>2
  <2> QED BY <2>1 DEF SavingInv
<1>3. RowInv'  BY <1>1 DEF ProgressInv, RecentInv, RowInv, Has, RowTells, Agrees
<1>4. ASSUME NEW k \in Keys, Unsaved(k)', Has(k)'
      PROVE  \E j \in About(k)' : Newest(j, k)' /\ (pushes[j].value \in recent[k])'
  <2>1. CASE k = key
    <3>1. PICK e : e = n + 1  OBVIOUS
    <3>2. pushes'[e].value \in recent'[k]
      BY <1>1, <2>1, <3>1 DEF ProgressInv, RecentInv, SavingInv
    <3>3. e \in About(k)' /\ \A m \in About(k)' : m <= e
      BY <1>1, <2>1, <3>1
    <3>4. Newest(e, k)'  BY <3>3 DEF Newest
    <3> QED BY <3>2, <3>3, <3>4
  <2>2. CASE k # key
    <3>1. Unsaved(k)  BY <1>1, <1>4, <2>2 DEF Unsaved
    <3>2. Has(k)  BY <1>1, <1>4 DEF Has
    <3>3. PICK j \in About(k) : Newest(j, k) /\ pushes[j].value \in recent[k]
      BY <3>1, <3>2 DEF ProgressInv, RecentInv, ToldInv
    <3>4. About(k)' = About(k)  BY <1>1, <2>2
    <3>5. pushes'[j] = pushes[j]  BY <1>1 DEF About
    <3>6. pushes'[j].value \in recent'[k]  BY <1>1, <3>3, <3>5
    <3> QED BY <3>3, <3>4, <3>6 DEF Newest
  <2> QED BY <2>1, <2>2
<1> QED BY <1>2, <1>3, <1>4 DEF RecentInv, ToldInv

\* What the other actions leave alone.
LEMMA TellsSame ==
  ASSUME UNCHANGED <<rows, saving, pushes, recent, bus>>
  PROVE  /\ (KeysInv /\ StoredFirst) => (KeysInv' /\ StoredFirst')
         /\ RecentInv => RecentInv'
<1>1. Busy' = Busy  BY DEF Busy
<1>2. \A k : Has(k)' <=> Has(k)  BY DEF Has
<1>3. \A k : Unsaved(k)' <=> Unsaved(k)  BY <1>1 DEF Unsaved
<1>4. \A k : About(k)' = About(k)  BY DEF About
<1>5. \A k, x : RowTells(k, x)' <=> RowTells(k, x)  BY DEF RowTells, Agrees
<1>6. (KeysInv /\ StoredFirst) => (KeysInv' /\ StoredFirst')
  <2>1. StoredFirst => StoredFirst'  BY <1>1 DEF StoredFirst, Has
  <2> QED BY <2>1 DEF KeysInv
<1>7. SavingInv => SavingInv'  BY <1>1 DEF SavingInv
<1>8. RowInv => RowInv'  BY <1>2, <1>5 DEF RowInv
<1>9. ToldInv => ToldInv'
  <2> SUFFICES ASSUME ToldInv, NEW k \in Keys, Unsaved(k)', Has(k)'
               PROVE  \E j \in About(k)' : Newest(j, k)' /\ (pushes[j].value \in recent[k])'
    BY DEF ToldInv
  <2>1. PICK j \in About(k) : Newest(j, k) /\ pushes[j].value \in recent[k]
    BY <1>2, <1>3 DEF ToldInv
  <2> QED BY <1>4, <2>1 DEF Newest
<1> QED BY <1>6, <1>7, <1>8, <1>9 DEF RecentInv

LEMMA TableInit ==
  ASSUME ProgressInit
  PROVE  ProgressInv
<1>1. /\ rows = <<>> /\ pushes = <<>> /\ bus = <<>> /\ DOMAIN rows = {} /\ DOMAIN bus = {}
      /\ Busy = {} /\ saves = 0
  BY DEF ProgressInit, Channel!BInit, Busy
<1>2. ProgressTypeOK
  <2>1. Null \in Content  BY DEF Content
  <2>2. /\ saving \in [Workers -> Requests \cup {Idle}]
        /\ panel \in [Tabs -> [shown : Content, click : Clicks \cup {Idle}]]
    BY <2>1 DEF ProgressInit
  <2>3. saves \in 0 .. MaxSaves  BY <1>1, MaxSavesAssumption
  <2>4. /\ rows \in Seq([key : Keys, row : [Columns -> Content]])
        /\ pushes \in Seq([device : Devices, value : Content])
        /\ bus \in Seq(Resources) /\ Len(pushes) = Len(bus)
    BY <1>1
  <2>5. recent \in [Keys -> SUBSET Content]  BY DEF ProgressInit
  <2> QED BY <2>2, <2>3, <2>4, <2>5 DEF ProgressTypeOK
<1>3. KeysInv /\ StoredFirst  BY <1>1 DEF KeysInv, StoredFirst
<1>4. RecentInv  BY <1>1 DEF RecentInv, SavingInv, RowInv, ToldInv, Has
<1> QED BY <1>2, <1>3, <1>4 DEF ProgressInv, TableInv

\* The panel shows what some row holds, or nothing.
LEMMA FetchTypes ==
  ASSUME ProgressTypeOK, NEW t \in Tabs, Fetch(t)
  PROVE  panel' \in [Tabs -> [shown : Content, click : Clicks \cup {Idle}]]
<1> DEFINE records == RowsOf(PageOf[t][1])
           latest == IF records = {} THEN <<>> ELSE rows[Max(records)].row
<1>1. \A c \in DOMAIN latest : latest[c] \in Content
  <2>1. CASE records = {}
    <3>1. latest = <<>> /\ DOMAIN <<>> = {}  BY <2>1
    <3> HIDE DEF latest
    <3> QED BY <3>1
  <2>2. CASE records # {}
    <3>1. records \subseteq 1 .. Len(rows) /\ Len(rows) \in Nat /\ DOMAIN rows = 1 .. Len(rows)
      BY DEF RowsOf, ProgressTypeOK
    <3>2. PICK m \in records : \A i \in records : i <= m
      <4> HIDE DEF records
      <4> QED BY <2>2, <3>1, LargestExists
    <3>3. Max(records) = m
      <4> HIDE DEF records
      <4>1. records \subseteq Nat  BY <3>1
      <4> QED BY <3>2, <4>1, MaxIsLargest
    <3>4. rows[m].row \in [Columns -> Content]
      <4>1. m \in 1 .. Len(rows)  BY <3>1
      <4>2. PICK Row : Row = [key : Keys, row : [Columns -> Content]]  OBVIOUS
      <4>3. rows \in Seq(Row)  BY <4>2 DEF ProgressTypeOK
      <4>4. rows[m] \in Row  BY <4>1, <4>3
      <4> HIDE DEF records, latest
      <4> QED BY <4>2, <4>4
    <3>5. latest = rows[m].row  BY <2>2, <3>3
    <3> HIDE DEF latest
    <3> QED BY <3>4, <3>5
  <2> QED BY <2>1, <2>2
<1>2. panel' = [panel EXCEPT ![t].shown = Field(latest, Percent)]  BY DEF Fetch
<1>3. Field(latest, Percent) \in Content
  <2> HIDE DEF latest
  <2> QED BY <1>1, FieldTypes
<1>4. panel[t] \in [shown : Content, click : Clicks \cup {Idle}]  BY DEF ProgressTypeOK
<1> DEFINE Shown == [shown : Content, click : Clicks \cup {Idle}]
           now == [panel[t] EXCEPT !.shown = Field(latest, Percent)]
<1>5. now \in Shown  BY <1>3, <1>4
<1>6. panel' = [panel EXCEPT ![t] = now] /\ panel \in [Tabs -> Shown]
  BY <1>2 DEF ProgressTypeOK
<1> HIDE DEF latest, now, Shown
<1>7. panel' \in [Tabs -> Shown]  BY <1>5, <1>6
<1> QED BY <1>7 DEF Shown

\* Every step keeps the table and what is told about it.
LEMMA ProgressStep ==
  ASSUME ProgressInv, [ProgressNext]_progressVars
  PROVE  ProgressInv'
<1> DEFINE Shown == [Tabs -> [shown : Content, click : Clicks \cup {Idle}]]
<1>1. ASSUME panel' \in Shown, UNCHANGED <<rows, saving, pushes, saves, recent, bus>>
      PROVE ProgressInv'
  <2>1. ProgressTypeOK'  BY <1>1 DEF ProgressInv, TableInv, ProgressTypeOK
  <2> QED BY <1>1, <2>1, TellsSame DEF TableInv, ProgressInv
<1>2. TableInv /\ panel \in Shown  BY DEF ProgressInv, TableInv, ProgressTypeOK
<1>3. ASSUME NEW w \in Workers, NEW k \in Keys, NEW body,
             \A c \in DOMAIN body : body[c] \in Content, NEW tab \in Tabs \cup {Nobody},
             Store(w, k, body, tab), panel' \in Shown
      PROVE  ProgressInv'
  <2>1. TableInv'
    <3>1. /\ rows' \in Seq([key : Keys, row : [Columns -> Content]])
          /\ saving' \in [Workers -> Requests \cup {Idle}] /\ saves' \in 0 .. MaxSaves
          /\ bus' = bus /\ pushes' = pushes /\ KeysInv' /\ StoredFirst'
          /\ recent' \in [Keys -> SUBSET Content]
      BY <1>2, <1>3, StoreFacts
    <3>2. ProgressTypeOK'  BY <1>2, <1>3, <3>1 DEF TableInv, ProgressTypeOK
    <3> QED BY <3>1, <3>2 DEF TableInv
  <2>2. RecentInv'  BY <1>3, StoreTells
  <2> QED BY <2>1, <2>2 DEF ProgressInv
<1>4. ASSUME NEW w \in Workers, NEW k \in Keys, NEW body \in Bodies, Save(w, k, body)
      PROVE  ProgressInv'
  <2>1. Store(w, k, body, Nobody) /\ panel' = panel  BY <1>4 DEF Save
  <2>2. \A c \in DOMAIN body : body[c] \in Content
    BY BodiesAssumption
  <2> HIDE DEF Shown
  <2> QED BY <1>2, <1>3, <2>1, <2>2
<1>5. ASSUME NEW w \in Workers, NEW t \in Tabs, SaveCurrent(t, w)
      PROVE  ProgressInv'
  <2>1. /\ panel[t].click # Idle /\ Store(w, PageOf[t], panel[t].click, t)
        /\ panel' = [panel EXCEPT ![t].click = Idle]
    BY <1>5 DEF SaveCurrent
  <2>2. panel[t].click \in Clicks /\ PageOf[t] \in Keys
    BY <1>2, <2>1, PageOfAssumption
  <2>3. \A c \in DOMAIN panel[t].click : panel[t].click[c] \in Content
    BY <2>2, ClickTypes
  <2>4. panel' \in Shown  BY <1>2, <2>1
  <2> HIDE DEF Shown
  <2> QED BY <1>3, <2>1, <2>2, <2>3, <2>4
<1>6. ASSUME NEW w \in Workers, Publish(w)
      PROVE  ProgressInv'
  <2>1. TableInv'  BY <1>2, <1>6, PublishFacts
  <2>2. RecentInv'  BY <1>6, PublishTells
  <2> QED BY <2>1, <2>2 DEF ProgressInv
<1>7. ASSUME NEW t \in Tabs, Fetch(t)
      PROVE  ProgressInv'
  <2>1. panel' \in Shown  BY <1>2, <1>7, FetchTypes DEF TableInv
  <2>2. UNCHANGED <<rows, saving, pushes, saves, recent, bus>>  BY <1>7 DEF Fetch, hub
  <2> HIDE DEF Shown
  <2> QED BY <1>1, <2>1, <2>2
<1>8. ASSUME NEW t \in Tabs, Click(t)
      PROVE  ProgressInv'
  <2> DEFINE click == IF panel[t].shown = Null THEN <<>>
                      ELSE [c \in {Percent} |-> panel[t].shown]
  <2>1. click \in Clicks
    <3>1. panel[t].shown \in Content  BY <1>2
    <3>2. <<>> \in [{} -> Content]  OBVIOUS
    <3> QED BY <3>1, <3>2 DEF Clicks
  <2>2. panel' = [panel EXCEPT ![t].click = click]
        /\ UNCHANGED <<rows, saving, pushes, saves, recent, bus>>
    BY <1>8 DEF Click, hub
  <2>3. panel' \in Shown
    <3> HIDE DEF click
    <3> QED BY <1>2, <2>1, <2>2
  <2> HIDE DEF Shown
  <2> QED BY <1>1, <2>2, <2>3
<1>9. ASSUME NEW s \in Viewers,
             (\E r \in Resources : Watch(s, r)) \/ Leave(s) \/ Receive(s)
      PROVE  ProgressInv'
  <2>1. UNCHANGED <<rows, saving, panel, pushes, saves, recent, bus>>
    BY <1>9 DEF Watch, Leave, Receive, Channel!Attach, Channel!Detach, Channel!Deliver
  <2> HIDE DEF Shown
  <2> QED BY <1>1, <1>2, <2>1
<1>10. ASSUME UNCHANGED progressVars PROVE ProgressInv'
  <2>1. UNCHANGED <<rows, saving, panel, pushes, saves, recent, bus>>  BY <1>10 DEF progressVars
  <2> HIDE DEF Shown
  <2> QED BY <1>1, <1>2, <2>1
<1> HIDE DEF Shown
<1> QED BY <1>4, <1>5, <1>6, <1>7, <1>8, <1>9, <1>10 DEF ProgressNext

-----------------------------------------------------------------------------
(* Theorems. *)

LEMMA ProgressInvariant == ProgressSpec => []ProgressInv
<1>1. ProgressInit => ProgressInv  BY TableInit
<1>2. ProgressInv /\ [ProgressNext]_progressVars => ProgressInv'  BY ProgressStep
<1> QED BY <1>1, <1>2, PTL DEF ProgressSpec

\* The table of progress, the saves in progress, the panels and the pushes stay
\* what the code expects of them.
THEOREM ProgressTypes == ProgressSpec => []ProgressTypeOK
<1>1. ProgressInv => ProgressTypeOK  BY DEF ProgressInv, TableInv
<1> QED BY <1>1, ProgressInvariant, PTL

\* update_progress writes and then publishes, and nothing orders two saves of a
\* device: the last event about it is of one of the saves that ran together last,
\* and so is the row, whichever columns the requests left out, in whatever order
\* they wrote and published and whatever other devices save meanwhile.  A save
\* that ran alone has pushed what the table holds.
THEOREM PushesTell == ProgressSpec => []LastPushIsRecent
<1>1. ProgressInv => LastPushIsRecent
  <2> SUFFICES ASSUME ProgressInv, NEW k \in Keys, Unsaved(k)
               PROVE  IF About(k) = {} THEN ~Has(k)
                      ELSE /\ Has(k)
                           /\ pushes[Max(About(k))].value \in recent[k]
                           /\ \E value \in recent[k] : Agrees(value, Stored(k))
    BY DEF LastPushIsRecent
  <2>1. Has(k) => About(k) # {}  BY DEF ProgressInv, RecentInv, ToldInv
  <2>2. ASSUME NEW j \in About(k) PROVE Has(k)
    <3>1. k = <<bus[j], pushes[j].device>> /\ j \in DOMAIN bus  BY DEF About, Keys
    <3> QED BY <3>1 DEF ProgressInv, TableInv, StoredFirst
  <2>3. ASSUME Has(k)
        PROVE  /\ pushes[Max(About(k))].value \in recent[k]
               /\ \E value \in recent[k] : Agrees(value, Stored(k))
    <3>1. PICK j \in About(k) : Newest(j, k) /\ pushes[j].value \in recent[k]
      BY <2>3 DEF ProgressInv, RecentInv, ToldInv
    <3>2. About(k) \subseteq Nat  BY DEF About, ProgressInv, TableInv, ProgressTypeOK
    <3>3. Max(About(k)) = j  BY <3>1, <3>2, MaxIsLargest DEF Newest
    <3>4. PICK x \in recent[k] : RowTells(k, x)
      BY <2>3 DEF ProgressInv, RecentInv, RowInv
    <3>5. PICK i \in DOMAIN rows : rows[i].key = k /\ Agrees(x, rows[i].row[Pushed])
      BY <3>4 DEF RowTells
    <3>6. Stored(k) = rows[i].row[Pushed]
      BY <3>5, StoredFacts DEF ProgressInv, TableInv
    <3> QED BY <3>1, <3>3, <3>5, <3>6
  <2> QED BY <2>1, <2>2, <2>3
<1> QED BY <1>1, ProgressInvariant, PTL
=============================================================================
