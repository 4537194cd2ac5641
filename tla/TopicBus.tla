------------------------------ MODULE TopicBus ------------------------------
(***************************************************************************)
(* What a topic-based event bus promises its subscribers, without a        *)
(* monitor or subscriber lists: events form one sequence, and a subscriber *)
(* receives, in that order and without gaps or repetitions, the events of  *)
(* its topics that were emitted after it joined.                           *)
(***************************************************************************)
EXTENDS Naturals, Sequences

CONSTANTS Subscribers, Subjects

VARIABLES
  bus,     \* the subjects of the events emitted so far
  member,  \* the subjects a subscriber is joined to
  start,   \* Len(bus) when it joined
  got      \* the positions in bus it has received

bvars == <<bus, member, start, got>>

BInit ==
  /\ bus = <<>>
  /\ member = [s \in Subscribers |-> {}]
  /\ start = [s \in Subscribers |-> 0]
  /\ got = [s \in Subscribers |-> <<>>]

Emit(t) ==
  /\ bus' = Append(bus, t)
  /\ UNCHANGED <<member, start, got>>

Attach(s, ts) ==
  /\ member[s] = {}
  /\ member' = [member EXCEPT ![s] = ts]
  /\ start' = [start EXCEPT ![s] = Len(bus)]
  /\ UNCHANGED <<bus, got>>

Detach(s) ==
  /\ member[s] # {}
  /\ member' = [member EXCEPT ![s] = {}]
  /\ UNCHANGED <<bus, start, got>>

LastGot(s) == IF got[s] = <<>> THEN start[s] ELSE got[s][Len(got[s])]

\* The events s is still to receive.
Owed(s) == {i \in LastGot(s) + 1 .. Len(bus) : bus[i] \in member[s]}

Deliver(s) ==
  \E i \in Owed(s) :
    /\ \A j \in Owed(s) : i <= j
    /\ got' = [got EXCEPT ![s] = Append(@, i)]
    /\ UNCHANGED <<bus, member, start>>

BNext ==
  \/ \E t \in Subjects : Emit(t)
  \/ \E s \in Subscribers :
       \/ \E ts \in SUBSET Subjects : Attach(s, ts)
       \/ Detach(s)
       \/ Deliver(s)

BSpec == BInit /\ [][BNext]_bvars

\* Everything owed to a subscriber that stays is delivered.
BFairSpec == BSpec /\ \A s \in Subscribers : WF_bvars(Deliver(s))
=============================================================================
