---------------------------- MODULE RoomPresence ----------------------------
(***************************************************************************)
(* What signaling promises its clients, without tables, handlers or        *)
(* critical sections: a client is in at most one room; entering a room,    *)
(* telling its connected members and learning who they are is one step;    *)
(* and a client forgets a peer only after that peer has left.              *)
(***************************************************************************)
CONSTANTS Clients, Places, Nowhere

VARIABLES
  connected,  \* clients whose connection is up
  where,      \* the room a client is in
  aware       \* the peers a client believes to be with it

pvars == <<connected, where, aware>>

In(r) == {c \in Clients : where[c] = r}

PInit ==
  /\ connected = {}
  /\ where = [c \in Clients |-> Nowhere]
  /\ aware = [c \in Clients |-> {}]

Connect(c) ==
  /\ c \notin connected
  /\ connected' = connected \cup {c}
  /\ UNCHANGED <<where, aware>>

Disconnect(c) ==
  /\ c \in connected
  /\ connected' = connected \ {c}
  /\ UNCHANGED <<where, aware>>

Enter(c, r) ==
  /\ c \in connected
  /\ where[c] = Nowhere
  /\ where' = [where EXCEPT ![c] = r]
  /\ aware' = [d \in Clients |->
                 IF d = c THEN In(r)
                 ELSE IF d \in In(r) \cap connected THEN aware[d] \cup {c}
                 ELSE aware[d]]
  /\ UNCHANGED connected

Exit(c) ==
  /\ where[c] # Nowhere
  /\ where' = [where EXCEPT ![c] = Nowhere]
  /\ UNCHANGED <<connected, aware>>

\* Client d learns that c has gone.
Forget(d, c) ==
  /\ d \in connected
  /\ c \in aware[d]
  /\ where[c] = Nowhere
  /\ aware' = [aware EXCEPT ![d] = @ \ {c}]
  /\ UNCHANGED <<connected, where>>

PNext ==
  \E c \in Clients :
    \/ Connect(c)
    \/ Disconnect(c)
    \/ \E r \in Places : Enter(c, r)
    \/ Exit(c)
    \/ \E d \in Clients : Forget(d, c)

PSpec == PInit /\ [][PNext]_pvars

\* A client that stays in its room is told of every departure, and a client
\* without a connection does not stay.
PFairness ==
  \A c \in Clients :
    /\ WF_pvars(c \notin connected /\ Exit(c))
    /\ \A d \in Clients : WF_pvars(where[d] # Nowhere /\ Forget(d, c))

PFairSpec == PSpec /\ PFairness
=============================================================================
