---------------------------- MODULE P2PSignaling ----------------------------
(***************************************************************************)
(* The WebRTC signaling server, core/websocket/p2p_signaling.rb.           *)
(*                                                                         *)
(* Each WebSocket is one peer: the server draws a fresh peer_id when the   *)
(* socket is accepted and never reuses it, so a member of Peers stands for *)
(* both the socket and its id.  faye-websocket runs the handlers on the    *)
(* thread of its event loop.  The model relies on the monitor only (@rooms *)
(* and @peers are touched inside `synchronize`, most sends happen after    *)
(* it): handlers of different sockets may interleave outside of it.  These *)
(* are more behaviours than one loop has, so what holds of them all holds  *)
(* of the server; connections drop between any two steps in either.        *)
(*                                                                         *)
(* A message that has been sent over an open socket is taken as read: a    *)
(* socket is FIFO, so the membership messages a client has been sent       *)
(* determine the set of peers it believes to be in its room.  That set is  *)
(* `view`.  Messages answered with an error at once (no room, no or an     *)
(* unreachable destination, unknown type, not JSON) change no state and    *)
(* take no step here.                                                      *)
(***************************************************************************)
EXTENDS FiniteSets

CONSTANTS
  Peers,          \* sockets, each with its peer_id
  Rooms,          \* room ids a client may name
  NoRoom,         \* "no entry in @peers"
  RejoinAllowed   \* may a client send "join" while it is still in a room?

ASSUME NoRoomAssumption == NoRoom \notin Rooms
ASSUME RejoinAssumption == RejoinAllowed \in BOOLEAN

VARIABLES
  sock,      \* the socket: "new", "open", "gone" (dropped, the close event is
             \* still to be handled), "closed" (close event handled)
  roomKeys,  \* the keys of @rooms
  rooms,     \* @rooms: the members of a room
  peers,     \* @peers: the room a socket is registered in
  pc,        \* where the running handler of a socket stands
  leaving,   \* leave_room's local room_id
  targets,   \* sockets the running handler has still to send to
  view       \* the peers a client has been told are with it

serverVars  == <<roomKeys, rooms, peers>>
handlerVars == <<pc, leaving, targets>>
vars == <<sock, roomKeys, rooms, peers, pc, leaving, targets, view>>

TypeOK ==
  /\ sock \in [Peers -> {"new", "open", "gone", "closed"}]
  /\ roomKeys \in SUBSET Rooms
  /\ rooms \in [Rooms -> SUBSET Peers]
  /\ peers \in [Peers -> Rooms \cup {NoRoom}]
  /\ pc \in [Peers -> {"idle", "remove", "announce", "notify", "relay"}]
  /\ leaving \in [Peers -> Rooms \cup {NoRoom}]
  /\ targets \in [Peers -> SUBSET Peers]
  /\ view \in [Peers -> SUBSET Peers]

Init ==
  /\ sock = [p \in Peers |-> "new"]
  /\ roomKeys = {}
  /\ rooms = [r \in Rooms |-> {}]
  /\ peers = [p \in Peers |-> NoRoom]
  /\ pc = [p \in Peers |-> "idle"]
  /\ leaving = [p \in Peers |-> NoRoom]
  /\ targets = [p \in Peers |-> {}]
  /\ view = [p \in Peers |-> {}]

-----------------------------------------------------------------------------
(* The socket. *)

\* The upgrade succeeds: the socket gets its peer_id and its three handlers.
Open(p) ==
  /\ sock[p] = "new"
  /\ sock' = [sock EXCEPT ![p] = "open"]
  /\ UNCHANGED <<serverVars, handlerVars, view>>

\* The connection drops, possibly in the middle of a handler of p.  Whatever
\* is sent to p from now on is lost.
Drop(p) ==
  /\ sock[p] = "open"
  /\ sock' = [sock EXCEPT ![p] = "gone"]
  /\ UNCHANGED <<serverVars, handlerVars, view>>

\* The next message of p may be handled: the previous handler has returned.
Ready(p) == sock[p] = "open" /\ pc[p] = "idle"

\* send_to(ws, payload) for a membership message: reaches open sockets only.
Told(q, seen) == IF sock[q] = "open" THEN seen ELSE view[q]

-----------------------------------------------------------------------------
(* join *)

\* Mutant: existing_peers read after the peer has been inserted.
MutJoinListsSelf(p, r) ==
  /\ Ready(p)
  /\ RejoinAllowed \/ peers[p] = NoRoom
  /\ roomKeys' = roomKeys \cup {r}
  /\ rooms' = [rooms EXCEPT ![r] = @ \cup {p}]
  /\ peers' = [peers EXCEPT ![p] = r]
  /\ view' = [q \in Peers |->
                IF q = p THEN rooms[r] \cup {p}
                ELSE IF q \in rooms[r] THEN Told(q, view[q] \cup {p})
                ELSE view[q]]
  /\ UNCHANGED <<sock, handlerVars>>

\* Mutant: no peer_joined to the members already there.
MutJoinSilent(p, r) ==
  /\ Ready(p)
  /\ RejoinAllowed \/ peers[p] = NoRoom
  /\ roomKeys' = roomKeys \cup {r}
  /\ rooms' = [rooms EXCEPT ![r] = @ \cup {p}]
  /\ peers' = [peers EXCEPT ![p] = r]
  /\ view' = [view EXCEPT ![p] = rooms[r]]
  /\ UNCHANGED <<sock, handlerVars>>

\* join_room is one critical section: it registers the peer, tells the members
\* it found there, and answers with their ids.  A registration p already had
\* in another room is overwritten in @peers but its entry in @rooms stays.
Join(p, r) ==
  /\ Ready(p)
  /\ RejoinAllowed \/ peers[p] = NoRoom
  /\ roomKeys' = roomKeys \cup {r}
  /\ rooms' = [rooms EXCEPT ![r] = @ \cup {p}]
  /\ peers' = [peers EXCEPT ![p] = r]
  /\ view' = [q \in Peers |->
                IF q = p THEN rooms[r]
                ELSE IF q \in rooms[r] THEN Told(q, view[q] \cup {p})
                ELSE view[q]]
  /\ UNCHANGED <<sock, handlerVars>>

-----------------------------------------------------------------------------
(* leave_room: deregister, remove from the room, announce.  Three separate  *)
(* critical sections, then the sends outside the monitor.                   *)

\* Mutant: @peers[ws] is read but not deleted.
MutDeregisterKeeps(p) ==
  /\ leaving' = [leaving EXCEPT ![p] = peers[p]]
  /\ pc' = [pc EXCEPT ![p] = IF peers[p] = NoRoom THEN "idle" ELSE "remove"]
  /\ UNCHANGED peers

\* @peers.delete(ws), common to "leave" and to the close event.
Deregister(p) ==
  /\ peers' = [peers EXCEPT ![p] = NoRoom]
  /\ leaving' = [leaving EXCEPT ![p] = peers[p]]
  /\ pc' = [pc EXCEPT ![p] = IF peers[p] = NoRoom THEN "idle" ELSE "remove"]

Leave(p) ==
  /\ Ready(p)
  /\ Deregister(p)
  /\ UNCHANGED <<sock, roomKeys, rooms, targets, view>>

\* Mutant: the close handler forgets the socket but does not leave its room.
MutHandleClose(p) ==
  /\ sock[p] = "gone"
  /\ pc[p] = "idle"
  /\ sock' = [sock EXCEPT ![p] = "closed"]
  /\ peers' = [peers EXCEPT ![p] = NoRoom]
  /\ UNCHANGED <<roomKeys, rooms, handlerVars, view>>

HandleClose(p) ==
  /\ sock[p] = "gone"
  /\ pc[p] = "idle"
  /\ sock' = [sock EXCEPT ![p] = "closed"]
  /\ Deregister(p)
  /\ UNCHANGED <<roomKeys, rooms, targets, view>>

\* Remove the peer from its room and the room from @rooms when it is empty.
LeaveRemove(p) ==
  LET r == leaving[p]
      rest == rooms[r] \ {p}
  IN /\ pc[p] = "remove"
     /\ rooms' = [rooms EXCEPT ![r] = rest]
     /\ roomKeys' = IF rest = {} THEN roomKeys \ {r} ELSE roomKeys
     /\ pc' = [pc EXCEPT ![p] = "announce"]
     /\ UNCHANGED <<sock, peers, leaving, targets, view>>

\* Mutant: the list of a room that has gone holds one nil, as by `[ws&.keys]`.
MutLeaveSnapshotNil(p) ==
  /\ pc[p] = "announce"
  /\ targets' = [targets EXCEPT ![p] =
       IF leaving[p] \in roomKeys THEN rooms[leaving[p]] ELSE {NoRoom}]
  /\ pc' = [pc EXCEPT ![p] = "notify"]
  /\ UNCHANGED <<sock, serverVars, leaving, view>>

\* Mutant: the copy is looked up by the socket's registration, deleted by now.
MutLeaveSnapshotEmpty(p) ==
  /\ pc[p] = "announce"
  /\ targets' = [targets EXCEPT ![p] = IF peers[p] = NoRoom THEN {} ELSE rooms[peers[p]]]
  /\ pc' = [pc EXCEPT ![p] = "notify"]
  /\ UNCHANGED <<sock, serverVars, leaving, view>>

\* broadcast_to_room copies the room under the monitor ...
LeaveSnapshot(p) ==
  /\ pc[p] = "announce"
  /\ targets' = [targets EXCEPT ![p] = rooms[leaving[p]]]
  /\ pc' = [pc EXCEPT ![p] = "notify"]
  /\ UNCHANGED <<sock, serverVars, leaving, view>>

\* ... and sends peer_left to each member of the copy after releasing it.
LeaveSend(p, q) ==
  /\ pc[p] = "notify"
  /\ q \in targets[p]
  /\ targets' = [targets EXCEPT ![p] = @ \ {q}]
  /\ view' = [view EXCEPT ![q] = Told(q, @ \ {p})]
  /\ UNCHANGED <<sock, serverVars, pc, leaving>>

LeaveDone(p) ==
  /\ pc[p] = "notify"
  /\ targets[p] = {}
  /\ pc' = [pc EXCEPT ![p] = "idle"]
  /\ leaving' = [leaving EXCEPT ![p] = NoRoom]
  /\ UNCHANGED <<sock, serverVars, targets, view>>

-----------------------------------------------------------------------------
(* relay: offer, answer and ice differ only in the payload they copy. *)

\* The destination is looked up, under the monitor, in the sender's own room.
Reachable(p, q) == peers[p] # NoRoom /\ q \in rooms[peers[p]]

RelayLookup(p, q) ==
  /\ Ready(p)
  /\ Reachable(p, q)
  /\ targets' = [targets EXCEPT ![p] = {q}]
  /\ pc' = [pc EXCEPT ![p] = "relay"]
  /\ UNCHANGED <<sock, serverVars, leaving, view>>

\* The payload is sent after the monitor is released.
RelaySend(p) ==
  /\ pc[p] = "relay"
  /\ targets' = [targets EXCEPT ![p] = {}]
  /\ pc' = [pc EXCEPT ![p] = "idle"]
  /\ UNCHANGED <<sock, serverVars, leaving, view>>

-----------------------------------------------------------------------------
\* The rest of a handler that has started.
HandlerStep(p) ==
  \/ LeaveRemove(p)
  \/ LeaveSnapshot(p)
  \/ \E q \in Peers : LeaveSend(p, q)
  \/ LeaveDone(p)
  \/ RelaySend(p)

PeerStep(p) ==
  \/ Open(p)
  \/ Drop(p)
  \/ \E r \in Rooms : Join(p, r)
  \/ Leave(p)
  \/ HandleClose(p)
  \/ \E q \in Peers : RelayLookup(p, q)
  \/ HandlerStep(p)

Next == \E p \in Peers : PeerStep(p)

Spec == Init /\ [][Next]_vars

\* A handler that has started runs to its end, and the event loop delivers
\* the close event of a dropped connection.  Clients owe nothing.
Fairness == \A p \in Peers : WF_vars(HandlerStep(p)) /\ WF_vars(HandleClose(p))

FairSpec == Spec /\ Fairness

-----------------------------------------------------------------------------
(* What the REST controller reads (core/p2p_controller.rb). *)

rooms_summary == {[room_id |-> r, peer_count |-> Cardinality(rooms[r])] : r \in roomKeys}
room_exists(r) == r \in roomKeys

\* p is on its way out of room r: deregistered, not yet removed.
Removing(p, r) == pc[p] = "remove" /\ leaving[p] = r

\* A peer_left of p is still owed to q, a member of room r.
PeerLeftDue(p, q, r) ==
  \/ pc[p] = "announce" /\ leaving[p] = r
  \/ pc[p] = "notify" /\ q \in targets[p]

-----------------------------------------------------------------------------
(* Safety, whatever the clients do. *)

\* @rooms and @peers agree in one direction at every step of every handler: a
\* socket registered in a room is a member of it, so relay and broadcast find
\* it (join_room and leave_room keep the two tables in separate sections).
RegisteredIsMember ==
  \A p \in Peers : peers[p] # NoRoom => p \in rooms[peers[p]]

\* The entry of p in room r stands for nobody: p is registered elsewhere or
\* nowhere, and no handler is about to take the entry out.
Ghost(p, r) == p \in rooms[r] /\ peers[p] # r /\ ~Removing(p, r)

\* What becomes of a join by a socket that is in a room already, which
\* overwrites its registration: that join, and no other order of joins,
\* leaves, drops and handlers, leaves an entry that stands for nobody, and
\* nothing but the same socket joining the same room again repairs it.
GhostsAreRejoins ==
  [][\A p \in Peers, r \in Rooms :
       /\ ~Ghost(p, r) /\ Ghost(p, r)' => peers[p] = r /\ peers'[p] \in Rooms \ {r}
       /\ Ghost(p, r) /\ ~Ghost(p, r)' => peers'[p] = r]_vars

(* Safety, when clients leave a room before they join another. *)

\* A peer is a member of no room but the one it is registered in or is just
\* being removed from: no entry of @rooms outlives the socket it stands for.
NoGhost ==
  \A r \in Rooms : \A p \in rooms[r] : peers[p] = r \/ Removing(p, r)

\* A registered client knows every other member of its room, and knows nobody
\* else except peers whose peer_left is on its way to it.  Joins, leaves and
\* lost sends of any number of sockets interleave with its own.
ViewExact ==
  \A q \in Peers : LET r == peers[q] IN
    (r # NoRoom /\ sock[q] = "open") =>
       /\ rooms[r] \ {q} \subseteq view[q]
       /\ \A p \in view[q] : p \in rooms[r] \/ PeerLeftDue(p, q, r)
       /\ q \notin view[q]

\* An offer, answer or candidate in flight comes from a peer that its
\* receiver, if it still is in the sender's room, has been told about.
RelayFromKnownPeer ==
  \A p \in Peers : pc[p] = "relay" =>
    \A q \in targets[p] \ {p} :
       (sock[q] = "open" /\ peers[q] = peers[p]) => p \in view[q]

(* What the documentation says of the room list. *)

\* GET /p2p/rooms lists active rooms: a listed room has a member whose
\* connection is up or whose departure is still being handled.
ListedRoomIsActive ==
  \A r \in roomKeys : \E p \in rooms[r] : sock[p] \in {"open", "gone"} \/ pc[p] # "idle"

-----------------------------------------------------------------------------
(* With clients that leave before they join, the server implements           *)
(* RoomPresence: a peer is where @rooms has it.                              *)

roomOf == [p \in Peers |->
             IF \E r \in Rooms : p \in rooms[r]
             THEN CHOOSE r \in Rooms : p \in rooms[r] ELSE NoRoom]

Presence == INSTANCE RoomPresence WITH
  Clients <- Peers, Places <- Rooms, Nowhere <- NoRoom,
  connected <- {p \in Peers : sock[p] = "open"}, where <- roomOf, aware <- view

\* Every step of every handler is one step of RoomPresence or none of them.
ImplementsPresence == Presence!PSpec

\* And the departures RoomPresence owes its clients do get announced.
ImplementsFairPresence == Presence!PFairSpec
=============================================================================
