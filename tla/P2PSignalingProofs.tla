------------------------- MODULE P2PSignalingProofs -------------------------
(***************************************************************************)
(* Proofs about P2PSignaling, for any sets of peers and rooms.             *)
(*                                                                         *)
(* HandlerInv ties the position of a handler to its socket's registration  *)
(* and is what makes the table invariants inductive: while leave_room      *)
(* works on a room the socket has no registration, so removing the socket  *)
(* from the room cannot break RegisteredIsMember.                          *)
(***************************************************************************)
EXTENDS P2PSignaling, TLAPS

\* The registration of a socket while its handler is at a given point.
HandlerInv ==
  \A p \in Peers :
    /\ sock[p] = "new" => peers[p] = NoRoom
    /\ pc[p] \in {"remove", "announce", "notify"} => peers[p] = NoRoom
    /\ pc[p] \in {"remove", "announce"} => leaving[p] \in Rooms
    /\ pc[p] = "relay" => peers[p] # NoRoom

-----------------------------------------------------------------------------
\* A step keeps the types; LeaveSnapshot needs leaving[p] to be a room.
LEMMA TypeStep == TypeOK /\ HandlerInv /\ [Next]_vars => TypeOK'
<1> SUFFICES ASSUME TypeOK, HandlerInv, [Next]_vars PROVE TypeOK'
  OBVIOUS
<1> USE DEF TypeOK, serverVars, handlerVars
<1>1. CASE UNCHANGED vars
  BY <1>1 DEF vars
<1>2. ASSUME NEW p \in Peers, PeerStep(p) PROVE TypeOK'
  <2>1. CASE Open(p)
    BY <2>1 DEF Open
  <2>2. CASE Drop(p)
    BY <2>2 DEF Drop
  <2>3. ASSUME NEW r \in Rooms, Join(p, r) PROVE TypeOK'
    <3>1. view' \in [Peers -> SUBSET Peers]
      BY <2>3 DEF Join, Told
    <3>2. roomKeys' \in SUBSET Rooms /\ rooms' \in [Rooms -> SUBSET Peers]
      BY <2>3 DEF Join
    <3>3. peers' \in [Peers -> Rooms \cup {NoRoom}]
      BY <2>3 DEF Join
    <3> QED
      BY <2>3, <3>1, <3>2, <3>3 DEF Join
  <2>4. CASE Leave(p)
    BY <2>4 DEF Leave, Deregister
  <2>5. CASE HandleClose(p)
    BY <2>5 DEF HandleClose, Deregister
  <2>6. ASSUME NEW q \in Peers, RelayLookup(p, q) PROVE TypeOK'
    BY <2>6 DEF RelayLookup
  <2>7. CASE LeaveRemove(p)
    BY <2>7 DEF LeaveRemove
  <2>8. CASE LeaveSnapshot(p)
    <3>1. rooms[leaving[p]] \in SUBSET Peers
      BY <2>8 DEF LeaveSnapshot, HandlerInv
    <3> QED
      BY <2>8, <3>1 DEF LeaveSnapshot
  <2>9. ASSUME NEW q \in Peers, LeaveSend(p, q) PROVE TypeOK'
    BY <2>9 DEF LeaveSend, Told
  <2>10. CASE LeaveDone(p)
    BY <2>10 DEF LeaveDone
  <2>11. CASE RelaySend(p)
    BY <2>11 DEF RelaySend
  <2> QED
    BY <1>2, <2>1, <2>2, <2>3, <2>4, <2>5, <2>6, <2>7, <2>8, <2>9, <2>10,
       <2>11 DEF PeerStep, HandlerStep
<1> QED
  BY <1>1, <1>2 DEF Next

\* A step keeps handlers and registrations in step.
LEMMA HandlerInvStep == TypeOK /\ HandlerInv /\ [Next]_vars => HandlerInv'
<1> SUFFICES ASSUME TypeOK, HandlerInv, [Next]_vars PROVE HandlerInv'
  OBVIOUS
<1> USE DEF TypeOK, serverVars, handlerVars, HandlerInv
<1>1. CASE UNCHANGED vars
  BY <1>1 DEF vars
<1>2. ASSUME NEW p \in Peers, PeerStep(p) PROVE HandlerInv'
  <2>1. CASE Open(p)
    BY <2>1 DEF Open
  <2>2. CASE Drop(p)
    BY <2>2 DEF Drop
  <2>3. ASSUME NEW r \in Rooms, Join(p, r) PROVE HandlerInv'
    BY <2>3, NoRoomAssumption DEF Join, Ready
  <2>4. CASE Leave(p)
    BY <2>4 DEF Leave, Deregister, Ready
  <2>5. CASE HandleClose(p)
    BY <2>5 DEF HandleClose, Deregister
  <2>6. ASSUME NEW q \in Peers, RelayLookup(p, q) PROVE HandlerInv'
    BY <2>6 DEF RelayLookup, Ready, Reachable
  <2>7. CASE LeaveRemove(p)
    BY <2>7 DEF LeaveRemove
  <2>8. CASE LeaveSnapshot(p)
    BY <2>8 DEF LeaveSnapshot
  <2>9. ASSUME NEW q \in Peers, LeaveSend(p, q) PROVE HandlerInv'
    BY <2>9 DEF LeaveSend
  <2>10. CASE LeaveDone(p)
    BY <2>10 DEF LeaveDone
  <2>11. CASE RelaySend(p)
    BY <2>11 DEF RelaySend
  <2> QED
    BY <1>2, <2>1, <2>2, <2>3, <2>4, <2>5, <2>6, <2>7, <2>8, <2>9, <2>10,
       <2>11 DEF PeerStep, HandlerStep
<1> QED
  BY <1>1, <1>2 DEF Next

\* A step keeps registered sockets in their rooms.
LEMMA RegisteredStep == TypeOK /\ HandlerInv /\ RegisteredIsMember /\ [Next]_vars => RegisteredIsMember'
<1> SUFFICES ASSUME TypeOK, HandlerInv, RegisteredIsMember, [Next]_vars PROVE RegisteredIsMember'
  OBVIOUS
<1> USE DEF TypeOK, serverVars, handlerVars, RegisteredIsMember
<1>1. CASE UNCHANGED vars
  BY <1>1 DEF vars
<1>2. ASSUME NEW p \in Peers, PeerStep(p) PROVE RegisteredIsMember'
  <2>1. CASE Open(p)
    BY <2>1 DEF Open
  <2>2. CASE Drop(p)
    BY <2>2 DEF Drop
  <2>3. ASSUME NEW r \in Rooms, Join(p, r) PROVE RegisteredIsMember'
    BY <2>3, NoRoomAssumption DEF Join
  <2>4. CASE Leave(p)
    BY <2>4 DEF Leave, Deregister
  <2>5. CASE HandleClose(p)
    BY <2>5 DEF HandleClose, Deregister
  <2>6. ASSUME NEW q \in Peers, RelayLookup(p, q) PROVE RegisteredIsMember'
    BY <2>6 DEF RelayLookup
  <2>7. CASE LeaveRemove(p)
    BY <2>7 DEF LeaveRemove, HandlerInv
  <2>8. CASE LeaveSnapshot(p)
    BY <2>8 DEF LeaveSnapshot
  <2>9. ASSUME NEW q \in Peers, LeaveSend(p, q) PROVE RegisteredIsMember'
    BY <2>9 DEF LeaveSend
  <2>10. CASE LeaveDone(p)
    BY <2>10 DEF LeaveDone
  <2>11. CASE RelaySend(p)
    BY <2>11 DEF RelaySend
  <2> QED
    BY <1>2, <2>1, <2>2, <2>3, <2>4, <2>5, <2>6, <2>7, <2>8, <2>9, <2>10,
       <2>11 DEF PeerStep, HandlerStep
<1> QED
  BY <1>1, <1>2 DEF Next

-----------------------------------------------------------------------------
\* What every other proof rests on.
LEMMA Base == Spec => [](TypeOK /\ HandlerInv)
<1>1. Init => TypeOK /\ HandlerInv
  BY DEF Init, TypeOK, HandlerInv
<1> QED
  BY <1>1, TypeStep, HandlerInvStep, PTL DEF Spec

\* Every variable keeps its type whatever the handlers of the sockets do.
THEOREM TypeCorrect == Spec => []TypeOK
  BY Base, PTL

\* A registered socket is a member of its room, whatever the clients do: the
\* property of @rooms and @peers that relay relies on.
THEOREM Registered == Spec => []RegisteredIsMember
<1>1. Init => RegisteredIsMember
  BY DEF Init, RegisteredIsMember
<1> QED
  BY <1>1, Base, RegisteredStep, PTL DEF Spec

\* A step that leaves or repairs an entry of @rooms that stands for nobody is a
\* join by the socket of that entry.
LEMMA GhostStep ==
  ASSUME TypeOK, HandlerInv, [Next]_vars, NEW o \in Peers, NEW s \in Rooms
  PROVE  /\ ~Ghost(o, s) /\ Ghost(o, s)' => peers[o] = s /\ peers'[o] \in Rooms \ {s}
         /\ Ghost(o, s) /\ ~Ghost(o, s)' => peers'[o] = s
<1> DEFINE Goal == /\ ~Ghost(o, s) /\ Ghost(o, s)' => peers[o] = s /\ peers'[o] \in Rooms \ {s}
                   /\ Ghost(o, s) /\ ~Ghost(o, s)' => peers'[o] = s
<1> USE DEF TypeOK, serverVars, handlerVars, Ghost, Removing
<1>1. CASE UNCHANGED vars
  BY <1>1 DEF vars
<1>2. ASSUME NEW p \in Peers, PeerStep(p) PROVE Goal
  <2>1. CASE Open(p)
    BY <2>1 DEF Open
  <2>2. CASE Drop(p)
    BY <2>2 DEF Drop
  <2>3. ASSUME NEW r \in Rooms, Join(p, r) PROVE Goal
    BY <2>3 DEF Join, Ready
  <2>4. CASE Leave(p)
    BY <2>4 DEF Leave, Deregister, Ready
  <2>5. CASE HandleClose(p)
    BY <2>5 DEF HandleClose, Deregister
  <2>6. ASSUME NEW q \in Peers, RelayLookup(p, q) PROVE Goal
    BY <2>6 DEF RelayLookup, Ready
  <2>7. CASE LeaveRemove(p)
    BY <2>7 DEF LeaveRemove, HandlerInv
  <2>8. CASE LeaveSnapshot(p)
    BY <2>8 DEF LeaveSnapshot
  <2>9. ASSUME NEW q \in Peers, LeaveSend(p, q) PROVE Goal
    BY <2>9 DEF LeaveSend
  <2>10. CASE LeaveDone(p)
    BY <2>10 DEF LeaveDone
  <2>11. CASE RelaySend(p)
    BY <2>11 DEF RelaySend
  <2> QED
    BY <1>2, <2>1, <2>2, <2>3, <2>4, <2>5, <2>6, <2>7, <2>8, <2>9, <2>10,
       <2>11 DEF PeerStep, HandlerStep
<1> QED
  BY <1>1, <1>2 DEF Next

\* Whatever the clients do, an entry of @rooms outlives its registration by a
\* join of another room only, and goes by a join of its own room only.
THEOREM GhostsByJoinOnly == Spec => GhostsAreRejoins
<1>1. TypeOK /\ HandlerInv /\ [Next]_vars =>
        [\A p \in Peers, r \in Rooms :
           /\ ~Ghost(p, r) /\ Ghost(p, r)' => peers[p] = r /\ peers'[p] \in Rooms \ {r}
           /\ Ghost(p, r) /\ ~Ghost(p, r)' => peers'[p] = r]_vars
  BY GhostStep
<1> QED
  BY <1>1, Base, PTL DEF Spec, GhostsAreRejoins

-----------------------------------------------------------------------------
(* Clients that leave before they join.  NoGhost is inductive on top of      *)
(* HandlerInv: a member is registered or about to be removed, so a client    *)
(* that may join is a member of no room.  ViewExact then follows the         *)
(* membership messages: the one window in which a view is stale begins with  *)
(* LeaveRemove, which puts the leaver's handler at "announce", and ends with *)
(* its LeaveSend.                                                            *)

\* A step that is not a second join leaves no ghost.
LEMMA NoGhostStep ==
  ASSUME ~RejoinAllowed, TypeOK, HandlerInv, NoGhost, [Next]_vars
  PROVE  NoGhost'
<1> USE DEF TypeOK, serverVars, handlerVars, NoGhost, Removing
<1>1. CASE UNCHANGED vars
  BY <1>1 DEF vars
<1>2. ASSUME NEW p \in Peers, PeerStep(p) PROVE NoGhost'
  <2>1. CASE Open(p)
    BY <2>1 DEF Open
  <2>2. CASE Drop(p)
    BY <2>2 DEF Drop
  <2>3. ASSUME NEW r \in Rooms, Join(p, r) PROVE NoGhost'
    BY <2>3, NoRoomAssumption DEF Join, Ready
  <2>4. CASE Leave(p)
    BY <2>4 DEF Leave, Deregister, Ready
  <2>5. CASE HandleClose(p)
    BY <2>5 DEF HandleClose, Deregister
  <2>6. ASSUME NEW q \in Peers, RelayLookup(p, q) PROVE NoGhost'
    BY <2>6 DEF RelayLookup, Ready
  <2>7. CASE LeaveRemove(p)
    BY <2>7 DEF LeaveRemove, HandlerInv
  <2>8. CASE LeaveSnapshot(p)
    BY <2>8 DEF LeaveSnapshot
  <2>9. ASSUME NEW q \in Peers, LeaveSend(p, q) PROVE NoGhost'
    BY <2>9 DEF LeaveSend
  <2>10. CASE LeaveDone(p)
    BY <2>10 DEF LeaveDone
  <2>11. CASE RelaySend(p)
    BY <2>11 DEF RelaySend
  <2> QED
    BY <1>2, <2>1, <2>2, <2>3, <2>4, <2>5, <2>6, <2>7, <2>8, <2>9, <2>10,
       <2>11 DEF PeerStep, HandlerStep
<1> QED
  BY <1>1, <1>2 DEF Next

\* A step that is not a second join keeps every registered client's view exact.
LEMMA ViewStep ==
  ASSUME ~RejoinAllowed, TypeOK, HandlerInv, RegisteredIsMember, NoGhost, ViewExact, [Next]_vars
  PROVE  ViewExact'
<1> USE DEF TypeOK, serverVars, handlerVars, ViewExact, PeerLeftDue
<1>1. CASE UNCHANGED vars
  BY <1>1 DEF vars
<1>2. ASSUME NEW p \in Peers, PeerStep(p) PROVE ViewExact'
  <2>1. CASE Open(p)
    BY <2>1 DEF Open, HandlerInv
  <2>2. CASE Drop(p)
    BY <2>2 DEF Drop
  <2>3. ASSUME NEW r \in Rooms, Join(p, r) PROVE ViewExact'
    <3>1. peers[p] = NoRoom /\ pc[p] = "idle" /\ \A s \in Rooms : p \notin rooms[s]
      BY <2>3, NoRoomAssumption DEF Join, Ready, NoGhost, Removing
    <3>2. rooms' = [rooms EXCEPT ![r] = @ \cup {p}] /\ peers' = [peers EXCEPT ![p] = r]
          /\ UNCHANGED <<sock, pc, leaving, targets>>
      BY <2>3 DEF Join
    <3>3. view'[p] = rooms[r]
      BY <2>3 DEF Join
    <3>4. \A q \in Peers \ {p} :
             view'[q] = IF q \in rooms[r] /\ sock[q] = "open"
                        THEN view[q] \cup {p} ELSE view[q]
      BY <2>3 DEF Join, Told
    <3>5. ASSUME NEW q \in Peers, q # p, peers[q] # NoRoom, sock[q] = "open"
          PROVE  /\ rooms'[peers[q]] \ {q} \subseteq view'[q]
                 /\ \A o \in view'[q] :
                      o \in rooms'[peers[q]] \/ PeerLeftDue(o, q, peers[q])
                 /\ q \notin view'[q]
      <4>1. peers[q] \in Rooms /\ q \in rooms[peers[q]]
        BY <3>5 DEF RegisteredIsMember
      <4>2. CASE peers[q] = r
        <5>1. view'[q] = view[q] \cup {p} /\ rooms'[r] = rooms[r] \cup {p}
          BY <3>2, <3>4, <3>5, <4>1, <4>2
        <5>2. /\ rooms[r] \ {q} \subseteq view[q] /\ q \notin view[q]
              /\ \A o \in view[q] : o \in rooms[r] \/ PeerLeftDue(o, q, r)
          BY <3>5, <4>1, <4>2, NoRoomAssumption
        <5> QED
          BY <3>5, <4>2, <5>1, <5>2
      <4>3. CASE peers[q] # r
        <5>1. q \notin rooms[r]
          BY <3>5, <4>3 DEF NoGhost, Removing, HandlerInv
        <5> QED
          BY <3>2, <3>4, <3>5, <4>1, <4>3, <5>1
      <4> QED
        BY <4>2, <4>3
    <3>6. \A q, o, s : PeerLeftDue(o, q, s)' <=> PeerLeftDue(o, q, s)
      BY <3>2
    <3>7. rooms'[r] \ {p} = view'[p] /\ p \notin view'[p] /\ peers'[p] = r
      BY <3>1, <3>2, <3>3
    <3> QED
      BY <3>2, <3>5, <3>6, <3>7, <3>1
  <2>4. CASE Leave(p)
    BY <2>4 DEF Leave, Deregister, Ready
  <2>5. CASE HandleClose(p)
    BY <2>5 DEF HandleClose, Deregister
  <2>6. ASSUME NEW q \in Peers, RelayLookup(p, q) PROVE ViewExact'
    BY <2>6 DEF RelayLookup, Ready
  <2>7. CASE LeaveRemove(p)
    BY <2>7 DEF LeaveRemove, HandlerInv, NoGhost, Removing
  <2>8. CASE LeaveSnapshot(p)
    BY <2>8 DEF LeaveSnapshot, RegisteredIsMember
  <2>9. ASSUME NEW q \in Peers, LeaveSend(p, q) PROVE ViewExact'
    BY <2>9 DEF LeaveSend, Told, HandlerInv, NoGhost, Removing
  <2>10. CASE LeaveDone(p)
    BY <2>10 DEF LeaveDone
  <2>11. CASE RelaySend(p)
    BY <2>11 DEF RelaySend
  <2> QED
    BY <1>2, <2>1, <2>2, <2>3, <2>4, <2>5, <2>6, <2>7, <2>8, <2>9, <2>10,
       <2>11 DEF PeerStep, HandlerStep
<1> QED
  BY <1>1, <1>2 DEF Next

\* No entry of @rooms outlives its socket when clients leave before they join:
\* what the theorems about such clients rest on.
LEMMA GhostFree == ~RejoinAllowed => (Spec => []NoGhost)
<1> SUFFICES ASSUME ~RejoinAllowed PROVE Spec => []NoGhost
  OBVIOUS
<1>1. Init => NoGhost
  BY DEF Init, NoGhost
<1>2. TypeOK /\ HandlerInv /\ NoGhost /\ [Next]_vars => NoGhost'
  BY NoGhostStep
<1> QED
  BY <1>1, <1>2, Base, PTL DEF Spec

\* A registered client knows exactly the members of its room, up to departures
\* whose announcement is on its way.
THEOREM ViewCorrect == ~RejoinAllowed => (Spec => []ViewExact)
<1> SUFFICES ASSUME ~RejoinAllowed PROVE Spec => []ViewExact
  OBVIOUS
<1>1. Init => ViewExact
  BY DEF Init, ViewExact
<1>2. TypeOK /\ HandlerInv /\ RegisteredIsMember /\ NoGhost /\ ViewExact
         /\ [Next]_vars => ViewExact'
  BY ViewStep
<1>3. Spec => []NoGhost
  BY GhostFree
<1> QED
  BY <1>1, <1>2, <1>3, Base, Registered, PTL DEF Spec

\* Signaling payloads come from peers their receivers have been told about.
THEOREM RelayCorrect == ~RejoinAllowed => (Spec => []RelayFromKnownPeer)
<1> SUFFICES ASSUME ~RejoinAllowed PROVE Spec => []RelayFromKnownPeer
  OBVIOUS
<1>1. TypeOK /\ HandlerInv /\ RegisteredIsMember /\ ViewExact => RelayFromKnownPeer
  BY DEF TypeOK, HandlerInv, RegisteredIsMember, ViewExact, RelayFromKnownPeer
<1>2. Spec => []ViewExact
  BY ViewCorrect
<1> QED
  BY <1>1, <1>2, Base, Registered, PTL

-----------------------------------------------------------------------------
(* The refinement of RoomPresence.  A peer is where @rooms has it, so Join   *)
(* is Enter, LeaveRemove is Exit, a LeaveSend that arrives is Forget, and    *)
(* the other steps of the handlers change nothing a client can see.          *)

\* When every member of a room is in that room only, roomOf reads @rooms.
LEMMA RoomOfReadsRooms ==
  ASSUME NEW R, NEW p \in Peers, NEW w,
         \A r, s \in Rooms : p \in R[r] /\ p \in R[s] => r = s,
         w = IF \E r \in Rooms : p \in R[r] THEN CHOOSE r \in Rooms : p \in R[r] ELSE NoRoom
  PROVE  /\ \A r \in Rooms : w = r <=> p \in R[r]
         /\ w = NoRoom <=> \A r \in Rooms : p \notin R[r]
<1>1. CASE \E r \in Rooms : p \in R[r]
  <2>1. w \in Rooms /\ p \in R[w]
    BY <1>1
  <2> QED
    BY <2>1, NoRoomAssumption
<1>2. CASE ~ \E r \in Rooms : p \in R[r]
  BY <1>2, NoRoomAssumption
<1> QED
  BY <1>1, <1>2

\* No socket is a member of two rooms.
LEMMA OneRoom ==
  ASSUME HandlerInv, NoGhost, NEW p \in Peers, NEW r \in Rooms, NEW s \in Rooms,
         p \in rooms[r], p \in rooms[s]
  PROVE  r = s
BY NoRoomAssumption DEF HandlerInv, NoGhost, Removing

\* Every step of a handler is a step of RoomPresence or changes none of it.
LEMMA PresenceStep ==
  ASSUME ~RejoinAllowed, TypeOK, HandlerInv, NoGhost, HandlerInv', NoGhost', [Next]_vars
  PROVE  [Presence!PNext]_(Presence!pvars)
<1> DEFINE connected == {p \in Peers : sock[p] = "open"}
<1>1. /\ \A p \in Peers, r \in Rooms : roomOf[p] = r <=> p \in rooms[r]
      /\ \A p \in Peers : roomOf[p] = NoRoom <=> \A r \in Rooms : p \notin rooms[r]
  BY RoomOfReadsRooms, OneRoom DEF roomOf
<1>2. /\ \A p \in Peers, r \in Rooms : roomOf'[p] = r <=> p \in rooms'[r]
      /\ \A p \in Peers : roomOf'[p] = NoRoom <=> \A r \in Rooms : p \notin rooms'[r]
  <2>1. \A p \in Peers : \A r, s \in Rooms : p \in rooms'[r] /\ p \in rooms'[s] => r = s
    BY NoRoomAssumption DEF HandlerInv, NoGhost, Removing
  <2> QED
    BY <2>1, RoomOfReadsRooms DEF roomOf
<1>3. roomOf' = [p \in Peers |-> roomOf'[p]] /\ roomOf = [p \in Peers |-> roomOf[p]]
  BY DEF roomOf
<1>4. ASSUME UNCHANGED <<rooms, view>>, connected' = connected
      PROVE  UNCHANGED Presence!pvars
  BY <1>4 DEF Presence!pvars, roomOf
<1>5. CASE UNCHANGED vars
  BY <1>4, <1>5 DEF vars
<1>6. ASSUME NEW p \in Peers, PeerStep(p) PROVE [Presence!PNext]_(Presence!pvars)
  <2> USE DEF serverVars, handlerVars
  <2>1. CASE Open(p)
    <3>1. Presence!Connect(p)
      BY <2>1 DEF Open, Presence!Connect, roomOf, TypeOK
    <3> QED
      BY <3>1 DEF Presence!PNext
  <2>2. CASE Drop(p)
    <3>1. Presence!Disconnect(p)
      BY <2>2 DEF Drop, Presence!Disconnect, roomOf, TypeOK
    <3> QED
      BY <3>1 DEF Presence!PNext
  <2>3. ASSUME NEW r \in Rooms, Join(p, r) PROVE [Presence!PNext]_(Presence!pvars)
    <3>1. peers[p] = NoRoom /\ pc[p] = "idle" /\ sock[p] = "open"
          /\ rooms' = [rooms EXCEPT ![r] = @ \cup {p}] /\ UNCHANGED sock
      BY <2>3 DEF Join, Ready
    <3>2. roomOf[p] = NoRoom
      BY <1>1, <3>1, NoRoomAssumption DEF NoGhost, Removing
    <3>3. roomOf' = [roomOf EXCEPT ![p] = r]
      <4>1. \A q \in Peers : roomOf'[q] = IF q = p THEN r ELSE roomOf[q]
        <5>1. p \in rooms'[r]
          BY <3>1 DEF TypeOK
        <5>2. \A q \in Peers \ {p}, s \in Rooms : q \in rooms'[s] <=> q \in rooms[s]
          BY <3>1 DEF TypeOK
        <5>3. roomOf'[p] = r
          BY <1>2, <5>1
        <5>4. ASSUME NEW q \in Peers, q # p PROVE roomOf'[q] = roomOf[q]
          <6>1. CASE \E s \in Rooms : q \in rooms[s]
            BY <1>1, <1>2, <5>2, <5>4, <6>1
          <6>2. CASE \A s \in Rooms : q \notin rooms[s]
            BY <1>1, <1>2, <5>2, <5>4, <6>2
          <6> QED
            BY <6>1, <6>2
        <5> QED
          BY <5>3, <5>4
      <4> QED
        BY <1>3, <4>1
    <3>4. Presence!In(r) = rooms[r]
      BY <1>1 DEF Presence!In, TypeOK
    <3>5. view' = [q \in Peers |->
                     IF q = p THEN rooms[r]
                     ELSE IF q \in rooms[r] \cap connected THEN view[q] \cup {p}
                     ELSE view[q]]
      BY <2>3 DEF Join, Told
    <3>6. Presence!Enter(p, r)
      BY <3>1, <3>2, <3>3, <3>4, <3>5 DEF Presence!Enter
    <3> QED
      BY <3>6 DEF Presence!PNext
  <2>4. CASE Leave(p)
    BY <1>4, <2>4 DEF Leave
  <2>5. CASE HandleClose(p)
    <3>1. connected' = connected
      BY <2>5 DEF HandleClose, TypeOK
    <3> QED
      BY <1>4, <2>5, <3>1 DEF HandleClose
  <2>6. ASSUME NEW q \in Peers, RelayLookup(p, q) PROVE UNCHANGED Presence!pvars
    BY <1>4, <2>6 DEF RelayLookup
  <2>7. CASE LeaveRemove(p)
    <3> DEFINE r == leaving[p]
    <3>1. r \in Rooms /\ rooms' = [rooms EXCEPT ![r] = @ \ {p}] /\ UNCHANGED <<sock, view>>
          /\ pc[p] = "remove"
      BY <2>7 DEF LeaveRemove, HandlerInv
    <3>2. CASE p \in rooms[r]
      <4>1. roomOf[p] = r /\ r # NoRoom
        BY <1>1, <3>1, <3>2, NoRoomAssumption
      <4>2. roomOf' = [roomOf EXCEPT ![p] = NoRoom]
        <5>1. \A s \in Rooms : p \notin rooms'[s]
          BY <1>1, <3>1, <4>1 DEF TypeOK
        <5>2. \A q \in Peers \ {p}, s \in Rooms : q \in rooms'[s] <=> q \in rooms[s]
          BY <3>1 DEF TypeOK
        <5>3. \A q \in Peers : roomOf'[q] = IF q = p THEN NoRoom ELSE roomOf[q]
          BY <1>1, <1>2, <5>1, <5>2, NoRoomAssumption DEF roomOf
        <5> QED
          BY <1>3, <5>3
      <4>3. Presence!Exit(p)
        BY <3>1, <4>1, <4>2 DEF Presence!Exit
      <4> QED
        BY <4>3 DEF Presence!PNext
    <3>3. CASE p \notin rooms[r]
      <4>1. rooms' = rooms
        BY <3>1, <3>3 DEF TypeOK
      <4> QED
        BY <1>4, <3>1, <4>1
    <3> QED
      BY <3>2, <3>3
  <2>8. CASE LeaveSnapshot(p)
    BY <1>4, <2>8 DEF LeaveSnapshot
  <2>9. ASSUME NEW q \in Peers, LeaveSend(p, q) PROVE [Presence!PNext]_(Presence!pvars)
    <3>1. pc[p] = "notify" /\ UNCHANGED <<sock, rooms>>
          /\ view' = [view EXCEPT ![q] = Told(q, @ \ {p})]
      BY <2>9 DEF LeaveSend
    <3>2. roomOf[p] = NoRoom
      BY <1>1, <3>1, NoRoomAssumption DEF HandlerInv, NoGhost, Removing
    <3>3. CASE sock[q] = "open" /\ p \in view[q]
      <4>1. Presence!Forget(q, p)
        BY <3>1, <3>2, <3>3 DEF Presence!Forget, Told, roomOf
      <4> QED
        BY <4>1 DEF Presence!PNext
    <3>4. CASE ~(sock[q] = "open" /\ p \in view[q])
      <4>1. view' = view
        BY <3>1, <3>4 DEF Told, TypeOK
      <4> QED
        BY <1>4, <3>1, <4>1
    <3> QED
      BY <3>3, <3>4
  <2>10. CASE LeaveDone(p)
    BY <1>4, <2>10 DEF LeaveDone
  <2>11. CASE RelaySend(p)
    BY <1>4, <2>11 DEF RelaySend
  <2> QED
    BY <1>6, <2>1, <2>2, <2>3, <2>4, <2>5, <2>6, <2>7, <2>8, <2>9, <2>10,
       <2>11 DEF PeerStep, HandlerStep
<1> QED
  BY <1>4, <1>5, <1>6 DEF Next

\* With clients that leave before they join, the server does what RoomPresence
\* promises: entering a room, telling its members and learning who they are is
\* one step, and nobody is forgotten before it has left.
THEOREM PresenceImplemented == ~RejoinAllowed => (Spec => ImplementsPresence)
<1> SUFFICES ASSUME ~RejoinAllowed PROVE Spec => ImplementsPresence
  OBVIOUS
<1>1. Init => Presence!PInit
  BY DEF Init, Presence!PInit, roomOf
<1>2. HandlerInv /\ NoGhost /\ HandlerInv' /\ NoGhost' /\ TypeOK /\ [Next]_vars
        => [Presence!PNext]_(Presence!pvars)
  BY PresenceStep
<1>3. Spec => []NoGhost
  BY GhostFree
<1> QED
  BY <1>1, <1>2, <1>3, Base, PTL DEF Spec, ImplementsPresence, Presence!PSpec
=============================================================================
