------------------------------ MODULE P2PRooms ------------------------------
(***************************************************************************)
(* The REST side of the P2P rooms, core/p2p_controller.rb, beside the      *)
(* signaling server whose memory it reads.  Resources are shared with a    *)
(* room by name, in a table of their own; a room itself exists in the      *)
(* signaling server only.                                                  *)
(***************************************************************************)
EXTENDS P2PSignaling

CONSTANTS Resources   \* ids of resources that exist

VARIABLES
  shared,   \* rows of p2p_room_resources: room and resource
  created   \* history: rooms a client has been told were created

roomsVars == <<vars, shared, created>>

RoomsInit == Init /\ shared = {} /\ created = {}

\* POST /p2p/rooms answers 201 with the id and the socket's URL, nothing else.
create_room(r) ==
  /\ created' = created \cup {r}
  /\ UNCHANGED <<vars, shared>>

\* POST /p2p/rooms/:id/share asks for the resource, not for the room;
\* insert_ignore leaves a row that is there as it is.
share_resource(r, x) ==
  /\ shared' = shared \cup {<<r, x>>}
  /\ UNCHANGED <<vars, created>>

\* DELETE /p2p/rooms/:id/share/:resource_id; 404 when no row goes.
revoke_resource(r, x) ==
  /\ <<r, x>> \in shared
  /\ shared' = shared \ {<<r, x>>}
  /\ UNCHANGED <<vars, created>>

RoomsNext ==
  \/ Next /\ UNCHANGED <<shared, created>>
  \/ \E r \in Rooms : create_room(r)
  \/ \E r \in Rooms, x \in Resources : share_resource(r, x) \/ revoke_resource(r, x)

RoomsSpec == RoomsInit /\ [][RoomsNext]_roomsVars

-----------------------------------------------------------------------------
\* docs/api.md of POST /p2p/rooms: "Create a new P2P room", and of GET
\* /p2p/rooms, which shows a room whose peer_count is 0.  A room that has been
\* created is listed, whether or not somebody has joined it.
CreatedRoomIsListed ==
  \A r \in created : \E room \in rooms_summary : room.room_id = r
=============================================================================
