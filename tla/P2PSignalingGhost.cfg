\* Clients may join a room while they are in another one: the room list.
CONSTANTS
  Peers = {p1, p2}
  Rooms = {r1, r2}
  NoRoom = NoRoom
  RejoinAllowed = TRUE
SPECIFICATION Spec
INVARIANTS ListedRoomIsActive
CHECK_DEADLOCK FALSE
