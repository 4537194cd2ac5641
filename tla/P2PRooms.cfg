\* Rooms created over REST and the list of rooms.
CONSTANTS
  Peers = {p1, p2}
  Rooms = {r1, r2}
  NoRoom = NoRoom
  RejoinAllowed = FALSE
  Resources = {x1}
SPECIFICATION RoomsSpec
INVARIANTS CreatedRoomIsListed
CHECK_DEADLOCK FALSE
