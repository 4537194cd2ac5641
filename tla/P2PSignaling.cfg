\* Clients leave a room before joining another: safety, refinement, liveness.
CONSTANTS
  Peers = {p1, p2}
  Rooms = {r1, r2}
  NoRoom = NoRoom
  RejoinAllowed = FALSE
SPECIFICATION FairSpec
INVARIANTS TypeOK NoGhost ViewExact RelayFromKnownPeer RegisteredIsMember
PROPERTY ImplementsFairPresence
CHECK_DEADLOCK FALSE
