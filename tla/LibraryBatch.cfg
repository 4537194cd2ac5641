SPECIFICATION Spec
CONSTANTS
  Ids = {r1, r2}
  Matching = {r1, r2}
  Copies = {r1, r2}
  None = None
  Sent = Sent
  Tasks = {}
  Pages = {"list", "edit"}
  MaxUnderWay = 2
  MaxFetches = 0
SYMMETRY Symmetry
INVARIANT BatchIsWhole
CHECK_DEADLOCK FALSE
