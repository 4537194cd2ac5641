SPECIFICATION Spec
CONSTANTS
  Ids = {r1, r2, r3}
  Matching = {r1}
  Copies = {r1, r2, r3}
  None = None
  Sent = Sent
  Tasks = {1}
  Pages = {"list", "edit", "conflicts"}
  MaxUnderWay = 1
  MaxFetches = 0
SYMMETRY Symmetry
INVARIANTS TypeOK SomeCopyKept DeletedIsRefetched
CHECK_DEADLOCK FALSE
