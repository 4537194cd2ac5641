SPECIFICATION Spec
CONSTANTS
  Ids = {r1, r2}
  Matching = {r1, r2}
  Copies = {r1, r2}
  None = None
  Sent = Sent
  Tasks = {1}
  Pages = {"list", "edit", "conflicts"}
  MaxUnderWay = 1
  MaxFetches = 0
PROPERTY DeletionIsFinal
CHECK_DEADLOCK FALSE
