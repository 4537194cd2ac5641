\* A request overlaps a delete of the same resource.
CONSTANTS
  n1 = n1
  n2 = n2
  ebook = ebook
  other = other
  g1 = g1
  g2 = g2
  c1 = c1
  Absent = Absent
  Mixed = Mixed
  Names = {n1, n2}
  Blank = Blank
  PluginNames = {ebook, other}
  Taggable = {ebook}
  Sums = {c1}
  NoSum = NoSum
  Rules <- MCRules
  Patches <- MCPatches
  Drafts <- MCDrafts
  Resources = {r1}
  Requests = {q1, q2}
  MaxRequests = 3
SPECIFICATION InventorySpec
PROPERTIES DeletedStaysDeleted
CHECK_DEADLOCK FALSE
