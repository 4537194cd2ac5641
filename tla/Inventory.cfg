\* Two request threads, overlapping or not.
CONSTANTS
  n1 = n1
  n2 = n2
  ebook = ebook
  other = other
  g1 = g1
  g2 = g2
  c1 = c1
  Absent = Absent
  Mixed = Mixed
  Names = {n1, n2}
  Blank = Blank
  PluginNames = {ebook, other}
  Taggable = {ebook}
  Sums = {c1}
  NoSum = NoSum
  Rules <- MCRules
  Patches <- MCPatches
  Drafts <- MCDrafts
  Resources = {r1, r2}
  Requests = {q1, q2}
  MaxRequests = 4
SPECIFICATION InventorySpec
INVARIANTS InventoryTypeOK TagsMatchRules
PROPERTIES ImplementsCatalogue BatchAllOrNothing
CHECK_DEADLOCK FALSE
