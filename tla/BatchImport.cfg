SPECIFICATION FairSpec
CONSTANTS
  epub = epub jpg = jpg iso = iso
  Paths = {epub, jpg, iso}
  Known = {epub, jpg}
  Extracted = {epub}
  Epubs = {epub}
  Folder <- MCFolder
  None = None
  MaxVisits = 2
  MaxListings = 2
  JobIds = {1, 2}
INVARIANTS TypeOK SummaryExact NoneLostNoneRepeated
PROPERTY ImportEnds
CHECK_DEADLOCK FALSE
