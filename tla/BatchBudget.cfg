SPECIFICATION Spec
CONSTANTS
  epub = epub jpg = jpg iso = iso
  Paths = {epub}
  Known = {epub}
  Extracted = {epub}
  Epubs = {epub}
  Folder <- MCFolder1
  None = None
  MaxVisits = 1
  MaxListings = 1
  JobIds = {1}
PROPERTY BudgetIsTotal
CHECK_DEADLOCK FALSE
