SPECIFICATION Spec
CONSTANTS
  ebook = ebook game = game
  Files = {a}
  Plugins = {ebook, game}
  Extractable = {ebook}
  Ebook = ebook
  Titled = {ebook}
  Typed = Typed
  None = None
  ExtractIds = {1, 2}
  MaxResources = 2
INVARIANTS TypeOK OneResourcePerForm FiledByPlugin SavedAsSubmitted
CHECK_DEADLOCK FALSE
