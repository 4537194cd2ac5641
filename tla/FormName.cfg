SPECIFICATION Spec
CONSTANTS
  ebook = ebook game = game
  Files = {a}
  Plugins = {ebook, game}
  Extractable = {ebook}
  Ebook = ebook
  Titled = {ebook}
  Typed = Typed
  None = None
  ExtractIds = {1}
  MaxResources = 1
PROPERTY NameFilledOnlyIfEmpty
CHECK_DEADLOCK FALSE
