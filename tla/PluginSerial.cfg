\* The watcher is the only one to reload; hooks and files may raise
\* StandardErrors: safety and liveness.
CONSTANTS
  game = game
  ebook = ebook
  Game1 = Game1
  Game2 = Game2
  Ebook1 = Ebook1
  game_meta = game_meta
  ebook_meta = ebook_meta
  Plugins = {game, ebook}
  Classes = {Game1, Game2, Ebook1}
  Tables = {game_meta, ebook_meta}
  NameOf <- MCNameOf
  Schema <- MCSchema
  Listener = listener
  Boot = boot
  Free = Free
  Requests = {}
  CrashAllowed = FALSE
  MayRaise = TRUE
  FileErrors = {"StandardError"}
  Stored = {}
SPECIFICATION FairSpec
INVARIANTS RegisteredIsComplete
PROPERTIES ReloadEnds BootEnds
CHECK_DEADLOCK FALSE
