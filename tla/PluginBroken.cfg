\* A plugin file may be broken in any way.
CONSTANTS
  game = game
  ebook = ebook
  Game1 = Game1
  Game2 = Game2
  Ebook1 = Ebook1
  game_meta = game_meta
  ebook_meta = ebook_meta
  Plugins = {game, ebook}
  Classes = {Game1, Game2, Ebook1}
  Tables = {game_meta, ebook_meta}
  NameOf <- MCNameOf
  Schema <- MCSchema
  Listener = listener
  Boot = boot
  Free = Free
  Requests = {}
  CrashAllowed = FALSE
  MayRaise = TRUE
  FileErrors = {"StandardError", "ScriptError"}
  Stored = {}
SPECIFICATION Spec
INVARIANTS LoadReturns
CHECK_DEADLOCK FALSE
