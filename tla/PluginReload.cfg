\* A request reloads an unchanged plugin.
CONSTANTS
  game = game
  ebook = ebook
  Game1 = Game1
  Game2 = Game2
  Ebook1 = Ebook1
  game_meta = game_meta
  ebook_meta = ebook_meta
  Plugins = {game, ebook}
  Classes = {Game1, Game2, Ebook1}
  Tables = {game_meta, ebook_meta}
  NameOf <- MCNameOf
  Schema <- MCSchema
  Listener = listener
  Boot = boot
  Free = Free
  Requests = {r1}
  CrashAllowed = FALSE
  MayRaise = FALSE
  FileErrors = {}
  Stored = {}
SPECIFICATION FairSpec
PROPERTIES ReloadRegisters
CHECK_DEADLOCK FALSE
