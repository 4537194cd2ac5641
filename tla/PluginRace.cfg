\* The watcher and a request reload at the same time; kills anywhere.
CONSTANTS
  game = game
  ebook = ebook
  Game1 = Game1
  Game2 = Game2
  Ebook1 = Ebook1
  game_meta = game_meta
  ebook_meta = ebook_meta
  Plugins = {game, ebook}
  Classes = {Game1, Game2, Ebook1}
  Tables = {game_meta, ebook_meta}
  NameOf <- MCNameOf
  Schema <- MCSchema
  Listener = listener
  Boot = boot
  Free = Free
  Requests = {r1}
  CrashAllowed = TRUE
  MayRaise = FALSE
  FileErrors = {}
  Stored = {game_meta, ebook_meta}
SPECIFICATION Spec
INVARIANTS TypeOK UntouchedIsSound RollbackIsExclusive
PROPERTIES DataLostOnlyByRollback
CHECK_DEADLOCK FALSE
