-------------------------- MODULE MCPluginLifecycle -------------------------
(* Two plugins shaped like game (create, then alter the same table, both     *)
(* declaring it) and ebook without its first table (the alter declares no    *)
(* table to drop).                                                           *)
EXTENDS PluginLifecycle

CONSTANTS game, ebook, Game1, Game2, Ebook1, game_meta, ebook_meta

MCNameOf == [c \in Classes |-> IF c \in {Game1, Game2} THEN game ELSE ebook]
MCSchema ==
  [p \in Plugins |->
     IF p = game
     THEN <<[on |-> game_meta, creates |-> TRUE,  drops |-> TRUE],
            [on |-> game_meta, creates |-> FALSE, drops |-> TRUE]>>
     ELSE <<[on |-> ebook_meta, creates |-> TRUE,  drops |-> TRUE],
            [on |-> ebook_meta, creates |-> FALSE, drops |-> FALSE]>>]
=============================================================================
