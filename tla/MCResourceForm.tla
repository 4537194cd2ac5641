--------------------------- MODULE MCResourceForm ---------------------------
(* A plugin with extraction and covers and one with neither; extractions  *)
(* that overlap, and a retry after a lost answer.                         *)
EXTENDS ResourceForm

CONSTANTS ebook, game
=============================================================================
