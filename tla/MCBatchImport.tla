--------------------------- MODULE MCBatchImport ---------------------------
(* An ebook that is extracted, and a file of unknown type; and the same with *)
(* a picture, which is imported without extraction.                         *)
EXTENDS BatchImport

CONSTANTS epub, jpg, iso

MCFolder == <<iso, epub>>
MCFolder1 == <<epub>>
=============================================================================
