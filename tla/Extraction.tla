----------------------------- MODULE Extraction -----------------------------
(***************************************************************************)
(* What the client reads out of a file: extractVideoMeta, extractMusicMeta *)
(* and extractEbook.  Of the metadata it matters to their callers whether  *)
(* there is any, whether there is a title among it, and whether a cover    *)
(* was found beside it.                                                    *)
(***************************************************************************)

\* The tracks of a video have no title.
VideoFindings == {[found |-> b, title |-> FALSE, cover |-> FALSE] : b \in BOOLEAN}

\* A title is one of the fields.  Covers are skipped.
MusicFindings == VideoFindings \cup {[found |-> TRUE, title |-> TRUE, cover |-> FALSE]}

\* An ebook may have a cover whatever else it has; failing to read it is having
\* none.
EbookFindings == MusicFindings \cup {[f EXCEPT !.cover = TRUE] : f \in MusicFindings}
=============================================================================
