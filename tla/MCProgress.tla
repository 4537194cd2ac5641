----------------------------- MODULE MCProgress -----------------------------
(* Two resources and one or two devices; a client that sends everything and *)
(* one that leaves the pushed column out.                                   *)
EXTENDS Progress

CONSTANTS r1, r2, d1, v1, v2, percentage, cfi, url, tab

MCFullBodies == {[c \in Columns |-> v] : v \in {v1, v2}}
MCBodies == MCFullBodies \cup {[c \in Columns \ {Pushed} |-> v1]}
MCPageOf == [t \in {tab} |-> <<r1, d1>>]
=============================================================================
