------------------------------- MODULE MCHub --------------------------------
(* Small instances of Hub for TLC. *)
EXTENDS Hub

CONSTANTS t1, t2

MCTopics == {t1, t2}

\* No topic, one, two, and the same one named twice.
MCQueries == {<<>>, <<t2>>, <<t1, t2>>, <<t2, t2>>}
=============================================================================
