--------------------------- MODULE MCP2PSignaling ---------------------------
(* Small instances of P2PSignaling for TLC. *)
EXTENDS P2PSignaling, TLC

Symmetry == Permutations(Peers) \cup Permutations(Rooms)
=============================================================================
