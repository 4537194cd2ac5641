----------------------------- MODULE Selection ------------------------------
(***************************************************************************)
(* Filtering a sequence, as Array.prototype.filter, Array#select and       *)
(* Array#delete do: a recursive function over the prefixes of the          *)
(* sequence, which the provers can reason about (SelectSeq is built into   *)
(* the tools).                                                             *)
(***************************************************************************)
EXTENDS Naturals, Sequences

\* What is kept of each prefix of s.
KeptOfPrefix(s, T) ==
  LET kept[i \in 0 .. Len(s)] ==
        IF i = 0 THEN <<>>
        ELSE IF s[i] \in T THEN Append(kept[i - 1], s[i]) ELSE kept[i - 1]
  IN kept

\* The elements of s that are in T, in their order.
Kept(s, T) == KeptOfPrefix(s, T)[Len(s)]
=============================================================================
