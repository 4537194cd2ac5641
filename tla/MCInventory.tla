---------------------------- MODULE MCInventory -----------------------------
(* Two names, one of which matches two rules with the same tag, a plugin the *)
(* tagger covers and one it does not.                                        *)
EXTENDS Inventory

CONSTANTS n1, n2, ebook, other, g1, g2, c1

MCRules == <<[names |-> {n1, n2}, tag |-> g1, plugins |-> {ebook, other}],
             [names |-> {n2}, tag |-> g2, plugins |-> {ebook}],
             [names |-> {n2}, tag |-> g2, plugins |-> {ebook, other}]>>

MCPatches == {[name |-> n2], [tags |-> <<>>], [active |-> TRUE],
              [plugin |-> ebook, checksum |-> NoSum], [name |-> Blank]}

MCDrafts == {[name |-> n1, plugin |-> p, tags |-> <<>>, checksum |-> NoSum,
              active |-> TRUE] : p \in {ebook, other}}
=============================================================================
