-------------------------- MODULE MCNamespaceStore --------------------------
(***************************************************************************)
(* Two namespaces, as of a parser and a subcommand.  Every array starts    *)
(* with room for one, so that it grows with its second element, where the  *)
(* source starts with 8 entries and 4 items.                               *)
(***************************************************************************)
EXTENDS NamespaceStore, TLC

CONSTANTS parent, sub, d1, d2, s1

MCNsId == {parent, sub}
MCName == {d1, d2}
MCStr == {s1}
MCNum == {0}
MCNumType == {"INT"}

MCSymmetry == Permutations(MCNsId) \cup Permutations(MCName)
=============================================================================
