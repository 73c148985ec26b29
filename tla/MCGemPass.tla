----------------------------- MODULE MCGemPass -----------------------------
(* GemPass on modules with three markers of two sites and one query.       *)
EXTENDS GemPass, TLC

Symmetry == Permutations(Token) \cup Permutations(Marker)
=============================================================================
