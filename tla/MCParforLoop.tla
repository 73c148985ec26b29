---------------------------- MODULE MCParforLoop ----------------------------
(* ParforLoop over every range of a 4-bit index, in the plain loop, a      *)
(* batched loop with its cleanup loop, and a vectorized loop with epilogue.*)
EXTENDS ParforLoop

MCShapes == {<<1>>, <<3, 1>>, <<4, 2, 1>>}
=============================================================================
