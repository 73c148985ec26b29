---------------------------- MODULE MCParforWide ----------------------------
(* ParforWide with 8 values for 2^32: blocks of 2 iterations, ranges to    *)
(* 15.                                                                     *)
EXTENDS ParforWide

MCLow == -10
=============================================================================
