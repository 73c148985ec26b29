---------------------------- MODULE MCFablePass ----------------------------
(***************************************************************************)
(* FablePass on modules with three markers of two sites.  A probe is left  *)
(* as it was; unrolled by two; vectorized by four with an epilogue of two; *)
(* vectorized with a second induction in the vector loop; vectorized with  *)
(* the tail folded into masked steps; or too large.                        *)
(***************************************************************************)
EXTENDS FablePass, TLC

L(trip) == [trip |-> trip, others |-> <<>>, regular |-> TRUE, masked |-> FALSE]

MCProbes == {
    [vectorized |-> FALSE, loops |-> <<L(1)>>],
    [vectorized |-> FALSE, loops |-> <<L(2), L(1)>>],
    [vectorized |-> TRUE,  loops |-> <<L(4), L(2), L(1)>>],
    [vectorized |-> TRUE,  loops |-> <<[L(4) EXCEPT !.others = <<2>>], L(1)>>],
    [vectorized |-> TRUE,  loops |-> <<[L(4) EXCEPT !.regular = FALSE], L(1)>>],
    [vectorized |-> TRUE,  loops |-> <<[L(4) EXCEPT !.masked = TRUE]>>],
    [vectorized |-> TRUE,  loops |-> <<L(8), L(1)>>]}

Symmetry == Permutations(Token) \cup Permutations(Marker)
=============================================================================
