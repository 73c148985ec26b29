--------------------------- MODULE MCSnapshotSink ---------------------------
(* SnapshotSink on every graph of a few blocks and every graph of values.  *)
EXTENDS SnapshotSink, TLC

Symmetry == Permutations(Bridge) \cup Permutations(Inner)
=============================================================================
