------------------------------- MODULE MCScan -------------------------------
(* Scan of every length up to MAX_N.                                       *)
EXTENDS Scan
=============================================================================
