-------------------------- MODULE MCSporkScheduler --------------------------
(***************************************************************************)
(* SporkScheduler on two small programs with forks nested in bodies and in *)
(* spawned tasks: for the safety run on three workers                      *)
(*   1 = par(2, 3)     2 = loop(4; right 5, left 6)     3 = par(7, 8)      *)
(*   6 = par(9, 10)                                                        *)
(* and for the liveness run on two workers the same with 4 = par(11, 12).  *)
(***************************************************************************)
EXTENDS SporkScheduler, TLC

MCNode == 1..10
MCBody == [n \in MCNode |-> CASE n = 1 -> 2 [] n = 2 -> 4 [] n = 3 -> 7
                              [] n = 6 -> 9 [] OTHER -> n]
MCSpawned == [n \in MCNode |-> CASE n = 1 -> <<3>> [] n = 2 -> <<5, 6>> [] n = 3 -> <<8>>
                                 [] n = 6 -> <<10>> [] OTHER -> <<>>]

LiveNode == 1..12
LiveBody == [n \in LiveNode |-> IF n = 4 THEN 11 ELSE IF n > 10 THEN n ELSE MCBody[n]]
LiveSpawned == [n \in LiveNode |-> IF n = 4 THEN <<12>> ELSE IF n > 10 THEN <<>>
                                   ELSE MCSpawned[n]]

Symmetry == Permutations(Worker \ {Main})
=============================================================================
