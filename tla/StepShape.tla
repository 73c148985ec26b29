----------------------------- MODULE StepShape -----------------------------
(***************************************************************************)
(* What the promotion handler of parfor_ needs to know about a loop: the   *)
(* loop is a sequence of step loops run one after the other, each of which *)
(* executes a fixed number of iterations between two looks at loop_end.    *)
(***************************************************************************)
EXTENDS Integers, Sequences

\* A loop as written: one iteration at a time.
Plain == <<1>>

\* The handler may count on `factor`, as it does when it moves the end of the loop
\* to sig_safe_i + inc_i: no step is longer, and what no long step fits into is left
\* to single iterations.
Covers(steps, factor) ==
    /\ steps \in Seq(Nat \ {0})
    /\ steps # <<>>
    /\ steps[Len(steps)] = 1
    /\ \A k \in DOMAIN steps : steps[k] <= factor
=============================================================================
