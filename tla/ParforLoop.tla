----------------------------- MODULE ParforLoop -----------------------------
(***************************************************************************)
(* One activation of parfor_ (parfor.hpp): a loop over [first, bound) that *)
(* its promotion handler may shorten at any time, giving the iterations it *)
(* takes away to two jobs, and the join that puts the results together.    *)
(*                                                                         *)
(* The loop is the one the compiler plugins leave behind: one or more step *)
(* loops, run one after the other, each executing a constant number of     *)
(* iterations between two looks at loop_end (the vector loop, the epilogue *)
(* and the scalar remainder of fablepass; the batch and the cleanup loop   *)
(* of gempass and of fablepass's fallback; without a plugin, one loop of   *)
(* step 1).  Every step is a load of loop_end, a check, the iterations and *)
(* a store to sig_safe_i; the handler may come between any two of them.    *)
(*                                                                         *)
(* The accumulator is the sequence of the indices folded into it, which is *)
(* the most a binary operator that only associates can tell apart.         *)
(***************************************************************************)
EXTENDS Integers, Sequences, StepShape

CONSTANTS
    IDX_RANGE,              \* the index type holds 0 .. IDX_RANGE - 1
    Shapes,                 \* the step sequences of the copies of the loop
    FACTOR                  \* __spork_get_unroll_factor of their site

\* What the plugins leave behind (FablePass, GemPass).
ASSUME ShapeAssumption ==
    /\ IDX_RANGE \in Nat \ {0}
    /\ FACTOR \in Nat \ {0}
    /\ \A steps \in Shapes : Covers(steps, FACTOR)

VARIABLES
    first, bound, steps,    \* the range and the copy of the loop, never changed
    pc,
    m,                      \* which of the step loops is running
    i,                      \* the loop's index, in a register
    end,                    \* loop_end as last loaded
    sig_safe_i, loop_end,   \* volatile, shared with the handler
    promoted,
    l, r,                   \* the jobs' ranges
    enqueued, joined,       \* which of "l" and "r" were enqueued, and joined
    a                       \* the accumulator

arg  == <<first, bound, steps>>
loop == <<m, i, end, sig_safe_i>>
jobs == <<loop_end, promoted, l, r, enqueued>>
vars == <<arg, pc, loop, jobs, joined, a>>

\* The indices from x up to but not including y.
Indices(x, y) == [k \in 1..(y - x) |-> x + k - 1]

None == [i |-> 0, j |-> 0]

Init ==
    /\ first \in 0..(IDX_RANGE - 1)
    /\ bound \in first..(IDX_RANGE - 1)
    /\ steps \in Shapes
    /\ pc = "guard"
    /\ m = 1
    /\ i = first
    /\ end = 0
    /\ sig_safe_i = first
    /\ loop_end = bound
    /\ promoted = FALSE
    /\ l = None
    /\ r = None
    /\ enqueued = {}
    /\ joined = {}
    /\ a = <<>>

-----------------------------------------------------------------------------
(* The loop.                                                               *)

Goto(from, to) == pc = from /\ pc' = to

\* Mutant: the sum wraps around, and nothing looks at the overflow.
FitsWrapped(x, s, e) == (x + s - 1) % IDX_RANGE < e

\* createBatchGuard: the last index of a step of s iterations from x does not
\* overflow the index type and is below the end just loaded.
Fits(x, s, e) == x + s - 1 < IDX_RANGE /\ x + s - 1 < e

LoadEnd ==
    /\ Goto("guard", "check")
    /\ end' = loop_end
    /\ UNCHANGED <<arg, m, i, sig_safe_i, jobs, joined, a>>

Enter ==
    /\ Goto("check", "body")
    /\ Fits(i, steps[m], end)
    /\ UNCHANGED <<arg, loop, jobs, joined, a>>

\* Mutant: a loop that does not fit is tried again.
LeaveNever ==
    /\ Goto("check", "guard")
    /\ ~Fits(i, steps[m], end)
    /\ m < Len(steps)
    /\ UNCHANGED <<arg, m, i, end, sig_safe_i, jobs, joined, a>>

\* Not enough iterations are left for this step loop: on to the next.
Leave ==
    /\ Goto("check", "guard")
    /\ ~Fits(i, steps[m], end)
    /\ m < Len(steps)
    /\ m' = m + 1
    /\ UNCHANGED <<arg, i, end, sig_safe_i, jobs, joined, a>>

\* LLVM's own checks, made on an earlier snapshot of the trip count, may pass
\* over a vector loop that would still fit.
Bypass ==
    /\ Goto("guard", "guard")
    /\ m < Len(steps)
    /\ m' = m + 1
    /\ UNCHANGED <<arg, i, end, sig_safe_i, jobs, joined, a>>

Finish ==
    /\ Goto("check", "close")
    /\ ~Fits(i, steps[m], end)
    /\ m = Len(steps)
    /\ UNCHANGED <<arg, loop, jobs, joined, a>>

\* `body(i, a); ++i;`, as many times as the step is long.
Execute ==
    /\ Goto("body", "store")
    /\ a' = a \o Indices(i, i + steps[m])
    /\ i' = i + steps[m]
    /\ UNCHANGED <<arg, m, end, sig_safe_i, jobs, joined>>

\* Mutant: progress is published as if the step were a single iteration.
PublishOne ==
    /\ Goto("store", "guard")
    /\ sig_safe_i' = sig_safe_i + 1
    /\ UNCHANGED <<arg, m, i, end, jobs, joined, a>>

\* `sig_safe_i = i`
Publish ==
    /\ Goto("store", "guard")
    /\ sig_safe_i' = i
    /\ UNCHANGED <<arg, m, i, end, jobs, joined, a>>

-----------------------------------------------------------------------------
(* The promotion handler, run by the heartbeat that interrupts the loop or *)
(* by the eager check before it.                                           *)

\* While the loop's slot is open and not promoted.
Promotable == pc \in {"guard", "check", "body", "store", "close"} /\ ~promoted

midpoint(x, y) == x + (y - x) \div 2

\* Mutant: `<` for `<=`.
TooFewLeftStrict == loop_end - sig_safe_i < FACTOR

\* Too little is left beyond the step that may be under way.
TooFewLeft == loop_end - sig_safe_i <= FACTOR

PromoteNothing ==
    /\ Promotable
    /\ TooFewLeft
    /\ promoted' = TRUE
    /\ l' = None
    /\ r' = None
    /\ UNCHANGED <<arg, pc, loop, loop_end, enqueued, joined, a>>

\* Mutant: the handler forgets that a step may be under way.
PromoteAtOnce ==
    /\ Promotable
    /\ ~TooFewLeft
    /\ promoted' = TRUE
    /\ LET prom_i == sig_safe_i + 1
           mid    == midpoint(prom_i, loop_end)
       IN  /\ loop_end' = prom_i
           /\ r' = [i |-> mid, j |-> bound]
           /\ l' = IF prom_i >= mid THEN None ELSE [i |-> prom_i, j |-> mid]
           /\ enqueued' = IF prom_i >= mid THEN {"r"} ELSE {"r", "l"}
    /\ UNCHANGED <<arg, pc, loop, joined, a>>

\* Otherwise the loop ends after that step, and what is left is halved between
\* the jobs; the left one gets nothing when only one iteration is left.
PromoteSplit ==
    /\ Promotable
    /\ ~TooFewLeft
    /\ promoted' = TRUE
    /\ LET prom_i == sig_safe_i + FACTOR
           mid    == midpoint(prom_i, loop_end)
       IN  /\ loop_end' = prom_i
           /\ r' = [i |-> mid, j |-> bound]
           /\ l' = IF prom_i >= mid THEN None ELSE [i |-> prom_i, j |-> mid]
           /\ enqueued' = IF prom_i >= mid THEN {"r"} ELSE {"r", "l"}
    /\ UNCHANGED <<arg, pc, loop, joined, a>>

-----------------------------------------------------------------------------
(* After the loop.  A job runs parfor_ over its own range.                 *)

Close ==
    /\ Goto("close", IF promoted THEN "join l" ELSE "done")
    /\ UNCHANGED <<arg, loop, jobs, joined, a>>

\* `if (l.i < l.j) { l.sync(true); a = binop(a, l.a); }`, and the same for r
Join(job, name, from, to) ==
    /\ Goto(from, to)
    /\ a' = IF job.i < job.j THEN a \o Indices(job.i, job.j) ELSE a
    /\ joined' = IF job.i < job.j THEN joined \cup {name} ELSE joined
    /\ UNCHANGED <<arg, loop, jobs>>

JoinLeft  == Join(l, "l", "join l", "join r")
JoinRight == Join(r, "r", "join r", "done")

Done ==
    /\ pc = "done"
    /\ UNCHANGED vars

-----------------------------------------------------------------------------
Run     == LoadEnd \/ Enter \/ Leave \/ Finish \/ Execute \/ Publish \/ Close
           \/ JoinLeft \/ JoinRight
Promote == PromoteNothing \/ PromoteSplit

Next == Run \/ Bypass \/ Promote \/ Done

Spec == Init /\ [][Next]_vars

\* The worker's thread keeps running.
FairSpec == Spec /\ WF_vars(Run)

-----------------------------------------------------------------------------
(* Properties.                                                             *)

Index == 0..(IDX_RANGE - 1)

Pc == {"guard", "check", "body", "store", "close", "join l", "join r", "done"}

\* Every variable keeps its type: in particular no index, neither the loop's
\* nor the handler's, leaves the index type.
TypeOK ==
    /\ first \in Index /\ bound \in Index /\ steps \in Shapes
    /\ pc \in Pc
    /\ m \in 1..Len(steps)
    /\ i \in Index /\ end \in Index /\ sig_safe_i \in Index /\ loop_end \in Index
    /\ promoted \in BOOLEAN
    /\ l \in [i : Index, j : Index] /\ r \in [i : Index, j : Index]
    /\ enqueued \subseteq {"l", "r"} /\ joined \subseteq {"l", "r"}
    /\ a \in Seq(Index)

\* The invariant the plugins state: a step under way lies below loop_end, and
\* stays there although the handler may have moved loop_end since the check.
CommittedStepFits == pc = "body" => i + steps[m] <= loop_end

\* Whenever the loop is interrupted, the result is that of the sequential
\* loop: every index of the range once, in order.
ResultIsSequential == pc = "done" => a = Indices(first, bound)

\* A job is joined if it was enqueued, and only then: the deque is left as it
\* was found.
JoinsWhatItEnqueued == pc = "done" => joined = enqueued

\* The loop comes to its end.
LoopFinishes == <>(pc = "done")

=============================================================================
