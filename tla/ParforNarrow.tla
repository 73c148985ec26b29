---------------------------- MODULE ParforNarrow ----------------------------
(***************************************************************************)
(* parfor_ (parfor.hpp) in the arithmetic of its index type: what the      *)
(* loop's checks and the handler's split come to when the range ends at    *)
(* the end of the type, or is longer than half of it.  ParforLoop, which   *)
(* has the interleavings within a step, shows where nothing wraps.         *)
(*                                                                         *)
(* The width is scaled down, from 32 bits to 4 * BLOCK values.  Calls that *)
(* wait, jobs among them, are run one after the other: none sees what      *)
(* another does.                                                           *)
(***************************************************************************)
EXTENDS Integers, FiniteSets

CONSTANTS
    BLOCK,              \* for 2^30: a quarter of what a uint32_t or a sig_atomic_t holds
    FACTORS,            \* bound: what __spork_get_unroll_factor may return
    None,               \* no call of parfor_
    LOW, HIGH           \* bound: the indices that are watched

ASSUME WidthAssumption ==
    /\ BLOCK \in Nat \ {0}
    /\ FACTORS \subseteq 1..(2 * BLOCK - 1)
    /\ LOW \in Int /\ HIGH \in Int

CallType == [signed : BOOLEAN, from : Int, to : Int, base : Int]

ASSUME NameAssumption == None \notin CallType

UINT32_RANGE   == 4 * BLOCK
SIG_ATOMIC_MIN == -(2 * BLOCK)
SIG_ATOMIC_MAX == 2 * BLOCK - 1

VARIABLES
    inc_i,              \* the factor, and the length of a batch
    calls,              \* the calls of parfor_ that wait to be run
    call,               \* the one that runs, or None
    sig_safe_i,
    loop_end,
    busy,               \* the length of the step under way, 0 between two
    promoted,
    runs                \* history: how often the body ran, per index

loop == <<call, sig_safe_i, loop_end, busy, promoted>>

\* static_cast<uint32_t>
Uint32(x) == x % UINT32_RANGE

\* static_cast<sig_atomic_t>
SigAtomic(x) == ((x - SIG_ATOMIC_MIN) % UINT32_RANGE) + SIG_ATOMIC_MIN

\* A value of the index type of a call, sig_atomic_t or uint32_t; its sums and
\* differences are cut off to it too.
Idx(c, x) == IF c.signed THEN SigAtomic(x) ELSE Uint32(x)
MaxIdx(c) == IF c.signed THEN SIG_ATOMIC_MAX ELSE UINT32_RANGE - 1

\* parfor_ over from .. to - 1, its body given each index plus base.
Call(signed, from, to, base) == [signed |-> signed, from |-> from, to |-> to, base |-> base]

\* The loop's register, between two steps; the handler's `ssi` at any time.
ssi == Idx(call, sig_safe_i)

NoLoop ==
    /\ call = None
    /\ sig_safe_i = 0 /\ loop_end = 0 /\ busy = 0
    /\ promoted = FALSE

-----------------------------------------------------------------------------
\* The call of parfor_ up to its loop.
Enter(c) ==
    /\ call = None
    /\ call' = c
    /\ sig_safe_i' = SigAtomic(c.from)
    /\ loop_end' = c.to
    /\ busy' = 0
    /\ promoted' = FALSE
    /\ UNCHANGED <<inc_i, runs>>

\* The plugins' guard, which for a step of one is the loop's own check:
\* `!overflow(base + (count - 1)) && base + (count - 1) < bound`.
Fits(length) ==
    /\ ssi + length - 1 <= MaxIdx(call)
    /\ ssi + length - 1 < loop_end

\* The check of a step, a batch or a single iteration.  Which of the two the
\* loop is at is ParforLoop's matter; here either may follow the other.
Begin ==
    /\ call # None /\ busy = 0
    /\ \E length \in {1, inc_i} :
        /\ Fits(length)
        /\ busy' = length
    /\ UNCHANGED <<inc_i, calls, call, sig_safe_i, loop_end, promoted, runs>>

\* The iterations, and the store of the progress.
Publish ==
    /\ busy > 0
    /\ LET done == {call.base + Idx(call, ssi + d) : d \in 0..(busy - 1)}
       IN  runs' = [k \in DOMAIN runs |-> IF k \in done THEN runs[k] + 1 ELSE runs[k]]
    /\ sig_safe_i' = SigAtomic(Idx(call, ssi + busy))
    /\ busy' = 0
    /\ UNCHANGED <<inc_i, calls, call, loop_end, promoted>>

\* `loop_end - ssi <= inc_i`: of a signed index, the difference of a range
\* longer than half the type comes out negative.
TooLittle == Idx(call, loop_end - ssi) <= inc_i

PromoteNothing ==
    /\ call # None /\ ~promoted
    /\ TooLittle
    /\ promoted' = TRUE
    /\ UNCHANGED <<inc_i, calls, call, sig_safe_i, loop_end, busy, runs>>

\* Mutant: the average, whose sum may wrap around.
midpointOfSum(i, j) == Idx(call, i + j) \div 2

midpoint(i, j) == Idx(call, i + Idx(call, j - i) \div 2)

\* The handler.  The right job always has something to do, the left one only if
\* it is enqueued.
PromoteSplit ==
    /\ call # None /\ ~promoted
    /\ ~TooLittle
    /\ promoted' = TRUE
    /\ LET prom_i == Idx(call, ssi + inc_i)
           mid    == midpoint(prom_i, loop_end)
           job(i, j) == [call EXCEPT !.from = i, !.to = j]
       IN  /\ loop_end' = prom_i
           /\ calls' = calls \cup {job(mid, call.to)}
                             \cup (IF prom_i >= mid THEN {} ELSE {job(prom_i, mid)})
    /\ UNCHANGED <<inc_i, call, sig_safe_i, busy, runs>>

\* `i < loop_end` fails.
Leave ==
    /\ call # None /\ busy = 0
    /\ ~Fits(1)
    /\ call' = None
    /\ sig_safe_i' = 0 /\ loop_end' = 0 /\ promoted' = FALSE
    /\ UNCHANGED <<inc_i, calls, busy, runs>>

Handler == PromoteNothing \/ PromoteSplit
LoopStep == Begin \/ Publish \/ Leave \/ Handler

-----------------------------------------------------------------------------
\* The indices that a call is to run, and what the running one has left.
Indices(c) == {c.base + k : k \in c.from..(c.to - 1)}
Remaining  == IF call = None THEN {} ELSE {call.base + k : k \in ssi..(loop_end - 1)}

\* How often index k has been run or is still to be.
Owners(k) ==
    runs[k] + Cardinality({c \in calls : k \in Indices(c)})
            + (IF k \in Remaining THEN 1 ELSE 0)

=============================================================================
