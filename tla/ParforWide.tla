----------------------------- MODULE ParforWide -----------------------------
(***************************************************************************)
(* parfor's dispatch (parfor.hpp) of a range to calls of parfor_: as it is *)
(* if its index type is no wider than sig_atomic_t, the type progress is   *)
(* published in; else over a 32-bit index, shifted if need be, or one call *)
(* per block of 2^30.  The calls are run as ParforNarrow says.             *)
(*                                                                         *)
(* The widths are scaled down: 2^32 to 4 * BLOCK, and 2^30 to BLOCK.       *)
(***************************************************************************)
EXTENDS ParforNarrow

CONSTANT
    MAX_RANGE           \* bound: the longest range, of few enough blocks to be
                        \* counted in a uint32_t themselves

ASSUME RangeAssumption == MAX_RANGE \in Nat /\ MAX_RANGE < BLOCK * UINT32_RANGE

VARIABLES
    wide, signed,       \* idx: is it wider than sig_atomic_t, is it signed?
    i, j,               \* the range
    pc

range == <<wide, signed, i, j>>
vars  == <<range, pc, calls, loop, inc_i, runs>>

\* The values of idx that are tried.
IdxValues ==
    CASE wide     -> (IF signed THEN LOW ELSE 0)..HIGH
      [] ~wide    -> (IF signed THEN SIG_ATOMIC_MIN..SIG_ATOMIC_MAX ELSE 0..(UINT32_RANGE - 1))

\* On a narrow type nothing looks whether the range runs backwards; no caller in
\* the repository has one that does.
Init ==
    /\ wide \in BOOLEAN /\ signed \in BOOLEAN
    /\ i \in IdxValues /\ j \in IdxValues
    /\ j - i <= MAX_RANGE
    /\ ~wide => i <= j
    /\ pc = "dispatch"
    /\ inc_i \in FACTORS
    /\ calls = {}
    /\ NoLoop
    /\ runs = [k \in LOW..HIGH |-> 0]

Dispatch(to) == pc = "dispatch" /\ pc' = to /\ UNCHANGED <<range, loop, inc_i, runs>>

\* The cast of a bound: to the narrow type of the same signedness.
Narrow(x) == IF signed THEN SigAtomic(x) ELSE Uint32(x)

FitsSigAtomic == signed /\ i >= SIG_ATOMIC_MIN /\ j <= SIG_ATOMIC_MAX

FitsUint32 == ~signed /\ j < UINT32_RANGE

\* `if (i >= j) return;`
Empty ==
    /\ Dispatch("done")
    /\ wide /\ i >= j
    /\ UNCHANGED calls

\* The bounds are cast to a type of sig_atomic_t's width.
UseBounds ==
    /\ Dispatch("run")
    /\ wide /\ i < j
    /\ FitsSigAtomic \/ FitsUint32
    /\ calls' = {Call(signed, Narrow(i), Narrow(j), 0)}

\* `(j - i) <= 0xFFFFFFFFU`
LengthFits == j - i < UINT32_RANGE

\* The length is cast, and the body shifts the index.
UseLength ==
    /\ Dispatch("run")
    /\ wide /\ i < j
    /\ ~FitsSigAtomic /\ ~FitsUint32
    /\ LengthFits
    /\ calls' = {Call(FALSE, 0, Uint32(j - i), i)}

num_blocks == 1 + (j - i - 1) \div BLOCK

\* Mutant: every block is a whole one.
BlockEndWhole(block) == BLOCK

\* `block_end`: the condition compares the block with the number of blocks,
\* which no block is equal to.
BlockEnd(block) ==
    Uint32(IF block = num_blocks THEN (block + 1) * BLOCK ELSE j - i - block * BLOCK)

\* parfor over the blocks: any order.
UseBlocks ==
    /\ Dispatch("run")
    /\ wide /\ i < j
    /\ ~FitsSigAtomic /\ ~FitsUint32
    /\ ~LengthFits
    /\ calls' = {Call(FALSE, 0, BlockEnd(block), i + block * BLOCK) :
                     block \in 0..(num_blocks - 1)}

\* parfor_ as it is.
UseIdx ==
    /\ Dispatch("run")
    /\ ~wide
    /\ calls' = {Call(signed, i, j, 0)}

\* One of the calls, which one is left to CHOOSE: they are independent.
RunCall ==
    /\ pc = "run"
    /\ calls # {}
    /\ LET c == CHOOSE c \in calls : TRUE
       IN  calls' = calls \ {c} /\ Enter(c)
    /\ UNCHANGED <<range, pc>>

Run == pc = "run" /\ LoopStep /\ UNCHANGED <<range, pc>>

Finish ==
    /\ pc = "run"
    /\ calls = {} /\ call = None
    /\ pc' = "done"
    /\ UNCHANGED <<range, calls, loop, inc_i, runs>>

Done == pc = "done" /\ UNCHANGED vars

Next == Empty \/ UseIdx \/ UseBounds \/ UseLength \/ UseBlocks \/ RunCall \/ Run
        \/ Finish \/ Done

Spec == Init /\ [][Next]_vars

-----------------------------------------------------------------------------
(* Properties.                                                             *)

Iterations == {k \in LOW..HIGH : i <= k /\ k < j}

\* The body ran once for each index of the range and for no other.
RunsOnce == \A k \in DOMAIN runs : runs[k] = IF k \in Iterations THEN 1 ELSE 0

\* A range of up to 2^32 - 1 iterations is run right, whatever the signs and the
\* magnitudes of its bounds: at every moment each of its indices has one owner, in
\* that it has been run, or the running loop still has it, or one of the waiting
\* calls.  So neither a cast to the narrow type loses anything, nor a split near
\* the end of the type or of a range longer than half of it.
EachIndexHasOneOwner ==
    pc # "dispatch" /\ j - i < UINT32_RANGE =>
        \A k \in DOMAIN runs : Owners(k) = IF k \in Iterations THEN 1 ELSE 0

\* However long the range, no index outside it is handed to the body.
StaysInRange == \A k \in DOMAIN runs : runs[k] > 0 => k \in Iterations

\* What the comment on num_blocks prepares for, parfor(0, MAX_INT + 1, ...):
\* longer ranges are run right too.  They are not: a block's length is that of
\* all the rest of the range, cut off to 32 bits.
WideRangesRunOnce == pc = "done" => RunsOnce

=============================================================================
