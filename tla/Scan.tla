-------------------------------- MODULE Scan --------------------------------
(***************************************************************************)
(* One activation of scan (scan.hpp): an inclusive prefix sum, in place.   *)
(* Promoted, the loop stops a little ahead of where it stands, what is     *)
(* left is cut in three, and the sums of the middle part's chunks are left *)
(* to a job (the upsweep) while the loop's worker does the first part.  If *)
(* the job was stolen, the middle is done chunk by chunk from those sums   *)
(* (the downsweep), in parallel with the last part.                        *)
(*                                                                         *)
(* A sum of adjacent elements is the pair of its ends, and everything else *)
(* is Wrong: the most an operator that only associates can tell apart.     *)
(* Inner scans, reductions and parfors do here what their own activations  *)
(* promise; a chunk of a parfor is one step.                               *)
(***************************************************************************)
EXTENDS Integers, FiniteSets

CONSTANTS
    IDX_RANGE,              \* idx is unsigned and holds 0 .. IDX_RANGE - 1
    MAX_N                   \* bound: the longest array

ASSUME RangeAssumption ==
    /\ IDX_RANGE \in Nat /\ IDX_RANGE > 5
    /\ MAX_N \in 0..(IDX_RANGE - 1)

VARIABLES
    n, arr, a,              \* the array and the accumulator
    pc,
    i,                      \* the loop's index
    sig_safe_i, loop_end,   \* volatile, shared with the handler
    promoted,
    up,                     \* the job: the part it sums
    job,                    \* where the job stands
    partials,               \* the storage the upsweep allocates
    live,                   \* is it allocated?
    todo,                   \* the chunks left to the sweep under way
    right,                  \* where the right branch of the par stands
    sum02,                  \* the sum it starts from
    reused                  \* history: the partials' storage changed hands too early

loop  == <<pc, i, sig_safe_i, loop_end, promoted>>
sweep == <<partials, live, todo>>
vars  == <<n, arr, a, loop, up, job, sweep, right, sum02, reused>>

-----------------------------------------------------------------------------
(* Sums.                                                                   *)

Wrong == <<0, -1>>

\* binop, of two sums.
Sum(x, y) == IF x # Wrong /\ y # Wrong /\ x[2] = y[1] THEN <<x[1], y[2]>> ELSE Wrong

\* The running sums of A over [from, to), beginning with x.
Sums(x, A, from, to) ==
    LET f[k \in from..(to - 1)] == Sum(IF k = from THEN x ELSE f[k - 1], A[k])
    IN  f

\* An inner scan of A over [from, to), in place.
Scanned(x, A, from, to) ==
    LET sums == Sums(x, A, from, to)
    IN  [k \in DOMAIN A |-> IF k \in from..(to - 1) THEN sums[k] ELSE A[k]]

\* An inner reduction, of at least one element.
Reduced(A, from, to) == Sums(<<from, from>>, A, from, to)[to - 1]

-----------------------------------------------------------------------------
(* Splitting, in the arithmetic of idx.                                    *)

Idx(x) == x % IDX_RANGE

third1(x, y) == Idx(x + (Idx(y - x) \div 5))
third2(x, y) == Idx(y - 2 * (Idx(y - x) \div 5))

\* (idx) sqrt((double) size)
scan_chunksize(size) == CHOOSE c \in 0..size : c * c <= size /\ size < (c + 1) * (c + 1)

Chunks(size) == 0..((size - 1) \div scan_chunksize(size))

\* Chunk c of `size` elements: from Start up to End.
Start(c, size) == c * scan_chunksize(size)

\* Mutant: the last chunk is as long as the others.
EndUnclipped(c, size) == Start(c, size) + scan_chunksize(size)

End(c, size)   == IF scan_chunksize(size) > size - Start(c, size) THEN size
                  ELSE Start(c, size) + scan_chunksize(size)

-----------------------------------------------------------------------------
Init ==
    /\ n \in 0..MAX_N
    /\ arr = [k \in 0..(n - 1) |-> <<k, k + 1>>]
    /\ a = <<0, 0>>
    /\ pc = "check"
    /\ i = 0
    /\ sig_safe_i = 0
    /\ loop_end = n
    /\ promoted = FALSE
    /\ up = [arr |-> 0, n |-> 0]
    /\ job = "none"
    /\ partials = <<>>
    /\ live = FALSE
    /\ todo = {}
    /\ right = "none"
    /\ sum02 = Wrong
    /\ reused = FALSE

Goto(from, to) == pc = from /\ pc' = to

-----------------------------------------------------------------------------
(* The loop.                                                               *)

Check ==
    /\ Goto("check", IF i < loop_end THEN "body" ELSE "close")
    /\ UNCHANGED <<n, arr, a, i, sig_safe_i, loop_end, promoted, up, job, sweep,
                   right, sum02, reused>>

\* `a = binop(a, arr[i]); arr[i] = a;`
Execute ==
    /\ Goto("body", "store")
    /\ a' = Sum(a, arr[i])
    /\ arr' = [arr EXCEPT ![i] = a']
    /\ UNCHANGED <<n, i, sig_safe_i, loop_end, promoted, up, job, sweep, right, sum02, reused>>

\* `sig_safe_i = ++i`
Publish ==
    /\ Goto("store", "check")
    /\ i' = i + 1
    /\ sig_safe_i' = i'
    /\ UNCHANGED <<n, arr, a, loop_end, promoted, up, job, sweep, right, sum02, reused>>

-----------------------------------------------------------------------------
(* The promotion handler.                                                  *)

\* The iteration the loop is to stop at.
PromI == Idx(sig_safe_i + 5)

\* Mutant: whether there is work left before the middle part is not asked.
WorthwhileMiddle == third1(PromI, n) < third2(PromI, n)

\* "only break if every third has work to do"
Worthwhile ==
    /\ PromI < third1(PromI, n)
    /\ third1(PromI, n) < third2(PromI, n)
    /\ third2(PromI, n) < n

Promotable == pc \in {"check", "body", "store", "close"} /\ ~promoted

PromoteNothing ==
    /\ Promotable
    /\ ~Worthwhile
    /\ promoted' = TRUE
    /\ UNCHANGED <<n, arr, a, pc, i, sig_safe_i, loop_end, up, job, sweep,
                   right, sum02, reused>>

\* Mutant: the thirds are those of where the loop stands, not of where it stops.
PromoteFromHere ==
    /\ Promotable
    /\ Worthwhile
    /\ promoted' = TRUE
    /\ loop_end' = PromI
    /\ up' = [arr |-> third1(sig_safe_i, n),
              n   |-> third2(sig_safe_i, n) - third1(sig_safe_i, n)]
    /\ job' = "queued"
    /\ UNCHANGED <<n, arr, a, pc, i, sig_safe_i, sweep, right, sum02, reused>>

Promote ==
    /\ Promotable
    /\ Worthwhile
    /\ promoted' = TRUE
    /\ loop_end' = PromI
    /\ up' = [arr |-> third1(PromI, n), n |-> third2(PromI, n) - third1(PromI, n)]
    /\ job' = "queued"
    /\ UNCHANGED <<n, arr, a, pc, i, sig_safe_i, sweep, right, sum02, reused>>

-----------------------------------------------------------------------------
(* scan_upsweep, by the worker that stole the job.                         *)

\* p_malloc may fail; what it returns is not initialised.
Steal ==
    /\ job = "queued"
    /\ \/ /\ job' = "running"
          /\ live' = TRUE
          /\ todo' = Chunks(up.n)
          /\ partials' = [c \in Chunks(up.n) |-> Wrong]
       \/ /\ job' = "finished"
          /\ UNCHANGED sweep
    /\ UNCHANGED <<n, arr, a, loop, up, right, sum02, reused>>

SumChunk ==
    /\ job = "running"
    /\ \E c \in todo :
        /\ todo' = todo \ {c}
        /\ partials' = [partials EXCEPT ![c] =
               Reduced(arr, up.arr + Start(c, up.n), up.arr + End(c, up.n))]
    /\ UNCHANGED <<n, arr, a, loop, up, job, live, right, sum02, reused>>

\* `scan(chunks, partials)`
EndUpsweep ==
    /\ job = "running"
    /\ todo = {}
    /\ partials' = Sums(<<up.arr, up.arr>>, partials, 0, Cardinality(Chunks(up.n)))
    /\ job' = "finished"
    /\ UNCHANGED <<n, arr, a, loop, up, live, todo, right, sum02, reused>>

-----------------------------------------------------------------------------
(* The join.                                                               *)

t1 == third1(i, n)
t2 == third2(i, n)

\* Mutant: it is compared where the loop stopped, not where the array ends.
CloseAtLoopEnd ==
    /\ Goto("close", IF promoted /\ i # loop_end THEN "first" ELSE "done")
    /\ UNCHANGED <<n, arr, a, i, sig_safe_i, loop_end, promoted, up, job, sweep,
                   right, sum02, reused>>

\* `if (promoted && i != n)`
Close ==
    /\ Goto("close", IF promoted /\ i # n THEN "first" ELSE "done")
    /\ UNCHANGED <<n, arr, a, i, sig_safe_i, loop_end, promoted, up, job, sweep,
                   right, sum02, reused>>

\* The first part, up to t1.
ScanFirst ==
    /\ Goto("first", "sync")
    /\ arr' = Scanned(arr[i - 1], arr, i, t1)
    /\ UNCHANGED <<n, a, i, sig_safe_i, loop_end, promoted, up, job, sweep,
                   right, sum02, reused>>

\* `up.sync_is_stolen()`: it was not.
SyncUnstolen ==
    /\ Goto("sync", "rest")
    /\ job = "queued"
    /\ job' = "joined"
    /\ UNCHANGED <<n, arr, a, i, sig_safe_i, loop_end, promoted, up, sweep, right, sum02, reused>>

\* It was, but the allocation failed.
SyncNull ==
    /\ Goto("sync", "rest")
    /\ job = "finished" /\ ~live
    /\ job' = "joined"
    /\ UNCHANGED <<n, arr, a, i, sig_safe_i, loop_end, promoted, up, sweep, right, sum02, reused>>

\* It was, and there are partials: the two branches of a par.
SyncStolen ==
    /\ Goto("sync", "par")
    /\ job = "finished" /\ live
    /\ job' = "joined"
    /\ todo' = Chunks(t2 - t1)
    /\ right' = "read"
    /\ UNCHANGED <<n, arr, a, i, sig_safe_i, loop_end, promoted, up, partials, live, sum02,
                   reused>>

\* No partials: the rest in one scan.
ScanRest ==
    /\ Goto("rest", "done")
    /\ arr' = Scanned(arr[t1 - 1], arr, t1, n)
    /\ UNCHANGED <<n, a, i, sig_safe_i, loop_end, promoted, up, job, sweep,
                   right, sum02, reused>>

\* scan_downsweep, the left branch: a chunk.
ScanChunk ==
    /\ pc = "par"
    /\ \E chunk \in todo :
        LET pfx == IF chunk = 0 THEN arr[t1 - 1] ELSE Sum(arr[t1 - 1], partials[chunk - 1])
        IN  /\ todo' = todo \ {chunk}
            /\ arr' = Scanned(pfx, arr, t1 + Start(chunk, t2 - t1), t1 + End(chunk, t2 - t1))
    /\ UNCHANGED <<n, a, loop, up, job, partials, live, right, sum02, reused>>

\* `p_free(partials)`
FreePartials ==
    /\ pc = "par"
    /\ todo = {}
    /\ live
    /\ live' = FALSE
    /\ UNCHANGED <<n, arr, a, loop, up, job, partials, todo, right, sum02, reused>>

\* Storage that is freed may be somebody else's at once.
Reuse ==
    /\ right = "read" /\ ~live /\ ~reused
    /\ reused' = TRUE
    /\ partials' = [c \in DOMAIN partials |-> Wrong]
    /\ UNCHANGED <<n, arr, a, loop, up, job, live, todo, right, sum02>>

\* The right branch reads the last of the partials ...
ReadPartials ==
    /\ pc = "par"
    /\ right = "read"
    /\ right' = "scan"
    /\ sum02' = Sum(arr[t1 - 1], partials[(t2 - t1 - 1) \div scan_chunksize(t2 - t1)])
    /\ UNCHANGED <<n, arr, a, loop, up, job, sweep, reused>>

\* ... and scans the last part.  Not stolen, it runs after the left branch;
\* stolen, at the same time.
ScanLast ==
    /\ pc = "par"
    /\ right = "scan"
    /\ right' = "done"
    /\ arr' = Scanned(sum02, arr, t2, n)
    /\ UNCHANGED <<n, a, loop, up, job, sweep, sum02, reused>>

EndPar ==
    /\ Goto("par", "done")
    /\ ~live
    /\ right = "done"
    /\ UNCHANGED <<n, arr, a, i, sig_safe_i, loop_end, promoted, up, job, sweep,
                   right, sum02, reused>>

Done == pc = "done" /\ UNCHANGED vars

-----------------------------------------------------------------------------
Loop    == Check \/ Execute \/ Publish
Handler == Promote \/ PromoteNothing
Upsweep == SumChunk \/ EndUpsweep
Join    == Close \/ ScanFirst \/ SyncUnstolen \/ SyncNull \/ SyncStolen \/ ScanRest
Par     == ScanChunk \/ FreePartials \/ ReadPartials \/ ScanLast \/ EndPar

Next == Loop \/ Handler \/ Steal \/ Upsweep \/ Join \/ Par \/ Reuse \/ Done

Spec == Init /\ [][Next]_vars

-----------------------------------------------------------------------------
(* Properties.                                                             *)

Index == 0..(IDX_RANGE - 1)

Value == (0..IDX_RANGE) \X (-1..IDX_RANGE)

\* Every variable keeps its type: no index leaves the array.
TypeOK ==
    /\ n \in 0..MAX_N
    /\ arr \in [0..(n - 1) -> Value]
    /\ a \in Value /\ sum02 \in Value
    /\ pc \in {"check", "body", "store", "close", "first", "sync", "rest", "par", "done"}
    /\ i \in 0..n /\ sig_safe_i \in 0..n /\ loop_end \in 0..n
    /\ promoted \in BOOLEAN /\ live \in BOOLEAN /\ reused \in BOOLEAN
    /\ up.arr \in 0..n /\ up.arr + up.n \in 0..n
    /\ job \in {"none", "queued", "running", "finished", "joined"}
    /\ DOMAIN partials \subseteq Index
    /\ \A c \in DOMAIN partials : partials[c] \in Value
    /\ todo \subseteq Index
    /\ right \in {"none", "read", "scan", "done"}

\* Whatever is promoted when, stolen or taken back, allocated or not: each
\* element ends as the sum of the elements up to it, in their order.  But not if
\* the storage of the partials changes hands before the right branch reads it.
ResultIsPrefix ==
    pc = "done" /\ ~reused => \A k \in DOMAIN arr : arr[k] = <<0, k + 1>>

\* The handler computes the thirds from where it has the loop stop, the join
\* from where it did stop: the same, or the job's sums are not those of the
\* part that they are used for.
SplitFoundAgain ==
    pc \in {"first", "sync", "rest", "par"} => up = [arr |-> t1, n |-> t2 - t1]

\* In the end no job is left behind in the deque, and no storage.
LeavesNothingBehind == pc = "done" => job \in {"none", "joined"} /\ ~live

\* The handler's comment: it breaks the loop only if every third has work to do.
\* At the upper end of the index type it breaks loops with no third left.
SplitHasWork == job # "none" => i < up.arr /\ up.n > 0 /\ up.arr + up.n < n

\* The comment on the job's `arr`: after run() it stores the partials.  The
\* right branch reads them there, after the left branch has freed them.
PartialsKept == right = "read" => live

=============================================================================
