-------------------------- MODULE ParforLoopProofs --------------------------
(***************************************************************************)
(* Proofs about ParforLoop, for every index type, every factor and every   *)
(* set of step sequences the plugins may leave.                            *)
(*                                                                         *)
(* The inductive invariant adds to the type invariant where the loop's     *)
(* index stands between the published progress and loop_end (Between),     *)
(* that the two jobs take over exactly what the loop gave up (Shares), and *)
(* how far the accumulator has got (Folded).                               *)
(***************************************************************************)
EXTENDS ParforLoop, SequenceTheorems, TLAPS

Looping == {"guard", "check", "body", "store"}

\* Where the loop stands.  Between a look at loop_end and the step that
\* follows it the handler moves loop_end to FACTOR beyond the index at most.
Between ==
    /\ first <= sig_safe_i
    /\ sig_safe_i <= i
    /\ i <= loop_end
    /\ loop_end <= bound
    /\ pc = "store" => i <= sig_safe_i + FACTOR
    /\ pc # "store" => sig_safe_i = i
    /\ pc = "check" => loop_end = end \/ (loop_end < end /\ loop_end = i + FACTOR)
    /\ pc = "body" => i + steps[m] <= loop_end
    /\ pc \notin Looping => i = loop_end

Shares ==
    /\ \/ enqueued = {} /\ l = None /\ r = None /\ loop_end = bound
       \/ /\ promoted /\ enqueued = {"r"} /\ l = None
          /\ r.i = loop_end /\ r.j = bound /\ loop_end < bound
       \/ /\ promoted /\ enqueued = {"r", "l"}
          /\ l.i = loop_end /\ l.j = r.i /\ r.j = bound
          /\ loop_end < l.j /\ r.i < bound
    /\ pc \in {"join l", "join r"} => promoted
    /\ pc = "done" /\ ~promoted => loop_end = bound

\* The end of what the accumulator holds.
Extent == CASE pc = "join r" -> IF "l" \in enqueued THEN l.j ELSE loop_end
            [] pc = "done" -> bound
            [] OTHER -> i

Folded ==
    /\ a = Indices(first, Extent)
    /\ joined = CASE pc = "join r" -> enqueued \ {"r"}
                  [] pc = "done" -> enqueued
                  [] OTHER -> {}

Inv == TypeOK /\ Between /\ Shares /\ Folded

-----------------------------------------------------------------------------
\* Runs of indices that meet are a run.
LEMMA IndicesConcat ==
    ASSUME NEW x \in Int, NEW y \in Int, NEW z \in Int, x <= y, y <= z
    PROVE  Indices(x, y) \o Indices(y, z) = Indices(x, z)
<1> DEFINE s == Indices(x, y)
           t == Indices(y, z)
           u == Indices(x, z)
<1>1. s \in Seq(Int) /\ Len(s) = y - x /\ \A k \in 1..(y - x) : s[k] = x + k - 1
  BY DEF Indices
<1>2. t \in Seq(Int) /\ Len(t) = z - y /\ \A k \in 1..(z - y) : t[k] = y + k - 1
  BY DEF Indices
<1>3. u \in Seq(Int) /\ Len(u) = z - x /\ \A k \in 1..(z - x) : u[k] = x + k - 1
  BY DEF Indices
<1> HIDE DEF s, t, u
<1>4. /\ s \o t \in Seq(Int)
      /\ Len(s \o t) = Len(s) + Len(t)
      /\ \A k \in 1..(Len(s) + Len(t)) :
            (s \o t)[k] = IF k <= Len(s) THEN s[k] ELSE t[k - Len(s)]
  BY <1>1, <1>2, ConcatProperties
<1>5. Len(s \o t) = Len(u)
  BY <1>1, <1>2, <1>3, <1>4
<1>6. ASSUME NEW k \in 1..(z - x)
      PROVE  (s \o t)[k] = u[k]
  <2>1. (s \o t)[k] = IF k <= y - x THEN s[k] ELSE t[k - (y - x)]
    <3>1. k \in 1..(Len(s) + Len(t))
      BY <1>1, <1>2
    <3>2. (s \o t)[k] = IF k <= Len(s) THEN s[k] ELSE t[k - Len(s)]
      BY <1>4, <3>1
    <3>3. Len(s) = y - x
      BY <1>1
    <3> QED
      BY <3>2, <3>3, Zenon
  <2>2. CASE k <= y - x
    BY <2>1, <2>2, <1>1, <1>3
  <2>3. CASE k > y - x
    <3>1. k - (y - x) \in 1..(z - y)
      BY <2>3
    <3>2. t[k - (y - x)] = y + (k - (y - x)) - 1
      BY <3>1, <1>2
    <3>3. u[k] = x + k - 1
      BY <1>3
    <3>4. (s \o t)[k] = t[k - (y - x)]
      BY <2>1, <2>3
    <3>5. t[k - (y - x)] = x + k - 1
      BY <3>2
    <3> QED
      BY <3>3, <3>4, <3>5, Zenon
  <2>4. k <= y - x \/ k > y - x
    OBVIOUS
  <2> QED
    BY <2>2, <2>3, <2>4, Zenon
<1>7. s \o t = u
  <2>1. Len(s \o t) = z - x
    BY <1>3, <1>5
  <2> QED
    BY <2>1, <1>3, <1>4, <1>5, <1>6, SeqEqual, Zenon
<1> QED
  BY <1>7 DEF s, t, u

\* A run of indices within the index type is a sequence of indices.
LEMMA IndicesType ==
    ASSUME NEW x \in Index, NEW y \in Nat, x <= y, y <= IDX_RANGE
    PROVE  Indices(x, y) \in Seq(Index)
  BY ShapeAssumption DEF Indices, Index, Covers

\* A step is at least one iteration and at most FACTOR, the last exactly one.
LEMMA StepLength ==
    ASSUME TypeOK
    PROVE  /\ steps[m] \in Nat \ {0}
           /\ steps[m] <= FACTOR
           /\ m = Len(steps) => steps[m] = 1
           /\ Len(steps) \in Nat
  BY ShapeAssumption DEF TypeOK, Covers

-----------------------------------------------------------------------------
LEMMA InitInv == Init => Inv
<1> SUFFICES ASSUME Init PROVE Inv
  OBVIOUS
<1> USE ShapeAssumption DEF Init, Index, None, Covers
<1>1. TypeOK
  <2>1. Len(steps) \in Nat \ {0}
    BY EmptySeq
  <2>2. m \in 1..Len(steps)
    BY <2>1
  <2>3. first \in Index /\ bound \in Index /\ 0 \in Index
    OBVIOUS
  <2>4. l \in [i : Index, j : Index] /\ r \in [i : Index, j : Index]
    BY <2>3
  <2>5. a \in Seq(Index)
    BY EmptySeq
  <2>6. pc \in Pc /\ promoted \in BOOLEAN /\ enqueued \subseteq {"l", "r"}
        /\ joined \subseteq {"l", "r"}
    BY DEF Pc
  <2> QED
    BY <2>2, <2>3, <2>4, <2>5, <2>6 DEF TypeOK
<1>2. Between /\ Shares
  BY DEF Between, Shares, Looping
<1>3. Folded
  <2>1. Indices(first, first) = <<>>
    BY DEF Indices
  <2> QED
    BY <2>1 DEF Folded, Extent
<1> QED
  BY <1>1, <1>2, <1>3 DEF Inv

LEMMA NextInv == Inv /\ [Next]_vars => Inv'
<1> SUFFICES ASSUME Inv, [Next]_vars PROVE Inv'
  OBVIOUS
<1> USE DEF Inv
<1>0. /\ steps[m] \in Nat \ {0}
      /\ steps[m] <= FACTOR
      /\ m = Len(steps) => steps[m] = 1
      /\ FACTOR \in Nat /\ IDX_RANGE \in Nat
  BY StepLength, ShapeAssumption DEF Covers
<1>1. CASE LoadEnd
  BY <1>1 DEF LoadEnd, Goto, arg, jobs, TypeOK, Pc, Between, Looping, Shares, Folded, Extent
<1>2. CASE Enter
  <2>1. TypeOK'
    BY <1>2 DEF Enter, Goto, arg, loop, jobs, TypeOK, Pc
  <2>2. i + steps[m] <= loop_end
    BY <1>0, <1>2 DEF Enter, Goto, Fits, Between, TypeOK, Index
  <2>3. Between'
    BY <1>2, <2>2 DEF Enter, Goto, arg, loop, jobs, Between, Looping
  <2>4. Shares' /\ Folded'
    BY <1>2 DEF Enter, Goto, arg, loop, jobs, Shares, Folded, Extent
  <2> QED
    BY <2>1, <2>3, <2>4
<1>3. CASE Leave
  <2>1. TypeOK'
    BY <1>3 DEF Leave, Goto, arg, jobs, TypeOK, Pc
  <2>2. Between' /\ Shares' /\ Folded'
    BY <1>3 DEF Leave, Goto, arg, jobs, Between, Looping, Shares, Folded, Extent
  <2> QED
    BY <2>1, <2>2
<1>4. CASE Bypass
  <2>1. TypeOK'
    BY <1>4 DEF Bypass, Goto, arg, jobs, TypeOK, Pc
  <2>2. Between' /\ Shares' /\ Folded'
    BY <1>4 DEF Bypass, Goto, arg, jobs, Between, Looping, Shares, Folded, Extent
  <2> QED
    BY <2>1, <2>2
<1>5. CASE Finish
  <2>1. TypeOK'
    BY <1>5 DEF Finish, Goto, arg, loop, jobs, TypeOK, Pc
  <2>2. i = loop_end
    BY <1>0, <1>5 DEF Finish, Goto, Fits, Between, TypeOK, Index
  <2>3. Between'
    BY <1>5, <2>2 DEF Finish, Goto, arg, loop, jobs, Between, Looping
  <2>4. Shares' /\ Folded'
    BY <1>5 DEF Finish, Goto, arg, loop, jobs, Shares, Folded, Extent
  <2> QED
    BY <2>1, <2>3, <2>4
<1>6. CASE Execute
  <2>1. /\ i + steps[m] <= loop_end
        /\ i + steps[m] \in Index
        /\ i <= i + steps[m]
    BY <1>0, <1>6 DEF Execute, Goto, Between, TypeOK, Index
  <2>2. a' = Indices(first, i')
    <3>1. a' = Indices(first, i) \o Indices(i, i + steps[m])
      BY <1>6 DEF Execute, Goto, Folded, Extent
    <3>2. first \in Int /\ i \in Int /\ i + steps[m] \in Int /\ first <= i
      BY <2>1 DEF TypeOK, Index, Between
    <3>3. a' = Indices(first, i + steps[m])
      BY <3>1, <3>2, <2>1, IndicesConcat
    <3> QED
      BY <3>3, <1>6 DEF Execute
  <2>3. a' \in Seq(Index)
    <3>1. /\ first \in Index /\ i + steps[m] \in Nat
          /\ first <= i + steps[m] /\ i + steps[m] <= IDX_RANGE
      BY <1>0, <2>1 DEF TypeOK, Index, Between
    <3> QED
      BY <3>1, <2>2, <1>6, IndicesType DEF Execute
  <2>4. TypeOK'
    BY <1>6, <2>1, <2>3 DEF Execute, Goto, arg, jobs, TypeOK, Pc
  <2>5. Between'
    BY <1>0, <1>6, <2>1 DEF Execute, Goto, arg, jobs, Between, Looping, TypeOK, Index
  <2>6. Shares' /\ Folded'
    BY <1>6, <2>2 DEF Execute, Goto, arg, jobs, Shares, Folded, Extent
  <2> QED
    BY <2>4, <2>5, <2>6
<1>7. CASE Publish
  <2>1. TypeOK'
    BY <1>7 DEF Publish, Goto, arg, jobs, TypeOK, Pc
  <2>2. Between'
    BY <1>7 DEF Publish, Goto, arg, jobs, Between, Looping, TypeOK, Index
  <2>3. Shares' /\ Folded'
    BY <1>7 DEF Publish, Goto, arg, jobs, Shares, Folded, Extent
  <2> QED
    BY <2>1, <2>2, <2>3
<1>8. CASE Close
  <2>1. TypeOK' /\ Between'
    BY <1>8 DEF Close, Goto, arg, loop, jobs, TypeOK, Pc, Between, Looping
  <2>2. Shares'
    BY <1>8 DEF Close, Goto, arg, loop, jobs, Shares
  <2>3. Folded'
    BY <1>8 DEF Close, Goto, arg, loop, jobs, Folded, Extent, Shares, Between, Looping
  <2> QED
    BY <2>1, <2>2, <2>3
<1>9. CASE PromoteNothing
  <2>1. TypeOK'
    BY <1>9, ShapeAssumption DEF Covers, PromoteNothing, arg, loop, TypeOK, None, Index
  <2>2. Between'
    BY <1>9 DEF PromoteNothing, arg, loop, Between, Looping
  <2>3. Shares' /\ Folded'
    BY <1>9 DEF PromoteNothing, Promotable, arg, loop, Shares, Folded, Extent
  <2> QED
    BY <2>1, <2>2, <2>3
<1>10. CASE PromoteSplit
  <2> DEFINE prom_i == sig_safe_i + FACTOR
             mid    == midpoint(prom_i, loop_end)
  <2>1. /\ prom_i \in Index /\ mid \in Index
        /\ prom_i <= mid /\ mid < loop_end
        /\ loop_end = bound /\ enqueued = {}
        /\ i <= prom_i
    <3>1. /\ loop_end \in Index /\ sig_safe_i \in Nat /\ FACTOR \in Nat
          /\ sig_safe_i + FACTOR < loop_end
      BY <1>0, <1>10 DEF PromoteSplit, TooFewLeft, TypeOK, Index
    <3>2. prom_i \in Nat /\ prom_i < loop_end
      BY <3>1
    <3>3. mid \in Nat /\ prom_i <= mid /\ mid < loop_end
      BY <3>1, <3>2 DEF midpoint, Index
    <3>4. prom_i \in Index /\ mid \in Index
      BY <1>0, <3>1, <3>2, <3>3 DEF Index
    <3>5. loop_end = bound /\ enqueued = {}
      BY <1>10 DEF PromoteSplit, Promotable, Shares
    <3>6. i <= prom_i
      BY <1>0, <1>10 DEF PromoteSplit, Promotable, TypeOK, Index, Between
    <3> QED
      BY <3>3, <3>4, <3>5, <3>6
  <2>2. /\ promoted' = TRUE /\ loop_end' = prom_i
        /\ r' = [i |-> mid, j |-> bound]
        /\ l' = IF prom_i >= mid THEN None ELSE [i |-> prom_i, j |-> mid]
        /\ enqueued' = IF prom_i >= mid THEN {"r"} ELSE {"r", "l"}
        /\ UNCHANGED <<arg, pc, loop, joined, a>>
        /\ pc \in {"guard", "check", "body", "store", "close"}
        /\ ~TooFewLeft
    BY <1>10 DEF PromoteSplit, Promotable
  <2> HIDE DEF prom_i, mid
  <2>3. TypeOK'
    BY <2>1, <2>2, <1>0 DEF arg, loop, TypeOK, None, Index
  <2>4. Between'
    BY <2>1, <2>2, <1>0 DEF prom_i, arg, loop, Between, Looping, TooFewLeft, TypeOK, Index
  <2>5. Shares'
    <3>1. bound' = bound /\ r'.i = mid /\ r'.j = bound /\ pc' = pc
      BY <2>2 DEF arg
    <3>2. prom_i \in Int /\ mid \in Int /\ bound \in Int /\ mid < bound
      BY <2>1 DEF TypeOK, Index
    <3>3. CASE prom_i >= mid
      <4>1. prom_i = mid
        BY <2>1, <3>2, <3>3
      <4> QED
        BY <2>2, <3>1, <3>2, <3>3, <4>1 DEF Shares
    <3>4. CASE ~(prom_i >= mid)
      <4>1. l'.i = prom_i /\ l'.j = mid /\ prom_i < mid
        BY <2>2, <3>2, <3>4
      <4> QED
        BY <2>2, <3>1, <3>2, <3>4, <4>1 DEF Shares
    <3> QED
      BY <3>3, <3>4
  <2>6. Folded'
    BY <2>2 DEF arg, loop, Folded, Extent
  <2> QED
    BY <2>3, <2>4, <2>5, <2>6
<1>11. CASE JoinLeft
  <2>1. /\ pc = "join l" /\ pc' = "join r"
        /\ a' = IF l.i < l.j THEN a \o Indices(l.i, l.j) ELSE a
        /\ joined' = IF l.i < l.j THEN joined \cup {"l"} ELSE joined
        /\ UNCHANGED <<arg, loop, jobs>>
    BY <1>11 DEF JoinLeft, Join, Goto
  <2>2. a = Indices(first, i) /\ joined = {} /\ i = loop_end
    BY <2>1 DEF Folded, Extent, Between, Looping
  <2>3. Between'
    BY <2>1 DEF arg, loop, jobs, Between, Looping
  <2>4. Shares'
    <3>1. promoted
      BY <2>1 DEF Shares
    <3>2. UNCHANGED <<enqueued, l, r, loop_end, bound, promoted>>
      BY <2>1 DEF arg, jobs
    <3> QED
      BY <2>1, <3>1, <3>2 DEF Shares
  <2>5. Folded' /\ a' \in Seq(Index)
    <3>1. CASE "l" \in enqueued
      <4>1. l.i = i /\ l.i < l.j /\ first <= i /\ enqueued = {"r", "l"}
        <5>1. enqueued # {} /\ enqueued # {"r"}
          BY <3>1
        <5>2. enqueued = {"r", "l"} /\ l.i = loop_end /\ loop_end < l.j
          BY <5>1 DEF Shares
        <5>3. first <= i
          BY DEF Between, TypeOK, Index
        <5> QED
          BY <2>2, <5>2, <5>3
      <4>2. first \in Index /\ i \in Index /\ l.j \in Index
        BY DEF TypeOK
      <4>3. a' = Indices(first, l.j)
        <5>1. a' = Indices(first, i) \o Indices(i, l.j)
          BY <2>1, <2>2, <4>1
        <5>2. first \in Int /\ i \in Int /\ l.j \in Int /\ i <= l.j
          BY <4>1, <4>2 DEF Index
        <5> QED
          BY <4>1, <5>1, <5>2, IndicesConcat
      <4>4. a' \in Seq(Index)
        BY <4>1, <4>2, <4>3, IndicesType, <1>0 DEF Index
      <4>5. joined' = {"l"}
        BY <2>1, <2>2, <4>1
      <4> QED
        BY <2>1, <3>1, <4>1, <4>3, <4>4, <4>5 DEF arg, jobs, Folded, Extent
    <3>2. CASE "l" \notin enqueued
      <4>1. l = None /\ enqueued \subseteq {"r"}
        BY <3>2 DEF Shares
      <4>2. ~(l.i < l.j)
        BY <4>1 DEF None
      <4>3. a' = a /\ joined' = {}
        BY <2>1, <2>2, <4>2
      <4> QED
        BY <2>1, <2>2, <3>2, <4>3, <4>1, <4>2 DEF arg, jobs, Folded, Extent, TypeOK
    <3> QED
      BY <3>1, <3>2
  <2>6. TypeOK'
    BY <2>1, <2>5 DEF arg, loop, jobs, TypeOK, Pc
  <2> QED
    BY <2>3, <2>4, <2>5, <2>6
<1>12. CASE JoinRight
  <2>1. /\ pc = "join r" /\ pc' = "done"
        /\ a' = IF r.i < r.j THEN a \o Indices(r.i, r.j) ELSE a
        /\ joined' = IF r.i < r.j THEN joined \cup {"r"} ELSE joined
        /\ UNCHANGED <<arg, loop, jobs>>
    BY <1>12 DEF JoinRight, Join, Goto
  <2>2. /\ a = Indices(first, IF "l" \in enqueued THEN l.j ELSE loop_end)
        /\ joined = enqueued \ {"r"}
        /\ i = loop_end /\ promoted
    BY <2>1 DEF Folded, Extent, Between, Looping, Shares
  <2>3. Between'
    BY <2>1 DEF arg, loop, jobs, Between, Looping
  <2>4. Shares'
    BY <2>1, <2>2 DEF arg, loop, jobs, Shares
  <2>5. Folded' /\ a' \in Seq(Index)
    <3>1. CASE "r" \in enqueued
      <4>1. /\ r.i = IF "l" \in enqueued THEN l.j ELSE loop_end
            /\ r.j = bound /\ r.i < r.j /\ first <= r.i
        BY <2>2, <3>1 DEF Shares, Between, TypeOK, Index
      <4>2. first \in Index /\ r.i \in Index /\ r.j \in Index
        BY DEF TypeOK
      <4>3. a' = Indices(first, bound)
        <5>1. a' = Indices(first, r.i) \o Indices(r.i, bound)
          BY <2>1, <2>2, <4>1
        <5>2. first \in Int /\ r.i \in Int /\ bound \in Int /\ r.i <= bound
          BY <4>1, <4>2 DEF Index
        <5> QED
          BY <4>1, <5>1, <5>2, IndicesConcat
      <4>4. a' \in Seq(Index)
        <5>1. first \in Index /\ bound \in Nat /\ first <= bound /\ bound <= IDX_RANGE
          BY <4>1, <4>2, <1>0 DEF Index
        <5> QED
          BY <4>3, <5>1, IndicesType
      <4>5. joined' = enqueued
        BY <2>1, <2>2, <3>1, <4>1
      <4> QED
        BY <2>1, <4>3, <4>4, <4>5 DEF arg, jobs, Folded, Extent
    <3>2. CASE "r" \notin enqueued
      <4>1. r = None /\ enqueued = {} /\ loop_end = bound
        BY <3>2 DEF Shares
      <4>2. ~(r.i < r.j)
        BY <4>1 DEF None
      <4>3. a' = a /\ joined' = {}
        BY <2>1, <2>2, <4>1, <4>2
      <4> QED
        BY <2>1, <2>2, <4>1, <4>3 DEF arg, jobs, Folded, Extent, TypeOK
    <3> QED
      BY <3>1, <3>2
  <2>6. TypeOK'
    BY <2>1, <2>5 DEF arg, loop, jobs, TypeOK, Pc
  <2> QED
    BY <2>3, <2>4, <2>5, <2>6
<1>13. CASE Done
  BY <1>13 DEF Done, vars, arg, loop, jobs, TypeOK, Between, Looping, Shares, Folded, Extent
<1>14. CASE UNCHANGED vars
  BY <1>14 DEF vars, arg, loop, jobs, TypeOK, Between, Looping, Shares, Folded, Extent
<1> QED
  BY <1>1, <1>2, <1>3, <1>4, <1>5, <1>6, <1>7, <1>8, <1>9, <1>10, <1>11, <1>12, <1>13,
     <1>14 DEF Next, Run, Promote

-----------------------------------------------------------------------------
\* No index of the loop, of its handler or of its jobs ever leaves the index
\* type, whatever the range.
THEOREM TypeCorrect == Spec => []TypeOK
<1>1. Inv => TypeOK
  BY DEF Inv
<1> QED
  BY InitInv, NextInv, <1>1, PTL DEF Spec

\* A step the loop has checked is never cut short by the handler.
THEOREM StepsFit == Spec => []CommittedStepFits
<1>1. Inv => CommittedStepFits
  BY DEF Inv, Between, CommittedStepFits
<1> QED
  BY InitInv, NextInv, <1>1, PTL DEF Spec

\* parfor_ folds every index of its range once and in order, wherever the
\* heartbeat interrupts it and however long its steps are.
THEOREM Sequential == Spec => []ResultIsSequential
<1>1. Inv => ResultIsSequential
  BY DEF Inv, Folded, Extent, ResultIsSequential
<1> QED
  BY InitInv, NextInv, <1>1, PTL DEF Spec

\* parfor_ joins exactly the jobs its handler has enqueued.
THEOREM JoinsMatch == Spec => []JoinsWhatItEnqueued
<1>1. Inv => JoinsWhatItEnqueued
  BY DEF Inv, Folded, JoinsWhatItEnqueued
<1> QED
  BY InitInv, NextInv, <1>1, PTL DEF Spec

=============================================================================
