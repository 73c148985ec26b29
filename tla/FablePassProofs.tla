-------------------------- MODULE FablePassProofs --------------------------
(***************************************************************************)
(* Proofs about FablePass, for every module of markers and queries and     *)
(* every set of probes that LLVM may leave.                                *)
(*                                                                         *)
(* The invariant says which loops of the site under way have been planned  *)
(* (Planned) and transformed (Transformed), and that the sites on record   *)
(* are done with (OnRecord).                                               *)
(***************************************************************************)
EXTENDS FablePass, WellFoundedInduction, TLAPS

-----------------------------------------------------------------------------
(* Sets of natural numbers.                                                *)

Smaller == {p \in Nat \X Nat : p[1] < p[2]}

LEMMA SmallerWellFounded == IsWellFoundedOn(Smaller, Nat)
<1>1. OpToRel(<, Nat) = Smaller
  BY Zenon DEF OpToRel, Smaller
<1> QED
  BY <1>1, NatLessThanWellFounded, Zenon

\* A set of natural numbers has a least element.
LEMMA NatLeast ==
    ASSUME NEW S, S \subseteq Nat, S # {}
    PROVE  \E x \in S : \A y \in S : x <= y
<1>1. PICK x \in S : \A y \in S : <<y, x>> \notin Smaller
  BY SmallerWellFounded, WFMin, Zenon
<1>2. ASSUME NEW y \in S PROVE x <= y
  <2>1. <<y, x>> \in Nat \X Nat => y >= x
    BY <1>1 DEF Smaller
  <2> QED
    BY <2>1
<1> QED
  BY <1>2

\* The values that a function takes at 1 to n have a greatest one.
LEMMA RangeGreatest ==
    ASSUME NEW n \in Nat \ {0}, NEW f, \A k \in 1..n : f[k] \in Nat
    PROVE  \E j \in 1..n : \A k \in 1..n : f[k] <= f[j]
<1> DEFINE Has(m) == \E j \in 1..n : \A k \in 1..m : f[k] <= f[j]
           S == {m \in 1..n : ~Has(m)}
<1>1. SUFFICES ASSUME S # {} PROVE FALSE
  OBVIOUS
<1>2. PICK m \in S : \A y \in S : m <= y
  <2>1. S \subseteq Nat
    OBVIOUS
  <2> HIDE DEF S
  <2> QED
    BY <1>1, <2>1, NatLeast
<1>3. m \in 1..n /\ ~Has(m) /\ f[m] \in Nat
  OBVIOUS
<1>4. CASE m = 1
  <2>1. \A k \in 1..m : f[k] <= f[m]
    BY <1>3, <1>4
  <2> QED
    BY <1>3, <2>1
<1>5. CASE m # 1
  <2>1. m - 1 \in 1..n /\ m - 1 \notin S
    <3>1. m - 1 \in 1..n /\ ~(m <= m - 1)
      BY <1>3, <1>5
    <3> HIDE DEF S
    <3> QED
      BY <1>2, <3>1
  <2>2. PICK j \in 1..n : \A k \in 1..(m - 1) : f[k] <= f[j]
    BY <2>1
  <2>3. CASE f[m] <= f[j]
    <3>1. \A k \in 1..m : f[k] <= f[j]
      BY <1>3, <2>2, <2>3
    <3> QED
      BY <1>3, <3>1
  <2>4. CASE f[j] <= f[m]
    <3>1. \A k \in 1..m : f[k] <= f[m]
      BY <1>3, <2>2, <2>4
    <3> QED
      BY <1>3, <3>1
  <2> QED
    BY <1>3, <2>2, <2>3, <2>4
<1> QED
  BY <1>4, <1>5

-----------------------------------------------------------------------------
(* The invariant.                                                          *)


\* f is right for a loop of these steps, and its longest step is that long.
Exact(steps, f) == Covers(steps, f) /\ \E k \in DOMAIN steps : steps[k] = f

Deciding == pc \in {"marker", "loop", "transform", "end"}

Control ==
    /\ Deciding => token \in Sites \ DOMAIN SiteFactors
    /\ pc \in {"marker", "loop", "transform"} => ok
    /\ DOMAIN SiteFactors \subseteq Sites
    /\ pc \in {"queries", "done"} => Sites \subseteq DOMAIN SiteFactors
    /\ marks = IF pc \in {"queries", "done"} THEN {}
               ELSE {m \in Marker : site[m] \notin DOMAIN SiteFactors}
    /\ pc = "done" => DOMAIN published = Query

\* The loops found from markers of the site that have been looked at.
Seen == {l \in LoopsOf(token) : l[1] \notin pending}

Planned ==
    /\ pc \in {"marker", "loop"} =>
          /\ pending \subseteq MarkersOf(token)
          /\ \A m \in MarkersOf(token) \ pending : found[m] > 0
    /\ pc = "marker" => DOMAIN plans = Seen
    /\ pc = "loop" => copies \subseteq Seen /\ DOMAIN plans = Seen \ copies
    /\ Deciding => \A l \in DOMAIN plans :
          plans[l] \in MayProbe /\ Probed(plans[l]) = batch /\ batch >= 2

Transformed ==
    /\ pc = "transform" =>
          /\ DOMAIN plans = LoopsOf(token) /\ LoopsOf(token) # {}
          /\ planned \subseteq LoopsOf(token)
          /\ \A l \in LoopsOf(token) \ planned : Exact(shape[l], batch)
          /\ \A l \in planned : shape[l] = Plain
    /\ pc = "end" /\ ok => batch >= 2 /\ \A l \in LoopsOf(token) : Exact(shape[l], batch)

\* Loops of sites that have not been transformed are as they were.
Untouched ==
    \A l \in Loop :
        /\ site[l[1]] \notin DOMAIN SiteFactors
        /\ ~(site[l[1]] = token /\ (pc = "transform" \/ (pc = "end" /\ ok)))
        => shape[l] = Plain

OnRecord == \A t \in DOMAIN SiteFactors : \A l \in LoopsOf(t) : Exact(shape[l], SiteFactors[t])

Answered ==
    \A q \in DOMAIN published :
        pc \in {"queries", "done"} /\ published[q] = FactorFor(asks[q])

\* A probe in the module is called, or its loop is being decided on.
Scratch == scratch \subseteq called \cup (IF Deciding THEN DOMAIN plans ELSE {})

Inv == /\ TypeOK /\ Control /\ Planned /\ Transformed /\ Untouched /\ OnRecord /\ Answered
       /\ Scratch

-----------------------------------------------------------------------------
(* Probes.                                                                 *)

LEMMA MaxIs ==
    ASSUME NEW S, S \subseteq Nat, NEW m \in S, \A x \in S : x <= m
    PROVE  Max(S) = m
<1>1. \A x \in S : m >= x
  OBVIOUS
<1>2. \A n \in S : (\A x \in S : n >= x) => n = m
  <2> SUFFICES ASSUME NEW n \in S, n >= m PROVE n = m
    OBVIOUS
  <2> QED
    BY m >= n
<1> QED
  BY <1>1, <1>2 DEF Max

LEMMA SlowestStepIs ==
    ASSUME NEW pl \in ProbeLoop
    PROVE  /\ SlowestStep(pl) \in Nat \ {0}
           /\ pl.others = <<>> => SlowestStep(pl) = pl.trip
<1> DEFINE S == Range(Inductions(pl))
<1>1. pl.trip \in Nat \ {0} /\ pl.others \in Seq(Nat \ {0})
  BY DEF ProbeLoop
<1>2. Inductions(pl) \in Seq(Nat \ {0}) /\ Len(Inductions(pl)) = 1 + Len(pl.others)
      /\ Inductions(pl)[1] = pl.trip
  BY <1>1 DEF Inductions
<1>3. S \subseteq Nat \ {0} /\ pl.trip \in S
  BY <1>1, <1>2 DEF Range
<1>4. PICK m \in S : \A x \in S : m <= x
  BY <1>3, NatLeast
<1>5. SlowestStep(pl) = Min(S)
  BY DEF SlowestStep
<1>6. Min(S) \in S /\ \A x \in S : Min(S) <= x
  <2> HIDE DEF S
  <2> QED
    BY <1>4 DEF Min
<1>7. pl.others = <<>> => S = {pl.trip}
  BY <1>1, <1>2 DEF Range
<1> QED
  BY <1>3, <1>5, <1>6, <1>7

\* The loop with the largest step.
LEMMA LargestStep ==
    ASSUME NEW probe \in Probes, probe.loops # <<>>
    PROVE  \E j \in DOMAIN probe.loops : \A k \in DOMAIN probe.loops :
              SlowestStep(probe.loops[k]) <= SlowestStep(probe.loops[j])
<1> DEFINE n == Len(probe.loops)
           f == [k \in 1..n |-> SlowestStep(probe.loops[k])]
<1>1. probe.loops \in Seq(ProbeLoop)
  BY ProbesAssumption
<1>2. n \in Nat \ {0} /\ DOMAIN probe.loops = 1..n
  BY <1>1
<1>3. \A k \in 1..n : f[k] = SlowestStep(probe.loops[k]) /\ f[k] \in Nat
  BY <1>1, <1>2, SlowestStepIs
<1>4. PICK j \in 1..n : \A k \in 1..n : f[k] <= f[j]
  <2> HIDE DEF f, n
  <2> QED
    BY <1>2, <1>3, RangeGreatest
<1> QED
  BY <1>2, <1>3, <1>4

\* The batch is no smaller than any step that LLVM made, unless it is 1.
LEMMA BatchIs ==
    ASSUME NEW probe \in Probes \cup {NoProbe}
    PROVE  /\ Batch(probe) \in Nat
           /\ Batch(probe) >= 2 =>
                /\ probe # NoProbe
                /\ \A k \in DOMAIN probe.loops : SlowestStep(probe.loops[k]) <= Batch(probe)
                /\ \E k \in DOMAIN probe.loops : SlowestStep(probe.loops[k]) = Batch(probe)
<1>1. CASE probe = NoProbe
  BY <1>1 DEF Batch
<1>2. CASE probe # NoProbe
  <2> DEFINE S == {1} \cup {SlowestStep(probe.loops[k]) : k \in DOMAIN probe.loops}
  <2>1. probe \in Probes /\ probe.loops \in Seq(ProbeLoop)
    BY <1>2, ProbesAssumption
  <2>2. \A k \in DOMAIN probe.loops : SlowestStep(probe.loops[k]) \in Nat \ {0}
    BY <2>1, SlowestStepIs
  <2>3. S \subseteq Nat /\ \A k \in DOMAIN probe.loops : SlowestStep(probe.loops[k]) \in S
    BY <2>2
  <2>4. PICK m \in S : /\ \A x \in S : x <= m
                       /\ m # 1 => \E k \in DOMAIN probe.loops : SlowestStep(probe.loops[k]) = m
    <3>1. CASE probe.loops = <<>>
      BY <3>1
    <3>2. CASE probe.loops # <<>>
      <4>1. PICK j \in DOMAIN probe.loops : \A k \in DOMAIN probe.loops :
                SlowestStep(probe.loops[k]) <= SlowestStep(probe.loops[j])
        BY <2>1, <3>2, LargestStep
      <4>2. \A x \in S : x <= SlowestStep(probe.loops[j])
        BY <2>2, <4>1
      <4> QED
        BY <4>1, <4>2
    <3> QED
      BY <3>1, <3>2
  <2>5. Max(S) = m
    <3> HIDE DEF S
    <3> QED
      BY <2>3, <2>4, MaxIs
  <2>6. Batch(probe) = IF m > SporkMaxBatch THEN 1 ELSE m
    BY <1>2, <2>5 DEF Batch
  <2>7. m \in Nat
    <3> HIDE DEF S
    <3> QED
      BY <2>3
  <2>8. \A k \in DOMAIN probe.loops : SlowestStep(probe.loops[k]) <= m
    <3> HIDE DEF S
    <3> QED
      BY <2>3, <2>4
  <2>9. m # 1 => \E k \in DOMAIN probe.loops : SlowestStep(probe.loops[k]) = m
    BY <2>4
  <2> HIDE DEF S
  <2>10. CASE m > SporkMaxBatch
    BY <2>6, <2>10
  <2>11. CASE ~(m > SporkMaxBatch)
    BY <1>2, <2>6, <2>7, <2>8, <2>9, <2>11
  <2> QED
    BY <2>10, <2>11
<1> QED
  BY <1>1, <1>2

LEMMA ProbedType ==
    ASSUME TypeOK, NEW probe \in MayProbe
    PROVE  Probed(probe) \in Nat
BY BatchIs, BoundsAssumption DEF Probed, MayProbe, TypeOK

\* A probe that is transplanted has exactly the steps its batch was measured by.
LEMMA TransplantExact ==
    ASSUME NEW probe \in Probes, CanTransplant(probe), Batch(probe) >= 2
    PROVE  Steps(probe) \in Seq(Nat) /\ Exact(Steps(probe), Batch(probe))
<1> DEFINE s == Steps(probe)
<1>1. probe.loops \in Seq(ProbeLoop) /\ probe.loops # <<>>
  BY ProbesAssumption DEF CanTransplant
<1>2. \A k \in DOMAIN probe.loops :
        /\ probe.loops[k] \in ProbeLoop /\ probe.loops[k].others = <<>>
        /\ probe.loops[k].trip \in Nat \ {0}
  <2> SUFFICES ASSUME NEW k \in DOMAIN probe.loops
               PROVE  /\ probe.loops[k] \in ProbeLoop /\ probe.loops[k].others = <<>>
                      /\ probe.loops[k].trip \in Nat \ {0}
    OBVIOUS
  <2>1. probe.loops[k] \in ProbeLoop
    BY <1>1
  <2>2. probe.loops[k].trip \in Nat \ {0}
    BY <2>1 DEF ProbeLoop
  <2>3. probe.loops[k].others = <<>>
    BY DEF CanTransplant, matchStepLoop
  <2> QED
    BY <2>1, <2>2, <2>3
<1>3. \A k \in DOMAIN probe.loops : SlowestStep(probe.loops[k]) = probe.loops[k].trip
  BY <1>2, SlowestStepIs
<1>4. /\ s \in Seq(Nat \ {0}) /\ s \in Seq(Nat) /\ s # <<>>
      /\ DOMAIN s = DOMAIN probe.loops
      /\ \A k \in DOMAIN s : s[k] = probe.loops[k].trip
  BY <1>1, <1>2 DEF Steps
<1>5. s[Len(s)] = 1
  <2>1. \A k \in DOMAIN probe.loops : WholeTrips(probe.loops[k])
    BY DEF CanTransplant, matchStepLoop, WholeTrips
  <2> QED
    BY <1>1, <2>1, ProbesAssumption DEF Last
<1>6. /\ \A k \in DOMAIN s : s[k] <= Batch(probe)
      /\ \E k \in DOMAIN s : s[k] = Batch(probe)
  BY <1>3, <1>4, BatchIs
<1> HIDE DEF s
<1>7. Exact(s, Batch(probe))
  BY <1>4, <1>5, <1>6 DEF Exact, Covers
<1> QED
  BY <1>4, <1>7 DEF s

\* Batches with the untouched loop behind them.
LEMMA BatchedExact ==
    ASSUME NEW b \in Nat, b >= 2
    PROVE  <<b, 1>> \in Seq(Nat) /\ Exact(<<b, 1>>, b)
<1>1. <<b, 1>> \in Seq(Nat \ {0}) /\ <<b, 1>> \in Seq(Nat) /\ Len(<<b, 1>>) = 2
      /\ <<b, 1>>[1] = b /\ <<b, 1>>[2] = 1 /\ DOMAIN <<b, 1>> = 1..2
  OBVIOUS
<1> QED
  BY <1>1 DEF Exact, Covers

LEMMA PlainExact == Plain \in Seq(Nat) /\ Exact(Plain, 1)
<1>1. /\ Plain \in Seq(Nat \ {0}) /\ Plain \in Seq(Nat)
      /\ Len(Plain) = 1 /\ Plain[1] = 1 /\ DOMAIN Plain = {1} /\ Plain # <<>>
  BY DEF Plain
<1>2. Covers(Plain, 1)
  BY <1>1 DEF Covers
<1> QED
  BY <1>1, <1>2 DEF Exact

-----------------------------------------------------------------------------
(* The invariant.                                                          *)

LEMMA InitInv == Init => Inv
<1> SUFFICES ASSUME Init PROVE Inv
  OBVIOUS
<1>1. /\ plans = <<>> /\ SiteFactors = <<>> /\ published = <<>>
      /\ DOMAIN plans = {} /\ DOMAIN SiteFactors = {} /\ DOMAIN published = {}
  BY DEF Init
<1>2. Range(plans) = {} /\ Range(SiteFactors) = {} /\ Range(published) = {}
  BY <1>1 DEF Range
<1>3. shape \in [Loop -> Seq(Nat)] /\ \A l \in Loop : shape[l] = Plain
  BY PlainExact DEF Init
<1>4. TypeOK
  BY <1>1, <1>2, <1>3 DEF Init, TypeOK, Pc
<1>5. Control /\ Planned /\ Transformed
  BY <1>1 DEF Init, Control, Planned, Transformed, Deciding
<1>6. Untouched /\ OnRecord /\ Answered /\ Scratch
  BY <1>1, <1>3 DEF Init, Untouched, OnRecord, Answered, Scratch
<1> QED
  BY <1>4, <1>5, <1>6 DEF Inv

LEMMA BeginSiteInv == ASSUME Inv, BeginSite PROVE Inv'
<1>1. PICK t \in Sites \ DOMAIN SiteFactors : token' = t /\ pending' = MarkersOf(t)
  BY DEF BeginSite
<1>2. /\ pc = "site" /\ pc' = "marker" /\ batch' = 0 /\ ok' = TRUE
      /\ plans' = <<>> /\ DOMAIN plans' = {} /\ Range(plans') = {}
      /\ UNCHANGED <<SporkForceBatch, site, asks, found, copies, slot, scratch, planned,
                     called, shape, SiteFactors, marks, published>>
  BY DEF BeginSite, input, out, Range
<1>3. t \in Token /\ MarkersOf(t) \subseteq Marker
  BY <1>1 DEF Sites, Range, MarkersOf, Inv, TypeOK
<1>4. TypeOK'
  BY <1>1, <1>2, <1>3 DEF Inv, TypeOK, Pc
<1>5. Control'
  BY <1>1, <1>2 DEF Inv, Control, Deciding, Sites
<1>6. Planned'
  <2>1. \A l \in LoopsOf(t) : l[1] \in MarkersOf(t)
    BY DEF LoopsOf, MarkersOf, Loop
  <2> QED
    BY <1>1, <1>2, <2>1 DEF Planned, Deciding, Seen, LoopsOf, MarkersOf
<1>7. Transformed' /\ Untouched' /\ OnRecord' /\ Answered' /\ Scratch'
  BY <1>2 DEF Inv, Transformed, Untouched, OnRecord, LoopsOf, Answered, Scratch, Deciding
<1> QED
  BY <1>4, <1>5, <1>6, <1>7 DEF Inv

LEMMA RejectInv ==
    ASSUME Inv, RejectMarker \/ RejectLoop \/ RejectBatch
    PROVE  Inv'
<1>1. /\ pc \in {"marker", "loop"} /\ pc' = "end" /\ ok' = FALSE
      /\ UNCHANGED <<SporkForceBatch, site, asks, found, token, pending, copies, slot, batch,
                     plans, scratch, planned, called, shape, SiteFactors, marks, published>>
  BY DEF RejectMarker, RejectLoop, RejectBatch, input, out
<1>2. TypeOK' /\ Control'
  BY <1>1 DEF Inv, TypeOK, Pc, Control, Deciding, Sites
<1>3. Planned' /\ Transformed'
  BY <1>1 DEF Inv, Planned, Transformed, Deciding, Probed, MayProbe
<1>4. Untouched' /\ OnRecord' /\ Answered' /\ Scratch'
  BY <1>1 DEF Inv, Untouched, OnRecord, LoopsOf, Answered, Scratch, Deciding
<1> QED
  BY <1>2, <1>3, <1>4 DEF Inv

\* The walk's loops are those seen from the marker.
LEMMA FindLoopsInv == ASSUME Inv, FindLoops PROVE Inv'
<1>1. PICK m \in pending : /\ found[m] > 0
                           /\ pending' = pending \ {m}
                           /\ copies' = {m} \X (1..found[m])
  BY DEF FindLoops
<1>2. /\ pc = "marker" /\ pc' = "loop" /\ slot' = NoSlot
      /\ UNCHANGED <<SporkForceBatch, site, asks, found, token, batch, ok, plans, scratch,
                     planned, called, shape, SiteFactors, marks, published>>
  BY DEF FindLoops, input, out
<1>3. m \in Marker /\ site[m] = token /\ found[m] \in 1..MAX_COPIES
  BY <1>1, <1>2, BoundsAssumption DEF Inv, Planned, MarkersOf, TypeOK
<1>4. {m} \X (1..found[m]) = {l \in LoopsOf(token) : l[1] = m}
  <2>1. {1} \cup 1..found[m] = 1..found[m] /\ 1..found[m] \subseteq 1..MAX_COPIES
    BY <1>3, BoundsAssumption
  <2> QED
    BY <1>3, <2>1 DEF LoopsOf, Loop
<1>5. TypeOK'
  <2>1. copies' \subseteq Loop
    BY <1>1, <1>4 DEF LoopsOf
  <2> QED
    BY <1>1, <1>2, <2>1 DEF Inv, TypeOK, Pc
<1>6. Control'
  BY <1>2 DEF Inv, Control, Deciding, Sites
<1>7. Planned'
  <2>1. /\ pending' \subseteq MarkersOf(token)
        /\ \A x \in MarkersOf(token) \ pending' : found[x] > 0
    BY <1>1, <1>2 DEF Inv, Planned
  <2>2. Seen' = Seen \cup {l \in LoopsOf(token) : l[1] = m} /\ Seen \cap copies' = {}
    BY <1>1, <1>2, <1>4 DEF Seen, LoopsOf
  <2>3. DOMAIN plans = Seen
    BY <1>2 DEF Inv, Planned
  <2>4. copies' \subseteq Seen' /\ DOMAIN plans' = Seen' \ copies'
    BY <1>1, <1>2, <1>4, <2>2, <2>3
  <2>5. (\A l \in DOMAIN plans : plans[l] \in MayProbe /\ Probed(plans[l]) = batch /\ batch >= 2)'
    BY <1>2 DEF Inv, Planned, Deciding, MayProbe, Probed
  <2> QED
    BY <1>2, <2>1, <2>4, <2>5 DEF Planned, MarkersOf
<1>8. Transformed' /\ Untouched' /\ OnRecord' /\ Answered' /\ Scratch'
  BY <1>2 DEF Inv, Transformed, Untouched, OnRecord, LoopsOf, Answered, Scratch, Deciding
<1> QED
  BY <1>5, <1>6, <1>7, <1>8 DEF Inv

LEMMA PlanLoopInv == ASSUME Inv, PlanLoop PROVE Inv'
<1>1. PICK l \in copies, s \in Slot, probe \in MayProbe :
        /\ Agrees(Probed(probe))
        /\ slot' = s
        /\ copies' = copies \ {l}
        /\ batch' = Probed(probe)
        /\ plans' = [x \in DOMAIN plans \cup {l} |-> IF x = l THEN probe ELSE plans[x]]
        /\ scratch' = IF probe = NoProbe THEN scratch ELSE scratch \cup {l}
  BY DEF PlanLoop
<1>2. /\ pc = "loop"
      /\ UNCHANGED <<SporkForceBatch, site, asks, found, pc, token, pending, ok,
                     planned, called, shape, SiteFactors, marks, published>>
  BY DEF PlanLoop, input, out
<1>3. /\ Probed(probe) \in Nat /\ Probed(probe) >= 2 /\ batch \in {0, Probed(probe)}
      /\ probe \in Probes \cup {NoProbe}
      /\ l \in Loop /\ l \in Seen /\ l \notin DOMAIN plans
  BY <1>1, <1>2, ProbedType DEF Agrees, MayProbe, Inv, TypeOK, Planned
<1>4. /\ DOMAIN plans' = DOMAIN plans \cup {l}
      /\ plans'[l] = probe
      /\ \A x \in DOMAIN plans : plans'[x] = plans[x]
  BY <1>1, <1>3
<1>5. TypeOK'
  <2>1. \A x \in DOMAIN plans : plans[x] \in Probes \cup {NoProbe}
    BY DEF Inv, TypeOK, Range
  <2>2. \A x \in DOMAIN plans' : plans'[x] \in Probes \cup {NoProbe}
    BY <1>3, <1>4, <2>1
  <2>3. Range(plans') \subseteq Probes \cup {NoProbe} /\ DOMAIN plans' \subseteq Loop
    BY <1>3, <1>4, <2>2 DEF Range, Inv, TypeOK
  <2> QED
    BY <1>1, <1>2, <1>3, <2>3 DEF Inv, TypeOK
<1>6. Control'
  BY <1>2 DEF Inv, Control, Deciding, Sites
<1>7. Planned'
  <2>1. copies \subseteq Seen /\ DOMAIN plans = Seen \ copies /\ Seen' = Seen
    BY <1>2 DEF Inv, Planned, Seen, LoopsOf
  <2>2. copies' \subseteq Seen' /\ DOMAIN plans' = Seen' \ copies'
    BY <1>1, <1>3, <1>4, <2>1
  <2>3. \A x \in DOMAIN plans : plans[x] \in MayProbe /\ Probed(plans[x]) = batch /\ batch >= 2
    BY <1>2 DEF Inv, Planned, Deciding
  <2>4. \A x \in DOMAIN plans' : plans'[x] \in MayProbe /\ Probed(plans'[x]) = batch' /\ batch' >= 2
    BY <1>1, <1>3, <1>4, <2>3
  <2>5. (\A x \in DOMAIN plans : plans[x] \in MayProbe /\ Probed(plans[x]) = batch /\ batch >= 2)'
    BY <1>2, <2>4 DEF MayProbe, Probed
  <2> QED
    BY <1>2, <2>2, <2>5 DEF Inv, Planned, MarkersOf, Deciding
<1>8. Transformed' /\ Untouched' /\ OnRecord' /\ Answered'
  BY <1>2 DEF Inv, Transformed, Untouched, OnRecord, LoopsOf, Answered
<1>9. Scratch'
  BY <1>1, <1>2, <1>4 DEF Inv, Scratch, Deciding
<1> QED
  BY <1>5, <1>6, <1>7, <1>8, <1>9 DEF Inv

LEMMA NextMarkerInv == ASSUME Inv, NextMarker PROVE Inv'
<1>1. /\ pc = "loop" /\ pc' = "marker" /\ copies = {}
      /\ UNCHANGED <<SporkForceBatch, site, asks, found, token, pending, copies, slot, batch, ok,
                     plans, scratch, planned, called, shape, SiteFactors, marks, published>>
  BY DEF NextMarker, input, plan, out
<1>2. TypeOK' /\ Control'
  BY <1>1 DEF Inv, TypeOK, Pc, Control, Deciding, Sites
<1>3. Planned'
  BY <1>1 DEF Inv, Planned, Deciding, Probed, MayProbe, Seen, LoopsOf, MarkersOf
<1>4. Transformed' /\ Untouched' /\ OnRecord' /\ Answered' /\ Scratch'
  BY <1>1 DEF Inv, Transformed, Untouched, OnRecord, LoopsOf, Answered, Scratch, Deciding
<1> QED
  BY <1>2, <1>3, <1>4 DEF Inv

LEMMA BeginTransformInv == ASSUME Inv, BeginTransform PROVE Inv'
<1>1. /\ pc = "marker" /\ pc' = "transform" /\ pending = {} /\ planned' = DOMAIN plans
      /\ UNCHANGED <<SporkForceBatch, site, asks, found, token, pending, copies, slot, batch, ok,
                     plans, scratch, called, shape, SiteFactors, marks, published>>
  BY DEF BeginTransform, input, plan
<1>2. DOMAIN plans = LoopsOf(token)
  BY <1>1 DEF Inv, Planned, Seen
<1>3. LoopsOf(token) # {}
  <2>1. PICK m \in Marker : site[m] = token
    BY <1>1 DEF Inv, Control, Deciding, Sites, Range, TypeOK
  <2>2. found[m] > 0 /\ found[m] \in 0..MAX_COPIES
    BY <1>1, <2>1 DEF Inv, Planned, MarkersOf, TypeOK
  <2>3. <<m, 1>> \in Loop
    BY <2>2, BoundsAssumption DEF Loop
  <2>4. <<m, 1>> \in LoopsOf(token)
    BY <2>1, <2>3 DEF LoopsOf
  <2> QED
    BY <2>4
<1>4. \A l \in LoopsOf(token) : shape[l] = Plain
  BY <1>1 DEF Inv, Untouched, LoopsOf, Control, Deciding
<1>5. TypeOK' /\ Control'
  BY <1>1, <1>2 DEF Inv, TypeOK, Pc, Control, Deciding, Sites
<1>6. Planned'
  BY <1>1 DEF Inv, Planned, Deciding, Probed, MayProbe
<1>7. Transformed'
  BY <1>1, <1>2, <1>3, <1>4 DEF Transformed, LoopsOf
<1>8. Untouched' /\ OnRecord' /\ Answered' /\ Scratch'
  BY <1>1 DEF Inv, Untouched, OnRecord, LoopsOf, Answered, Scratch, Deciding
<1> QED
  BY <1>5, <1>6, <1>7, <1>8 DEF Inv

\* A planned loop takes its new shape: the probe's, or batches.
LEMMA TransformInv == ASSUME Inv, Transplant \/ FormBatchedLoop PROVE Inv'
<1>1. PICK l \in planned, s \in Seq(Nat) :
        /\ Exact(s, batch)
        /\ planned' = planned \ {l}
        /\ shape' = [shape EXCEPT ![l] = s]
  <2>1. \A l \in planned : /\ l \in DOMAIN plans /\ plans[l] \in MayProbe
                           /\ Probed(plans[l]) = batch /\ batch \in Nat /\ batch >= 2
    BY DEF Inv, Transformed, Planned, Deciding, TypeOK, Transplant, FormBatchedLoop
  <2>2. CASE Transplant
    <3>1. PICK l \in planned : /\ plans[l] # NoProbe /\ CanTransplant(plans[l])
                               /\ planned' = planned \ {l}
                               /\ shape' = [shape EXCEPT ![l] = Steps(plans[l])]
      BY <2>2 DEF Transplant
    <3>2. plans[l] \in Probes /\ batch = Batch(plans[l])
      BY <2>1, <3>1, BoundsAssumption DEF MayProbe, Probed
    <3>3. Steps(plans[l]) \in Seq(Nat) /\ Exact(Steps(plans[l]), batch)
      BY <2>1, <3>1, <3>2, TransplantExact
    <3> QED
      BY <3>1, <3>3
  <2>3. CASE FormBatchedLoop
    <3>1. PICK l \in planned : /\ planned' = planned \ {l}
                               /\ shape' = [shape EXCEPT ![l] = <<batch, 1>>]
      BY <2>3 DEF FormBatchedLoop
    <3> QED
      BY <2>1, <3>1, BatchedExact
  <2> QED
    BY <2>2, <2>3
<1>2. /\ pc = "transform" /\ called \subseteq called' /\ called' \subseteq called \cup planned
      /\ UNCHANGED <<SporkForceBatch, site, asks, found, pc, token, pending, copies, slot, batch,
                     ok, plans, scratch, SiteFactors, marks, published>>
  BY DEF Transplant, FormBatchedLoop, input, plan
<1>3. l \in Loop /\ l \in LoopsOf(token) /\ site[l[1]] = token /\ token \notin DOMAIN SiteFactors
  BY <1>1, <1>2 DEF Inv, Transformed, LoopsOf, Control, Deciding
<1>4. /\ shape' \in [Loop -> Seq(Nat)]
      /\ shape'[l] = s
      /\ \A x \in Loop \ {l} : shape'[x] = shape[x]
  BY <1>1, <1>3 DEF Inv, TypeOK
<1>5. TypeOK'
  BY <1>1, <1>2, <1>4 DEF Inv, TypeOK
<1>6. Control'
  BY <1>2 DEF Inv, Control, Deciding, Sites
<1>7. Planned'
  BY <1>2 DEF Inv, Planned, Deciding, Probed, MayProbe
<1>8. Transformed'
  BY <1>1, <1>2, <1>4 DEF Inv, Transformed, LoopsOf
<1>9. Untouched'
  BY <1>2, <1>3, <1>4 DEF Inv, Untouched
<1>10. OnRecord'
  BY <1>2, <1>3, <1>4 DEF Inv, OnRecord, LoopsOf
<1>11. Answered' /\ Scratch'
  BY <1>2 DEF Inv, Answered, FactorFor, Scratch, Deciding
<1> QED
  BY <1>5, <1>6, <1>7, <1>8, <1>9, <1>10, <1>11 DEF Inv

LEMMA EndTransformInv == ASSUME Inv, EndTransform PROVE Inv'
<1>1. /\ pc = "transform" /\ pc' = "end" /\ planned = {}
      /\ UNCHANGED <<SporkForceBatch, site, asks, found, token, pending, copies, slot, batch, ok,
                     plans, scratch, planned, called, shape, SiteFactors, marks, published>>
  BY DEF EndTransform, input, plan, out
<1>2. TypeOK' /\ Control'
  BY <1>1 DEF Inv, TypeOK, Pc, Control, Deciding, Sites
<1>3. Planned'
  BY <1>1 DEF Inv, Planned, Deciding, Probed, MayProbe
<1>4. Transformed'
  BY <1>1 DEF Inv, Transformed, LoopsOf, Planned, Deciding
<1>5. Untouched' /\ OnRecord' /\ Answered' /\ Scratch'
  BY <1>1 DEF Inv, Control, Untouched, OnRecord, LoopsOf, Answered, Scratch, Deciding
<1> QED
  BY <1>2, <1>3, <1>4, <1>5 DEF Inv

\* The factor is the batch of all of the site's loops, or 1 and they are as
\* they were.
LEMMA EndSiteInv == ASSUME Inv, EndSite PROVE Inv'
<1> DEFINE f == IF ok THEN batch ELSE 1
<1>1. /\ pc = "end" /\ pc' = "site"
      /\ scratch' = scratch \cap (called \cup (Loop \ DOMAIN plans))
      /\ SiteFactors' = [t \in DOMAIN SiteFactors \cup {token} |->
                            IF t # token THEN SiteFactors[t] ELSE f]
      /\ marks' = marks \ MarkersOf(token)
      /\ UNCHANGED <<SporkForceBatch, site, asks, found, token, pending, copies, slot, batch, ok,
                     plans, planned, called, shape, published>>
  BY DEF EndSite, input, out
<1>2. token \in Sites /\ token \in Token /\ token \notin DOMAIN SiteFactors
  BY <1>1 DEF Inv, Control, Deciding, Sites, Range, TypeOK
<1>3. f \in Factor /\ \A l \in LoopsOf(token) : Exact(shape[l], f)
  <2>1. CASE ok
    BY <1>1, <2>1 DEF Inv, Transformed, TypeOK, Factor
  <2>2. CASE ~ok
    <3>1. \A l \in LoopsOf(token) : shape[l] = Plain
      BY <1>1, <1>2, <2>2 DEF Inv, Untouched, LoopsOf
    <3> QED
      BY <2>2, <3>1, PlainExact DEF Factor
  <2> QED
    BY <2>1, <2>2
<1> HIDE DEF f
<1>4. /\ DOMAIN SiteFactors' = DOMAIN SiteFactors \cup {token}
      /\ SiteFactors'[token] = f
      /\ \A t \in DOMAIN SiteFactors : SiteFactors'[t] = SiteFactors[t]
  BY <1>1, <1>2
<1>5. TypeOK'
  <2>1. \A t \in DOMAIN SiteFactors : SiteFactors[t] \in Factor
    BY DEF Inv, TypeOK, Range
  <2>2. \A t \in DOMAIN SiteFactors' : SiteFactors'[t] \in Factor
    BY <1>3, <1>4, <2>1
  <2>3. Range(SiteFactors') \subseteq Factor /\ DOMAIN SiteFactors' \subseteq Token
    BY <1>2, <1>4, <2>2 DEF Range, Inv, TypeOK
  <2>4. scratch' \subseteq Loop /\ marks' \subseteq Marker
    BY <1>1 DEF Inv, TypeOK
  <2> QED
    BY <1>1, <2>3, <2>4 DEF Inv, TypeOK, Pc
<1>6. Control'
  BY <1>1, <1>2, <1>4 DEF Inv, Control, Deciding, Sites, MarkersOf, TypeOK
<1>7. Planned' /\ Transformed' /\ Answered'
  BY <1>1 DEF Inv, Planned, Transformed, Answered, Deciding
<1>8. Untouched'
  BY <1>1, <1>4 DEF Inv, Untouched
<1>9. OnRecord'
  BY <1>1, <1>3, <1>4 DEF Inv, OnRecord, LoopsOf
<1>10. Scratch'
  BY <1>1 DEF Inv, Scratch, Deciding, TypeOK
<1> QED
  BY <1>5, <1>6, <1>7, <1>8, <1>9, <1>10 DEF Inv

LEMMA EraseUntokenedInv == ASSUME Inv, EraseUntokened PROVE Inv'
<1>1. /\ pc = "site" /\ pc' = "queries" /\ Sites \subseteq DOMAIN SiteFactors
      /\ marks' = marks \ MarkersOf(NoToken)
      /\ UNCHANGED <<SporkForceBatch, site, asks, found, token, pending, copies, slot, batch, ok,
                     plans, scratch, planned, called, shape, SiteFactors, published>>
  BY DEF EraseUntokened, input, plan, out
<1>2. marks' = {}
  <2>1. \A m \in marks : site[m] \notin DOMAIN SiteFactors /\ m \in Marker
    BY <1>1 DEF Inv, Control
  <2>2. \A m \in Marker : site[m] = NoToken \/ site[m] \in Sites
    BY DEF Sites, Range, Inv, TypeOK
  <2> QED
    BY <1>1, <2>1, <2>2 DEF MarkersOf
<1>3. TypeOK' /\ Control'
  BY <1>1, <1>2 DEF Inv, TypeOK, Pc, Control, Deciding, Sites
<1>4. Planned' /\ Transformed'
  BY <1>1 DEF Inv, Planned, Transformed, Deciding
<1>5. Untouched' /\ OnRecord' /\ Answered' /\ Scratch'
  BY <1>1 DEF Inv, Untouched, OnRecord, LoopsOf, Answered, Scratch, Deciding
<1> QED
  BY <1>3, <1>4, <1>5 DEF Inv

LEMMA ReplaceQueryInv == ASSUME Inv, ReplaceQuery PROVE Inv'
<1>1. PICK q \in Query \ DOMAIN published :
           published' = [x \in DOMAIN published \cup {q} |->
                           IF x = q THEN FactorFor(asks[q]) ELSE published[x]]
  BY DEF ReplaceQuery
<1>2. /\ pc = "queries"
      /\ UNCHANGED <<SporkForceBatch, site, asks, found, pc, token, pending, copies, slot, batch,
                     ok, plans, scratch, planned, called, shape, SiteFactors, marks>>
  BY DEF ReplaceQuery, input, plan, out
<1>3. FactorFor(asks[q]) \in Factor
  BY DEF FactorFor, Factor, Inv, TypeOK, Range
<1>4. TypeOK'
  <2>1. \A x \in DOMAIN published' : published'[x] \in Factor
    BY <1>1, <1>3 DEF Inv, TypeOK, Range
  <2>2. DOMAIN published' \subseteq Query /\ Range(published') \subseteq Factor
    BY <1>1, <2>1 DEF Range, Inv, TypeOK
  <2> QED
    BY <1>2, <2>2 DEF Inv, TypeOK
<1>5. Control' /\ Planned' /\ Transformed'
  BY <1>2 DEF Inv, Control, Planned, Transformed, Deciding, Sites
<1>6. Untouched' /\ OnRecord' /\ Scratch'
  BY <1>2 DEF Inv, Untouched, OnRecord, LoopsOf, Scratch, Deciding
<1>7. Answered'
  BY <1>1, <1>2 DEF Inv, Answered, FactorFor
<1> QED
  BY <1>4, <1>5, <1>6, <1>7 DEF Inv

LEMMA FinishInv == ASSUME Inv, Finish PROVE Inv'
<1>1. /\ pc = "queries" /\ pc' = "done" /\ DOMAIN published = Query
      /\ UNCHANGED <<SporkForceBatch, site, asks, found, token, pending, copies, slot, batch, ok,
                     plans, scratch, planned, called, shape, SiteFactors, marks, published>>
  BY DEF Finish, input, plan, out
<1>2. TypeOK' /\ Control'
  BY <1>1 DEF Inv, TypeOK, Pc, Control, Deciding, Sites
<1>3. Planned' /\ Transformed'
  BY <1>1 DEF Inv, Planned, Transformed, Deciding
<1>4. Untouched' /\ OnRecord' /\ Answered' /\ Scratch'
  BY <1>1 DEF Inv, Untouched, OnRecord, LoopsOf, Answered, FactorFor, Scratch, Deciding
<1> QED
  BY <1>2, <1>3, <1>4 DEF Inv

LEMMA StutterInv == ASSUME Inv, UNCHANGED vars PROVE Inv'
<1>1. UNCHANGED <<SporkForceBatch, site, asks, found, pc, token, pending, copies, slot, batch, ok,
                  plans, scratch, planned, called, shape, SiteFactors, marks, published>>
  BY DEF vars, input, plan, out
<1>2. TypeOK' /\ Control'
  BY <1>1 DEF Inv, TypeOK, Control, Deciding, Sites
<1>3. Planned'
  BY <1>1 DEF Inv, Planned, Deciding, Probed, MayProbe, Seen, LoopsOf, MarkersOf
<1>4. Transformed' /\ Untouched'
  BY <1>1 DEF Inv, Transformed, Untouched, LoopsOf
<1>5. OnRecord' /\ Answered' /\ Scratch'
  BY <1>1 DEF Inv, OnRecord, LoopsOf, Answered, FactorFor, Scratch, Deciding
<1> QED
  BY <1>2, <1>3, <1>4, <1>5 DEF Inv

LEMMA NextInv == Inv /\ [Next]_vars => Inv'
BY BeginSiteInv, RejectInv, FindLoopsInv, PlanLoopInv, NextMarkerInv, BeginTransformInv,
   TransformInv, EndTransformInv, EndSiteInv, EraseUntokenedInv, ReplaceQueryInv, FinishInv,
   StutterInv
DEF Next, PlanSite, Transform, Publish, Done

-----------------------------------------------------------------------------
\* The invariant holds in every state of every behaviour.
THEOREM SpecInv == Spec => []Inv
BY InitInv, NextInv, PTL DEF Spec

\* Every variable keeps its type; no site has a factor below one.
THEOREM TypeCorrect == Spec => []TypeOK
<1>1. Inv => TypeOK
  BY DEF Inv
<1> QED
  BY <1>1, SpecInv, PTL

\* Whatever LLVM makes of the copies of a loop, the constant its handler is
\* given covers the steps of all: the contract that parfor_ rests on
\* (ShapeAssumption of ParforLoop).
THEOREM FactorsCover == Spec => []FactorCoversCopies
<1>1. ASSUME Inv, NEW q \in DOMAIN published, asks[q] # NoToken, NEW l \in LoopsOf(asks[q])
      PROVE  Covers(shape[l], published[q])
  <2>1. asks[q] \in Sites
    BY <1>1 DEF LoopsOf, Loop, Sites, Range, Inv, TypeOK
  <2>2. asks[q] \in DOMAIN SiteFactors /\ published[q] = FactorFor(asks[q])
    BY <1>1, <2>1 DEF Inv, Control, Answered
  <2> QED
    BY <1>1, <2>2 DEF Inv, OnRecord, Exact, FactorFor
<1>2. Inv => FactorCoversCopies
  BY <1>1 DEF FactorCoversCopies
<1> QED
  BY <1>2, SpecInv, PTL

\* And is no larger than it has to be: the longest step of every copy.
THEOREM BatchShared == Spec => []CopiesShareOneBatch
<1>1. ASSUME Inv, NEW t \in DOMAIN SiteFactors, NEW l \in LoopsOf(t)
      PROVE  Max(Range(shape[l])) = SiteFactors[t]
  <2>1. Exact(shape[l], SiteFactors[t])
    BY <1>1 DEF Inv, OnRecord
  <2>2. Range(shape[l]) \subseteq Nat
    BY <1>1, <2>1 DEF Exact, Covers, Range
  <2>3. SiteFactors[t] \in Range(shape[l]) /\ \A x \in Range(shape[l]) : x <= SiteFactors[t]
    BY <2>1 DEF Exact, Covers, Range
  <2> QED
    BY <2>2, <2>3, MaxIs
<1>2. Inv => CopiesShareOneBatch
  BY <1>1 DEF CopiesShareOneBatch
<1> QED
  BY <1>2, SpecInv, PTL

\* Nothing that exists at compile time only is left in the module.
THEOREM CleansUp == Spec => []NothingLeftBehind
<1>1. Inv => NothingLeftBehind
  BY DEF Inv, Control, Scratch, Deciding, NothingLeftBehind
<1> QED
  BY <1>1, SpecInv, PTL

=============================================================================
