-------------------------- MODULE MarkerWalkProofs --------------------------
(***************************************************************************)
(* The walk from a marker finds all the loops that a path without a        *)
(* barrier leads to, or says that it does not: proofs for every control-   *)
(* flow graph and every limit.  They are stated of SnapshotSink, whose     *)
(* behaviours begin with those of the walk, and of the walk by itself.     *)
(*                                                                         *)
(* Of the rewrite of the probe, for every probe and every order of uses:   *)
(* it clones nothing twice, what is used past an exit sees where the loop  *)
(* did stop, and the verifier turns a probe down for one reason only.      *)
(* The invariant is PInv: for each step loop that has been come to there   *)
(* is a set of stale nodes, all before its exit, of which only what the    *)
(* plan has noted is used past the exit, and at the end nothing is.        *)
(***************************************************************************)
EXTENDS SnapshotSink, FiniteSetTheorems, WellFoundedInduction, TLAPS

\* The bridges and the marker's block that wait to be left.
Waiting == {Work[j][1] : j \in DOMAIN Work}

\* What the walk owes to a successor S of a block b that it has left.
Answered(b, S) ==
    /\ S \in Bridge => S \in Visited
    /\ S \in Inner => S \in Loops /\ IsPreheader(b, S)

\* Every block seen waits, is being left, or has been left with nothing owed.
Accounted ==
    \A b \in Visited :
        \/ b \in Waiting
        \/ \A S \in successors[b] : (b = at /\ S \in rest) \/ Answered(b, S)

\* All that was found is there to be found.
Reachable ==
    /\ Visited \subseteq WithinWalk
    /\ Start \in Visited /\ at \in Visited
    /\ rest \subseteq successors[at]
    /\ Loops \subseteq Entered

\* A block is found at a depth d only after d others.
Counted ==
    /\ IsFiniteSet(Visited)
    /\ Cardinality(Visited) > Depth
    /\ \A j \in DOMAIN Work : Cardinality(Visited) > Work[j][2]

WInv ==
    /\ TypeOK
    /\ Work \in Seq(Walked \X (0..MaxMarkerWalkDepth))
    /\ pc \in {"walk", "found", "none"}
    /\ LeavesEachBlockOnce
    /\ \/ Work = <<<<Start, 0>>>> /\ rest = {}
       \/ \A j \in DOMAIN Work : Work[j][1] # Start
    /\ Reachable
    /\ Counted
    /\ pc # "none" => Accounted
    /\ FindsAllCopies
    /\ GivesUpForAReason

-----------------------------------------------------------------------------
(* Sequences.                                                              *)

LEMMA FrontLast ==
    ASSUME NEW S, NEW s \in Seq(S), s # <<>>
    PROVE  /\ Last(s) \in S /\ Last(s) = s[Len(s)] /\ Len(s) \in Nat \ {0}
           /\ Front(s) \in Seq(S) /\ DOMAIN Front(s) = 1..(Len(s) - 1)
           /\ DOMAIN s = 1..Len(s)
           /\ \A j \in 1..(Len(s) - 1) : Front(s)[j] = s[j]
BY DEF Front, Last

LEMMA AppendIs ==
    ASSUME NEW S, NEW s \in Seq(S), NEW x \in S
    PROVE  /\ Append(s, x) \in Seq(S)
           /\ DOMAIN Append(s, x) = 1..(Len(s) + 1) /\ DOMAIN s = 1..Len(s) /\ Len(s) \in Nat
           /\ \A j \in 1..Len(s) : Append(s, x)[j] = s[j]
           /\ Append(s, x)[Len(s) + 1] = x
OBVIOUS

-----------------------------------------------------------------------------
(* The blocks within reach.                                                *)

LEMMA StartWithin == Start \in WithinWalk
BY DEF WithinWalk, Closed, Walked

LEMMA BridgeWithin ==
    ASSUME NEW b \in WithinWalk, NEW S \in successors[b], S \in Bridge
    PROVE  S \in WithinWalk
BY DEF WithinWalk, Closed, Walked

LEMMA InnerEntered ==
    ASSUME NEW b \in WithinWalk, NEW S \in successors[b], S \in Inner
    PROVE  S \in Entered
BY DEF Entered

LEMMA WithinLeast ==
    ASSUME NEW B \in SUBSET Walked, Closed(B)
    PROVE  WithinWalk \subseteq B
BY DEF WithinWalk

LEMMA WithinFinite == IsFiniteSet(WithinWalk)
<1>1. IsFiniteSet(Bridge \cup {Start})
  BY KindsAssumption, FS_AddElement
<1>2. WithinWalk \in SUBSET (Bridge \cup {Start})
  BY DEF WithinWalk, Walked
<1> QED
  BY <1>1, <1>2, FS_Subset

\* The graph does not change.
LEMMA SameGraph ==
    ASSUME UNCHANGED graph
    PROVE  /\ WithinWalk' = WithinWalk /\ Entered' = Entered
           /\ CleanEntries' = CleanEntries
           /\ \A b, l : IsPreheader(b, l)' = IsPreheader(b, l)
BY DEF graph, WithinWalk, Closed, Entered, CleanEntries, IsPreheader


-----------------------------------------------------------------------------
(* The steps of the walk.                                                  *)

LEMMA WalkInit == Init => WInv
<1> SUFFICES ASSUME Init PROVE WInv
  OBVIOUS
<1>1. /\ Work = <<<<Start, 0>>>> /\ DOMAIN Work = 1..1 /\ Work[1] = <<Start, 0>>
      /\ at = Start /\ Depth = 0 /\ rest = {} /\ Visited = {Start} /\ Loops = {} /\ pc = "walk"
      /\ successors \in [Walked -> SUBSET Block] /\ shared \subseteq Inner
      /\ Start \in Walked
  BY DEF Init, Walked
<1>2. TypeOK /\ Work \in Seq(Walked \X (0..MaxMarkerWalkDepth))
  BY <1>1, KindsAssumption DEF TypeOK
<1>3. LeavesEachBlockOnce
  BY <1>1 DEF LeavesEachBlockOnce
<1>4. Reachable
  BY <1>1, StartWithin DEF Reachable
<1>5. Counted
  <2>1. IsFiniteSet(Visited) /\ Cardinality(Visited) = 1
    BY <1>1, FS_Singleton
  <2> QED
    BY <1>1, <2>1 DEF Counted
<1>6. Accounted
  BY <1>1 DEF Accounted, Waiting
<1> QED
  BY <1>1, <1>2, <1>3, <1>4, <1>5, <1>6 DEF WInv, FindsAllCopies, GivesUpForAReason

LEMMA WalkPop == WInv /\ Pop => WInv'
<1> SUFFICES ASSUME WInv, Pop PROVE WInv'
  OBVIOUS
<1> DEFINE n == Len(Work)
           E == Walked \X (0..MaxMarkerWalkDepth)
<1>0. Work \in Seq(E) /\ Work # <<>> /\ WInv /\ Pop
  BY DEF WInv, Pop
<1>a. /\ Last(Work) = Work[n] /\ n \in Nat \ {0} /\ DOMAIN Work = 1..n /\ Work[n] \in E
      /\ Front(Work) \in Seq(E) /\ DOMAIN Front(Work) = 1..(n - 1)
      /\ \A j \in 1..(n - 1) : Front(Work)[j] = Work[j]
  <2> HIDE DEF E
  <2> QED
    BY <1>0, FrontLast
<1> HIDE DEF n, E
<1>1. /\ Work \in Seq(E) /\ Work # <<>> /\ pc = "walk" /\ rest = {}
      /\ at' = Work[n][1] /\ Depth' = Work[n][2]
      /\ n \in Nat \ {0} /\ DOMAIN Work = 1..n /\ Work[n] \in E
      /\ Work' \in Seq(E) /\ DOMAIN Work' = 1..(n - 1)
      /\ \A j \in 1..(n - 1) : Work'[j] = Work[j]
      /\ rest' = successors[at']
      /\ UNCHANGED <<successors, shared, Visited, Loops, pc>>
  BY <1>0, <1>a DEF Pop, graph
<1>2. /\ WithinWalk' = WithinWalk /\ Entered' = Entered
      /\ \A b, l : IsPreheader(b, l)' = IsPreheader(b, l)
  BY <1>1, SameGraph DEF graph
<1>3. at' \in Walked /\ Depth' \in 0..MaxMarkerWalkDepth /\ rest' \subseteq Block
  BY <1>1 DEF WInv, TypeOK, E
<1>4. TypeOK'
  BY <1>1, <1>3 DEF WInv, TypeOK, E
<1>5. /\ \A j, i \in 1..n : Work[j][1] = Work[i][1] => j = i
      /\ \A j \in 1..n : Work[j][1] \in Visited
  BY <1>1 DEF WInv, LeavesEachBlockOnce
<1>6. LeavesEachBlockOnce'
  <2>1. \A j, i \in 1..(n - 1) : Work'[j][1] = Work'[i][1] => j = i
    <3>1. 1..(n - 1) \subseteq 1..n
      BY <1>1
    <3> QED
      BY <1>1, <1>5, <3>1
  <2>2. \A j \in 1..(n - 1) : Work'[j][1] # at'
    BY <1>1, <1>5
  <2>3. \A j \in 1..(n - 1) : Work'[j][1] \in Visited'
    BY <1>1, <1>5
  <2> QED
    BY <1>1, <2>1, <2>2, <2>3 DEF LeavesEachBlockOnce
<1>7. Reachable'
  BY <1>1, <1>2, <1>5 DEF WInv, Reachable
<1>8. Counted'
  <2>1. /\ IsFiniteSet(Visited) /\ Cardinality(Visited) > Depth
        /\ \A j \in 1..n : Cardinality(Visited) > Work[j][2]
    BY <1>1 DEF WInv, Counted
  <2>2. /\ Cardinality(Visited) > Depth'
        /\ \A j \in 1..(n - 1) : Cardinality(Visited) > Work'[j][2]
    BY <1>1, <2>1
  <2> QED
    BY <1>1, <2>1, <2>2 DEF Counted
<1>9. Accounted'
  <2> SUFFICES ASSUME NEW b \in Visited, b \notin Waiting', b # at'
               PROVE  \A S \in successors[b] : Answered(b, S)'
    BY <1>1 DEF Accounted
  <2>1. \A j \in 1..n : Work[j][1] # b
    <3>1. \A j \in 1..(n - 1) : Work[j][1] # b
      BY <1>1 DEF Waiting
    <3>2. \A j \in 1..n : j \in 1..(n - 1) \/ j = n
      BY <1>1
    <3> QED
      BY <1>1, <3>1, <3>2
  <2>2. b \notin Waiting
    BY <1>1, <2>1 DEF Waiting
  <2>3. \A S \in successors[b] : Answered(b, S)
    BY <1>1, <2>2 DEF WInv, Accounted
  <2> QED
    BY <1>1, <1>2, <2>3 DEF Answered
<1>10. \/ Work' = <<<<Start, 0>>>> /\ rest' = {}
       \/ \A j \in DOMAIN Work' : Work'[j][1] # Start
  <2>1. CASE Work = <<<<Start, 0>>>>
    BY <1>1, <2>1
  <2>2. CASE \A j \in DOMAIN Work : Work[j][1] # Start
    BY <1>1, <2>2
  <2> QED
    BY <2>1, <2>2 DEF WInv
<1> QED
  BY <1>1, <1>4, <1>6, <1>7, <1>8, <1>9, <1>10 DEF WInv, FindsAllCopies, GivesUpForAReason, E

\* What a look at one of the successors of the block being left keeps.
LEMMA LookKeeps ==
    ASSUME WInv, NEW S, Look(S), IsFiniteSet(Visited'),
           Visited \subseteq Visited', Loops \subseteq Loops'
    PROVE  /\ pc = "walk" /\ S \in rest /\ S \in successors[at] /\ at \in WithinWalk
           /\ S \in Block /\ Start \in Visited' /\ at \in Visited'
           /\ UNCHANGED <<successors, shared, at, Depth>>
           /\ rest' = rest \ {S} /\ rest' \subseteq successors[at]
           /\ WithinWalk' = WithinWalk /\ Entered' = Entered /\ CleanEntries' = CleanEntries
           /\ \A b, l : IsPreheader(b, l)' = IsPreheader(b, l)
           /\ \A j \in DOMAIN Work : Work[j][1] # Start
<1>1. /\ pc = "walk" /\ S \in rest /\ UNCHANGED <<successors, shared, at, Depth>>
      /\ rest' = rest \ {S} /\ UNCHANGED graph
  BY DEF Look, graph
<1>2. /\ Visited \subseteq WithinWalk /\ Start \in Visited /\ at \in Visited
      /\ rest \subseteq successors[at] /\ rest \subseteq Block
  BY DEF WInv, Reachable, TypeOK
<1>3. \A j \in DOMAIN Work : Work[j][1] # Start
  BY <1>1 DEF WInv
<1>4. /\ WithinWalk' = WithinWalk /\ Entered' = Entered /\ CleanEntries' = CleanEntries
      /\ \A b, l : IsPreheader(b, l)' = IsPreheader(b, l)
  BY <1>1, SameGraph
<1> QED
  BY <1>1, <1>2, <1>3, <1>4

LEMMA LookAccounts ==
    ASSUME WInv, NEW S, Look(S),
           Visited \subseteq Visited', Loops \subseteq Loops', Waiting \subseteq Waiting',
           Visited' \ Visited \subseteq Waiting',
           S \in Bridge => S \in Visited',
           S \in Inner => S \in Loops' /\ IsPreheader(at, S)
    PROVE  Accounted'
<1>1. /\ pc = "walk" /\ UNCHANGED <<successors, shared, at>> /\ rest' = rest \ {S}
      /\ \A b, l : IsPreheader(b, l)' = IsPreheader(b, l)
  BY SameGraph DEF Look, graph
<1> SUFFICES ASSUME NEW b \in Visited', b \notin Waiting', NEW T \in successors[b],
                    ~(b = at /\ T \in rest')
             PROVE  Answered(b, T)'
  BY <1>1 DEF Accounted
<1>2. b \in Visited /\ b \notin Waiting
  OBVIOUS
<1>3. CASE b = at /\ T = S
  BY <1>1, <1>3 DEF Answered
<1>4. CASE ~(b = at /\ T = S)
  <2>1. ~(b = at /\ T \in rest)
    BY <1>1, <1>4
  <2>2. Answered(b, T)
    BY <1>1, <1>2, <2>1 DEF WInv, Accounted
  <2> QED
    BY <1>1, <2>2 DEF Answered
<1> QED
  BY <1>3, <1>4

LEMMA WalkFind ==
    ASSUME WInv, NEW S, Find(S)
    PROVE  WInv'
<1>1. /\ S \in Inner /\ IsPreheader(at, S) /\ Look(S) /\ Loops' = Loops \cup {S}
      /\ UNCHANGED <<Work, Visited, pc>>
  BY DEF Find
<1>2. S \notin Bridge
  BY <1>1, KindsAssumption
<1>3. IsFiniteSet(Visited')
  BY <1>1 DEF WInv, Counted
<1>4. Waiting' = Waiting
  BY <1>1 DEF Waiting
<1>5. Accounted'
  BY <1>1, <1>2, <1>4, LookAccounts
<1>6. /\ pc = "walk" /\ S \in successors[at] /\ at \in WithinWalk
      /\ UNCHANGED <<successors, shared, at, Depth>>
      /\ rest' \subseteq rest /\ rest' \subseteq successors[at]
      /\ WithinWalk' = WithinWalk /\ Entered' = Entered
      /\ \A j \in DOMAIN Work : Work[j][1] # Start
  BY <1>1, <1>3, LookKeeps
<1>7. S \in Entered
  BY <1>1, <1>6, InnerEntered
<1>8. TypeOK'
  BY <1>1, <1>6 DEF WInv, TypeOK
<1>9. LeavesEachBlockOnce'
  BY <1>1, <1>6 DEF WInv, LeavesEachBlockOnce
<1>10. Reachable'
  BY <1>1, <1>6, <1>7 DEF WInv, Reachable
<1>11. Counted'
  BY <1>1, <1>6 DEF WInv, Counted
<1> QED
  BY <1>1, <1>5, <1>6, <1>8, <1>9, <1>10, <1>11
  DEF WInv, FindsAllCopies, GivesUpForAReason

LEMMA WalkSkip ==
    ASSUME WInv, NEW S, Skip(S)
    PROVE  WInv'
<1>1. S \in Barrier \cup Visited /\ Look(S) /\ UNCHANGED <<Work, Visited, Loops, pc>>
  BY DEF Skip
<1>2. (S \in Bridge => S \in Visited) /\ S \notin Inner
  BY <1>1, KindsAssumption DEF WInv, TypeOK, Walked
<1>3. IsFiniteSet(Visited')
  BY <1>1 DEF WInv, Counted
<1>4. Waiting' = Waiting
  BY <1>1 DEF Waiting
<1>5. Accounted'
  BY <1>1, <1>2, <1>4, LookAccounts
<1>6. /\ pc = "walk" /\ UNCHANGED <<successors, shared, at, Depth>>
      /\ rest' \subseteq rest /\ rest' \subseteq successors[at]
      /\ WithinWalk' = WithinWalk /\ Entered' = Entered
      /\ \A j \in DOMAIN Work : Work[j][1] # Start
  BY <1>1, <1>3, LookKeeps
<1>7. TypeOK'
  BY <1>1, <1>6 DEF WInv, TypeOK
<1>8. LeavesEachBlockOnce'
  BY <1>1, <1>6 DEF WInv, LeavesEachBlockOnce
<1>9. Reachable'
  BY <1>1, <1>6 DEF WInv, Reachable
<1>10. Counted'
  BY <1>1, <1>6 DEF WInv, Counted
<1> QED
  BY <1>1, <1>5, <1>6, <1>7, <1>8, <1>9, <1>10
  DEF WInv, FindsAllCopies, GivesUpForAReason

LEMMA WalkAmbiguous ==
    ASSUME WInv, NEW S, Ambiguous(S)
    PROVE  WInv'
<1>1. /\ S \in Inner /\ ~IsPreheader(at, S) /\ Look(S) /\ pc' = "none"
      /\ UNCHANGED <<Work, Visited, Loops>>
  BY DEF Ambiguous
<1>2. IsFiniteSet(Visited')
  BY <1>1 DEF WInv, Counted
<1>3. /\ pc = "walk" /\ UNCHANGED <<successors, shared, at, Depth>>
      /\ S \in successors[at] /\ at \in WithinWalk
      /\ rest' \subseteq rest /\ rest' \subseteq successors[at]
      /\ WithinWalk' = WithinWalk /\ Entered' = Entered /\ CleanEntries' = CleanEntries
      /\ \A j \in DOMAIN Work : Work[j][1] # Start
  BY <1>1, <1>2, LookKeeps
<1>4. ~CleanEntries
  BY <1>1, <1>3 DEF CleanEntries
<1>5. TypeOK'
  BY <1>1, <1>3 DEF WInv, TypeOK
<1>6. LeavesEachBlockOnce'
  BY <1>1, <1>3 DEF WInv, LeavesEachBlockOnce
<1>7. Reachable'
  BY <1>1, <1>3 DEF WInv, Reachable
<1>8. Counted'
  BY <1>1, <1>3 DEF WInv, Counted
<1> QED
  BY <1>1, <1>3, <1>4, <1>5, <1>6, <1>7, <1>8
  DEF WInv, FindsAllCopies, GivesUpForAReason

\* One more bridge, not seen before, within reach.
LEMMA OneMore ==
    ASSUME WInv, NEW S, Look(S), S \in Bridge \ Visited, Visited' = Visited \cup {S},
           Loops' = Loops
    PROVE  /\ IsFiniteSet(Visited') /\ Cardinality(Visited') > Depth + 1
           /\ Cardinality(Visited') >= Cardinality(Visited) /\ Cardinality(Visited) \in Nat
           /\ Cardinality(Visited') \in Nat
           /\ Visited' \subseteq WithinWalk /\ Visited' \subseteq Walked
<1>1. /\ IsFiniteSet(Visited) /\ Cardinality(Visited) > Depth /\ Depth \in Nat
      /\ Cardinality(Visited) \in Nat /\ Visited \subseteq WithinWalk /\ Visited \subseteq Walked
  BY FS_CardinalityType, KindsAssumption DEF WInv, Counted, TypeOK, Reachable
<1>2. IsFiniteSet(Visited') /\ Cardinality(Visited') = Cardinality(Visited) + 1
  BY <1>1, FS_AddElement
<1>3. S \in WithinWalk
  BY <1>2, LookKeeps, BridgeWithin
<1> QED
  BY <1>1, <1>2, <1>3 DEF Walked

LEMMA WalkTooDeep ==
    ASSUME WInv, NEW S, TooDeep(S)
    PROVE  WInv'
<1>1. /\ S \in Bridge \ Visited /\ Look(S) /\ Depth + 1 > MaxMarkerWalkDepth
      /\ Visited' = Visited \cup {S} /\ pc' = "none" /\ UNCHANGED <<Work, Loops>>
  BY DEF TooDeep
<1>2. /\ IsFiniteSet(Visited') /\ Cardinality(Visited') > Depth + 1
      /\ Cardinality(Visited') >= Cardinality(Visited) /\ Cardinality(Visited) \in Nat
      /\ Cardinality(Visited') \in Nat
      /\ Visited' \subseteq WithinWalk /\ Visited' \subseteq Walked
  BY <1>1, OneMore
<1>3. /\ pc = "walk" /\ UNCHANGED <<successors, shared, at, Depth>>
      /\ rest' \subseteq rest /\ rest' \subseteq successors[at]
      /\ WithinWalk' = WithinWalk /\ Entered' = Entered
      /\ \A j \in DOMAIN Work : Work[j][1] # Start
  BY <1>1, <1>2, LookKeeps
<1>4. Cardinality(WithinWalk) > MaxMarkerWalkDepth + 1
  <2>1. Cardinality(WithinWalk) >= Cardinality(Visited') /\ Cardinality(WithinWalk) \in Nat
    BY <1>2, WithinFinite, FS_Subset, FS_CardinalityType
  <2>2. Depth \in Nat /\ MaxMarkerWalkDepth \in Nat
    BY KindsAssumption DEF WInv, TypeOK
  <2> QED
    BY <1>1, <1>2, <2>1, <2>2
<1>5. TypeOK'
  BY <1>1, <1>2, <1>3 DEF WInv, TypeOK
<1>6. LeavesEachBlockOnce'
  BY <1>1, <1>3 DEF WInv, LeavesEachBlockOnce
<1>7. Reachable'
  BY <1>1, <1>2, <1>3 DEF WInv, Reachable
<1>8. Counted'
  <2>1. \A j \in DOMAIN Work : Work[j][2] \in Nat /\ Cardinality(Visited) > Work[j][2]
    BY KindsAssumption DEF WInv, TypeOK, Counted
  <2>2. \A j \in DOMAIN Work : Cardinality(Visited') > Work[j][2]
    BY <1>2, <2>1
  <2>3. Depth \in Nat
    BY KindsAssumption DEF WInv, TypeOK
  <2> QED
    BY <1>1, <1>2, <1>3, <2>2, <2>3 DEF Counted
<1> QED
  BY <1>1, <1>3, <1>4, <1>5, <1>6, <1>7, <1>8
  DEF WInv, FindsAllCopies, GivesUpForAReason

LEMMA WalkPush ==
    ASSUME WInv, NEW S, Push(S)
    PROVE  WInv'
<1> DEFINE n == Len(Work)
           E == Walked \X (0..MaxMarkerWalkDepth)
<1>1. /\ S \in Bridge \ Visited /\ Look(S) /\ Depth + 1 <= MaxMarkerWalkDepth
      /\ Visited' = Visited \cup {S} /\ Work' = Append(Work, <<S, Depth + 1>>)
      /\ UNCHANGED <<Loops, pc>>
  BY DEF Push
<1>2. /\ IsFiniteSet(Visited') /\ Cardinality(Visited') > Depth + 1
      /\ Cardinality(Visited') >= Cardinality(Visited) /\ Cardinality(Visited) \in Nat
      /\ Cardinality(Visited') \in Nat
      /\ Visited' \subseteq WithinWalk /\ Visited' \subseteq Walked
  BY <1>1, OneMore
<1>3. /\ pc = "walk" /\ UNCHANGED <<successors, shared, at, Depth>>
      /\ rest' \subseteq rest /\ rest' \subseteq successors[at]
      /\ WithinWalk' = WithinWalk /\ Entered' = Entered
      /\ \A j \in DOMAIN Work : Work[j][1] # Start
  BY <1>1, <1>2, LookKeeps
<1>4. /\ S # Start /\ S # at /\ S \notin Inner /\ <<S, Depth + 1>> \in E /\ Depth \in Nat
  BY <1>1, KindsAssumption DEF WInv, TypeOK, Reachable, Walked
<1>5. Work \in Seq(E)
  BY DEF WInv
<1>6. /\ n \in Nat /\ DOMAIN Work = 1..n /\ DOMAIN Work' = 1..(n + 1) /\ Work' \in Seq(E)
      /\ \A j \in 1..n : Work'[j] = Work[j] /\ Work[j] \in E
      /\ Work'[n + 1] = <<S, Depth + 1>>
  <2> HIDE DEF E
  <2> QED
    BY <1>1, <1>4, <1>5, AppendIs
<1> HIDE DEF n
<1>7. \A j \in 1..(n + 1) : j \in 1..n \/ j = n + 1
  BY <1>6
<1>8. TypeOK'
  BY <1>1, <1>2, <1>3, <1>4, <1>6, <1>7 DEF WInv, TypeOK
<1>9. \A j \in 1..n : Work[j][1] \in Visited /\ Work[j][1] # S
  BY <1>1, <1>6 DEF WInv, LeavesEachBlockOnce
<1>10. LeavesEachBlockOnce'
  <2>1. \A j, i \in 1..n : Work[j][1] = Work[i][1] => j = i
    BY <1>6 DEF WInv, LeavesEachBlockOnce
  <2>2. \A j, i \in 1..(n + 1) : Work'[j][1] = Work'[i][1] => j = i
    BY <1>6, <1>7, <1>9, <2>1
  <2>3. \A j \in 1..n : Work[j][1] # at
    <3>1. CASE Work = <<<<Start, 0>>>>
      BY <1>3, <1>6, <3>1
    <3> QED
      BY <1>6, <3>1 DEF WInv, LeavesEachBlockOnce
  <2>4. \A j \in 1..(n + 1) : Work'[j][1] # at /\ Work'[j][1] \in Visited'
    BY <1>1, <1>4, <1>6, <1>7, <1>9, <2>3
  <2> QED
    BY <1>3, <1>6, <2>2, <2>4 DEF LeavesEachBlockOnce
<1>11. Reachable'
  BY <1>1, <1>2, <1>3 DEF WInv, Reachable
<1>12. Counted'
  <2>1. \A j \in 1..n : Cardinality(Visited') > Work[j][2]
    <3>1. \A j \in 1..n : Work[j][2] \in Nat /\ Cardinality(Visited) > Work[j][2]
      <4>1. \A j \in 1..n : Cardinality(Visited) > Work[j][2]
        BY <1>6 DEF WInv, Counted
      <4>2. MaxMarkerWalkDepth \in Nat /\ \A j \in 1..n : Work[j][2] \in 0..MaxMarkerWalkDepth
        BY <1>6, KindsAssumption
      <4> QED
        BY <4>1, <4>2
    <3> QED
      BY <1>2, <3>1
  <2>2. \A j \in 1..(n + 1) : Cardinality(Visited') > Work'[j][2]
    BY <1>2, <1>6, <1>7, <2>1
  <2> QED
    BY <1>2, <1>3, <1>4, <1>6, <2>2 DEF Counted
<1>13. Accounted'
  <2>1. Waiting \subseteq Waiting' /\ S \in Waiting'
    <3>1. \A j \in 1..n : Work[j][1] \in Waiting'
      <4> SUFFICES ASSUME NEW j \in 1..n PROVE Work[j][1] \in Waiting'
        OBVIOUS
      <4>1. j \in DOMAIN Work' /\ Work'[j] = Work[j]
        BY <1>6
      <4> QED
        BY <4>1 DEF Waiting
    <3>2. n + 1 \in DOMAIN Work' /\ Work'[n + 1][1] = S
      BY <1>6
    <3> QED
      BY <1>6, <3>1, <3>2 DEF Waiting
  <2> QED
    BY <1>1, <1>4, <2>1, LookAccounts
<1>14. \A j \in DOMAIN Work' : Work'[j][1] # Start
  BY <1>3, <1>4, <1>6, <1>7
<1> QED
  BY <1>1, <1>3, <1>6, <1>8, <1>10, <1>11, <1>12, <1>13, <1>14
  DEF WInv, FindsAllCopies, GivesUpForAReason

LEMMA WalkEnd == WInv /\ End => WInv'
<1> SUFFICES ASSUME WInv, End PROVE WInv'
  OBVIOUS
<1>1. /\ pc = "walk" /\ rest = {} /\ Work = <<>>
      /\ pc' = IF Loops = {} THEN "none" ELSE "found"
      /\ UNCHANGED <<successors, shared, Work, at, Depth, rest, Visited, Loops>> /\ UNCHANGED graph
  BY DEF End, graph
<1>2. \A b \in Visited : \A S \in successors[b] : Answered(b, S)
  BY <1>1 DEF WInv, Accounted, Waiting
<1>3. /\ WithinWalk' = WithinWalk /\ Entered' = Entered /\ CleanEntries' = CleanEntries
      /\ \A b, l : IsPreheader(b, l)' = IsPreheader(b, l)
  BY <1>1, SameGraph
<1>4. Visited = WithinWalk
  <2>1. Closed(Visited)
    BY <1>2 DEF Closed, Answered, WInv, Reachable
  <2> QED
    BY <2>1, WithinLeast DEF WInv, Reachable, TypeOK
<1>5. CleanEntries /\ Loops = Entered
  BY <1>2, <1>4 DEF Answered, CleanEntries, Entered, WInv, Reachable
<1>6. TypeOK' /\ LeavesEachBlockOnce' /\ Reachable' /\ Counted'
  BY <1>1, <1>3 DEF WInv, TypeOK, LeavesEachBlockOnce, Reachable, Counted
<1>7. Accounted'
  BY <1>1, <1>2, <1>3 DEF Accounted, Answered
<1> QED
  BY <1>1, <1>3, <1>5, <1>6, <1>7 DEF WInv, FindsAllCopies, GivesUpForAReason

\* Every step of the walk keeps the invariant.
LEMMA WalkStep == WInv /\ Step => WInv'
<1> SUFFICES ASSUME WInv, Step PROVE WInv'
  OBVIOUS
<1>1. CASE Pop
  BY <1>1, WalkPop
<1>2. CASE End
  BY <1>2, WalkEnd
<1>3. ASSUME NEW S \in Block, Find(S) PROVE WInv'
  BY <1>3, WalkFind
<1>4. ASSUME NEW S \in Block, Ambiguous(S) PROVE WInv'
  BY <1>4, WalkAmbiguous
<1>5. ASSUME NEW S \in Block, Skip(S) PROVE WInv'
  BY <1>5, WalkSkip
<1>6. ASSUME NEW S \in Block, TooDeep(S) PROVE WInv'
  BY <1>6, WalkTooDeep
<1>7. ASSUME NEW S \in Block, Push(S) PROVE WInv'
  BY <1>7, WalkPush
<1> QED
  BY <1>1, <1>2, <1>3, <1>4, <1>5, <1>6, <1>7 DEF Step

LEMMA WalkStutter == WInv /\ UNCHANGED vars => WInv'
<1> SUFFICES ASSUME WInv, UNCHANGED vars PROVE WInv'
  OBVIOUS
<1>1. UNCHANGED <<successors, shared, Work, at, Depth, rest, Visited, Loops, pc>> /\ UNCHANGED graph
  BY DEF vars, graph
<1>2. /\ WithinWalk' = WithinWalk /\ Entered' = Entered /\ CleanEntries' = CleanEntries
      /\ \A b, l : IsPreheader(b, l)' = IsPreheader(b, l)
  BY <1>1, SameGraph
<1>3. TypeOK' /\ LeavesEachBlockOnce' /\ Reachable' /\ Counted'
  BY <1>1, <1>2 DEF WInv, TypeOK, LeavesEachBlockOnce, Reachable, Counted
<1>4. Accounted' <=> Accounted
  BY <1>1, <1>2 DEF Accounted, Answered, Waiting
<1> QED
  BY <1>1, <1>2, <1>3, <1>4 DEF WInv, FindsAllCopies, GivesUpForAReason

-----------------------------------------------------------------------------
(* The walk, and then the rewrite.                                         *)

SInv ==
    /\ LeavesEachBlockOnce
    /\ pc \in {"walk", "found", "none"} => WInv

LEMMA SinkInitInv == SinkInit => SInv
BY WalkInit DEF SinkInit, SInv, WInv

LEMMA SinkStepInv == SInv /\ [SinkNext]_svars => SInv'
<1> SUFFICES ASSUME SInv, [SinkNext]_svars PROVE SInv'
  OBVIOUS
<1>1. CASE Step
  <2>1. pc = "walk"
    BY <1>1 DEF Step, Pop, End, Find, Ambiguous, Skip, TooDeep, Push, Look
  <2> QED
    BY <1>1, <2>1, WalkStep DEF SInv, WInv
<1>2. CASE UNCHANGED vars
  <2>1. CASE pc \in {"walk", "found", "none"}
    BY <1>2, <2>1, WalkStutter DEF SInv, WInv
  <2>2. CASE pc \notin {"walk", "found", "none"}
    <3>1. UNCHANGED <<Work, at, Visited, pc>>
      BY <1>2 DEF vars
    <3> QED
      BY <2>2, <3>1 DEF SInv, LeavesEachBlockOnce
  <2> QED
    BY <2>1, <2>2
<1>3. CASE BuildProbe
  <2>1. Work' = <<>> /\ DOMAIN Work' = {} /\ pc' = "probe"
    BY <1>3 DEF BuildProbe
  <2> QED
    BY <2>1 DEF SInv, LeavesEachBlockOnce
\* A step of the rewrite leaves the walk alone.
<1>4. ASSUME UNCHANGED walk, pc' \notin {"walk", "found", "none"} PROVE SInv'
  BY <1>4 DEF SInv, walk, LeavesEachBlockOnce
<1>5. CASE Optimize \/ Reject \/ Match \/ NextLoop \/ Verify
  <2>1. UNCHANGED walk /\ pc' \notin {"walk", "found", "none"}
    BY <1>5 DEF Optimize, Reject, Match, NextLoop, Verify, RewriteDone, Plan
  <2> QED
    BY <1>4, <2>1
<1>6. CASE PopSink
  BY <1>4, <1>6 DEF PopSink
<1>7. ASSUME NEW U \in uses, SetUse(U) \/ LeaveUse(U) \/ Sink(U) \/ Rewire(U) PROVE SInv'
  <2>1. Visit(U)
    BY <1>7 DEF SetUse, LeaveUse, Sink, Rewire
  <2> QED
    BY <1>4, <2>1 DEF Visit
<1> QED
  BY <1>1, <1>2, <1>3, <1>5, <1>6, <1>7 DEF SinkNext, Rewrite, Transplanted, svars

\* The inductive invariant: of the walk, and that it is over and done with
\* while the probe is rewritten.
THEOREM SinkSpecInv == SinkSpec => []SInv
BY SinkInitInv, SinkStepInv, PTL DEF SinkSpec

\* A walk that succeeds has found exactly the loops that a path without a barrier
\* leads to, each entered by its preheader: on every control-flow graph, in
\* whatever order branches list their targets.
THEOREM WalkFindsAll == SinkSpec => []FindsAllCopies
<1>1. SInv => FindsAllCopies
  BY DEF SInv, WInv, FindsAllCopies
<1> QED
  BY <1>1, SinkSpecInv, PTL

\* A walk gives up only with nothing to find, an ambiguous entry, or more blocks
\* than the limit within reach.
THEOREM WalkGivesUp == SinkSpec => []GivesUpForAReason
<1>1. SInv => GivesUpForAReason
  BY DEF SInv, WInv, GivesUpForAReason
<1> QED
  BY <1>1, SinkSpecInv, PTL

\* No block waits to be left twice.
THEOREM WalkLeavesOnce == SinkSpec => []LeavesEachBlockOnce
<1>1. SInv => LeavesEachBlockOnce
  BY DEF SInv
<1> QED
  BY <1>1, SinkSpecInv, PTL

\* The same of the walk by itself.
THEOREM WalkAlone == Spec => [](FindsAllCopies /\ GivesUpForAReason /\ LeavesEachBlockOnce)
<1>1. WInv /\ [Next]_vars => WInv'
  BY WalkStep, WalkStutter DEF Next, Returned
<1>2. WInv => FindsAllCopies /\ GivesUpForAReason /\ LeavesEachBlockOnce
  BY DEF WInv
<1> QED
  BY <1>1, <1>2, WalkInit, PTL DEF Spec

-----------------------------------------------------------------------------
(* The rewrite: numbers.                                                   *)

\* The nodes that there are when the rewrite of a step loop begins, and those that
\* there may be at its end: clones are numbered above what they are of.
Old == IF k = 0 THEN 0 ELSE IVExit(k) - 1
Top == IF k = 0 THEN VALUES ELSE 2 * IVExit(k) - 1

Late == {"match", "sink", "transplanted", "rejected", "unverified"}

\* The probe is there from "match" on, and rewritten from "sink" on.
Stages ==
    /\ pc \in {"walk", "found", "none", "probe"} \cup Late
    /\ k \in 0..2
    /\ k # 0 => pc \in Late \ {"match"}
    /\ pc = "sink" => k # 0
    /\ k = 0 => uses = {} /\ Sinks = <<>> /\ clones = <<>>
    /\ pc \in Late => limit \in [Exits -> Value]

Numbered ==
    /\ DOMAIN operands \subseteq 1..Top
    /\ \A x \in DOMAIN operands : operands[x] \subseteq 1..Top
    /\ DOMAIN reads \subseteq Value \X Exits
    /\ \A p \in DOMAIN reads : reads[p] \in 1..Top
    /\ needs \subseteq DOMAIN operands /\ needs \subseteq 1..Old
    /\ O \in 0..Old /\ (uses # {} => O # 0)
    /\ Sinks \in Seq(1..Old)
    /\ clones \in Seq(DOMAIN operands)

\* All that waits has been cloned, except for the limit, which is first.
ClonedOnce ==
    /\ IsInjective(clones)
    /\ IsInjective(Sinks)
    /\ \/ \A j \in DOMAIN Sinks : Cloned(Sinks[j])
       \/ Sinks = <<limit[k]>> /\ uses = {}

RInv ==
    /\ TypeOK
    /\ Stages
    /\ kind = <<>> \/ kind \in [Value -> {"pure", "merge", "memory"}]
    /\ place = <<>> \/ place \in [Value -> 0..1]
    /\ limit = <<>> \/ limit \in [Exits -> Value]
    /\ chained \in BOOLEAN
    /\ Numbered
    /\ ClonedOnce

LEMMA Numbers ==
    /\ VALUES \in Nat \ {0} /\ Value = 1..VALUES
    /\ IVExit(1) = VALUES + 1 /\ IVExit(2) = 2 * VALUES + 2
    /\ Nodes = 1..(4 * VALUES + 3)
    /\ k = 0 => Old = 0 /\ Top = VALUES
    /\ k = 1 => Old = VALUES /\ Top = 2 * VALUES + 1
    /\ k = 2 => Old = 2 * VALUES + 1 /\ Top = 4 * VALUES + 3
BY ValuesAssumption DEF Value, IVExit, Nodes, Sunk, Old, Top

\* What replaces a node, and the clone of one, is numbered above the old nodes and
\* below the top; clones of different nodes are different.
LEMMA Clones ==
    ASSUME k \in 1..2, NEW x \in 1..Old
    PROVE  /\ Repl(x) \in 1..Top /\ Sunk(k, x) \in 1..Top /\ x \in 1..Top
           /\ \A y \in 1..Old : Sunk(k, x) = Sunk(k, y) => x = y
<1>1. CASE k = 1
  BY <1>1, Numbers DEF Repl, Sunk
<1>2. CASE k = 2
  BY <1>2, Numbers DEF Repl, Sunk
<1> QED
  BY <1>1, <1>2

LEMMA ElementIn ==
    ASSUME NEW S, NEW s \in Seq(S)
    PROVE  \A j \in DOMAIN s : s[j] \in S
OBVIOUS

LEMMA NeedsAre == \A e : Needs(e) \subseteq DOMAIN operands
BY DEF Needs, Reached, Before

LEMMA InjectiveAppend ==
    ASSUME NEW S, NEW s \in Seq(S), IsInjective(s), NEW x \in S,
           \A j \in DOMAIN s : s[j] # x
    PROVE  IsInjective(Append(s, x))
BY AppendIs DEF IsInjective

LEMMA RewriteTypeOK == RInv => SinkTypeOK
<1> SUFFICES ASSUME RInv PROVE SinkTypeOK
  OBVIOUS
<1> USE DEF RInv
<1>1. 1..Top \subseteq Nodes /\ 1..Old \subseteq Nodes /\ 0..Old \subseteq Nodes \cup {0}
  BY Numbers DEF Stages
<1>2. DOMAIN operands \cup UNION Range(operands) \subseteq Nodes
  <2>1. \A x \in DOMAIN operands : operands[x] \subseteq Nodes
    BY <1>1 DEF Numbered
  <2> QED
    BY <1>1, <2>1 DEF Numbered, Range
<1>3. DOMAIN reads \subseteq Value \X Exits /\ Range(reads) \subseteq Nodes
  BY <1>1 DEF Numbered, Range
<1>4. needs \subseteq Nodes /\ O \in Nodes \cup {0}
  BY <1>1 DEF Numbered
<1>5. Range(Sinks) \subseteq Nodes /\ IsInjective(Sinks)
  <2>1. \A j \in DOMAIN Sinks : Sinks[j] \in Nodes
    BY <1>1, ElementIn DEF Numbered
  <2> QED
    BY <2>1 DEF ClonedOnce, Range
<1>6. Range(clones) \subseteq Nodes /\ IsInjective(clones)
  <2>1. \A j \in DOMAIN clones : clones[j] \in Nodes
    BY <1>1 DEF Numbered
  <2> QED
    BY <2>1 DEF ClonedOnce, Range
<1>7. pc \in {"walk", "found", "none", "probe", "match", "sink", "transplanted", "rejected",
              "unverified"} /\ k \in 0..2
  BY DEF Stages, Late
<1> QED
  BY <1>2, <1>3, <1>4, <1>5, <1>6, <1>7, Zenon DEF SinkTypeOK

LEMMA RewriteInit == SinkInit => RInv
<1> SUFFICES ASSUME SinkInit PROVE RInv
  OBVIOUS
<1>1. TypeOK /\ pc = "walk"
  BY WalkInit DEF SinkInit, WInv, Init
<1>2. /\ kind = <<>> /\ place = <<>> /\ limit = <<>> /\ chained = FALSE
      /\ operands = <<>> /\ reads = <<>> /\ k = 0 /\ needs = {}
      /\ Sinks = <<>> /\ O = 0 /\ uses = {} /\ clones = <<>>
  BY DEF SinkInit, InitProbe
<1>3. Stages
  BY <1>1, <1>2 DEF Stages, Late
<1>4. Numbered
  BY <1>2, Numbers DEF Numbered
<1>5. ClonedOnce
  BY <1>2 DEF ClonedOnce, IsInjective
<1>6. chained \in BOOLEAN
  BY <1>2, Zenon
<1> QED
  BY <1>1, <1>2, <1>3, <1>4, <1>5, <1>6 DEF RInv

\* Steps that do not rewrite.
LEMMA RewriteKept ==
    ASSUME RInv, TypeOK', Stages', UNCHANGED <<probe, sink>>
    PROVE  RInv'
<1>1. UNCHANGED <<kind, place, limit, chained, operands, reads, k, needs, Sinks, O, uses, clones>>
  BY DEF probe, shapes, sink
<1>2. Numbered'
  BY <1>1 DEF RInv, Numbered, Top, Old, IVExit
<1>3. ClonedOnce'
  BY <1>1 DEF RInv, ClonedOnce, Cloned, Sunk, IVExit, IsInjective
<1>4. chained' \in BOOLEAN
  BY <1>1, Zenon DEF RInv
<1> QED
  BY <1>1, <1>2, <1>3, <1>4 DEF RInv

LEMMA TypeKept == TypeOK /\ UNCHANGED walk => TypeOK'
BY DEF TypeOK, walk, graph

LEMMA BuildProbeKept == RInv /\ BuildProbe => RInv'
<1> SUFFICES ASSUME RInv, BuildProbe PROVE RInv'
  OBVIOUS
<1>1. /\ pc = "found" /\ pc' = "probe" /\ UNCHANGED <<probe, sink>>
      /\ successors' = [b \in Walked |-> {}] /\ Work' = <<>> /\ at' = Start /\ Depth' = 0
      /\ rest' = {} /\ Visited' = {} /\ Loops' = {} /\ shared' = {}
  BY DEF BuildProbe
<1>2. TypeOK'
  BY <1>1, KindsAssumption DEF TypeOK, Walked
<1>3. Stages'
  BY <1>1 DEF RInv, Stages, Late, probe, shapes, sink
<1> QED
  BY <1>1, <1>2, <1>3, RewriteKept

LEMMA OptimizeKept == RInv /\ Optimize => RInv'
<1> SUFFICES ASSUME RInv, Optimize PROVE RInv'
  OBVIOUS
<1> USE DEF RInv
<1>1. /\ pc = "probe" /\ pc' = "match" /\ UNCHANGED <<k, needs, Sinks, O, uses, clones>>
      /\ UNCHANGED walk
      /\ kind' \in [Value -> {"pure", "merge", "memory"}]
      /\ place' \in [Value -> 0..1]
      /\ limit' \in [Exits -> Value]
      /\ operands' \in [Value -> SUBSET (1..(VALUES - 1))]
      /\ \E P \in SUBSET (Value \X Exits) : reads' = [p \in P |-> p[1]]
  BY DEF Optimize, sink
<1>2. chained' \in BOOLEAN
  BY Zenon DEF Optimize
<1>3. k = 0 /\ k' = 0 /\ Sinks = <<>> /\ uses = {} /\ clones = <<>>
  BY <1>1 DEF Stages, Late
<1>4. Stages'
  BY <1>1, <1>3 DEF Stages, Late
<1>5. Top' = VALUES /\ Old' = 0 /\ Old = 0
  BY <1>3 DEF Top, Old
<1>6. Numbered'
  <2>1. DOMAIN operands' = Value /\ \A x \in DOMAIN operands' : operands'[x] \subseteq 1..VALUES
    BY <1>1, Numbers
  <2>2. DOMAIN reads' \subseteq Value \X Exits /\ \A p \in DOMAIN reads' : reads'[p] \in Value
    BY <1>1
  <2>3. Sinks' \in Seq(1..0) /\ clones' \in Seq(DOMAIN operands') /\ needs' = {}
    BY <1>1, <1>3, <1>5 DEF Numbered
  <2> QED
    BY <1>1, <1>3, <1>5, <2>1, <2>2, <2>3, Numbers DEF Numbered
<1>7. ClonedOnce'
  BY <1>1, <1>3 DEF ClonedOnce, IsInjective
<1> QED
  BY <1>1, <1>2, <1>4, <1>6, <1>7, TypeKept

LEMMA RejectVerifyKept == RInv /\ (Reject \/ Verify) => RInv'
<1> SUFFICES ASSUME RInv, Reject \/ Verify PROVE RInv'
  OBVIOUS
<1>1. /\ pc \in {"match", "sink"} /\ pc' \in {"rejected", "transplanted", "unverified"}
      /\ UNCHANGED <<walk, probe, sink>>
  BY DEF Reject, Verify, RewriteDone
<1>2. UNCHANGED <<k, uses, Sinks, clones, limit>>
  BY <1>1 DEF sink, probe, shapes
<1>3. Stages'
  BY <1>1, <1>2 DEF RInv, Stages, Late
<1> QED
  BY <1>1, <1>3, TypeKept, RewriteKept DEF RInv

\* A plan notes nothing but nodes that there are.
LEMMA PlanKept ==
    ASSUME RInv, NEW e \in 1..2, pc \in {"match", "sink"}, k = e - 1, pc' = "sink",
           uses = {}, Sinks = <<>>, Plan(e)
    PROVE  RInv'
<1> USE DEF RInv
<1>1. /\ k' = e /\ needs' = Needs(e) /\ Sinks' = <<limit[e]>>
      /\ UNCHANGED <<walk, kind, place, limit, chained, operands, reads, O, uses, clones>>
  BY DEF Plan, probe, shapes
<1>2. limit[e] \in Value /\ limit \in [Exits -> Value]
  BY DEF Stages, Late, Exits
<1>3. Stages'
  BY <1>1, <1>2 DEF Stages, Late
<1>4. /\ Old \in Nat /\ Old <= Old' /\ Top <= Old' /\ Old' <= Top' /\ VALUES <= Old'
      /\ Top \in Nat /\ Old' \in Nat /\ Top' \in Nat
  <2>1. CASE e = 1
    <3>1. k = 0 /\ Old' = IVExit(1) - 1 /\ Top' = 2 * IVExit(1) - 1
      BY <1>1, <2>1 DEF Old, Top, IVExit
    <3> QED
      BY <3>1, Numbers
  <2>2. CASE e = 2
    <3>1. k = 1 /\ Old' = IVExit(2) - 1 /\ Top' = 2 * IVExit(2) - 1
      BY <1>1, <2>2 DEF Old, Top, IVExit
    <3> QED
      BY <3>1, Numbers
  <2> QED
    BY <2>1, <2>2
<1>5. Numbered'
  <2>1. DOMAIN operands' \subseteq 1..Top' /\ \A x \in DOMAIN operands' : operands'[x] \subseteq 1..Top'
    BY <1>1, <1>4 DEF Numbered
  <2>2. DOMAIN reads' \subseteq Value \X Exits /\ \A p \in DOMAIN reads' : reads'[p] \in 1..Top'
    BY <1>1, <1>4 DEF Numbered
  <2>3. needs' \subseteq DOMAIN operands' /\ needs' \subseteq 1..Old'
    BY <1>1, <1>4, NeedsAre DEF Numbered
  <2>4. Sinks' \in Seq(1..Old')
    BY <1>1, <1>2, <1>4, Numbers
  <2>5. O' \in 0..Old' /\ (uses' # {} => O' # 0) /\ clones' \in Seq(DOMAIN operands')
    BY <1>1, <1>4 DEF Numbered
  <2> QED
    BY <2>1, <2>2, <2>3, <2>4, <2>5 DEF Numbered
<1>6. ClonedOnce'
  <2>1. IsInjective(Sinks') /\ Sinks' = <<limit'[k']>>
    BY <1>1 DEF IsInjective
  <2> QED
    BY <1>1, <2>1 DEF ClonedOnce, IsInjective
<1>7. chained' \in BOOLEAN
  BY <1>1, Zenon
<1> QED
  BY <1>1, <1>3, <1>5, <1>6, <1>7, TypeKept

LEMMA MatchNextKept == RInv /\ (Match \/ NextLoop) => RInv'
<1> SUFFICES ASSUME RInv, Match \/ NextLoop PROVE RInv'
  OBVIOUS
<1>1. CASE Match
  <2>1. pc = "match" /\ pc' = "sink" /\ Plan(1)
    BY <1>1 DEF Match
  <2>2. k = 0 /\ uses = {} /\ Sinks = <<>>
    BY <2>1 DEF RInv, Stages
  <2> QED
    BY <2>1, <2>2, PlanKept
<1>2. CASE NextLoop
  BY <1>2, PlanKept DEF NextLoop, RewriteDone
<1> QED
  BY <1>1, <1>2

LEMMA PopSinkKept == RInv /\ PopSink => RInv'
<1> SUFFICES ASSUME RInv, PopSink PROVE RInv'
  OBVIOUS
<1> USE DEF RInv
<1>1. /\ pc = "sink" /\ uses = {} /\ Sinks # <<>> /\ O' = Last(Sinks) /\ Sinks' = Front(Sinks)
      /\ UNCHANGED <<walk, pc, kind, place, limit, chained, operands, reads, k, needs, clones>>
  BY DEF PopSink, probe, shapes
<1>2. /\ Sinks \in Seq(1..Old) /\ O' \in 1..Old /\ Sinks' \in Seq(1..Old)
      /\ DOMAIN Sinks' = 1..(Len(Sinks) - 1) /\ DOMAIN Sinks = 1..Len(Sinks)
      /\ Len(Sinks) \in Nat \ {0}
      /\ \A j \in 1..(Len(Sinks) - 1) : Sinks'[j] = Sinks[j]
  <2>1. Sinks \in Seq(1..Old)
    BY DEF Numbered
  <2> QED
    BY <1>1, <2>1, FrontLast
<1>3. Top' = Top /\ Old' = Old /\ \A x : Cloned(x)' <=> Cloned(x)
  BY <1>1 DEF Top, Old, IVExit, Cloned, Sunk
<1>4. Stages'
  BY <1>1 DEF Stages, Late
<1>5. Numbered'
  <2>1. Old \in Nat
    BY Numbers DEF Stages
  <2>2. O' \in 0..Old' /\ O' # 0
    BY <1>2, <1>3, <2>1
  <2> QED
    BY <1>1, <1>2, <1>3, <2>2 DEF Numbered
<1>6. ClonedOnce'
  <2>1. IsInjective(Sinks')
    BY <1>2 DEF ClonedOnce, IsInjective
  <2>2. \A j \in DOMAIN Sinks' : Cloned(Sinks[j])'
    <3>1. CASE \A j \in DOMAIN Sinks : Cloned(Sinks[j])
      BY <1>1, <1>2, <3>1 DEF Cloned, Sunk, IVExit
    <3>2. CASE Sinks = <<limit[k]>>
      <4>1. DOMAIN Sinks' = {}
        BY <1>2, <3>2
      <4> QED
        BY <4>1
    <3> QED
      BY <3>1, <3>2 DEF ClonedOnce
  <2>3. IsInjective(clones')
    BY <1>1 DEF ClonedOnce
  <2> QED
    BY <2>1, <2>2, <2>3 DEF ClonedOnce, IsInjective
<1>7. chained' \in BOOLEAN
  BY <1>1, Zenon
<1> QED
  BY <1>1, <1>4, <1>5, <1>6, <1>7, TypeKept

\* A use that is looked at changes nothing of the plan.
LEMMA VisitIs ==
    ASSUME RInv, NEW U \in uses, Visit(U)
    PROVE  /\ pc = "sink" /\ pc' = "sink" /\ k \in 1..2 /\ uses' \subseteq uses /\ O \in 1..Old
           /\ UNCHANGED <<walk, kind, place, limit, chained, k, needs, O>>
           /\ Top' = Top /\ Old' = Old /\ Top \in Nat /\ Old \in Nat /\ TypeOK'
           /\ Replaced({}) \subseteq 1..Top
           /\ \A j \in DOMAIN Sinks : Cloned(Sinks[j])
<1> USE DEF RInv
<1>1. /\ pc = "sink" /\ uses' = uses \ {U} /\ uses # {}
      /\ UNCHANGED <<walk, pc, kind, place, limit, chained, k, needs, O>>
  BY DEF Visit, shapes
<1>2. k \in 1..2 /\ Top \in Nat /\ Old \in Nat
  BY <1>1, Numbers DEF Stages
<1>3. Top' = Top /\ Old' = Old
  BY <1>1 DEF Top, Old, IVExit
<1>4. O \in 1..Old
  BY <1>1, <1>2 DEF Numbered
<1>5. Replaced({}) \subseteq 1..Top
  BY <1>2, <1>4, Clones DEF Replaced
<1>6. \A j \in DOMAIN Sinks : Cloned(Sinks[j])
  BY <1>1 DEF ClonedOnce
<1> QED
  BY <1>1, <1>2, <1>3, <1>4, <1>5, <1>6, TypeKept

\* Steps that change what a node or a use is computed from, and nothing else.
LEMMA OperandsKept ==
    ASSUME RInv, NEW U \in uses, Visit(U), UNCHANGED <<Sinks, clones>>,
           DOMAIN operands' = DOMAIN operands, DOMAIN reads' = DOMAIN reads,
           \A x \in DOMAIN operands : operands'[x] \subseteq operands[x] \cup Replaced({}),
           \A p \in DOMAIN reads : reads'[p] \in {reads[p]} \cup Replaced({})
    PROVE  RInv'
<1>1. /\ pc = "sink" /\ pc' = "sink" /\ k \in 1..2 /\ uses' \subseteq uses /\ O \in 1..Old
      /\ UNCHANGED <<walk, kind, place, limit, chained, k, needs, O>>
      /\ Top' = Top /\ Old' = Old /\ Top \in Nat /\ Old \in Nat /\ TypeOK'
      /\ Replaced({}) \subseteq 1..Top
      /\ \A j \in DOMAIN Sinks : Cloned(Sinks[j])
  BY VisitIs
<1> USE DEF RInv
<1>2. Stages'
  BY <1>1 DEF Stages, Late
<1>3. Numbered'
  BY <1>1 DEF Numbered
<1>4. ClonedOnce'
  <2>1. \A j \in DOMAIN Sinks' : Cloned(Sinks[j])'
    BY <1>1 DEF Cloned, Sunk, IVExit
  <2> QED
    BY <2>1 DEF ClonedOnce, IsInjective
<1>5. chained' \in BOOLEAN
  BY <1>1, Zenon
<1> QED
  BY <1>1, <1>2, <1>3, <1>4, <1>5

LEMMA SetUseKept == ASSUME RInv, NEW U \in uses, SetUse(U) PROVE RInv'
<1>1. Visit(U) /\ UNCHANGED <<Sinks, clones>>
  BY DEF SetUse
<1>2. CASE U.read
  <2>1. reads' = [reads EXCEPT ![U.of] = Repl(O)] /\ operands' = operands
    BY <1>2 DEF SetUse
  <2>2. \A p \in DOMAIN reads : reads'[p] \in {reads[p]} \cup Replaced({})
    BY <2>1 DEF Replaced
  <2> QED
    BY <1>1, <2>1, <2>2, OperandsKept
<1>3. CASE ~U.read
  <2>1. operands' = [operands EXCEPT ![U.of[1]] = Replaced(@)] /\ reads' = reads
    BY <1>3 DEF SetUse
  <2>2. \A x \in DOMAIN operands : operands'[x] \subseteq operands[x] \cup Replaced({})
    BY <2>1 DEF Replaced
  <2> QED
    BY <1>1, <2>1, <2>2, OperandsKept
<1> QED
  BY <1>2, <1>3

LEMMA LeaveUseKept == ASSUME RInv, NEW U \in uses, LeaveUse(U) PROVE RInv'
<1>1. Visit(U) /\ UNCHANGED <<operands, reads, Sinks, clones>>
  BY DEF LeaveUse
<1> QED
  BY <1>1, OperandsKept

LEMMA RewireKept == ASSUME RInv, NEW U \in uses, Rewire(U) PROVE RInv'
<1>1. Visit(U) /\ UNCHANGED <<reads, Sinks, clones>>
  BY DEF Rewire
<1> DEFINE c == Sunk(k, U.of[1])
<1>2. operands' = [operands EXCEPT ![c] = IF O \in @ THEN Replaced(@) ELSE @]
  BY DEF Rewire
<1>3. \A x \in DOMAIN operands : operands'[x] \subseteq operands[x] \cup Replaced({})
  BY <1>2 DEF Replaced
<1> QED
  BY <1>1, <1>2, <1>3, OperandsKept

\* A clone that was not there comes to be, and what it is of waits.
LEMMA SinkKept == ASSUME RInv, NEW U \in uses, Sink(U) PROVE RInv'
<1> DEFINE x == U.of[1]
           c == Sunk(k, x)
<1>1. /\ Needed(U) /\ ~Cloned(x) /\ Visit(U) /\ AddClone(x)
      /\ clones' = Append(clones, c) /\ Sinks' = Append(Sinks, x) /\ UNCHANGED reads
  BY DEF Sink, Below, Noted
<1>2. /\ pc = "sink" /\ pc' = "sink" /\ k \in 1..2 /\ uses' \subseteq uses /\ O \in 1..Old
      /\ UNCHANGED <<walk, kind, place, limit, chained, k, needs, O>>
      /\ Top' = Top /\ Old' = Old /\ Top \in Nat /\ Old \in Nat /\ TypeOK'
      /\ Replaced({}) \subseteq 1..Top
      /\ \A j \in DOMAIN Sinks : Cloned(Sinks[j])
  BY <1>1, VisitIs
<1> USE DEF RInv
<1>3. x \in needs /\ x \in 1..Old /\ c \notin DOMAIN operands /\ c \in 1..Top /\ x \in 1..Top
  <2>1. x \in needs /\ c \notin DOMAIN operands
    BY <1>1 DEF Needed, Cloned
  <2>2. x \in 1..Old
    BY <2>1 DEF Numbered
  <2> QED
    BY <1>2, <2>1, <2>2, Clones
<1>4. /\ DOMAIN operands' = DOMAIN operands \cup {c}
      /\ operands'[c] = Replaced(operands[x])
      /\ \A y \in DOMAIN operands : operands'[y] = operands[y]
  BY <1>1, <1>3 DEF AddClone
<1> HIDE DEF c, x
<1>5. Stages'
  BY <1>2 DEF Stages, Late
<1>6. Numbered'
  <2>1. DOMAIN operands' \subseteq 1..Top'
    BY <1>2, <1>3, <1>4 DEF Numbered
  <2>2. \A y \in DOMAIN operands' : operands'[y] \subseteq 1..Top'
    <3>1. operands[x] \subseteq 1..Top
      BY <1>3 DEF Numbered
    <3> QED
      BY <1>2, <1>4, <3>1 DEF Numbered, Replaced
  <2>3. Sinks' \in Seq(1..Old')
    BY <1>1, <1>2, <1>3 DEF Numbered
  <2>4. clones' \in Seq(DOMAIN operands')
    BY <1>1, <1>4 DEF Numbered
  <2> QED
    BY <1>1, <1>2, <1>4, <2>1, <2>2, <2>3, <2>4 DEF Numbered
<1>7. ClonedOnce'
  <2>1. \A j \in DOMAIN clones : clones[j] # c
    BY <1>3, ElementIn DEF Numbered
  <2>2. \A j \in DOMAIN Sinks : Sinks[j] # x
    BY <1>2, <1>3 DEF Cloned, c
  <2>3. clones \in Seq(DOMAIN operands') /\ c \in DOMAIN operands' /\ Sinks \in Seq(1..Old)
    BY <1>4 DEF Numbered
  <2>4. IsInjective(clones') /\ IsInjective(Sinks')
    BY <1>1, <1>3, <2>1, <2>2, <2>3, InjectiveAppend DEF ClonedOnce
  <2>5. ASSUME NEW j \in DOMAIN Sinks' PROVE Sunk(k, Sinks'[j]) \in DOMAIN operands'
    <3>1. /\ DOMAIN Sinks' = 1..(Len(Sinks) + 1) /\ DOMAIN Sinks = 1..Len(Sinks)
          /\ \A l \in 1..Len(Sinks) : Sinks'[l] = Sinks[l]
          /\ Sinks'[Len(Sinks) + 1] = x /\ Len(Sinks) \in Nat
      BY <1>1, <1>3, <2>3, AppendIs
    <3>2. CASE j \in 1..Len(Sinks)
      BY <1>2, <1>4, <3>1, <3>2 DEF Cloned
    <3>3. CASE j = Len(Sinks) + 1
      BY <1>4, <3>1, <3>3 DEF c
    <3> QED
      BY <3>1, <3>2, <3>3
  <2>6. \A j \in DOMAIN Sinks' : Cloned(Sinks[j])'
    BY <1>2, <2>5 DEF Cloned, Sunk, IVExit
  <2> QED
    BY <2>4, <2>6 DEF ClonedOnce, IsInjective
<1>8. chained' \in BOOLEAN
  BY <1>2, Zenon
<1> QED
  BY <1>2, <1>5, <1>6, <1>7, <1>8

LEMMA RewriteStep == SInv /\ RInv /\ [SinkNext]_svars => RInv'
<1> SUFFICES ASSUME SInv, RInv, [SinkNext]_svars PROVE RInv'
  OBVIOUS
<1>1. CASE Step /\ UNCHANGED <<probe, sink>>
  <2>1. pc = "walk"
    BY <1>1 DEF Step, Pop, End, Find, Ambiguous, Skip, TooDeep, Push, Look
  <2>2. TypeOK' /\ pc' \in {"walk", "found", "none"}
    BY <1>1, <2>1, WalkStep DEF SInv, WInv
  <2>3. k = 0 /\ UNCHANGED <<k, uses, Sinks, clones, limit>>
    BY <1>1, <2>1 DEF RInv, Stages, Late, sink, probe, shapes
  <2>4. Stages'
    BY <2>2, <2>3 DEF RInv, Stages, Late
  <2> QED
    BY <1>1, <2>2, <2>4, RewriteKept
<1>2. CASE UNCHANGED svars
  <2>1. UNCHANGED walk /\ UNCHANGED <<probe, sink>> /\ pc' = pc
    BY <1>2 DEF svars, vars, walk, graph
  <2>2. Stages'
    BY <2>1 DEF RInv, Stages, Late, sink, probe, shapes
  <2> QED
    BY <2>1, <2>2, TypeKept, RewriteKept DEF RInv
<1>3. ASSUME NEW U \in uses, SetUse(U) \/ LeaveUse(U) \/ Sink(U) \/ Rewire(U) PROVE RInv'
  BY <1>3, SetUseKept, LeaveUseKept, SinkKept, RewireKept
<1> QED
  BY <1>1, <1>2, <1>3, BuildProbeKept, OptimizeKept, RejectVerifyKept, MatchNextKept,
     PopSinkKept DEF SinkNext, Rewrite, Transplanted

\* In every probe each value is cloned once per exit at most and never waits
\* twice, whatever the order of the uses and whichever clones are cloned again.
THEOREM RewriteTypeCorrect == SinkSpec => []SinkTypeOK
<1>1. SInv /\ RInv /\ [SinkNext]_svars => RInv'
  BY RewriteStep
<1>2. SinkSpec => []RInv
  BY <1>1, RewriteInit, SinkSpecInv, PTL DEF SinkSpec
<1> QED
  BY <1>2, RewriteTypeOK, PTL

-----------------------------------------------------------------------------
(* What the rewrite computes: nodes and recursion.                         *)

\* The value that a node stands for, of a node below the second exit and of any.
FirstRoot(x) == IF x \in Value THEN x ELSE IF x = IVExit(1) THEN limit[1] ELSE x - IVExit(1)
Root(x) == IF x < IVExit(2) THEN FirstRoot(x)
           ELSE IF x = IVExit(2) THEN limit[2] ELSE FirstRoot(x - IVExit(2))

\* What a node stands for, without the recursion.
LEMMA OrigIs == \A x \in Nodes : Orig(x) = Root(x)
<1> DEFINE e(y) == IF y < IVExit(2) THEN 1 ELSE 2
           Step1(o) == [y \in Nodes |->
                IF y \in Value THEN y
                ELSE IF y = IVExit(e(y)) THEN limit[e(y)] ELSE o[y - IVExit(e(y))]]
           o == CHOOSE o : o = Step1(o)
           R == [y \in Nodes |-> Root(y)]
<1>1. R = Step1(R)
  <2>1. ASSUME NEW y \in Nodes PROVE R[y] = Step1(R)[y]
    BY Numbers DEF Root, FirstRoot
  <2> QED
    BY <2>1
<1>2. o = Step1(o)
  BY <1>1
<1>3. \A x \in Nodes : Orig(x) = o[x]
  BY DEF Orig
<1> HIDE DEF o
<1>4. ASSUME NEW x \in Nodes PROVE o[x] = Root(x)
  <2>1. \A y \in Nodes : o[y] = IF y \in Value THEN y
                ELSE IF y = IVExit(e(y)) THEN limit[e(y)] ELSE o[y - IVExit(e(y))]
    BY <1>2
  <2>2. CASE x \in Value
    BY <2>1, <2>2, Numbers DEF Root, FirstRoot
  <2>3. \A y \in Nodes : y < IVExit(2) => o[y] = FirstRoot(y)
    BY <2>1, Numbers DEF FirstRoot
  <2>4. CASE ~(x < IVExit(2))
    BY <2>1, <2>3, <2>4, Numbers DEF Root
  <2> QED
    BY <2>3, <2>4 DEF Root
<1> QED
  BY <1>3, <1>4

\* What is reached from a base along edges is a set that satisfies the equation of
\* one whose members are in the base or have an edge to another.
Solves(L, B, base, edge) ==
    L \subseteq B /\ \A x \in B : x \in L <=> (x \in base \/ edge[x] \cap L # {})

LEMMA LeastSet == \A B, base, edge : \E L : Solves(L, B, base, edge)
<1> TAKE B, base, edge
<1> DEFINE Shut(S) == \A x \in B : x \in base \/ edge[x] \cap S # {} => x \in S
           L == {x \in B : \A S \in SUBSET B : Shut(S) => x \in S}
           M == {x \in B : x \in base \/ edge[x] \cap L # {}}
<1>1. ASSUME NEW x \in B, x \in base \/ edge[x] \cap L # {} PROVE x \in L
  <2> SUFFICES ASSUME NEW S \in SUBSET B, Shut(S) PROVE x \in S
    OBVIOUS
  <2>1. L \subseteq S
    OBVIOUS
  <2> QED
    BY <1>1, <2>1
<1>2. ASSUME NEW x \in L PROVE x \in M
  <2>1. M \in SUBSET B /\ M \subseteq L
    BY <1>1
  <2>2. Shut(M)
    BY <2>1
  <2> QED
    BY <2>1, <2>2
<1>3. L \in SUBSET B
  OBVIOUS
<1> HIDE DEF L
<1>4. \A x \in B : x \in L <=> (x \in base \/ edge[x] \cap L # {})
  BY <1>1, <1>2, <1>3
<1> QED
  BY <1>3, <1>4 DEF Solves

\* Of the members of a set one has the least rank, and one the greatest.
LEMMA LeastRank ==
    ASSUME NEW S, S # {}, NEW rank, \A x \in S : rank[x] \in Nat
    PROVE  \E x \in S : \A y \in S : rank[x] <= rank[y]
<1> DEFINE T == {rank[x] : x \in S}
<1>1. T \subseteq Nat /\ T # {}
  OBVIOUS
<1>2. PICK n \in T : \A m \in T : ~(<<m, n>> \in OpToRel(<, Nat))
  BY <1>1, WFMin, NatLessThanWellFounded
<1>3. ASSUME NEW m \in T PROVE n <= m
  <2>1. m \in Nat /\ n \in Nat /\ ~(<<m, n>> \in OpToRel(<, Nat))
    BY <1>1, <1>2
  <2> QED
    BY <2>1 DEF OpToRel
<1> QED
  BY <1>3

LEMMA GreatestRank ==
    ASSUME NEW S, S # {}, NEW rank, NEW b \in Nat, \A x \in S : rank[x] \in 0..b
    PROVE  \E x \in S : \A y \in S : rank[y] <= rank[x]
<1> DEFINE up == [x \in S |-> b - rank[x]]
<1>1. \A x \in S : up[x] \in Nat
  OBVIOUS
<1>2. PICK x \in S : \A y \in S : up[x] <= up[y]
  BY <1>1, LeastRank
<1> QED
  BY <1>2

\* SinkPlan's sets, without the recursion.
LEMMA ReachedIs ==
    ASSUME NEW e
    PROVE  /\ Reached(e) \subseteq Before(e)
           /\ \A x \in Before(e) : x \in Reached(e) <=>
                Pure(x) /\ \E o \in operands[x] : o = limit[e] \/ o \in Reached(e)
<1> DEFINE B == Before(e)
           Rule(r) == [x \in B |->
               Pure(x) /\ \E o \in operands[x] : o = limit[e] \/ (o \in B /\ r[o])]
           r == CHOOSE r : r = Rule(r)
           base == {x \in B : Pure(x) /\ limit[e] \in operands[x]}
           edge == [x \in B |-> IF Pure(x) THEN operands[x] ELSE {}]
<1>1. \E f : f = Rule(f)
  <2> HIDE DEF B
  <2>1. PICK L \in SUBSET B : \A x \in B : x \in L <=> (x \in base \/ edge[x] \cap L # {})
    <3> HIDE DEF base, edge
    <3>1. PICK L : Solves(L, B, base, edge)
      BY LeastSet
    <3> QED
      BY <3>1 DEF Solves
  <2> DEFINE f == [x \in B |-> x \in L]
  <2>2. ASSUME NEW x \in B
        PROVE  x \in L <=> (Pure(x) /\ \E o \in operands[x] : o = limit[e] \/ (o \in B /\ f[o]))
    <3>1. x \in base <=> Pure(x) /\ limit[e] \in operands[x]
      OBVIOUS
    <3>2. edge[x] \cap L # {} <=> Pure(x) /\ \E o \in operands[x] : o \in L
      OBVIOUS
    <3>3. \A o : o \in L <=> (o \in B /\ f[o])
      OBVIOUS
    <3> HIDE DEF base, edge, f
    <3> QED
      BY <2>1, <3>1, <3>2, <3>3
  <2>3. f = Rule(f)
    <3> DEFINE g == Rule(f)
    <3>1. \A x \in B : f[x] = g[x]
      BY <2>2
    <3> QED
      BY <3>1, Zenon
  <2> QED
    BY <2>3
<1>2. r = Rule(r)
  BY <1>1
<1>3. Reached(e) = {x \in B : r[x]}
  BY DEF Reached
<1> HIDE DEF r, B
<1>4. \A x \in B : r[x] <=> (Pure(x) /\ \E o \in operands[x] : o = limit[e] \/ (o \in B /\ r[o]))
  BY <1>2
<1> QED
  BY <1>3, <1>4 DEF B

LEMMA NeedsIs ==
    ASSUME NEW e
    PROVE  /\ Needs(e) \subseteq Reached(e)
           /\ \A x \in Reached(e) : x \in Needs(e) <=>
                \/ \E U \in Uses(x) : Past(e, U.at)
                \/ \E u \in Needs(e) : x \in operands[u]
<1> DEFINE B == Before(e)
           Used(x) == \E U \in Uses(x) : Past(e, U.at)
           Rule(n) == [x \in B |-> \/ \E U \in Uses(x) : Past(e, U.at)
                                   \/ \E u \in Users(e, x) : Pure(u) /\ n[u]]
           n == CHOOSE n : n = Rule(n)
           base == {x \in B : Used(x)}
           edge == [x \in B |-> {u \in Users(e, x) : Pure(u)}]
<1>0. \A x : Users(e, x) \subseteq B
  BY DEF Users
<1>1. \E f : f = Rule(f)
  <2> HIDE DEF B, Used
  <2>1. PICK L \in SUBSET B : \A x \in B : x \in L <=> (x \in base \/ edge[x] \cap L # {})
    <3> HIDE DEF base, edge
    <3>1. PICK L : Solves(L, B, base, edge)
      BY LeastSet
    <3> QED
      BY <3>1 DEF Solves
  <2> DEFINE f == [x \in B |-> x \in L]
  <2>2. ASSUME NEW x \in B
        PROVE  x \in L <=> (Used(x) \/ \E u \in Users(e, x) : Pure(u) /\ f[u])
    <3>1. x \in base <=> Used(x)
      OBVIOUS
    <3>2. edge[x] \cap L # {} <=> \E u \in Users(e, x) : Pure(u) /\ u \in L
      OBVIOUS
    <3>3. \A u \in Users(e, x) : u \in L <=> f[u]
      BY <1>0
    <3> HIDE DEF base, edge, f
    <3> QED
      BY <2>1, <3>1, <3>2, <3>3
  <2>3. f = Rule(f)
    <3> DEFINE g == Rule(f)
    <3>1. \A x \in B : f[x] = g[x]
      <4>1. \A x \in B : f[x] = (Used(x) \/ \E u \in Users(e, x) : Pure(u) /\ f[u])
        BY <2>2
      <4> QED
        BY <4>1 DEF Used
    <3> QED
      BY <3>1, Zenon
  <2> QED
    BY <2>3
<1>2. n = Rule(n)
  BY <1>1
<1>3. Needs(e) = {x \in Reached(e) : n[x]}
  BY DEF Needs
<1> HIDE DEF n, B, Used
<1>4. \A x \in B : n[x] <=> (Used(x) \/ \E u \in Users(e, x) : Pure(u) /\ n[u])
  BY <1>2 DEF Used
<1>5. Reached(e) \subseteq B /\ \A x \in Reached(e) : Pure(x)
  BY ReachedIs DEF B
<1>6. ASSUME NEW x \in Reached(e), NEW u \in Users(e, x), Pure(u) PROVE u \in Reached(e)
  BY <1>6, ReachedIs DEF Users
<1>7. \A x : \A u \in Reached(e) : x \in operands[u] => u \in Users(e, x)
  BY <1>5 DEF Users, B
<1> QED
  BY <1>3, <1>4, <1>5, <1>6, <1>7 DEF Used, Users

LEMMA FirstIs ==
    ASSUME limit \in [Exits -> Value], \A v \in Value : operands[v] \subseteq Value
    PROVE  /\ limit[1] \in FromFirst /\ FromFirst \subseteq Value
           /\ \A v \in Value : operands[v] \cap FromFirst # {} => v \in FromFirst
<1> DEFINE Rule(d) == [v \in Value |-> v = limit[1] \/ \E o \in operands[v] : d[o]]
           d == CHOOSE d : d = Rule(d)
           base == {limit[1]}
<1>1. \E f : f = Rule(f)
  <2>1. PICK L : Solves(L, Value, base, operands)
    <3> HIDE DEF base
    <3> QED
      BY LeastSet
  <2> DEFINE f == [v \in Value |-> v \in L]
  <2>2. ASSUME NEW v \in Value
        PROVE  v \in L <=> (v = limit[1] \/ \E o \in operands[v] : f[o])
    <3>1. v \in base <=> v = limit[1]
      OBVIOUS
    <3>2. \A o \in operands[v] : o \in L <=> f[o]
      OBVIOUS
    <3> HIDE DEF base, f
    <3> QED
      BY <2>1, <3>1, <3>2 DEF Solves
  <2>3. f = Rule(f)
    <3> DEFINE g == Rule(f)
    <3>1. \A v \in Value : f[v] = g[v]
      BY <2>2
    <3> QED
      BY <3>1, Zenon
  <2> QED
    BY <2>3
<1>2. d = Rule(d)
  BY <1>1
<1>3. FromFirst = {v \in Value : d[v]}
  BY DEF FromFirst
<1> HIDE DEF d
<1>4. \A v \in Value : d[v] <=> (v = limit[1] \/ \E o \in operands[v] : d[o])
  BY <1>2
<1>5. limit[1] \in Value
  BY DEF Exits
<1> QED
  BY <1>3, <1>4, <1>5

\* What is reached from each node, itself among it, satisfies its equation.
Spreads(f, succ) == \A y \in Nodes : f[y] = {y} \cup UNION {f[o] : o \in succ[y]}

LEMMA SpreadsExist ==
    ASSUME NEW succ, \A y \in Nodes : succ[y] \subseteq Nodes
    PROVE  \E f : f = [y \in Nodes |-> f[y]] /\ Spreads(f, succ)
<1> DEFINE Shut(S) == \A w \in S : succ[w] \subseteq S
           Hull(y) == {z \in Nodes : \A S \in SUBSET Nodes : y \in S /\ Shut(S) => z \in S}
           f == [y \in Nodes |-> Hull(y)]
<1>1. ASSUME NEW y \in Nodes PROVE y \in Hull(y) /\ Shut(Hull(y))
  <2>1. ASSUME NEW w \in Hull(y), NEW v \in succ[w] PROVE v \in Hull(y)
    OBVIOUS
  <2> QED
    BY <2>1
<1>2. ASSUME NEW y \in Nodes, NEW o \in succ[y] PROVE Hull(o) \subseteq Hull(y)
  OBVIOUS
<1>3. ASSUME NEW y \in Nodes PROVE Hull(y) \subseteq {y} \cup UNION {Hull(o) : o \in succ[y]}
  <2> DEFINE S == {y} \cup UNION {Hull(o) : o \in succ[y]}
  <2>1. S \in SUBSET Nodes /\ y \in S
    OBVIOUS
  <2>2. \A o \in succ[y] : o \in Nodes /\ o \in Hull(o) /\ Shut(Hull(o)) /\ Hull(o) \subseteq S
    BY <1>1
  <2>3. ASSUME NEW w \in S PROVE succ[w] \subseteq S
    <3>1. CASE w = y
      BY <2>2, <3>1
    <3>2. ASSUME NEW o \in succ[y], w \in Hull(o) PROVE succ[w] \subseteq S
      BY <2>2, <3>2
    <3> QED
      BY <3>1, <3>2
  <2>4. Shut(S)
    BY <2>3
  <2> HIDE DEF S
  <2>5. Hull(y) \subseteq S
    BY <2>1, <2>4
  <2> QED
    BY <2>5 DEF S
<1> HIDE DEF Hull
<1>4. ASSUME NEW y \in Nodes PROVE f[y] = {y} \cup UNION {f[o] : o \in succ[y]}
  <2>1. \A o \in succ[y] : f[o] = Hull(o)
    OBVIOUS
  <2>2. Hull(y) = {y} \cup UNION {Hull(o) : o \in succ[y]}
    BY <1>1, <1>2, <1>3
  <2> QED
    BY <2>1, <2>2
<1>5. f = [y \in Nodes |-> f[y]]
  OBVIOUS
<1> HIDE DEF f
<1> QED
  BY <1>4, <1>5 DEF Spreads

\* What a node is computed from lies in every set that holds the node and, with each
\* of its members, all that member is computed from.
LEMMA FromWithin ==
    ASSUME \A x \in DOMAIN operands : operands[x] \subseteq Nodes,
           NEW rank, \A x \in Nodes : rank[x] \in Nat,
           \A x \in DOMAIN operands : \A o \in operands[x] : rank[o] < rank[x],
           NEW C \in SUBSET Nodes,
           \A y \in C : \/ y \notin DOMAIN operands \/ (y \in Value /\ kind[y] = "merge")
                        \/ operands[y] \subseteq C
    PROVE  \A x \in C : From(x) \subseteq C
<1> DEFINE Ends(y) == y \notin DOMAIN operands \/ (y \in Value /\ kind[y] = "merge")
           Rule(f) == [y \in Nodes |->
               {y} \cup (IF Ends(y) THEN {} ELSE UNION {f[o] : o \in operands[y]})]
           f == CHOOSE f : f = Rule(f)
           succ == [y \in Nodes |-> IF Ends(y) THEN {} ELSE operands[y]]
<1>1. \A y \in Nodes : succ[y] = IF Ends(y) THEN {} ELSE operands[y]
  OBVIOUS
<1>2. \E g : g = Rule(g)
  <2> HIDE DEF Ends
  <2>1. PICK g : g = [y \in Nodes |-> g[y]] /\ Spreads(g, succ)
    <3>1. \A y \in Nodes : succ[y] \subseteq Nodes
      BY <1>1 DEF Ends
    <3> HIDE DEF succ
    <3> QED
      BY <3>1, SpreadsExist
  <2>2. \A y \in Nodes : g[y] = {y} \cup (IF Ends(y) THEN {} ELSE UNION {g[o] : o \in operands[y]})
    <3> HIDE DEF succ
    <3>1. \A y \in Nodes : g[y] = {y} \cup UNION {g[o] : o \in succ[y]}
      BY <2>1 DEF Spreads
    <3>2. ASSUME NEW y \in Nodes
          PROVE  UNION {g[o] : o \in succ[y]} = IF Ends(y) THEN {} ELSE UNION {g[o] : o \in operands[y]}
      BY <1>1
    <3> QED
      BY <3>1, <3>2
  <2>3. g = Rule(g)
    BY <2>1, <2>2
  <2> QED
    BY <2>3
<1>3. f = Rule(f)
  BY <1>2
<1>4. \A x \in Nodes : From(x) = f[x]
  BY DEF From
<1> HIDE DEF f
<1>5. \A y \in Nodes : f[y] = {y} \cup (IF Ends(y) THEN {} ELSE UNION {f[o] : o \in operands[y]})
  BY <1>3
<1>6. SUFFICES ASSUME NEW x \in C, ~(f[x] \subseteq C) PROVE FALSE
  BY <1>4
<1> DEFINE S == {y \in C : ~(f[y] \subseteq C)}
<1>7. PICK y \in S : \A w \in S : rank[y] <= rank[w]
  <2>1. S # {} /\ \A w \in S : rank[w] \in Nat
    BY <1>6
  <2> HIDE DEF S
  <2> QED
    BY <2>1, LeastRank
<1>8. PICK z \in f[y] : z \notin C
  BY <1>7
<1>9. ~Ends(y) /\ \E o \in operands[y] : z \in f[o]
  BY <1>5, <1>7, <1>8
<1>10. PICK o \in operands[y] : z \in f[o]
  BY <1>9
<1>11. o \in C /\ rank[o] < rank[y] /\ rank[o] \in Nat /\ rank[y] \in Nat
  BY <1>7, <1>9
<1>12. o \in S
  BY <1>8, <1>10, <1>11
<1> QED
  BY <1>7, <1>11, <1>12

-----------------------------------------------------------------------------
(* What holds between two of its steps.                                    *)

\* The nodes that there are, in whose number the indices of the loops that have been
\* rewritten are, and those computed before exit e.
Made     == DOMAIN operands \cup {IVExit(e) : e \in 1..k}
Ahead(e) == {x \in DOMAIN operands : PlaceOf(x) < e}

\* May code at place q use the node o?
Fit(o, q) == PlaceOf(o) <= q /\ (PlaceOf(o) = 1 /\ q = 2 => chained)

\* What LLVM made of it, as far as no step changes it.
Shaped ==
    /\ kind \in [Value -> {"pure", "merge", "memory"}]
    /\ place \in [Value -> 0..1]
    /\ limit \in [Exits -> Value]
    /\ Fit(limit[1], 0) /\ Fit(limit[2], 2)
    /\ chained => limit[1] # limit[2]

\* The nodes are the values and the clones, each at the exit it was made for.
Populated ==
    /\ DOMAIN operands = Value \cup Range(clones)
    /\ \A x \in DOMAIN operands : operands[x] \subseteq Made
    /\ \A p \in DOMAIN reads : reads[p] \in Made
    /\ \A c \in Range(clones) : c \notin {IVExit(1), IVExit(2)} /\ c > VALUES

\* Each node is computed from what the value it stands for was computed from, and
\* each use is of what was used at first.
Standing ==
    /\ \A x \in DOMAIN operands :
        /\ {Root(o) : o \in operands[x]} = {Root(o) : o \in operands[Root(x)]}
        /\ \A o \in operands[x] : Root(o) < Root(x)
    /\ \A p \in DOMAIN reads : Root(reads[p]) = p[1]

\* The second half of WellFormed, of the code past the exits too.
Fitting ==
    /\ \A x \in DOMAIN operands : \A o \in operands[x] : Fit(o, PlaceOf(x))
    /\ \A p \in DOMAIN reads : Fit(reads[p], p[2])

\* No clone is of a limit that it should not see.
Fresh == \A c \in Range(clones) :
    /\ kind[Root(c)] = "pure"
    /\ Root(c) # limit[PlaceOf(c)]
    /\ chained => \A e \in Exits : Root(c) # limit[e]

Popped == ({limit[k]} \cup {x \in 1..Old : Cloned(x)}) \ Range(Sinks)

\* The uses that are still to be looked at.
Pending ==
    /\ uses # {} => O \in Popped
    /\ \A U \in uses :
        \/ \E p \in DOMAIN reads : U = ReadBy(p) /\ reads[p] = O
        \/ \E u \in DOMAIN operands :
            /\ U = By(u)
            /\ O \in operands[u] \/ (Past(k, PlaceOf(u)) /\ Repl(O) \in operands[u])

\* All the other uses of what has been popped have been looked at.
Swept == k # 0 => \A y \in Popped : \A U \in Uses(y) :
    \/ y = O /\ U \in uses
    \/ /\ ~Past(k, U.at)
       /\ U.read \/ U.of[1] \notin needs \/ Cloned(U.of[1])

\* What is waiting or cloned is needed, and what is needed can do without a limit.
Wanted == k # 0 =>
    /\ needs \subseteq Ahead(k)
    /\ \A x \in 1..Old : Cloned(x) => x \in needs
    /\ \A x \in needs : kind[Root(x)] = "pure"
    /\ \A x \in needs : Root(x) # limit[k] /\ (chained => \A e \in Exits : Root(x) # limit[e])
    /\ k = 2 /\ ~chained => \A x \in needs : PlaceOf(x) = 0

\* D holds the limit of loop e and all that is computed from it before the exit,
\* except for merges, and memory is not.
Stale(e, D) ==
    /\ limit[e] \in D /\ D \subseteq Ahead(e)
    /\ \A x \in Ahead(e) : \/ operands[x] \cap D = {} \/ x \in D
                           \/ x \in Value /\ kind[x] = "merge"

\* Nothing past the exit uses it any more.
Clean(e, D) == \A y \in D : \A U \in Uses(y) : ~Past(e, U.at)

\* Of D, what is used past the exit is needed, and what that is computed from.
Planned(D) ==
    /\ needs \subseteq D
    /\ \A x \in needs :
        /\ operands[x] \cap D \subseteq needs \cup {limit[k]}
        /\ operands[x] \cap D # {}
    /\ \A y \in D : \A U \in Uses(y) : Past(k, U.at) => y \in needs \cup {limit[k]}

\* Of each exit the rewrite has come to.
Traced ==
    /\ k # 0 => \E D \in SUBSET Ahead(k) : Stale(k, D) /\ Planned(D)
    /\ k = 2 => \E D \in SUBSET Ahead(1) :
        Stale(1, D) /\ Clean(1, D) /\ (chained => needs \cap D = {})

\* No memory before the second exit sees the second limit, also by what the values
\* stand for, until the second plan is made.
Kept == k = 1 => \E T \in SUBSET Value :
    /\ limit[2] \in T
    /\ \A v \in Value : (\E o \in operands[v] : Root(o) \in T) =>
        kind[v] # "memory" /\ (kind[v] = "pure" => v \in T)

\* A node does not see both a value and what replaces it.
Either == k # 0 => \A x \in DOMAIN operands : \A y \in 1..Old :
    ~(y \in operands[x] /\ Repl(y) \in operands[x])

\* A clone was made for a replacement, which it is computed from.
Caused == k # 0 => \A y \in 1..Old : Cloned(y) =>
    \E z \in 1..Old : Repl(z) \in operands[Sunk(k, y)]

Near(c) == {o \in operands[c] : o \notin Value /\ PlaceOf(o) = PlaceOf(c)}

\* The clone is below what it is computed from, unless there are two of them.
Ordered == \A j \in DOMAIN clones :
    \/ \E o, q \in Near(clones[j]) : o # q
    \/ \A o \in Near(clones[j]) : o \in Range(clones) => \E b \in 1..(j - 1) : clones[b] = o

\* The invariant of the rewrite.
PInv == pc \in Late =>
    /\ Shaped /\ Populated /\ Standing /\ Fitting /\ Fresh
    /\ Pending /\ Swept /\ Wanted /\ Traced /\ Kept
    /\ Either /\ Caused /\ Ordered
    /\ pc = "match" => (chained => limit[2] \notin FromFirst)
    /\ pc = "match" => /\ DOMAIN operands = Value /\ \A v \in Value : operands[v] \subseteq 1..(v - 1)
    /\ pc \in {"transplanted", "unverified"} => k = 2 /\ uses = {} /\ Sinks = <<>>
    /\ pc = "unverified" => ~WellFormed

LEMMA Roots ==
    ASSUME limit \in [Exits -> Value]
    PROVE  /\ \A v \in Value : Root(v) = v /\ v \in Nodes
           /\ Root(IVExit(1)) = limit[1] /\ Root(IVExit(2)) = limit[2]
           /\ \A x \in Nodes : Root(x) \in Value
           /\ Value \subseteq Nat
<1>1. limit[1] \in Value /\ limit[2] \in Value
  BY DEF Exits
<1> QED
  BY <1>1, Numbers DEF Root, FirstRoot

\* What replaces a node stands for the same value, at the exit that is worked on.
LEMMA Replacing ==
    ASSUME k \in 1..2, limit \in [Exits -> Value], NEW y \in 1..Old
    PROVE  /\ Repl(y) \in Nodes /\ Repl(y) \notin 1..Old /\ Repl(y) \notin Value
           /\ Sunk(k, y) \in Nodes /\ Sunk(k, y) \notin 1..Old /\ Sunk(k, y) \notin Value
           /\ Sunk(k, y) > VALUES /\ Sunk(k, y) \notin {IVExit(1), IVExit(2)}
           /\ PlaceOf(Repl(y)) = k /\ PlaceOf(Sunk(k, y)) = k
           /\ Root(Repl(y)) = Root(y) /\ Root(Sunk(k, y)) = Root(y)
           /\ \A z \in 1..Old : Repl(z) = Repl(y) => z = y
           /\ IVExit(k) \notin 1..Old /\ PlaceOf(IVExit(k)) = k
           /\ y \in Nodes
<1>1. limit[1] \in Value /\ limit[2] \in Value
  BY DEF Exits
<1>2. CASE k = 1
  BY <1>1, <1>2, Numbers DEF Repl, Sunk, PlaceOf, Root, FirstRoot
<1>3. CASE k = 2
  <2> DEFINE V == VALUES
  <2>1. /\ V \in Nat \ {0} /\ Value = 1..V /\ IVExit(1) = V + 1 /\ IVExit(2) = 2 * V + 2
        /\ Nodes = 1..(4 * V + 3) /\ Old = 2 * V + 1 /\ y \in 1..(2 * V + 1)
        /\ Sunk(2, y) = 2 * V + 2 + y /\ limit[2] \in 1..V
        /\ Repl(y) = IF y = limit[2] THEN 2 * V + 2 ELSE 2 * V + 2 + y
        /\ \A z \in 1..Old : Repl(z) = IF z = limit[2] THEN 2 * V + 2 ELSE 2 * V + 2 + z
    BY <1>1, <1>3, Numbers DEF Repl, Sunk
  <2> HIDE DEF V
  <2>2. Root(y) = FirstRoot(y) /\ Root(Sunk(2, y)) = FirstRoot(y)
    BY <2>1 DEF Root
  <2>3. Root(Repl(y)) = Root(y)
    BY <2>1, <2>2 DEF Root, FirstRoot
  <2>4. PlaceOf(Repl(y)) = 2 /\ PlaceOf(Sunk(2, y)) = 2 /\ PlaceOf(IVExit(2)) = 2
    BY <2>1 DEF PlaceOf
  <2>5. Sunk(2, y) > VALUES
    BY <2>1 DEF V
  <2>6. \A z \in 1..Old : Repl(z) = Repl(y) => z = y
    BY <2>1
  <2>7. /\ Repl(y) \in Nodes /\ Repl(y) \notin 1..Old /\ Repl(y) \notin Value
        /\ Sunk(2, y) \in Nodes /\ Sunk(2, y) \notin 1..Old /\ Sunk(2, y) \notin Value
        /\ Sunk(2, y) \notin {IVExit(1), IVExit(2)} /\ IVExit(2) \notin 1..Old /\ y \in Nodes
    BY <2>1
  <2> QED
    BY <1>3, <2>2, <2>3, <2>4, <2>5, <2>6, <2>7
<1> QED
  BY <1>2, <1>3

-----------------------------------------------------------------------------
(* One use is looked at.                                                   *)

\* The use of a node that is looked at is replaced, or a clone is made of its user.
Grow(x) ==
    /\ ~Cloned(x) /\ O \in operands[x]
    /\ DOMAIN operands' = DOMAIN operands \cup {Sunk(k, x)}
    /\ operands'[Sunk(k, x)] = Replaced(operands[x])
    /\ clones' = Append(clones, Sunk(k, x)) /\ Sinks' = Append(Sinks, x)

Turn(U) ==
    /\ Visit(U)
    /\ \A x \in DOMAIN operands :
        \/ operands'[x] = operands[x]
        \/ Past(k, PlaceOf(x)) /\ O \in operands[x] /\ operands'[x] = Replaced(operands[x])
    /\ DOMAIN reads' = DOMAIN reads
    /\ \A p \in DOMAIN reads :
        \/ reads'[p] = reads[p]
        \/ U = ReadBy(p) /\ Past(k, p[2]) /\ reads[p] = O /\ reads'[p] = Repl(O)
    /\ \/ DOMAIN operands' = DOMAIN operands /\ UNCHANGED <<Sinks, clones>>
       \/ \E x \in needs : Grow(x)
    /\ \A y : y = O /\ U \in Uses(y)' =>
        ~Past(k, U.at) /\ (U.read \/ U.of[1] \notin needs \/ Cloned(U.of[1])')

LEMMA UsesAre ==
    /\ \A x, U : U \in Uses(x) <=> \/ \E p \in DOMAIN reads : U = ReadBy(p) /\ reads[p] = x
                                   \/ \E u \in DOMAIN operands : U = By(u) /\ x \in operands[u]
    /\ \A p : ReadBy(p).read /\ ReadBy(p).of = p /\ ReadBy(p).at = p[2]
    /\ \A u : ~By(u).read /\ By(u).of[1] = u /\ By(u).at = PlaceOf(u)
<1>1. \A p : ReadBy(p).read /\ ReadBy(p).of = p /\ ReadBy(p).at = p[2]
  BY DEF ReadBy
<1>2. \A u : ~By(u).read /\ By(u).of[1] = u /\ By(u).at = PlaceOf(u)
  BY DEF By
<1>3. \A x, U : U \in Uses(x) <=>
          \/ \E p \in DOMAIN reads : U = ReadBy(p) /\ reads[p] = x
          \/ \E u \in DOMAIN operands : U = By(u) /\ x \in operands[u]
  BY DEF Uses
<1> QED
  BY <1>1, <1>2, <1>3

LEMMA UsesArePrimed ==
    \A x, U : U \in Uses(x)' <=>
        \/ \E p \in DOMAIN reads' : U = ReadBy(p) /\ reads'[p] = x
        \/ \E u \in DOMAIN operands' : U = By(u)' /\ x \in operands'[u]
BY DEF Uses, ReadBy, By, PlaceOf

\* What depends on the shapes only stays.
LEMMA Still ==
    ASSUME UNCHANGED shapes
    PROVE  /\ UNCHANGED <<kind, place, limit, chained>>
           /\ \A x : PlaceOf(x)' = PlaceOf(x) /\ Root(x)' = Root(x) /\ By(x)' = By(x)
           /\ \A x, q : Past(x, q)' = Past(x, q) /\ Fit(x, q)' = Fit(x, q)
<1>1. UNCHANGED <<kind, place, limit, chained>>
  BY DEF shapes
<1>2. \A x : PlaceOf(x)' = PlaceOf(x) /\ Root(x)' = Root(x)
  BY <1>1 DEF PlaceOf, Root, FirstRoot, IVExit
<1>3. \A x : By(x)' = By(x)
  BY <1>2 DEF By
<1>4. \A x, q : Past(x, q)' = Past(x, q)
  BY <1>1 DEF Past
<1>5. \A x, q : Fit(x, q)' = Fit(x, q)
  BY <1>1, <1>2 DEF Fit
<1> QED
  BY <1>1, <1>2, <1>3, <1>4, <1>5

\* The node that is worked on has been replaced itself, if it is not a limit.
LEMMA Working ==
    ASSUME RInv, PInv, NEW U \in uses, pc = "sink"
    PROVE  /\ k \in 1..2 /\ limit \in [Exits -> Value] /\ O \in 1..Old /\ O \in Popped
           /\ Repl(O) \in Made /\ Repl(O) # O
           /\ PlaceOf(Repl(O)) = k /\ Root(Repl(O)) = Root(O) /\ Repl(O) \notin 1..Old
           /\ Past(k, k) /\ \A q \in 0..2 : Past(k, q) => q >= k
           /\ Shaped /\ Populated /\ Standing /\ Fitting /\ Fresh /\ Pending /\ Swept /\ Wanted
           /\ Traced /\ Kept /\ Either /\ Caused /\ Ordered
<1>1. k \in 1..2 /\ pc \in Late /\ limit \in [Exits -> Value]
  BY DEF RInv, Stages, Late
<1>2. /\ Shaped /\ Populated /\ Standing /\ Fitting /\ Fresh /\ Pending /\ Swept /\ Wanted
      /\ Traced /\ Kept /\ Either /\ Caused /\ Ordered
  BY <1>1 DEF PInv
<1>3. O \in 1..Old /\ O \in Popped
  BY <1>1, <1>2, Numbers DEF RInv, Numbered, Pending
<1>4. Repl(O) \in Made
  BY <1>1, <1>3 DEF Popped, Repl, Made, Cloned
<1>5. /\ Repl(O) # O /\ PlaceOf(Repl(O)) = k /\ Root(Repl(O)) = Root(O) /\ Repl(O) \notin 1..Old
  BY <1>1, <1>3, Replacing
<1>6. Past(k, k)
  BY DEF Past
<1>7. \A q \in 0..2 : Past(k, q) => q >= k
  BY <1>1 DEF Past
<1> QED
  BY <1>1, <1>2, <1>3, <1>4, <1>5, <1>6, <1>7

LEMMA SetUseTurns == ASSUME RInv, PInv, NEW U \in uses, SetUse(U) PROVE Turn(U)
<1>1. Past(k, U.at) /\ Visit(U) /\ UNCHANGED <<Sinks, clones>> /\ UNCHANGED shapes /\ pc = "sink"
  BY DEF SetUse, Visit
<1>2. k \in 1..2 /\ O \in 1..Old /\ Repl(O) # O /\ Pending
  BY <1>1, Working
<1>3. CASE U.read
  <2>1. PICK p \in DOMAIN reads : U = ReadBy(p) /\ reads[p] = O
    BY <1>2, <1>3, UsesAre DEF Pending
  <2>2. U.of = p /\ U.at = p[2]
    BY <2>1, UsesAre
  <2>3. reads' = [reads EXCEPT ![p] = Repl(O)] /\ operands' = operands
    BY <1>3, <2>2 DEF SetUse
  <2>4. \A y : y = O => U \notin Uses(y)'
    <3>1. \A u : By(u)' # U
      BY <1>3 DEF By
    <3>2. \A q : U = ReadBy(q) => q = p
      BY <2>2, UsesAre
    <3> QED
      BY <1>2, <2>3, <3>1, <3>2, UsesArePrimed
  <2> QED
    BY <1>1, <2>1, <2>2, <2>3, <2>4 DEF Turn
<1>4. CASE ~U.read
  <2>1. PICK u \in DOMAIN operands :
          U = By(u) /\ (O \in operands[u] \/ (Past(k, PlaceOf(u)) /\ Repl(O) \in operands[u]))
    BY <1>2, <1>4, UsesAre DEF Pending
  <2>2. U.of[1] = u /\ U.at = PlaceOf(u) /\ Past(k, PlaceOf(u))
    BY <1>1, <2>1, UsesAre
  <2>3. operands' = [operands EXCEPT ![u] = Replaced(@)] /\ reads' = reads
    BY <1>4, <2>2 DEF SetUse
  <2>4. O \notin Replaced(operands[u])
    BY <1>2 DEF Replaced
  <2>5. O \in operands[u] \/ Replaced(operands[u]) = operands[u]
    BY <2>1 DEF Replaced
  <2>6. \A y : y = O => U \notin Uses(y)'
    <3>1. \A w : By(w)' = By(w)
      BY <1>1, Still
    <3>2. ASSUME NEW w \in DOMAIN operands', U = By(w), O \in operands'[w] PROVE FALSE
      <4>1. w = u
        BY <2>2, <3>2, UsesAre
      <4> QED
        BY <2>3, <2>4, <3>2, <4>1
    <3> QED
      BY <1>4, <3>1, <3>2, UsesAre, UsesArePrimed
  <2>7. \A x \in DOMAIN operands :
          \/ operands'[x] = operands[x]
          \/ Past(k, PlaceOf(x)) /\ O \in operands[x] /\ operands'[x] = Replaced(operands[x])
    BY <2>2, <2>3, <2>5
  <2> QED
    BY <1>1, <2>3, <2>6, <2>7 DEF Turn
<1> QED
  BY <1>3, <1>4

LEMMA LeaveUseTurns == ASSUME RInv, PInv, NEW U \in uses, LeaveUse(U) PROVE Turn(U)
<1>1. /\ Visit(U) /\ UNCHANGED <<operands, reads, Sinks, clones>>
      /\ ~Past(k, U.at) /\ (U.read \/ U.of[1] \notin needs)
  BY DEF LeaveUse, Needed
<1> QED
  BY <1>1 DEF Turn

\* A use before the exit by what is needed is of what is worked on.
LEMMA NeededUse ==
    ASSUME RInv, PInv, NEW U \in uses, Needed(U), Visit(U)
    PROVE  /\ U.of[1] \in needs /\ U = By(U.of[1]) /\ O \in operands[U.of[1]]
           /\ ~Past(k, PlaceOf(U.of[1]))
<1>1. pc = "sink" /\ ~Past(k, U.at) /\ ~U.read /\ U.of[1] \in needs
  BY DEF Needed, Visit
<1>2. Pending
  BY <1>1, Working
<1>3. PICK u \in DOMAIN operands :
        U = By(u) /\ (O \in operands[u] \/ (Past(k, PlaceOf(u)) /\ Repl(O) \in operands[u]))
  BY <1>1, <1>2, UsesAre DEF Pending
<1>4. U.of[1] = u /\ U.at = PlaceOf(u)
  BY <1>3, UsesAre
<1> QED
  BY <1>1, <1>3, <1>4

LEMMA SinkTurns == ASSUME RInv, PInv, NEW U \in uses, Sink(U) PROVE Turn(U)
<1> DEFINE x == U.of[1]
           c == Sunk(k, x)
<1>1. /\ Needed(U) /\ ~Cloned(x) /\ Visit(U) /\ AddClone(x)
      /\ clones' = Append(clones, c) /\ Sinks' = Append(Sinks, x) /\ UNCHANGED reads
  BY DEF Sink, Below, Noted
<1>2. x \in needs /\ O \in operands[x] /\ ~Past(k, U.at) /\ UNCHANGED k
  BY <1>1, NeededUse DEF Needed, Visit
<1>3. c \notin DOMAIN operands
  BY <1>1 DEF Cloned
<1>4. /\ DOMAIN operands' = DOMAIN operands \cup {c}
      /\ operands'[c] = Replaced(operands[x])
      /\ \A y \in DOMAIN operands : operands'[y] = operands[y]
  BY <1>1, <1>3 DEF AddClone
<1>5. Cloned(x)'
  BY <1>2, <1>4 DEF Cloned, Sunk, IVExit
<1>6. Grow(x)
  BY <1>1, <1>2, <1>4 DEF Grow
<1> QED
  BY <1>1, <1>2, <1>4, <1>5, <1>6 DEF Turn

LEMMA RewireTurns == ASSUME RInv, PInv, NEW U \in uses, Rewire(U) PROVE Turn(U)
<1> DEFINE x == U.of[1]
           c == Sunk(k, x)
<1>1. /\ Needed(U) /\ Cloned(x) /\ Visit(U) /\ UNCHANGED <<reads, Sinks, clones>>
      /\ operands' = [operands EXCEPT ![c] = IF O \in @ THEN Replaced(@) ELSE @]
  BY DEF Rewire
<1>2. x \in needs /\ ~Past(k, U.at) /\ UNCHANGED k /\ pc = "sink"
  BY <1>1 DEF Needed, Visit
<1>3. k \in 1..2 /\ limit \in [Exits -> Value] /\ Past(k, k) /\ x \in 1..Old
  BY <1>2, Working DEF RInv, Numbered
<1>4. PlaceOf(c) = k
  BY <1>3, Replacing
<1>5. \A y \in DOMAIN operands :
        \/ operands'[y] = operands[y]
        \/ Past(k, PlaceOf(y)) /\ O \in operands[y] /\ operands'[y] = Replaced(operands[y])
  BY <1>1, <1>3, <1>4
<1>6. Cloned(x)'
  BY <1>1, <1>2 DEF Cloned, Sunk, IVExit
<1> QED
  BY <1>1, <1>2, <1>5, <1>6 DEF Turn

\* What every such step leaves alone, and the clone it may make.
LEMMA Turning ==
    ASSUME RInv, PInv, NEW U \in uses, Turn(U)
    PROVE  /\ pc = "sink" /\ pc' = "sink" /\ uses' = uses \ {U} /\ Old' = Old
           /\ UNCHANGED <<kind, place, limit, chained, k, needs, O>>
           /\ \A x : PlaceOf(x)' = PlaceOf(x) /\ Root(x)' = Root(x) /\ By(x)' = By(x)
           /\ \A x, q : Past(x, q)' = Past(x, q) /\ Fit(x, q)' = Fit(x, q)
           /\ \A x : Repl(x)' = Repl(x)
           /\ \A x, y : Sunk(x, y)' = Sunk(x, y)
           /\ DOMAIN operands \subseteq DOMAIN operands' /\ Made \subseteq Made'
           /\ \/ DOMAIN operands' = DOMAIN operands /\ UNCHANGED <<Sinks, clones>>
              \/ \E x \in needs : Grow(x)
           /\ \A x \in DOMAIN operands :
                \/ operands'[x] = operands[x]
                \/ /\ Past(k, PlaceOf(x)) /\ O \in operands[x]
                   /\ operands'[x] = (operands[x] \ {O}) \cup {Repl(O)}
<1>1. pc = "sink" /\ pc' = "sink" /\ uses' = uses \ {U} /\ UNCHANGED <<shapes, k, needs, O>>
  BY DEF Turn, Visit
<1>2. \/ DOMAIN operands' = DOMAIN operands /\ UNCHANGED <<Sinks, clones>>
      \/ \E x \in needs : Grow(x)
  BY DEF Turn
<1>3. DOMAIN operands \subseteq DOMAIN operands'
  BY <1>2 DEF Grow
<1>4. Made \subseteq Made'
  BY <1>1, <1>3 DEF Made, IVExit
<1>5. UNCHANGED <<kind, place, limit, chained>>
  BY <1>1, Still
<1>6. /\ \A x : PlaceOf(x)' = PlaceOf(x) /\ Root(x)' = Root(x) /\ By(x)' = By(x)
      /\ \A x, q : Past(x, q)' = Past(x, q) /\ Fit(x, q)' = Fit(x, q)
  BY <1>1, Still
<1>7. \A x, y : Sunk(x, y)' = Sunk(x, y)
  BY DEF Sunk, IVExit
<1>8. \A x : Repl(x)' = Repl(x)
  BY <1>1, <1>5 DEF Repl, Sunk, IVExit
<1>9. Old' = Old
  BY <1>1 DEF Old, IVExit
<1>10. \A x \in DOMAIN operands :
         \/ operands'[x] = operands[x]
         \/ /\ Past(k, PlaceOf(x)) /\ O \in operands[x]
            /\ operands'[x] = (operands[x] \ {O}) \cup {Repl(O)}
  BY DEF Turn, Replaced
<1> QED
  BY <1>1, <1>2, <1>3, <1>4, <1>5, <1>6, <1>7, <1>8, <1>9, <1>10

\* The clone, and what it is of.
LEMMA Growing ==
    ASSUME RInv, PInv, NEW U \in uses, Turn(U), NEW x \in needs, Grow(x)
    PROVE  /\ x \in DOMAIN operands /\ x \in 1..Old /\ x \in Ahead(k) /\ O \in operands[x]
           /\ Sunk(k, x) \notin DOMAIN operands
           /\ DOMAIN operands' = DOMAIN operands \cup {Sunk(k, x)}
           /\ operands'[Sunk(k, x)] = (operands[x] \ {O}) \cup {Repl(O)}
           /\ \A y \in DOMAIN operands : y # Sunk(k, x)
           /\ Sunk(k, x) > VALUES /\ Sunk(k, x) \notin {IVExit(1), IVExit(2)}
           /\ Sunk(k, x) \notin 1..Old /\ Sunk(k, x) \notin Value
           /\ PlaceOf(Sunk(k, x)) = k /\ Root(Sunk(k, x)) = Root(x)
           /\ Range(clones') = Range(clones) \cup {Sunk(k, x)}
           /\ clones' = Append(clones, Sunk(k, x)) /\ Sinks' = Append(Sinks, x)
           /\ Range(Sinks') = Range(Sinks) \cup {x}
           /\ ~Cloned(x) /\ Root(x) # limit[k]
<1>1. /\ pc = "sink" /\ k \in 1..2 /\ limit \in [Exits -> Value] /\ Wanted
      /\ clones \in Seq(DOMAIN operands) /\ Sinks \in Seq(1..Old)
  BY Working DEF RInv, Numbered, Turn, Visit
<1>2. x \in DOMAIN operands /\ x \in 1..Old /\ x \in Ahead(k) /\ Root(x) # limit[k]
  BY <1>1 DEF RInv, Numbered, Wanted
<1>3. /\ ~Cloned(x) /\ O \in operands[x] /\ DOMAIN operands' = DOMAIN operands \cup {Sunk(k, x)}
      /\ operands'[Sunk(k, x)] = (operands[x] \ {O}) \cup {Repl(O)}
      /\ clones' = Append(clones, Sunk(k, x)) /\ Sinks' = Append(Sinks, x)
  BY DEF Grow, Replaced
<1>4. Sunk(k, x) \notin DOMAIN operands
  BY <1>3 DEF Cloned
<1>5. /\ Sunk(k, x) > VALUES /\ Sunk(k, x) \notin {IVExit(1), IVExit(2)}
      /\ Sunk(k, x) \notin 1..Old /\ Sunk(k, x) \notin Value
      /\ PlaceOf(Sunk(k, x)) = k /\ Root(Sunk(k, x)) = Root(x)
  BY <1>1, <1>2, Replacing
<1>6. Range(clones') = Range(clones) \cup {Sunk(k, x)}
  <2> DEFINE c == Sunk(k, x)
  <2>1. /\ DOMAIN clones' = 1..(Len(clones) + 1) /\ DOMAIN clones = 1..Len(clones)
        /\ Len(clones) \in Nat /\ clones'[Len(clones) + 1] = c
        /\ \A j \in 1..Len(clones) : clones'[j] = clones[j]
    BY <1>1, <1>3
  <2> HIDE DEF c
  <2> QED
    BY <2>1 DEF Range, c
<1>7. Range(Sinks') = Range(Sinks) \cup {x}
  <2>1. /\ DOMAIN Sinks' = 1..(Len(Sinks) + 1) /\ DOMAIN Sinks = 1..Len(Sinks)
        /\ Len(Sinks) \in Nat /\ Sinks'[Len(Sinks) + 1] = x
        /\ \A j \in 1..Len(Sinks) : Sinks'[j] = Sinks[j]
    BY <1>1, <1>2, <1>3
  <2> QED
    BY <2>1 DEF Range
<1> QED
  BY <1>2, <1>3, <1>4, <1>5, <1>6, <1>7

LEMMA PopulatedKept == ASSUME RInv, PInv, NEW U \in uses, Turn(U) PROVE Populated'
<1>1. pc = "sink" /\ Populated /\ Repl(O) \in Made /\ UNCHANGED <<k, limit>>
  BY Turning, Working
<1>2. /\ DOMAIN operands' = Value \cup Range(clones')
      /\ \A c \in Range(clones') : c \notin {IVExit(1), IVExit(2)} /\ c > VALUES
  <2>1. CASE DOMAIN operands' = DOMAIN operands /\ UNCHANGED clones
    BY <1>1, <2>1 DEF Populated
  <2>2. ASSUME NEW x \in needs, Grow(x)
        PROVE  /\ DOMAIN operands' = Value \cup Range(clones')
               /\ \A c \in Range(clones') : c \notin {IVExit(1), IVExit(2)} /\ c > VALUES
    <3>1. /\ DOMAIN operands' = DOMAIN operands \cup {Sunk(k, x)}
          /\ Range(clones') = Range(clones) \cup {Sunk(k, x)}
          /\ Sunk(k, x) > VALUES /\ Sunk(k, x) \notin {IVExit(1), IVExit(2)}
      BY <2>2, Growing
    <3> QED
      BY <1>1, <3>1 DEF Populated
  <2> QED
    BY <2>1, <2>2, Turning
<1>3. ASSUME NEW x \in DOMAIN operands' PROVE operands'[x] \subseteq Made'
  <2>1. CASE x \in DOMAIN operands
    BY <1>1, <2>1, Turning DEF Populated
  <2>2. ASSUME NEW y \in needs, Grow(y), x \notin DOMAIN operands PROVE operands'[x] \subseteq Made'
    <3>1. /\ x = Sunk(k, y) /\ y \in DOMAIN operands
          /\ operands'[x] = (operands[y] \ {O}) \cup {Repl(O)}
      BY <2>2, Growing
    <3> QED
      BY <1>1, <3>1, Turning DEF Populated
  <2> QED
    BY <2>1, <2>2, Turning
<1>4. \A p \in DOMAIN reads' : reads'[p] \in Made'
  BY <1>1, Turning DEF Turn, Populated
<1>5. UNCHANGED <<Value, IVExit(1), IVExit(2), VALUES>>
  BY DEF IVExit, Value
<1> QED
  BY <1>2, <1>3, <1>4, <1>5 DEF Populated, IVExit

LEMMA StandingKept == ASSUME RInv, PInv, NEW U \in uses, Turn(U) PROVE Standing'
<1>1. /\ pc = "sink" /\ Standing /\ Populated /\ k \in 1..2 /\ limit \in [Exits -> Value]
      /\ Root(Repl(O)) = Root(O)
      /\ \A x : Root(x)' = Root(x)
  BY Turning, Working
<1>2. \A S : O \in S => {Root(o) : o \in (S \ {O}) \cup {Repl(O)}} = {Root(o) : o \in S}
  BY <1>1
<1>3. \A x \in DOMAIN operands : {Root(o) : o \in operands'[x]} = {Root(o) : o \in operands[x]}
  BY <1>2, Turning
<1>4. \A x \in DOMAIN operands : Root(x) \in DOMAIN operands
  <2>1. DOMAIN operands \subseteq Nodes
    BY RewriteTypeOK DEF SinkTypeOK
  <2> QED
    BY <1>1, <2>1, Roots DEF Populated
<1>5. ASSUME NEW x \in DOMAIN operands'
      PROVE  /\ {Root(o) : o \in operands'[x]} = {Root(o) : o \in operands'[Root(x)]}
             /\ \A o \in operands'[x] : Root(o) < Root(x)
  <2>1. CASE x \in DOMAIN operands
    <3>1. /\ {Root(o) : o \in operands[x]} = {Root(o) : o \in operands[Root(x)]}
          /\ \A o \in operands[x] : Root(o) < Root(x)
      BY <1>1, <2>1 DEF Standing
    <3>2. /\ {Root(o) : o \in operands'[x]} = {Root(o) : o \in operands[x]}
          /\ {Root(o) : o \in operands'[Root(x)]} = {Root(o) : o \in operands[Root(x)]}
      BY <1>3, <1>4, <2>1
    <3>3. ASSUME NEW o \in operands'[x] PROVE Root(o) < Root(x)
      <4>1. PICK q \in operands[x] : Root(q) = Root(o)
        BY <3>2
      <4> QED
        BY <3>1, <4>1
    <3> QED
      BY <3>1, <3>2, <3>3
  <2>2. ASSUME NEW y \in needs, Grow(y), x \notin DOMAIN operands
        PROVE  /\ {Root(o) : o \in operands'[x]} = {Root(o) : o \in operands'[Root(x)]}
               /\ \A o \in operands'[x] : Root(o) < Root(x)
    <3>1. /\ x = Sunk(k, y) /\ Root(x) = Root(y) /\ y \in DOMAIN operands /\ O \in operands[y]
          /\ operands'[x] = (operands[y] \ {O}) \cup {Repl(O)}
      BY <2>2, Growing
    <3>2. {Root(o) : o \in operands'[x]} = {Root(o) : o \in operands[y]}
      BY <1>2, <3>1
    <3>3. /\ {Root(o) : o \in operands[y]} = {Root(o) : o \in operands[Root(y)]}
          /\ \A o \in operands[y] : Root(o) < Root(y)
      BY <1>1, <3>1 DEF Standing
    <3>4. {Root(o) : o \in operands'[Root(y)]} = {Root(o) : o \in operands[Root(y)]}
      BY <1>3, <1>4, <3>1
    <3>5. ASSUME NEW o \in operands'[x] PROVE Root(o) < Root(x)
      <4>1. PICK q \in operands[y] : Root(q) = Root(o)
        BY <3>2
      <4> QED
        BY <3>1, <3>3, <4>1
    <3> QED
      BY <3>1, <3>2, <3>3, <3>4, <3>5
  <2> QED
    BY <2>1, <2>2, Turning
<1>6. \A p \in DOMAIN reads' : Root(reads'[p]) = p[1]
  BY <1>1 DEF Turn, Standing
<1>7. Standing' <=>
        /\ \A x \in DOMAIN operands' :
            /\ {Root(o) : o \in operands'[x]} = {Root(o) : o \in operands'[Root(x)]}
            /\ \A o \in operands'[x] : Root(o) < Root(x)
        /\ \A p \in DOMAIN reads' : Root(reads'[p]) = p[1]
  <2>1. UNCHANGED limit
    BY Turning
  <2> QED
    BY <2>1 DEF Standing, Root, FirstRoot, IVExit
<1> QED
  BY <1>5, <1>6, <1>7

LEMMA FittingKept == ASSUME RInv, PInv, NEW U \in uses, Turn(U) PROVE Fitting'
<1>1. /\ pc = "sink" /\ Fitting /\ Populated /\ k \in 1..2 /\ PlaceOf(Repl(O)) = k
      /\ Past(k, k) /\ Wanted /\ Shaped
  BY Turning, Working
<1>2. \A x, q : Fit(x, q)' = Fit(x, q)
  BY Turning
<1>3. \A q \in 0..2 : Past(k, q) => Fit(Repl(O), q)
  BY <1>1 DEF Past, Fit
<1>4. \A x : x \in DOMAIN operands => PlaceOf(x) \in 0..2
  BY <1>1 DEF PlaceOf, Shaped
<1>5. ASSUME NEW x \in DOMAIN operands' PROVE \A o \in operands'[x] : Fit(o, PlaceOf(x))
  <2>1. CASE x \in DOMAIN operands
    BY <1>1, <1>3, <1>4, <2>1, Turning DEF Fitting
  <2>2. ASSUME NEW y \in needs, Grow(y), x \notin DOMAIN operands
        PROVE  \A o \in operands'[x] : Fit(o, PlaceOf(x))
    <3>1. /\ x = Sunk(k, y) /\ PlaceOf(x) = k /\ y \in DOMAIN operands /\ PlaceOf(y) < k
          /\ operands'[x] = (operands[y] \ {O}) \cup {Repl(O)}
      BY <2>2, Growing DEF Ahead
    <3>2. Fit(Repl(O), k)
      BY <1>1, <1>3
    <3>3. ASSUME NEW o \in operands[y] PROVE Fit(o, k)
      <4>1. Fit(o, PlaceOf(y)) /\ PlaceOf(y) \in 0..2
        BY <1>1, <1>4, <3>1 DEF Fitting
      <4>2. PlaceOf(o) \in Int
        BY <1>1 DEF PlaceOf, Shaped
      <4>3. k = 2 /\ ~chained => PlaceOf(y) = 0
        BY <1>1 DEF Wanted
      <4> QED
        BY <1>1, <3>1, <4>1, <4>2, <4>3 DEF Fit
    <3> QED
      BY <3>1, <3>2, <3>3
  <2> QED
    BY <2>1, <2>2, Turning
<1>6. \A p \in DOMAIN reads' : Fit(reads'[p], p[2])
  <2>1. \A p \in DOMAIN reads : p[2] \in 0..2
    BY DEF RInv, Numbered, Exits
  <2> QED
    BY <1>1, <1>3, <2>1 DEF Turn, Fitting
<1>7. \A x : PlaceOf(x)' = PlaceOf(x)
  BY Turning
<1> QED
  BY <1>2, <1>5, <1>6, <1>7 DEF Fitting

LEMMA FreshKept == ASSUME RInv, PInv, NEW U \in uses, Turn(U) PROVE Fresh'
<1>1. pc = "sink" /\ Fresh /\ Wanted /\ k \in 1..2 /\ UNCHANGED <<kind, limit, chained>>
  BY Turning, Working
<1>2. \A x : PlaceOf(x)' = PlaceOf(x) /\ Root(x)' = Root(x)
  BY Turning
<1>3. ASSUME NEW c \in Range(clones')
      PROVE  /\ kind[Root(c)] = "pure" /\ Root(c) # limit[PlaceOf(c)]
             /\ chained => \A e \in Exits : Root(c) # limit[e]
  <2>1. CASE c \in Range(clones)
    BY <1>1, <2>1 DEF Fresh
  <2>2. ASSUME NEW y \in needs, Grow(y), c \notin Range(clones)
        PROVE  /\ kind[Root(c)] = "pure" /\ Root(c) # limit[PlaceOf(c)]
               /\ chained => \A e \in Exits : Root(c) # limit[e]
    <3>1. c = Sunk(k, y) /\ PlaceOf(c) = k /\ Root(c) = Root(y)
      BY <2>2, Growing
    <3> QED
      BY <1>1, <3>1 DEF Wanted
  <2> QED
    BY <2>1, <2>2, Turning
<1>4. ASSUME NEW c \in Range(clones')
      PROVE  /\ kind'[Root(c)'] = "pure" /\ Root(c)' # limit'[PlaceOf(c)']
             /\ chained' => \A e \in Exits : Root(c)' # limit'[e]
  <2>1. kind' = kind /\ limit' = limit /\ chained' = chained
    BY <1>1
  <2>2. Root(c)' = Root(c) /\ PlaceOf(c)' = PlaceOf(c)
    BY <1>2
  <2> QED
    BY <1>3, <2>1, <2>2
<1> QED
  BY <1>4 DEF Fresh, Exits

\* No node gains a use but by a clone, of what the cloned one uses.
LEMMA UsesKept ==
    ASSUME RInv, PInv, NEW U \in uses, Turn(U), NEW y, y # Repl(O), NEW W \in Uses(y)'
    PROVE  \/ W \in Uses(y)
           \/ \E x \in needs : Grow(x) /\ W = By(Sunk(k, x)) /\ y \in operands[x] /\ y # O
<1>1. CASE \E p \in DOMAIN reads' : W = ReadBy(p) /\ reads'[p] = y
  BY <1>1, UsesAre DEF Turn
<1>2. CASE \E u \in DOMAIN operands' : W = By(u)' /\ y \in operands'[u]
  <2>1. PICK u \in DOMAIN operands' : W = By(u) /\ y \in operands'[u]
    BY <1>2, Turning
  <2>2. CASE u \in DOMAIN operands
    <3>1. y \in operands[u]
      BY <2>1, <2>2, Turning
    <3> QED
      BY <2>1, <2>2, <3>1, UsesAre
  <2>3. ASSUME NEW x \in needs, Grow(x), u \notin DOMAIN operands
        PROVE  W = By(Sunk(k, x)) /\ y \in operands[x] /\ y # O
    <3>0. /\ DOMAIN operands' = DOMAIN operands \cup {Sunk(k, x)}
          /\ operands'[Sunk(k, x)] = (operands[x] \ {O}) \cup {Repl(O)}
      BY <2>3, Growing
    <3>1. u = Sunk(k, x) /\ operands'[u] = (operands[x] \ {O}) \cup {Repl(O)}
      BY <2>3, <3>0
    <3>2. O # Repl(O)
      BY Turning, Working
    <3> QED
      BY <2>1, <3>1, <3>2
  <2> QED
    BY <2>2, <2>3, Turning
<1> QED
  BY <1>1, <1>2, UsesArePrimed

\* What has been cloned stays so, and one more may be.
LEMMA ClonedMore ==
    ASSUME RInv, PInv, NEW U \in uses, Turn(U), NEW y \in 1..Old
    PROVE  /\ Cloned(y) => Cloned(y)'
           /\ Cloned(y)' => Cloned(y) \/ (y \in needs /\ Grow(y))
           /\ ~(O \in operands[y] /\ y \in needs /\ y = O)
<1>1. /\ \A x, z : Sunk(x, z)' = Sunk(x, z)
      /\ DOMAIN operands \subseteq DOMAIN operands' /\ UNCHANGED k /\ pc = "sink"
  BY Turning
<1>2. Cloned(y) => Cloned(y)'
  BY <1>1 DEF Cloned
<1>3. k \in 1..2 /\ Standing
  BY <1>1, Working
<1>4. ASSUME NEW x \in needs, Grow(x), Cloned(y)', ~Cloned(y) PROVE y = x
  <2>1. Sunk(k, y) = Sunk(k, x) /\ x \in 1..Old
    BY <1>1, <1>4, Growing DEF Cloned
  <2> QED
    BY <1>3, <2>1, Clones
<1>5. ~(O \in operands[y] /\ y \in needs /\ y = O)
  <2>1. ASSUME O \in operands[O], O \in needs PROVE FALSE
    <3>1. O \in DOMAIN operands /\ Root(O) < Root(O)
      BY <1>3, <2>1 DEF RInv, Numbered, Standing
    <3>2. Root(O) \in Int
      BY <3>1, Roots, Working, <1>1, Replacing, Numbers
    <3> QED
      BY <3>1, <3>2
  <2> QED
    BY <2>1
<1>6. Cloned(y)' => Cloned(y) \/ (y \in needs /\ Grow(y))
  <2>1. CASE DOMAIN operands' = DOMAIN operands
    BY <1>1, <2>1 DEF Cloned
  <2> QED
    BY <1>4, <2>1, Turning
<1> QED
  BY <1>2, <1>5, <1>6

LEMMA PoppedKept ==
    ASSUME RInv, PInv, NEW U \in uses, Turn(U)
    PROVE  Popped' \subseteq Popped /\ O \in Popped' /\ Popped \subseteq 1..Old
<1>1. /\ pc = "sink" /\ UNCHANGED <<k, limit>> /\ Old' = Old /\ k \in 1..2 /\ O \in Popped
      /\ limit \in [Exits -> Value] /\ O \in 1..Old
  BY Turning, Working
<1>2. Range(Sinks) \subseteq Range(Sinks') /\ (\A x \in needs : Grow(x) => Range(Sinks') = Range(Sinks) \cup {x})
  <2>1. \A x \in needs : Grow(x) => Range(Sinks') = Range(Sinks) \cup {x}
    BY Growing
  <2>2. UNCHANGED Sinks => Range(Sinks') = Range(Sinks)
    OBVIOUS
  <2> QED
    BY <2>1, <2>2, Turning
<1>3. Popped' \subseteq Popped
  <2> SUFFICES ASSUME NEW y \in Popped' PROVE y \in Popped
    OBVIOUS
  <2>1. y \notin Range(Sinks') /\ (y = limit[k] \/ (y \in 1..Old /\ Cloned(y)'))
    BY <1>1 DEF Popped
  <2>2. CASE y \in 1..Old /\ Cloned(y)'
    <3>1. Cloned(y) \/ (y \in needs /\ Grow(y))
      BY <2>2, ClonedMore
    <3> QED
      BY <1>2, <2>1, <2>2, <3>1 DEF Popped
  <2> QED
    BY <1>2, <2>1, <2>2 DEF Popped
<1>4. O \in Popped'
  <2>1. O \notin Range(Sinks')
    <3>1. O \notin Range(Sinks)
      BY <1>1 DEF Popped
    <3>2. ASSUME NEW x \in needs, Grow(x) PROVE x # O /\ Range(Sinks') = Range(Sinks) \cup {x}
      BY <1>1, <1>2, <3>2, ClonedMore DEF Grow
    <3> QED
      BY <3>1, <3>2, Turning
  <2>2. O = limit[k] \/ (Cloned(O) /\ O \in 1..Old)
    BY <1>1 DEF Popped
  <2>3. O = limit[k] \/ (O \in 1..Old /\ \A y : y = O => Cloned(y)')
    BY <2>2, ClonedMore
  <2>4. \A y : y = O => y \in Popped'
    BY <1>1, <2>1, <2>3 DEF Popped
  <2> QED
    BY <1>1, <2>4
<1>5. Popped \subseteq 1..Old
  <2>1. limit[k] \in 1..Old
    BY <1>1, Numbers DEF Exits
  <2> QED
    BY <2>1 DEF Popped
<1> QED
  BY <1>3, <1>4, <1>5

LEMMA PendingKept == ASSUME RInv, PInv, NEW U \in uses, Turn(U) PROVE Pending'
<1>1. /\ pc = "sink" /\ UNCHANGED <<k, O>> /\ Pending /\ uses' = uses \ {U} /\ O \in Popped'
      /\ \A x : PlaceOf(x)' = PlaceOf(x) /\ By(x)' = By(x)
      /\ \A x : Repl(x)' = Repl(x)
      /\ \A x, q : Past(x, q)' = Past(x, q)
      /\ DOMAIN operands \subseteq DOMAIN operands'
  BY Turning, Working, PoppedKept
<1>2. ASSUME NEW W \in uses'
      PROVE  \/ \E p \in DOMAIN reads' : W = ReadBy(p) /\ reads'[p] = O
             \/ \E u \in DOMAIN operands' :
                    /\ W = By(u)
                    /\ O \in operands'[u] \/ (Past(k, PlaceOf(u)) /\ Repl(O) \in operands'[u])
  <2>1. W \in uses /\ W # U
    BY <1>1
  <2>2. ASSUME NEW p \in DOMAIN reads, W = ReadBy(p), reads[p] = O
        PROVE  p \in DOMAIN reads' /\ reads'[p] = O
    BY <2>1, <2>2 DEF Turn
  <2>3. ASSUME NEW u \in DOMAIN operands, W = By(u),
               O \in operands[u] \/ (Past(k, PlaceOf(u)) /\ Repl(O) \in operands[u])
        PROVE  /\ u \in DOMAIN operands'
               /\ O \in operands'[u] \/ (Past(k, PlaceOf(u)) /\ Repl(O) \in operands'[u])
    <3>1. Repl(O) # O
      BY <1>1, Working
    <3> QED
      BY <1>1, <2>3, <3>1, Turning
  <2> QED
    BY <1>1, <2>1, <2>2, <2>3 DEF Pending
<1>3. \A W \in uses' :
        \/ \E p \in DOMAIN reads' : W = ReadBy(p)' /\ reads'[p] = O'
        \/ \E u \in DOMAIN operands' :
            /\ W = By(u)'
            /\ O' \in operands'[u] \/ (Past(k, PlaceOf(u))' /\ Repl(O)' \in operands'[u])
  <2>1. \A p : ReadBy(p)' = ReadBy(p)
    BY DEF ReadBy
  <2>2. Repl(O)' = Repl(O) /\ \A u : Past(k, PlaceOf(u))' = Past(k, PlaceOf(u))
    <3>1. Repl(O)' = Repl(O)
      BY <1>1, Turning DEF Repl, Sunk, IVExit
    <3>2. \A u : Past(k, PlaceOf(u))' = Past(k, PlaceOf(u))
      BY <1>1, Turning DEF Past
    <3> QED
      BY <3>1, <3>2
  <2> QED
    BY <1>1, <1>2, <2>1, <2>2
<1>4. O' \in Popped'
  BY <1>1
<1> QED
  BY <1>3, <1>4 DEF Pending

LEMMA SweptKept == ASSUME RInv, PInv, NEW U \in uses, Turn(U) PROVE Swept'
<1>1. /\ pc = "sink" /\ UNCHANGED <<k, O, needs>> /\ Swept /\ uses' = uses \ {U} /\ k \in 1..2
      /\ \A x, q : Past(x, q)' = Past(x, q)
      /\ Popped' \subseteq Popped /\ Popped \subseteq 1..Old /\ O \in 1..Old
      /\ Repl(O) \notin 1..Old
  BY Turning, Working, PoppedKept
<1>2. ASSUME NEW y \in Popped', NEW W \in Uses(y)'
      PROVE  \/ y = O /\ W \in uses'
             \/ /\ ~Past(k, W.at)
                /\ W.read \/ W.of[1] \notin needs \/ Cloned(W.of[1])'
  <2>1. y \in Popped /\ y \in 1..Old /\ y # Repl(O)
    BY <1>1
  <2>2. ASSUME NEW x \in needs, Grow(x), y \in operands[x], y # O PROVE FALSE
    <3>1. x \in DOMAIN operands /\ ~Cloned(x)
      BY <2>2 DEF RInv, Numbered, Grow
    <3>2. By(x) \in Uses(y) /\ ~By(x).read /\ By(x).of[1] = x
      BY <2>2, <3>1, UsesAre
    <3> QED
      BY <1>1, <2>1, <2>2, <3>1, <3>2 DEF Swept
  <2>3. W \in Uses(y)
    BY <2>1, <2>2, UsesKept
  <2>4. \/ y = O /\ W \in uses
        \/ /\ ~Past(k, W.at)
           /\ W.read \/ W.of[1] \notin needs \/ Cloned(W.of[1])
    BY <1>1, <2>1, <2>3 DEF Swept
  <2>5. CASE y = O /\ W = U
    BY <2>5 DEF Turn
  <2>6. ASSUME W.of[1] \in needs, Cloned(W.of[1]) PROVE Cloned(W.of[1])'
    <3>1. W.of[1] \in 1..Old
      BY <2>6 DEF RInv, Numbered
    <3>2. \A z \in 1..Old : Cloned(z) => Cloned(z)'
      BY ClonedMore
    <3> QED
      BY <2>6, <3>1, <3>2
  <2> QED
    BY <1>1, <2>4, <2>5, <2>6
<1> QED
  <2>1. \A q : Past(k, q)' = Past(k, q)
    BY <1>1, Turning DEF Past
  <2> QED
    BY <1>1, <1>2, <2>1 DEF Swept

LEMMA WantedKept == ASSUME RInv, PInv, NEW U \in uses, Turn(U) PROVE Wanted'
<1>1. /\ pc = "sink" /\ UNCHANGED <<kind, limit, chained, k, needs>> /\ Old' = Old /\ k \in 1..2
      /\ \A x : PlaceOf(x)' = PlaceOf(x) /\ Root(x)' = Root(x)
      /\ DOMAIN operands \subseteq DOMAIN operands' /\ Wanted
  BY Turning, Working
<1>2. needs \subseteq Ahead(k)'
  <2>1. \A x \in needs : x \in DOMAIN operands' /\ PlaceOf(x)' < k'
    BY <1>1 DEF Wanted, Ahead
  <2> QED
    BY <1>1, <2>1 DEF Ahead
<1>3. \A x \in 1..Old : Cloned(x)' => x \in needs
  BY <1>1, ClonedMore DEF Wanted
<1>4. \A x \in needs : kind'[Root(x)'] = "pure"
  BY <1>1 DEF Wanted
<1> QED
  BY <1>1, <1>2, <1>3, <1>4 DEF Wanted

\* The values before an exit are not touched past it.
LEMMA AheadKept ==
    ASSUME RInv, PInv, NEW U \in uses, Turn(U), NEW e \in 1..k
    PROVE  /\ \A x \in Ahead(e) : operands'[x] = operands[x]
           /\ Ahead(e)' = Ahead(e)
<1>1. /\ pc = "sink" /\ UNCHANGED k /\ k \in 1..2 /\ Shaped /\ Populated
      /\ \A x : PlaceOf(x)' = PlaceOf(x)
      /\ \A q \in 0..2 : Past(k, q) => q >= k
  BY Turning, Working
<1>2. \A x : x \in DOMAIN operands => PlaceOf(x) \in 0..2
  BY <1>1 DEF PlaceOf, Shaped
<1>3. ASSUME NEW x \in Ahead(e) PROVE operands'[x] = operands[x]
  <2>1. x \in DOMAIN operands /\ PlaceOf(x) < e /\ PlaceOf(x) \in 0..2
    BY <1>2 DEF Ahead
  <2>2. ~Past(k, PlaceOf(x))
    BY <1>1, <2>1
  <2> QED
    BY <2>1, <2>2, Turning
<1>4. \A x : x \in Ahead(e)' <=> x \in DOMAIN operands' /\ PlaceOf(x) < e
  BY <1>1 DEF Ahead
<1>5. ASSUME NEW x \in needs, Grow(x) PROVE Ahead(e)' = Ahead(e)
  <2>1. DOMAIN operands' = DOMAIN operands \cup {Sunk(k, x)} /\ PlaceOf(Sunk(k, x)) = k
    BY <1>5, Growing
  <2> QED
    BY <1>1, <1>4, <2>1 DEF Ahead
<1>6. ASSUME DOMAIN operands' = DOMAIN operands PROVE Ahead(e)' = Ahead(e)
  <2>1. \A x : x \in Ahead(e) <=> x \in DOMAIN operands /\ PlaceOf(x) < e
    BY DEF Ahead
  <2> QED
    BY <1>4, <1>6, <2>1
<1> QED
  BY <1>3, <1>5, <1>6, Turning

LEMMA RootsKept ==
    ASSUME RInv, PInv, NEW U \in uses, Turn(U), NEW x \in DOMAIN operands
    PROVE  {Root(o) : o \in operands'[x]} = {Root(o) : o \in operands[x]}
<1>1. pc = "sink" /\ Root(Repl(O)) = Root(O)
  BY Turning, Working
<1>2. \A S : O \in S => {Root(o) : o \in (S \ {O}) \cup {Repl(O)}} = {Root(o) : o \in S}
  BY <1>1
<1> QED
  BY <1>2, Turning

LEMMA StaleKept ==
    ASSUME RInv, PInv, NEW U \in uses, Turn(U), NEW e \in 1..k, NEW D, Stale(e, D)
    PROVE  Stale(e, D)'
<1>1. /\ UNCHANGED <<limit, kind>> /\ UNCHANGED Value
  BY Turning DEF Value
<1>2. Ahead(e)' = Ahead(e) /\ \A x \in Ahead(e) : operands'[x] = operands[x]
  BY AheadKept
<1> QED
  BY <1>1, <1>2 DEF Stale

LEMMA TracedKept == ASSUME RInv, PInv, NEW U \in uses, Turn(U) PROVE Traced'
<1>1. /\ pc = "sink" /\ UNCHANGED <<kind, place, limit, chained, k, needs, O>> /\ k \in 1..2
      /\ Traced /\ Wanted /\ Shaped /\ Past(k, k)
      /\ PlaceOf(Repl(O)) = k
      /\ \A x, q : Past(x, q)' = Past(x, q)
      /\ \A x : PlaceOf(x)' = PlaceOf(x)
  BY Turning, Working
<1>2. ASSUME NEW e \in 1..k, NEW y \in Ahead(e) PROVE y # Repl(O)
  BY <1>1, <1>2 DEF Ahead
<1>3. \E D \in SUBSET (Ahead(k)') : Stale(k, D)' /\ Planned(D)'
  <2>1. PICK D \in SUBSET Ahead(k) : Stale(k, D) /\ Planned(D)
    BY <1>1 DEF Traced
  <2>2. k \in 1..k
    BY <1>1
  <2>3. D \in SUBSET (Ahead(k)') /\ \A x \in Ahead(k) : operands'[x] = operands[x]
    <3>1. \A e : e = k => Ahead(e)' = Ahead(e) /\ \A x \in Ahead(e) : operands'[x] = operands[x]
      BY <2>2, AheadKept
    <3> QED
      BY <1>1, <2>1, <3>1
  <2>4. Stale(k, D)'
    <3>1. \A e : e = k => Stale(e, D)'
      BY <2>1, <2>2, StaleKept
    <3> QED
      BY <1>1, <3>1 DEF Stale
  <2>5. \A x \in needs : operands'[x] = operands[x]
    BY <1>1, <2>3 DEF Wanted
  <2>6. ASSUME NEW y \in D, NEW W \in Uses(y)', Past(k, W.at) PROVE y \in needs \cup {limit[k]}
    <3>1. y # Repl(O)
      BY <1>2, <2>1, <2>2
    <3>2. CASE W \in Uses(y)
      BY <2>1, <2>6, <3>2 DEF Planned
    <3>3. ASSUME NEW x \in needs, y \in operands[x] PROVE y \in needs \cup {limit[k]}
      BY <2>1, <3>3 DEF Planned
    <3> QED
      BY <3>1, <3>2, <3>3, UsesKept
  <2>7. Planned(D)'
    <3>1. \A q : Past(k, q)' = Past(k, q)
      BY <1>1 DEF Past
    <3> QED
      BY <1>1, <2>1, <2>5, <2>6, <3>1 DEF Planned
  <2> QED
    BY <2>3, <2>4, <2>7
<1>4. ASSUME k = 2
      PROVE  \E D \in SUBSET (Ahead(1)') :
                 Stale(1, D)' /\ Clean(1, D)' /\ (chained => needs \cap D = {})
  <2>1. PICK D \in SUBSET Ahead(1) : Stale(1, D) /\ Clean(1, D) /\ (chained => needs \cap D = {})
    BY <1>1, <1>4 DEF Traced
  <2>2. 1 \in 1..k
    BY <1>1
  <2>3. Stale(1, D)' /\ D \in SUBSET (Ahead(1)')
    BY <2>1, <2>2, StaleKept, AheadKept
  <2>4. ASSUME NEW y \in D, NEW W \in Uses(y)' PROVE ~Past(1, W.at)
    <3>1. y # Repl(O)
      BY <1>2, <2>1, <2>2
    <3>2. CASE W \in Uses(y)
      BY <2>1, <3>2 DEF Clean
    <3>3. ASSUME NEW x \in needs, Grow(x), W = By(Sunk(k, x)), y \in operands[x], Past(1, W.at)
          PROVE  FALSE
      <4>1. PlaceOf(Sunk(k, x)) = 2 /\ x \in DOMAIN operands /\ x \in Ahead(2)
        BY <1>4, <3>3, Growing
      <4>2. chained
        BY <3>3, <4>1, UsesAre DEF Past
      <4>3. x \notin D /\ (x \in Value => kind[x] = "pure")
        BY <1>1, <2>1, <4>2, Working, Roots DEF Wanted
      <4>4. x \notin Ahead(1)
        BY <2>1, <3>3, <4>3 DEF Stale
      <4>5. PlaceOf(x) = 1
        <5>1. PlaceOf(x) \in 0..2
          BY <1>1 DEF PlaceOf, Shaped
        <5> QED
          BY <4>1, <4>4, <5>1 DEF Ahead
      <4>6. By(x) \in Uses(y) /\ By(x).at = 1
        BY <3>3, <4>1, <4>5, UsesAre
      <4> QED
        BY <2>1, <4>6 DEF Clean, Past
    <3> QED
      BY <3>1, <3>2, <3>3, UsesKept
  <2>5. Clean(1, D)'
    <3>1. \A q : Past(1, q)' = Past(1, q)
      BY <1>1
    <3> QED
      BY <2>4, <3>1 DEF Clean
  <2> QED
    BY <2>1, <2>3, <2>5
<1> QED
  BY <1>1, <1>3, <1>4 DEF Traced

LEMMA KeptKept == ASSUME RInv, PInv, NEW U \in uses, Turn(U) PROVE Kept'
<1>1. /\ pc = "sink" /\ UNCHANGED <<kind, limit, k>> /\ Kept /\ Populated
      /\ \A x : Root(x)' = Root(x)
  BY Turning, Working
<1> SUFFICES ASSUME k = 1
             PROVE  \E T \in SUBSET Value :
                 /\ limit[2] \in T
                 /\ \A v \in Value : (\E o \in operands'[v] : Root(o) \in T) =>
                     kind[v] # "memory" /\ (kind[v] = "pure" => v \in T)
  BY <1>1 DEF Kept, Value
<1>2. PICK T \in SUBSET Value :
        /\ limit[2] \in T
        /\ \A v \in Value : (\E o \in operands[v] : Root(o) \in T) =>
            kind[v] # "memory" /\ (kind[v] = "pure" => v \in T)
  BY <1>1 DEF Kept
<1>3. ASSUME NEW v \in Value, NEW o \in operands'[v], Root(o) \in T
      PROVE  \E q \in operands[v] : Root(q) \in T
  BY <1>1, <1>3, RootsKept DEF Populated
<1> QED
  BY <1>2, <1>3

LEMMA EitherKept == ASSUME RInv, PInv, NEW U \in uses, Turn(U) PROVE Either'
<1>1. /\ pc = "sink" /\ UNCHANGED <<k, O>> /\ Old' = Old /\ k \in 1..2 /\ O \in 1..Old
      /\ limit \in [Exits -> Value] /\ Either /\ Fitting /\ Repl(O) \notin 1..Old /\ Shaped
      /\ \A x : Repl(x)' = Repl(x)
  BY Turning, Working
<1>2. \A y \in 1..Old : PlaceOf(Repl(y)) = k /\ (Repl(y) = Repl(O) => y = O) /\ Repl(y) \notin 1..Old
  BY <1>1, Replacing
<1>3. ASSUME NEW x \in DOMAIN operands', NEW y \in 1..Old, y \in operands'[x], Repl(y) \in operands'[x]
      PROVE  FALSE
  <2>1. CASE x \in DOMAIN operands
    <3>1. ~(y \in operands[x] /\ Repl(y) \in operands[x])
      BY <1>1, <2>1 DEF Either
    <3>2. operands'[x] = operands[x] \/ operands'[x] = (operands[x] \ {O}) \cup {Repl(O)}
      BY <2>1, Turning
    <3> QED
      BY <1>1, <1>2, <1>3, <3>1, <3>2
  <2>2. ASSUME NEW z \in needs, Grow(z), x \notin DOMAIN operands PROVE FALSE
    <3>1. /\ DOMAIN operands' = DOMAIN operands \cup {Sunk(k, z)}
          /\ operands'[Sunk(k, z)] = (operands[z] \ {O}) \cup {Repl(O)}
          /\ z \in DOMAIN operands /\ z \in Ahead(k)
      BY <2>2, Growing
    <3>2. operands'[x] = (operands[z] \ {O}) \cup {Repl(O)}
      BY <2>2, <3>1
    <3>3. y # O /\ Repl(y) \in operands[z]
      BY <1>1, <1>2, <1>3, <3>2
    <3>4. Fit(Repl(y), PlaceOf(z)) /\ PlaceOf(z) < k /\ PlaceOf(z) \in 0..2
      BY <1>1, <3>1, <3>3 DEF Fitting, Ahead, PlaceOf, Shaped
    <3> QED
      BY <1>1, <1>2, <3>4 DEF Fit
  <2> QED
    BY <2>1, <2>2, Turning
<1> QED
  BY <1>1, <1>3 DEF Either

LEMMA CausedKept == ASSUME RInv, PInv, NEW U \in uses, Turn(U) PROVE Caused'
<1>1. /\ pc = "sink" /\ UNCHANGED <<k, O>> /\ Old' = Old /\ k \in 1..2 /\ O \in 1..Old
      /\ limit \in [Exits -> Value] /\ Caused
      /\ \A x : Repl(x)' = Repl(x)
      /\ \A x, y : Sunk(x, y)' = Sunk(x, y)
  BY Turning, Working
<1>2. \A y \in 1..Old : Repl(y) \notin 1..Old
  BY <1>1, Replacing
<1>3. ASSUME NEW y \in 1..Old, Cloned(y)'
      PROVE  \E z \in 1..Old : Repl(z) \in operands'[Sunk(k, y)]
  <2>1. CASE Cloned(y)
    <3>1. PICK z \in 1..Old : Repl(z) \in operands[Sunk(k, y)]
      BY <1>1, <2>1 DEF Caused
    <3>2. Sunk(k, y) \in DOMAIN operands /\ Repl(z) # O
      BY <1>1, <1>2, <2>1 DEF Cloned
    <3>3. Repl(z) \in operands'[Sunk(k, y)]
      BY <3>1, <3>2, Turning
    <3> QED
      BY <3>3
  <2>2. CASE y \in needs /\ Grow(y)
    <3>1. Repl(O) \in operands'[Sunk(k, y)]
      BY <2>2 DEF Grow, Replaced
    <3> QED
      BY <1>1, <3>1
  <2> QED
    BY <1>3, <2>1, <2>2, ClonedMore
<1>4. \A y : Sunk(k, y)' = Sunk(k, y)
  BY <1>1 DEF Sunk, IVExit
<1> QED
  BY <1>1, <1>3, <1>4 DEF Caused

\* A clone that is past the exit is one of that exit.
LEMMA CloneOf ==
    ASSUME RInv, Populated, k \in 1..2, NEW c \in Range(clones), Past(k, PlaceOf(c))
    PROVE  PlaceOf(c) = k /\ \E y \in 1..Old : c = Sunk(k, y) /\ Cloned(y)
<1>1. c \in DOMAIN operands /\ c \in 1..Top /\ c > VALUES /\ c \notin {IVExit(1), IVExit(2)}
  BY DEF Populated, RInv, Numbered
<1>2. CASE k = 1
  <2>1. c \in (VALUES + 2)..(2 * VALUES + 1)
    BY <1>1, <1>2, Numbers
  <2>2. c - IVExit(1) \in 1..Old /\ Sunk(1, c - IVExit(1)) = c /\ PlaceOf(c) = 1
    BY <1>2, <2>1, Numbers DEF Sunk, Old, PlaceOf
  <2> QED
    BY <1>1, <1>2, <2>2 DEF Cloned
<1>3. CASE k = 2
  <2>0. c \notin Value /\ PlaceOf(c) \in 1..2
    BY <1>1, Numbers DEF PlaceOf
  <2>1. PlaceOf(c) = 2
    BY <1>3, <2>0 DEF Past
  <2>2. c \in (2 * VALUES + 3)..(4 * VALUES + 3)
    BY <1>1, <1>3, <2>1, Numbers DEF PlaceOf
  <2>3. c - IVExit(2) \in 1..Old /\ Sunk(2, c - IVExit(2)) = c
    BY <1>3, <2>2, Numbers DEF Sunk, Old
  <2> QED
    BY <1>1, <1>3, <2>1, <2>3 DEF Cloned
<1> QED
  BY <1>2, <1>3

LEMMA OrderedKept == ASSUME RInv, PInv, NEW U \in uses, Turn(U) PROVE Ordered'
<1>1. /\ pc = "sink" /\ UNCHANGED <<k, O>> /\ k \in 1..2 /\ O \in 1..Old
      /\ limit \in [Exits -> Value] /\ Ordered /\ Caused /\ Either /\ Populated /\ Fitting /\ Shaped
      /\ Repl(O) \in Made /\ PlaceOf(Repl(O)) = k /\ Repl(O) \notin 1..Old
      /\ \A x : PlaceOf(x)' = PlaceOf(x)
      /\ clones \in Seq(DOMAIN operands) /\ UNCHANGED Value
  BY Turning, Working DEF RInv, Numbered, Value
<1> DEFINE NearNow(c) == {o \in operands'[c] : o \notin Value /\ PlaceOf(o) = PlaceOf(c)}
           Done(j, c) == \/ \E o, q \in NearNow(c) : o # q
                         \/ \A o \in NearNow(c) :
                              o \in Range(clones') => \E b \in 1..(j - 1) : clones'[b] = o
<1>2. \A y \in 1..Old : /\ PlaceOf(Repl(y)) = k /\ Repl(y) \notin Value
                        /\ (Repl(y) = Repl(O) => y = O) /\ Repl(y) \notin 1..Old
  BY <1>1, Replacing
<1>3. /\ DOMAIN clones = 1..Len(clones) /\ Len(clones) \in Nat
      /\ \A j \in DOMAIN clones : clones'[j] = clones[j] /\ clones[j] \in DOMAIN operands
      /\ Range(clones) \subseteq Range(clones')
      /\ \A q \in Range(clones') : q \in Range(clones) \/ q \notin Made
  <2>1. DOMAIN clones = 1..Len(clones) /\ Len(clones) \in Nat
    BY <1>1
  <2>2. \A j \in DOMAIN clones : clones[j] \in DOMAIN operands
    BY <1>1, ElementIn
  <2>3. ASSUME NEW x \in needs, Grow(x)
        PROVE  /\ \A j \in DOMAIN clones : clones'[j] = clones[j]
               /\ Range(clones) \subseteq Range(clones')
               /\ \A q \in Range(clones') : q \in Range(clones) \/ q \notin Made
    <3> DEFINE c == Sunk(k, x)
    <3>1. /\ clones' = Append(clones, c) /\ Range(clones') = Range(clones) \cup {c}
          /\ c \notin DOMAIN operands /\ c \notin {IVExit(1), IVExit(2)}
      BY <2>3, Growing
    <3>2. c \notin Made
      BY <1>1, <3>1 DEF Made
    <3>3. \A j \in 1..Len(clones) : clones'[j] = clones[j]
      <4> HIDE DEF c
      <4> QED
        BY <1>1, <3>1
    <3> QED
      BY <2>1, <3>1, <3>2, <3>3
  <2> QED
    BY <2>1, <2>2, <2>3, Turning
<1>4. ASSUME NEW j \in DOMAIN clones PROVE Done(j, clones[j])
  <2> DEFINE c == clones[j]
  <2>1. c \in DOMAIN operands /\ c \in Range(clones) /\ j \in 1..Len(clones) /\ operands[c] \subseteq Made
    BY <1>1, <1>3 DEF Range, Populated
  <2>2. \/ \E o, q \in Near(c) : o # q
        \/ \A o \in Near(c) : o \in Range(clones) => \E b \in 1..(j - 1) : clones[b] = o
    BY <1>1 DEF Ordered
  <2> HIDE DEF c
  <2>3. CASE operands'[c] = operands[c]
    <3>1. NearNow(c) = Near(c) /\ Near(c) \subseteq Made
      BY <2>1, <2>3 DEF Near
    <3>2. \A b \in 1..(j - 1) : clones'[b] = clones[b]
      BY <1>3, <2>1
    <3>3. \A o \in Near(c) : o \in Range(clones') => o \in Range(clones)
      BY <1>3, <3>1
    <3> HIDE DEF NearNow
    <3>4. CASE \E o, q \in Near(c) : o # q
      BY <3>1, <3>4 DEF c
    <3>5. CASE \A o \in Near(c) : o \in Range(clones) => \E b \in 1..(j - 1) : clones[b] = o
      BY <3>1, <3>2, <3>3, <3>5 DEF c
    <3> QED
      BY <2>2, <3>4, <3>5
  <2>4. CASE /\ Past(k, PlaceOf(c)) /\ O \in operands[c]
             /\ operands'[c] = (operands[c] \ {O}) \cup {Repl(O)}
    <3>1. PlaceOf(c) = k /\ \E y \in 1..Old : c = Sunk(k, y) /\ Cloned(y)
      BY <1>1, <2>1, <2>4, CloneOf
    <3>2. PICK z \in 1..Old : Repl(z) \in operands[c]
      BY <1>1, <3>1 DEF Caused
    <3>3. z # O
      BY <1>1, <2>1, <2>4, <3>2 DEF Either
    <3>4. Repl(z) # O
      BY <1>1, <1>2
    <3>5. Repl(z) \in NearNow(c) /\ Repl(O) \in NearNow(c) /\ Repl(z) # Repl(O)
      BY <1>1, <1>2, <2>4, <3>1, <3>2, <3>3, <3>4
    <3> HIDE DEF NearNow
    <3> QED
      BY <3>5 DEF c
  <2> QED
    BY <2>1, <2>3, <2>4, Turning DEF c
<1>5. ASSUME NEW x \in needs, Grow(x) PROVE Done(Len(clones) + 1, Sunk(k, x))
  <2> DEFINE c == Sunk(k, x)
  <2>1. /\ x \in DOMAIN operands /\ x \in Ahead(k) /\ PlaceOf(c) = k
        /\ operands'[c] = (operands[x] \ {O}) \cup {Repl(O)}
        /\ clones' = Append(clones, c) /\ Range(clones') = Range(clones) \cup {c}
        /\ c \notin DOMAIN operands /\ c \notin {IVExit(1), IVExit(2)}
    BY <1>5, Growing
  <2> HIDE DEF c
  <2>2. ASSUME NEW o \in NearNow(c) PROVE o = Repl(O)
    <3>1. ASSUME o \in operands[x] PROVE FALSE
      <4>1. Fit(o, PlaceOf(x)) /\ PlaceOf(x) < k /\ PlaceOf(x) \in 0..2 /\ PlaceOf(o) = k
        BY <1>1, <2>1, <2>2, <3>1 DEF Fitting, Ahead, PlaceOf, Shaped
      <4> QED
        BY <1>1, <4>1 DEF Fit
    <3> QED
      BY <2>1, <2>2, <3>1
  <2>3. c \notin Made
    BY <1>1, <2>1 DEF Made
  <2>4. ASSUME Repl(O) \in Range(clones') PROVE \E b \in 1..Len(clones) : clones'[b] = Repl(O)
    <3>1. Repl(O) \in Range(clones)
      BY <1>1, <2>1, <2>3, <2>4
    <3> QED
      BY <1>3, <3>1 DEF Range
  <2>5. 1..(Len(clones) + 1 - 1) = 1..Len(clones)
    BY <1>3
  <2> HIDE DEF NearNow
  <2> QED
    BY <2>2, <2>4, <2>5 DEF c
<1>6. ASSUME NEW j \in DOMAIN clones' PROVE Done(j, clones'[j])
  <2>1. CASE UNCHANGED clones
    BY <1>4, <2>1
  <2>2. ASSUME NEW x \in needs, Grow(x) PROVE Done(j, clones'[j])
    <3> DEFINE c == Sunk(k, x)
    <3>1. clones' = Append(clones, c)
      BY <2>2, Growing
    <3>2. DOMAIN clones' = 1..(Len(clones) + 1) /\ clones'[Len(clones) + 1] = c
      <4> HIDE DEF c
      <4> QED
        BY <1>1, <3>1
    <3>3. Done(Len(clones) + 1, c)
      BY <1>5, <2>2
    <3>4. \A i \in DOMAIN clones : Done(i, clones'[i])
      BY <1>3, <1>4
    <3> HIDE DEF Done, c
    <3> QED
      BY <1>3, <3>2, <3>3, <3>4
  <2> QED
    BY <2>1, <2>2, Turning
<1>7. \A c : Near(c)' = NearNow(c)
  BY <1>1 DEF Near
<1> HIDE DEF NearNow
<1> QED
  BY <1>6, <1>7 DEF Ordered

LEMMA TurnKept ==
    ASSUME RInv, PInv, NEW U \in uses, Turn(U)
    PROVE  PInv'
<1>1. /\ Populated' /\ Standing' /\ Fitting' /\ Fresh' /\ Pending' /\ Swept' /\ Wanted'
      /\ Traced' /\ Kept' /\ Either' /\ Caused' /\ Ordered'
  BY PopulatedKept, StandingKept, FittingKept, FreshKept, PendingKept, SweptKept, WantedKept,
     TracedKept, KeptKept, EitherKept, CausedKept, OrderedKept
<1>2. pc' = "sink" /\ Shaped'
  <2>1. /\ pc = "sink" /\ pc' = "sink" /\ UNCHANGED <<kind, place, limit, chained>>
        /\ \A x, q : Fit(x, q)' = Fit(x, q)
    BY Turning
  <2>2. Shaped
    BY <2>1, Working
  <2>3. Fit(limit[1], 0)' = Fit(limit[1], 0) /\ Fit(limit[2], 2)' = Fit(limit[2], 2)
    BY <2>1 DEF Fit, PlaceOf, IVExit, Value
  <2> QED
    BY <2>1, <2>2, <2>3 DEF Shaped, Value, Exits
<1> QED
  BY <1>1, <1>2 DEF PInv

LEMMA VisitsKept ==
    ASSUME RInv, PInv, NEW U \in uses, SetUse(U) \/ LeaveUse(U) \/ Sink(U) \/ Rewire(U)
    PROVE  PInv'
BY TurnKept, SetUseTurns, LeaveUseTurns, SinkTurns, RewireTurns

\* The next of what waits is taken.
LEMMA PopKept == RInv /\ PInv /\ PopSink => PInv'
<1> SUFFICES ASSUME RInv, PInv, PopSink PROVE PInv'
  OBVIOUS
<1>1. /\ pc = "sink" /\ pc' = "sink" /\ uses = {} /\ Sinks # <<>> /\ O' = Last(Sinks)
      /\ uses' = Uses(Last(Sinks)) /\ Sinks' = Front(Sinks)
      /\ UNCHANGED <<shapes, operands, reads, k, needs, clones>>
  BY DEF PopSink, probe
<1>2. k \in 1..2 /\ limit \in [Exits -> Value] /\ pc \in Late
  BY <1>1 DEF RInv, Stages, Late
<1>3. /\ Shaped /\ Populated /\ Standing /\ Fitting /\ Fresh /\ Swept /\ Wanted
      /\ Traced /\ Kept /\ Either /\ Caused /\ Ordered
  BY <1>2 DEF PInv
<1>4. /\ UNCHANGED <<kind, place, limit, chained>> /\ Old' = Old
      /\ \A x : PlaceOf(x)' = PlaceOf(x) /\ Root(x)' = Root(x) /\ By(x)' = By(x)
      /\ \A x, q : Past(x, q)' = Past(x, q) /\ Fit(x, q)' = Fit(x, q)
  BY <1>1, Still DEF Old, IVExit
<1>5. \A x : Repl(x)' = Repl(x) /\ Cloned(x)' = Cloned(x) /\ Pure(x)' = Pure(x) /\ Near(x)' = Near(x)
             /\ Uses(x)' = Uses(x)
  BY <1>1, <1>4 DEF Repl, Sunk, IVExit, Cloned, Pure, Value, Near, PlaceOf, Uses, ReadBy, By
<1>6. /\ Shaped' /\ Populated' /\ Standing' /\ Fitting' /\ Fresh' /\ Wanted' /\ Traced' /\ Kept'
      /\ Either' /\ Caused' /\ Ordered'
  <2>1. Shaped' /\ Populated' /\ Fitting'
    BY <1>1, <1>3, <1>4 DEF Shaped, Populated, Fitting, Fit, PlaceOf, Made, IVExit, Value, Exits
  <2>2. Standing' /\ Fresh'
    BY <1>1, <1>3, <1>4 DEF Standing, Fresh, Root, FirstRoot, PlaceOf, IVExit, Value, Exits
  <2>3. Wanted'
    BY <1>1, <1>3, <1>4, <1>5 DEF Wanted, Ahead, PlaceOf, IVExit, Value, Exits, Root, FirstRoot
  <2>4. Traced'
    BY <1>1, <1>3, <1>4, <1>5 DEF Traced, Ahead, PlaceOf, IVExit, Value, Stale, Clean, Planned, Past
  <2>5. Kept'
    BY <1>1, <1>3, <1>4 DEF Kept, Root, FirstRoot, IVExit, Value
  <2>6. Either' /\ Caused' /\ Ordered'
    BY <1>1, <1>3, <1>4, <1>5 DEF Either, Caused, Ordered, Sunk, IVExit
  <2> QED
    BY <2>1, <2>2, <2>3, <2>4, <2>5, <2>6
<1>7. /\ Sinks \in Seq(1..Old) /\ Range(Sinks) = Range(Sinks') \cup {O'} /\ O' \notin Range(Sinks')
      /\ O' \in 1..Old /\ (Cloned(O') \/ O' = limit[k])
  <2>1. Sinks \in Seq(1..Old) /\ IsInjective(Sinks)
    BY DEF RInv, Numbered, ClonedOnce
  <2>2. /\ O' \in 1..Old /\ Len(Sinks) \in Nat \ {0} /\ O' = Sinks[Len(Sinks)]
        /\ DOMAIN Sinks' = 1..(Len(Sinks) - 1) /\ DOMAIN Sinks = 1..Len(Sinks)
        /\ \A j \in 1..(Len(Sinks) - 1) : Sinks'[j] = Sinks[j]
    BY <1>1, <2>1, FrontLast
  <2>3. Range(Sinks) = Range(Sinks') \cup {O'} /\ O' \notin Range(Sinks')
    <3> DEFINE n == Len(Sinks)
    <3>1. n \in Nat \ {0} /\ DOMAIN Sinks = 1..n /\ DOMAIN Sinks' = 1..(n - 1) /\ O' = Sinks[n]
          /\ \A j \in 1..(n - 1) : Sinks'[j] = Sinks[j]
      BY <2>2
    <3> HIDE DEF n
    <3>2. \A j \in 1..n : j \in 1..(n - 1) \/ j = n
      BY <3>1
    <3>3. \A j \in 1..(n - 1) : j \in 1..n /\ j # n
      BY <3>1
    <3>4. n \in 1..n
      BY <3>1
    <3> QED
      BY <2>1, <3>1, <3>2, <3>3, <3>4 DEF Range, IsInjective
  <2>4. Cloned(O') \/ O' = limit[k]
    <3>1. CASE \A j \in DOMAIN Sinks : Cloned(Sinks[j])
      BY <2>2, <3>1
    <3>2. CASE Sinks = <<limit[k]>>
      BY <2>2, <3>2
    <3> QED
      BY <3>1, <3>2 DEF RInv, ClonedOnce
  <2> QED
    BY <2>1, <2>2, <2>3, <2>4
<1>8. \A y \in Popped' : y \in Popped \/ y = O'
  BY <1>1, <1>4, <1>5, <1>7 DEF Popped
<1>9. O' \in Popped'
  BY <1>1, <1>4, <1>5, <1>7 DEF Popped
<1>10. Swept'
  <2>1. ASSUME NEW y \in Popped', NEW W \in Uses(y)
        PROVE  \/ y = O' /\ W \in uses'
               \/ /\ ~Past(k, W.at)
                  /\ W.read \/ W.of[1] \notin needs \/ Cloned(W.of[1])
    <3>1. CASE y = O'
      BY <1>1, <2>1, <3>1
    <3>2. CASE y \in Popped
      BY <1>1, <1>2, <1>3, <2>1, <3>2 DEF Swept
    <3> QED
      BY <1>8, <3>1, <3>2
  <2>2. \A q : Past(k, q)' = Past(k, q)
    BY <1>1, <1>4 DEF Past
  <2> QED
    BY <1>1, <1>5, <2>1, <2>2 DEF Swept
<1>11. Pending'
  <2>1. \A W \in uses' : \/ \E p \in DOMAIN reads : W = ReadBy(p) /\ reads[p] = O'
                         \/ \E u \in DOMAIN operands : W = By(u) /\ O' \in operands[u]
    BY <1>1, UsesAre
  <2>2. \A p : ReadBy(p)' = ReadBy(p)
    BY DEF ReadBy
  <2> QED
    BY <1>1, <1>4, <1>9, <2>1, <2>2 DEF Pending
<1> QED
  BY <1>1, <1>6, <1>10, <1>11 DEF PInv

-----------------------------------------------------------------------------
(* The rewrite of a step loop ends, and that of the next begins.           *)

\* The values reached lie in every set that holds, of the pure values before the exit,
\* those computed from the limit or from a member.
LEMMA ReachedWithin ==
    ASSUME limit \in [Exits -> Value], DOMAIN operands \subseteq Nodes, Standing,
           \A x \in DOMAIN operands : operands[x] \subseteq Nodes,
           NEW e, NEW S,
           \A x \in Before(e) : Pure(x) /\ (limit[e] \in operands[x] \/ operands[x] \cap S # {})
                                    => x \in S
    PROVE  Reached(e) \subseteq S
<1> DEFINE rank == [x \in Nodes |-> Root(x)]
           Out == Reached(e) \ S
<1>1. SUFFICES ASSUME Out # {} PROVE FALSE
  OBVIOUS
<1>2. Reached(e) \subseteq Before(e) /\ Before(e) \subseteq Nodes
  BY ReachedIs DEF Before
<1>3. \A x \in Nodes : rank[x] = Root(x) /\ rank[x] \in Nat
  BY Roots
<1>4. PICK x \in Out : \A y \in Out : rank[x] <= rank[y]
  <2>1. \A y \in Out : rank[y] \in Nat
    BY <1>2, <1>3
  <2> HIDE DEF Out, rank
  <2> QED
    BY <1>1, <2>1, LeastRank
<1>5. Pure(x) /\ \E o \in operands[x] : o = limit[e] \/ o \in Reached(e)
  BY <1>2, <1>4, ReachedIs
<1>6. x \in DOMAIN operands /\ x \notin S /\ x \in Before(e)
  BY <1>2, <1>4 DEF Before
<1>7. PICK o \in operands[x] : o \in Reached(e) /\ o \notin S
  BY <1>5, <1>6
<1>8. o \in Out /\ Root(o) < Root(x) /\ o \in Nodes /\ x \in Nodes
  BY <1>6, <1>7 DEF Standing
<1> HIDE DEF Out, rank
<1>9. rank[x] <= rank[o] /\ rank[o] < rank[x] /\ rank[x] \in Nat /\ rank[o] \in Nat
  BY <1>3, <1>4, <1>8
<1> QED
  BY <1>9

\* What is needed lies outside a set out of which no use past the exit comes, nor one by
\* a needed value that is not in it.
LEMMA NeedsOutside ==
    ASSUME limit \in [Exits -> Value], DOMAIN operands \subseteq Nodes, Standing,
           NEW e, NEW S,
           \A x \in S : \A U \in Uses(x) : ~Past(e, U.at),
           \A x \in S : \A u \in Needs(e) : x \in operands[u] => u \in S
    PROVE  Needs(e) \cap S = {}
<1> DEFINE rank == [x \in Nodes |-> Root(x)]
           In == Needs(e) \cap S
<1>1. SUFFICES ASSUME In # {} PROVE FALSE
  OBVIOUS
<1>2. Needs(e) \subseteq Reached(e) /\ Reached(e) \subseteq DOMAIN operands
  BY ReachedIs, NeedsIs DEF Before
<1>3. \A x \in Nodes : rank[x] = Root(x) /\ rank[x] \in 0..VALUES
  BY Roots, Numbers
<1>4. PICK x \in In : \A y \in In : rank[y] <= rank[x]
  <2>1. (\A y \in In : rank[y] \in 0..VALUES) /\ VALUES \in Nat
    BY <1>2, <1>3, Numbers
  <2> HIDE DEF In, rank
  <2> QED
    BY <1>1, <2>1, GreatestRank
<1>5. x \in Needs(e) /\ x \in S
  BY <1>4
<1>6. PICK u \in Needs(e) : x \in operands[u]
  BY <1>2, <1>5, NeedsIs
<1>7. u \in In /\ u \in DOMAIN operands /\ u \in Nodes /\ x \in Nodes
  BY <1>2, <1>5, <1>6
<1>8. Root(x) < Root(u)
  BY <1>6, <1>7 DEF Standing
<1> HIDE DEF In, rank
<1>9. rank[u] <= rank[x] /\ rank[x] < rank[u] /\ rank[x] \in 0..VALUES /\ rank[u] \in 0..VALUES
  BY <1>3, <1>4, <1>7, <1>8
<1> QED
  BY <1>9, Numbers

\* When a rewrite is done, nothing past its exit sees its limit any more.
LEMMA PhaseEnds ==
    ASSUME RInv, PInv, k \in 1..2, pc \in Late, uses = {}, Sinks = <<>>,
           NEW D, Stale(k, D), Planned(D)
    PROVE  Clean(k, D)
<1>1. Swept /\ Standing /\ limit \in [Exits -> Value]
  BY DEF PInv, RInv, Stages
<1>2. /\ needs \subseteq DOMAIN operands /\ needs \subseteq 1..Old /\ DOMAIN operands \subseteq Nodes
      /\ \A x \in DOMAIN operands : operands[x] \subseteq Nodes
  BY RewriteTypeOK DEF RInv, Numbered, SinkTypeOK, Range
<1>3. Range(Sinks) = {}
  BY DEF Range
<1>4. limit[k] \in Popped /\ \A x \in 1..Old : Cloned(x) => x \in Popped
  BY <1>3 DEF Popped
<1>5. \A x \in needs : Cloned(x)
  <2> DEFINE Out == {x \in needs : ~Cloned(x)}
             rank == [x \in Nodes |-> Root(x)]
  <2>1. SUFFICES ASSUME Out # {} PROVE FALSE
    OBVIOUS
  <2>2. \A x \in Nodes : rank[x] = Root(x) /\ rank[x] \in Nat
    BY <1>1, Roots
  <2>3. PICK x \in Out : \A y \in Out : rank[x] <= rank[y]
    <3>1. \A y \in Out : rank[y] \in Nat
      BY <1>2, <2>2
    <3> HIDE DEF Out, rank
    <3> QED
      BY <2>1, <3>1, LeastRank
  <2>4. x \in needs /\ x \in DOMAIN operands /\ ~Cloned(x)
    BY <1>2, <2>3
  <2>5. PICK o \in operands[x] : o \in needs \cup {limit[k]}
    BY <2>4 DEF Planned
  <2>6. Root(o) < Root(x) /\ o \in Nodes /\ x \in Nodes
    BY <1>1, <1>2, <2>4 DEF Standing
  <2>7. o \notin Out
    <3>1. rank[o] < rank[x] /\ rank[o] \in Nat /\ rank[x] \in Nat
      BY <2>2, <2>6
    <3> HIDE DEF Out, rank
    <3> QED
      BY <2>3, <3>1
  <2>8. o \in Popped
    BY <1>2, <1>4, <2>5, <2>7
  <2>9. By(x) \in Uses(o) /\ ~By(x).read /\ By(x).of[1] = x
    BY <2>4, UsesAre
  <2> QED
    BY <1>1, <2>4, <2>8, <2>9 DEF Swept
<1>6. ASSUME NEW y \in D, NEW U \in Uses(y), Past(k, U.at) PROVE FALSE
  <2>1. y \in needs \cup {limit[k]}
    BY <1>6 DEF Planned
  <2>2. y \in Popped
    BY <1>2, <1>4, <1>5, <2>1
  <2> QED
    BY <1>1, <1>6, <2>2 DEF Swept
<1> QED
  BY <1>6 DEF Clean

\* The rewrite of loop e begins: of the first one after all have been accepted.
Planning(e) ==
    /\ e \in 1..2 /\ k = e - 1 /\ uses = {} /\ Sinks = <<>>
    /\ Plan(e) /\ pc' = "sink"
    /\ e = 1 => pc = "match" /\ \A i \in Exits : ~Failure(i)
    /\ e = 2 => pc = "sink"

LEMMA PlanningIs ==
    ASSUME RInv, PInv, NEW e, Planning(e)
    PROVE  /\ e \in 1..2 /\ pc \in Late /\ limit \in [Exits -> Value] /\ limit[e] \in Value
           /\ Shaped /\ Populated /\ Standing /\ Fitting /\ Fresh /\ Traced /\ Kept /\ Ordered
           /\ k = e - 1 /\ k' = e /\ needs' = Needs(e) /\ Sinks' = <<limit[e]>> /\ pc' = "sink"
           /\ uses = {} /\ uses' = {}
           /\ UNCHANGED <<kind, place, limit, chained, operands, reads, O, clones>>
           /\ \A x : PlaceOf(x)' = PlaceOf(x) /\ Root(x)' = Root(x) /\ By(x)' = By(x)
           /\ \A x, q : Past(x, q)' = Past(x, q) /\ Fit(x, q)' = Fit(x, q)
           /\ \A x : Uses(x)' = Uses(x) /\ Pure(x)' = Pure(x) /\ Near(x)' = Near(x)
           /\ \A i : Ahead(i)' = Ahead(i)
<1>1. /\ e \in 1..2 /\ pc \in Late /\ limit \in [Exits -> Value] /\ limit[e] \in Value
      /\ k = e - 1 /\ pc' = "sink" /\ uses = {}
  BY DEF Planning, RInv, Stages, Late, Exits
<1>2. Shaped /\ Populated /\ Standing /\ Fitting /\ Fresh /\ Traced /\ Kept /\ Ordered
  BY <1>1 DEF PInv
<1>3. /\ k' = e /\ needs' = Needs(e) /\ Sinks' = <<limit[e]>>
      /\ UNCHANGED <<shapes, operands, reads, O, uses, clones>>
  BY DEF Planning, Plan, probe
<1>4. /\ UNCHANGED <<kind, place, limit, chained>>
      /\ \A x : PlaceOf(x)' = PlaceOf(x) /\ Root(x)' = Root(x) /\ By(x)' = By(x)
      /\ \A x, q : Past(x, q)' = Past(x, q) /\ Fit(x, q)' = Fit(x, q)
  BY <1>3, Still
<1>5. /\ \A x : Uses(x)' = Uses(x) /\ Pure(x)' = Pure(x) /\ Near(x)' = Near(x)
      /\ \A i : Ahead(i)' = Ahead(i)
  BY <1>3, <1>4 DEF Uses, ReadBy, By, PlaceOf, Pure, Value, IVExit, Near, Ahead
<1> QED
  BY <1>1, <1>2, <1>3, <1>4, <1>5

\* At that time there are no clones at the exit yet.
LEMMA PlanningNumbers ==
    ASSUME RInv, PInv, NEW e, Planning(e)
    PROVE  /\ Before(e) = Ahead(e) /\ limit[e] \in Ahead(e)
           /\ DOMAIN operands \subseteq Nodes
           /\ \A x \in DOMAIN operands : PlaceOf(x) \in 0..2 /\ operands[x] \subseteq Nodes
           /\ \A x \in DOMAIN operands : \A y \in 1..Old' : Repl(y)' \notin operands[x]
           /\ \A y \in 1..Old' : ~Cloned(y)'
           /\ Value \subseteq DOMAIN operands
<1>1. /\ e \in 1..2 /\ k = e - 1 /\ k' = e /\ UNCHANGED <<limit, operands>>
      /\ Shaped /\ Populated /\ limit \in [Exits -> Value] /\ limit[e] \in Value
  BY PlanningIs
<1>2. /\ DOMAIN operands \subseteq 1..Top /\ \A x \in DOMAIN operands : operands[x] \subseteq 1..Top
  BY DEF RInv, Numbered
<1>3. /\ Top = e * (VALUES + 1) - 1 /\ Old' = Top /\ VALUES \in Nat \ {0}
      /\ IVExit(e)' = Top + 1 /\ \A y : Sunk(e, y)' = Top + 1 + y
  <2>1. CASE e = 1
    BY <1>1, <2>1, Numbers DEF Old, IVExit, Sunk
  <2>2. CASE e = 2
    BY <1>1, <2>2, Numbers DEF Old, IVExit, Sunk
  <2> QED
    BY <1>1, <2>1, <2>2
<1>4. Top \in Nat
  BY <1>1, <1>3
<1>5. \A y \in 1..Old' : Repl(y)' \notin 1..Top /\ Sunk(e, y)' \notin 1..Top
  BY <1>1, <1>3, <1>4 DEF Repl
<1>6. \A x \in DOMAIN operands : PlaceOf(x) \in 0..2
  BY <1>1 DEF PlaceOf, Shaped
<1>7. \A x \in DOMAIN operands : Past(e, PlaceOf(x)) <=> PlaceOf(x) >= e
  <2>1. CASE e = 1
    <3>1. DOMAIN operands = Value
      BY <2>1 DEF Planning, PInv, Late
    <3>2. \A x \in DOMAIN operands : PlaceOf(x) \in 0..1
      BY <1>1, <3>1 DEF PlaceOf, Shaped
    <3> QED
      BY <2>1, <3>2 DEF Past
  <2>2. CASE e = 2
    BY <1>6, <2>2 DEF Past
  <2> QED
    BY <1>1, <2>1, <2>2
<1>8. Before(e) = Ahead(e)
  BY <1>1, <1>6, <1>7 DEF Before, Ahead
<1>9. Value \subseteq DOMAIN operands
  BY <1>1 DEF Populated
<1>10. limit[e] \in Ahead(e)
  <2>1. PlaceOf(limit[e]) < e
    BY <1>1 DEF Shaped, Fit, PlaceOf
  <2> QED
    BY <1>1, <1>9, <2>1 DEF Ahead
<1>11. \A y \in 1..Old' : ~Cloned(y)'
  BY <1>1, <1>2, <1>5 DEF Cloned
<1>12. DOMAIN operands \subseteq Nodes /\ \A x \in DOMAIN operands : operands[x] \subseteq Nodes
  BY RewriteTypeOK DEF SinkTypeOK, Range
<1> QED
  BY <1>1, <1>2, <1>5, <1>6, <1>8, <1>9, <1>10, <1>11, <1>12

\* What is reached is pure, and stands for a value behind the limit.
LEMMA ReachedAre ==
    ASSUME RInv, PInv, NEW e, Planning(e)
    PROVE  /\ Reached(e) \subseteq Ahead(e) /\ Needs(e) \subseteq Reached(e)
           /\ \A x \in Reached(e) : kind[Root(x)] = "pure" /\ Root(x) # limit[e] /\ Pure(x)
<1>1. /\ Shaped /\ Populated /\ Standing /\ Fresh /\ limit \in [Exits -> Value] /\ limit[e] \in Value
      /\ Before(e) = Ahead(e) /\ DOMAIN operands \subseteq Nodes
      /\ \A x \in DOMAIN operands : operands[x] \subseteq Nodes
  BY PlanningIs, PlanningNumbers
<1>2. Reached(e) \subseteq Ahead(e) /\ Needs(e) \subseteq Reached(e) /\ \A x \in Reached(e) : Pure(x)
  BY <1>1, ReachedIs, NeedsIs
<1>3. ASSUME NEW x \in Reached(e) PROVE kind[Root(x)] = "pure"
  <2>1. x \in Value \cup Range(clones)
    BY <1>1, <1>2 DEF Ahead, Populated
  <2>2. CASE x \in Value
    BY <1>1, <1>2, <2>2, Roots DEF Pure
  <2> QED
    BY <1>1, <2>1, <2>2 DEF Fresh
<1>4. Reached(e) \subseteq {x \in Nodes : limit[e] < Root(x)}
  <2> DEFINE S == {x \in Nodes : limit[e] < Root(x)}
  <2>1. ASSUME NEW x \in Before(e), limit[e] \in operands[x] \/ operands[x] \cap S # {}
        PROVE  x \in S
    <3>1. x \in DOMAIN operands /\ x \in Nodes /\ operands[x] \subseteq Nodes
      BY <1>1 DEF Before
    <3>2. PICK o \in operands[x] : o = limit[e] \/ o \in S
      BY <2>1
    <3>3. Root(o) < Root(x) /\ Root(limit[e]) = limit[e] /\ Root(o) \in Nat /\ Root(x) \in Nat
          /\ limit[e] \in Nat
      BY <1>1, <3>1, Roots DEF Standing
    <3> QED
      BY <3>1, <3>2, <3>3
  <2> HIDE DEF S
  <2> QED
    BY <1>1, <2>1, ReachedWithin DEF S
<1>5. \A x \in Reached(e) : Root(x) # limit[e]
  BY <1>1, <1>4, Roots
<1> QED
  BY <1>2, <1>3, <1>5

\* No memory before the exit sees the limit.
LEMMA NoMemory ==
    ASSUME RInv, PInv, NEW e, Planning(e), NEW x \in Ahead(e),
           NEW o \in operands[x], o \in Reached(e) \cup {limit[e]}
    PROVE  ~(x \in Value /\ kind[x] = "memory")
<1>1. SUFFICES ASSUME x \in Value, kind[x] = "memory" PROVE FALSE
  OBVIOUS
<1>2. /\ e \in 1..2 /\ k = e - 1 /\ Before(e) = Ahead(e) /\ limit \in [Exits -> Value] /\ limit[e] \in Value
      /\ Standing /\ Populated /\ Fresh /\ Kept /\ DOMAIN operands \subseteq Nodes
      /\ \A y \in DOMAIN operands : operands[y] \subseteq Nodes
  BY PlanningIs, PlanningNumbers
<1>3. CASE e = 1
  <2>1. ~Failure(1)
    BY <1>3 DEF Planning, Exits
  <2>2. x \in Users(1, o)
    BY <1>2, <1>3 DEF Users
  <2> QED
    BY <1>1, <1>3, <2>1, <2>2 DEF Failure
<1>4. CASE e = 2
  <2>1. PICK T \in SUBSET Value :
          /\ limit[2] \in T
          /\ \A v \in Value : (\E q \in operands[v] : Root(q) \in T) =>
               kind[v] # "memory" /\ (kind[v] = "pure" => v \in T)
    BY <1>2, <1>4 DEF Kept
  <2> DEFINE S == {y \in Nodes : Root(y) \in T}
  <2>2. limit[2] \in S
    BY <1>2, <1>4, <2>1, Roots
  <2>3. ASSUME NEW y \in Before(2), Pure(y), NEW q \in operands[y], q = limit[2] \/ q \in S
        PROVE  y \in S
    <3>1. y \in DOMAIN operands /\ y \in Nodes /\ Root(q) \in T
      BY <1>2, <2>2, <2>3 DEF Before
    <3>2. CASE y \in Value
      <4>1. kind[y] = "pure" /\ Root(y) = y
        BY <1>2, <2>3, <3>2, Roots DEF Pure
      <4> QED
        BY <2>1, <3>1, <3>2, <4>1
    <3>3. CASE y \in Range(clones)
      <4>1. kind[Root(y)] = "pure" /\ Root(y) \in Value
        BY <1>2, <3>1, <3>3, Roots DEF Fresh
      <4>2. {Root(w) : w \in operands[y]} = {Root(w) : w \in operands[Root(y)]}
        BY <1>2, <3>1 DEF Standing
      <4>3. \E w \in operands[Root(y)] : Root(w) = Root(q)
        BY <2>3, <4>2
      <4>4. Root(y) \in T
        BY <2>1, <3>1, <4>1, <4>3
      <4> QED
        BY <3>1, <4>4
    <3> QED
      BY <1>2, <3>1, <3>2, <3>3 DEF Populated
  <2> HIDE DEF S
  <2>4. Reached(2) \subseteq S
    <3>1. \A y \in Before(2) : Pure(y) /\ (limit[2] \in operands[y] \/ operands[y] \cap S # {}) => y \in S
      BY <2>3
    <3> QED
      BY <1>2, <3>1, ReachedWithin
  <2>5. Root(o) \in T
    BY <1>4, <2>2, <2>4 DEF S
  <2> QED
    BY <1>1, <2>1, <2>5
<1> QED
  BY <1>2, <1>3, <1>4

LEMMA PlanningTraces ==
    ASSUME RInv, PInv, NEW e, Planning(e)
    PROVE  \E D \in SUBSET Ahead(k)' : Stale(k, D)' /\ Planned(D)'
<1> DEFINE S == Reached(e) \cup {limit[e]}
<1>1. /\ e \in 1..2 /\ k' = e /\ needs' = Needs(e) /\ Before(e) = Ahead(e) /\ limit[e] \in Ahead(e)
      /\ Reached(e) \subseteq Ahead(e) /\ Needs(e) \subseteq Reached(e)
      /\ \A i : Ahead(i)' = Ahead(i)
      /\ Shaped /\ UNCHANGED <<kind, limit, operands, Value>>
      /\ \A x, q : Past(x, q)' = Past(x, q)
      /\ \A x : Uses(x)' = Uses(x)
  BY PlanningIs, PlanningNumbers, ReachedAre DEF Value
<1>2. S \in SUBSET Ahead(e) /\ limit[e] \in S /\ Needs(e) \subseteq S
  BY <1>1
<1>3. ASSUME NEW x \in Ahead(e)
      PROVE  operands[x] \cap S = {} \/ x \in S \/ (x \in Value /\ kind[x] = "merge")
  <2>1. SUFFICES ASSUME NEW o \in operands[x], o \in S, ~(x \in Value /\ kind[x] = "merge")
                 PROVE  x \in Reached(e)
    OBVIOUS
  <2>2. ~(x \in Value /\ kind[x] = "memory")
    BY <2>1, NoMemory
  <2>3. Pure(x)
    BY <1>1, <2>1, <2>2 DEF Pure, Shaped
  <2> QED
    BY <1>1, <2>1, <2>3, ReachedIs
<1>4. ASSUME NEW x \in Needs(e)
      PROVE  operands[x] \cap S \subseteq Needs(e) \cup {limit[e]} /\ operands[x] \cap S # {}
  <2>1. \A o \in operands[x] \cap Reached(e) : o \in Needs(e)
    BY NeedsIs
  <2>2. \E o \in operands[x] : o = limit[e] \/ o \in Reached(e)
    BY <1>1, ReachedIs
  <2> QED
    BY <2>1, <2>2
<1>5. ASSUME NEW y \in S, NEW U \in Uses(y), Past(e, U.at) PROVE y \in Needs(e) \cup {limit[e]}
  BY <1>5, NeedsIs
<1> HIDE DEF S
<1>6. PICK D \in SUBSET Ahead(e) :
        /\ limit[e] \in D /\ Needs(e) \subseteq D
        /\ \A x \in Ahead(e) : operands[x] \cap D = {} \/ x \in D \/ (x \in Value /\ kind[x] = "merge")
        /\ \A x \in Needs(e) :
             operands[x] \cap D \subseteq Needs(e) \cup {limit[e]} /\ operands[x] \cap D # {}
        /\ \A y \in D : \A U \in Uses(y) : Past(e, U.at) => y \in Needs(e) \cup {limit[e]}
  BY <1>2, <1>3, <1>4, <1>5
<1>7. Stale(e, D)'
  BY <1>1, <1>6 DEF Stale
<1>8. Planned(D)'
  BY <1>1, <1>6 DEF Planned
<1> QED
  BY <1>1, <1>6, <1>7, <1>8

\* If the first exit dominates the second, what is needed past the second can do
\* without the first limit too.
LEMMA FirstNeedsChained ==
    ASSUME RInv, PInv, Planning(1), chained
    PROVE  \A x \in Needs(1) : Root(x) # limit[2]
<1>1. /\ limit \in [Exits -> Value] /\ Standing /\ Before(1) = Ahead(1)
      /\ DOMAIN operands \subseteq Nodes /\ \A y \in DOMAIN operands : operands[y] \subseteq Nodes
      /\ Reached(1) \subseteq Ahead(1) /\ Needs(1) \subseteq Reached(1)
  BY PlanningIs, PlanningNumbers, ReachedAre
<1>2. /\ pc = "match" /\ DOMAIN operands = Value /\ \A v \in Value : operands[v] \subseteq 1..(v - 1)
      /\ limit[2] \notin FromFirst
  BY DEF Planning, PInv, Late
<1>3. \A v \in Value : operands[v] \subseteq Value
  BY <1>2, Numbers
<1>4. /\ limit[1] \in FromFirst
      /\ \A v \in Value : operands[v] \cap FromFirst # {} => v \in FromFirst
  BY <1>1, <1>3, FirstIs
<1>5. Reached(1) \subseteq FromFirst
  <2>1. \A x \in Before(1) : Pure(x) /\ (limit[1] \in operands[x] \/ operands[x] \cap FromFirst # {})
                                => x \in FromFirst
    BY <1>2, <1>4 DEF Before
  <2> QED
    BY <1>1, <2>1, ReachedWithin
<1>6. \A x \in Needs(1) : Root(x) = x
  BY <1>1, <1>2, Roots DEF Ahead
<1> QED
  BY <1>1, <1>2, <1>5, <1>6

LEMMA SecondNeedsChained ==
    ASSUME RInv, PInv, Planning(2), chained, NEW D, Stale(1, D), Clean(1, D)
    PROVE  Needs(2) \cap D = {} /\ \A x \in Needs(2) : Root(x) # limit[1]
<1>1. /\ limit \in [Exits -> Value] /\ Standing /\ Before(2) = Ahead(2) /\ Fresh /\ Populated
      /\ DOMAIN operands \subseteq Nodes /\ \A y \in DOMAIN operands : operands[y] \subseteq Nodes
      /\ \A y \in DOMAIN operands : PlaceOf(y) \in 0..2
      /\ Reached(2) \subseteq Ahead(2) /\ Needs(2) \subseteq Reached(2)
      /\ \A x \in Reached(2) : Pure(x)
  BY PlanningIs, PlanningNumbers, ReachedAre
<1>2. ASSUME NEW x \in D, NEW U \in Uses(x) PROVE ~Past(2, U.at)
  <2>1. U.at \in 0..2
    <3>1. \A p \in DOMAIN reads : p[2] \in 0..2
      BY DEF RInv, Numbered, Exits
    <3> QED
      BY <1>1, <3>1, UsesAre
  <2> QED
    BY <1>2, <2>1 DEF Clean, Past
<1>3. ASSUME NEW x \in D, NEW u \in Needs(2), x \in operands[u] PROVE u \in D
  <2>1. u \in DOMAIN operands /\ PlaceOf(u) \in 0..2 /\ Pure(u)
    BY <1>1 DEF Ahead
  <2>2. ~Past(1, PlaceOf(u))
    <3>1. By(u) \in Uses(x) /\ By(u).at = PlaceOf(u)
      BY <1>3, <2>1, UsesAre
    <3> QED
      BY <3>1 DEF Clean
  <2>3. u \in Ahead(1)
    BY <2>1, <2>2 DEF Past, Ahead
  <2> QED
    BY <1>3, <2>1, <2>3 DEF Stale, Pure
<1>4. Needs(2) \cap D = {}
  BY <1>1, <1>2, <1>3, NeedsOutside
<1>5. ASSUME NEW x \in Needs(2), Root(x) = limit[1] PROVE FALSE
  <2>1. x \in Value \cup Range(clones)
    BY <1>1 DEF Ahead, Populated
  <2>2. CASE x \in Value
    BY <1>1, <1>4, <1>5, <2>2, Roots DEF Stale
  <2> QED
    BY <1>1, <1>5, <2>1, <2>2 DEF Fresh, Exits
<1> QED
  BY <1>4, <1>5

\* If not, it can do without what lies past the first.
LEMMA SecondNeedsApart ==
    ASSUME RInv, PInv, Planning(2), ~chained
    PROVE  \A x \in Needs(2) : PlaceOf(x) = 0
<1> DEFINE S == {x \in DOMAIN operands : PlaceOf(x) = 1}
<1>1. /\ limit \in [Exits -> Value] /\ Standing /\ Before(2) = Ahead(2) /\ Fitting
      /\ DOMAIN operands \subseteq Nodes
      /\ \A y \in DOMAIN operands : PlaceOf(y) \in 0..2
      /\ Reached(2) \subseteq Ahead(2) /\ Needs(2) \subseteq Reached(2)
  BY PlanningIs, PlanningNumbers, ReachedAre
<1>2. ASSUME NEW x \in S, NEW U \in Uses(x) PROVE ~Past(2, U.at)
  <2>1. Fit(x, U.at)
    BY <1>1, UsesAre DEF Fitting
  <2> QED
    BY <2>1 DEF Fit, Past
<1>3. ASSUME NEW x \in S, NEW u \in Needs(2), x \in operands[u] PROVE u \in S
  <2>1. u \in DOMAIN operands /\ PlaceOf(u) \in 0..2 /\ PlaceOf(u) < 2
    BY <1>1 DEF Ahead
  <2>2. Fit(x, PlaceOf(u))
    BY <1>1, <1>3, <2>1 DEF Fitting
  <2> QED
    BY <2>1, <2>2 DEF Fit
<1>4. Needs(2) \cap S = {}
  <2> HIDE DEF S
  <2> QED
    BY <1>1, <1>2, <1>3, NeedsOutside
<1>5. \A x \in Needs(2) : x \in DOMAIN operands /\ PlaceOf(x) \in 0..1
  BY <1>1 DEF Ahead
<1> QED
  BY <1>4, <1>5

LEMMA PlanningWants == ASSUME RInv, PInv, NEW e, Planning(e) PROVE Wanted'
<1>1. /\ e \in 1..2 /\ k = e - 1 /\ k' = e /\ needs' = Needs(e) /\ UNCHANGED <<kind, limit, chained>>
      /\ \A x : PlaceOf(x)' = PlaceOf(x) /\ Root(x)' = Root(x)
      /\ Ahead(e)' = Ahead(e) /\ \A y \in 1..Old' : ~Cloned(y)'
      /\ Needs(e) \subseteq Ahead(e)
      /\ \A x \in Needs(e) : kind[Root(x)] = "pure" /\ Root(x) # limit[e]
      /\ uses = {} /\ Sinks = <<>>
  BY PlanningIs, PlanningNumbers, ReachedAre DEF Planning
<1>2. ASSUME chained PROVE \A x \in Needs(e), i \in Exits : Root(x) # limit[i]
  <2>1. CASE e = 1
    BY <1>1, <1>2, <2>1, FirstNeedsChained DEF Exits
  <2>2. CASE e = 2
    <3>1. PICK D : Stale(1, D) /\ Planned(D)
      BY <1>1, <2>2, PlanningIs DEF Traced
    <3>2. Clean(1, D)
      BY <1>1, <2>2, <3>1, PhaseEnds, PlanningIs
    <3> QED
      BY <1>1, <1>2, <2>2, <3>1, <3>2, SecondNeedsChained DEF Exits
  <2> QED
    BY <1>1, <2>1, <2>2
<1>3. e = 2 /\ ~chained => \A x \in Needs(e) : PlaceOf(x) = 0
  BY SecondNeedsApart
<1>4. Exits' = Exits
  BY DEF Exits
<1> QED
  BY <1>1, <1>2, <1>3, <1>4 DEF Wanted

LEMMA PlanningTracedFirst == ASSUME RInv, PInv, NEW e, Planning(e) PROVE Traced'
<1>1. /\ e \in 1..2 /\ k = e - 1 /\ k' = e /\ needs' = Needs(e)
      /\ UNCHANGED <<kind, limit, chained, operands, Value>>
      /\ \A i : Ahead(i)' = Ahead(i)
      /\ \A x, q : Past(x, q)' = Past(x, q)
      /\ \A x : Uses(x)' = Uses(x)
      /\ uses = {} /\ Sinks = <<>> /\ Traced /\ pc \in Late
  BY PlanningIs DEF Planning, Value
<1>2. \E D \in SUBSET Ahead(k)' : Stale(k, D)' /\ Planned(D)'
  BY PlanningTraces
<1>3. ASSUME e = 2
      PROVE  \E D \in SUBSET Ahead(1)' : Stale(1, D)' /\ Clean(1, D)' /\ (chained' => needs' \cap D = {})
  <2>1. PICK D \in SUBSET Ahead(1) : Stale(1, D) /\ Planned(D)
    BY <1>1, <1>3 DEF Traced
  <2>2. Clean(1, D)
    BY <1>1, <1>3, <2>1, PhaseEnds
  <2>3. chained => Needs(2) \cap D = {}
    BY <1>3, <2>1, <2>2, SecondNeedsChained
  <2>4. Stale(1, D)' /\ Clean(1, D)'
    BY <1>1, <2>1, <2>2 DEF Stale, Clean
  <2> QED
    BY <1>1, <1>3, <2>1, <2>3, <2>4
<1> QED
  BY <1>1, <1>2, <1>3 DEF Traced

LEMMA PlanningKeeps == ASSUME RInv, PInv, NEW e, Planning(e) PROVE Kept'
<1>1. /\ e \in 1..2 /\ k' = e /\ limit \in [Exits -> Value] /\ Shaped /\ Populated
      /\ UNCHANGED <<kind, limit, operands, Value>>
      /\ \A x : Root(x)' = Root(x)
  BY PlanningIs DEF Value
<1>2. CASE e = 1
  <2> DEFINE S == Reached(2) \cup {limit[2]}
  <2>1. /\ pc = "match" /\ DOMAIN operands = Value /\ ~Failure(2)
        /\ \A v \in Value : operands[v] \subseteq 1..(v - 1)
    BY <1>2 DEF Planning, PInv, Late, Exits
  <2>2. Before(2) = Value
    BY <1>1, <2>1 DEF Before, Past, PlaceOf, Shaped
  <2>3. S \in SUBSET Value /\ limit[2] \in S
    BY <1>1, <2>2, ReachedIs DEF Exits
  <2>4. ASSUME NEW v \in Value, NEW o \in operands[v], Root(o) \in S
        PROVE  kind[v] # "memory" /\ (kind[v] = "pure" => v \in S)
    <3>1. o \in Value
      BY <2>1, Numbers
    <3>2. o \in S
      BY <1>1, <2>4, <3>1, Roots
    <3>3. v \in Users(2, o)
      BY <2>2 DEF Users
    <3>4. kind[v] # "memory"
      BY <2>1, <3>2, <3>3 DEF Failure
    <3>5. kind[v] = "pure" => v \in S
      BY <2>2, <3>2, ReachedIs DEF Pure
    <3> QED
      BY <3>4, <3>5
  <2> HIDE DEF S
  <2>5. PICK T \in SUBSET Value :
          /\ limit[2] \in T
          /\ \A v \in Value : (\E o \in operands[v] : Root(o) \in T) =>
               kind[v] # "memory" /\ (kind[v] = "pure" => v \in T)
    BY <2>3, <2>4
  <2> QED
    BY <1>1, <2>5 DEF Kept
<1>3. CASE e = 2
  BY <1>1, <1>3 DEF Kept
<1> QED
  BY <1>1, <1>2, <1>3

\* Rewriting a loop begins with what the rest of it relies on.
LEMMA PlanningEstablishes == ASSUME RInv, PInv, NEW e, Planning(e) PROVE PInv'
<1>1. /\ e \in 1..2 /\ k = e - 1 /\ k' = e /\ Sinks' = <<limit[e]>> /\ uses' = {} /\ pc' = "sink"
      /\ UNCHANGED <<kind, place, limit, chained, operands, reads, O, clones>>
      /\ Shaped /\ Populated /\ Standing /\ Fitting /\ Fresh /\ Ordered
      /\ \A x : PlaceOf(x)' = PlaceOf(x) /\ Root(x)' = Root(x)
      /\ \A x, q : Fit(x, q)' = Fit(x, q)
      /\ \A x : Near(x)' = Near(x)
      /\ \A x \in DOMAIN operands : \A y \in 1..Old' : Repl(y)' \notin operands[x]
      /\ \A y \in 1..Old' : ~Cloned(y)'
  BY PlanningIs, PlanningNumbers
<1>2. Shaped' /\ Fitting'
  BY <1>1 DEF Shaped, Fitting, Fit, PlaceOf, IVExit, Value, Exits
<1>3. Standing' /\ Fresh'
  <2>1. Standing' <=> Standing
    BY <1>1 DEF Standing, Root, FirstRoot, IVExit
  <2>2. Fresh' <=> Fresh
    BY <1>1 DEF Fresh, Root, FirstRoot, PlaceOf, IVExit, Value, Exits
  <2> QED
    BY <1>1, <2>1, <2>2
<1>4. Populated'
  <2>1. Made \subseteq Made'
    BY <1>1 DEF Made, IVExit
  <2> QED
    BY <1>1, <2>1 DEF Populated, IVExit, Value
<1>5. Ordered'
  BY <1>1 DEF Ordered
<1>6. Popped' = {}
  <2>1. Range(Sinks)' = {limit[e]}
    BY <1>1 DEF Range
  <2> QED
    BY <1>1, <2>1 DEF Popped
<1>7. Pending' /\ Swept' /\ Either' /\ Caused'
  BY <1>1, <1>6 DEF Pending, Swept, Either, Caused
<1>8. Wanted' /\ Traced' /\ Kept'
  BY PlanningWants, PlanningTracedFirst, PlanningKeeps
<1> QED
  BY <1>1, <1>2, <1>3, <1>4, <1>5, <1>7, <1>8 DEF PInv

LEMMA PlansEstablish == RInv /\ PInv /\ (Match \/ NextLoop) => PInv'
<1> SUFFICES ASSUME RInv, PInv, Match \/ NextLoop PROVE PInv'
  OBVIOUS
<1>1. CASE Match
  <2>1. pc = "match" /\ pc' = "sink" /\ Plan(1) /\ \A i \in Exits : ~Failure(i)
    BY <1>1 DEF Match
  <2>2. k = 0 /\ uses = {} /\ Sinks = <<>>
    BY <2>1 DEF RInv, Stages
  <2>3. Planning(1)
    BY <2>1, <2>2 DEF Planning
  <2> QED
    BY <2>3, PlanningEstablishes
<1>2. CASE NextLoop
  <2>1. Planning(2)
    BY <1>2 DEF NextLoop, RewriteDone, Planning
  <2> QED
    BY <2>1, PlanningEstablishes
<1> QED
  BY <1>1, <1>2

-----------------------------------------------------------------------------
(* The other steps.                                                        *)

LEMMA FirstIsNext ==
    (limit \in [Exits -> Value] /\ (\A v \in Value : operands[v] \subseteq Value)
     => limit[1] \in FromFirst)'
<1>1. limit \in [Exits -> Value] /\ (\A v \in Value : operands[v] \subseteq Value)
      => limit[1] \in FromFirst
  BY FirstIs
<1> QED
  BY <1>1, PTL

\* What LLVM made of it is as it should be.
LEMMA OptimizeEstablishes == RInv /\ Optimize => PInv'
<1> SUFFICES ASSUME RInv, Optimize PROVE PInv'
  OBVIOUS
<1>1. /\ pc' = "match" /\ k' = 0 /\ uses' = {} /\ clones' = <<>>
  BY DEF Optimize, sink, RInv, Stages, Late
<1>2. /\ kind' \in [Value -> {"pure", "merge", "memory"}]
      /\ place' \in [Value -> 0..1]
      /\ limit' \in [Exits -> Value]
      /\ place'[limit'[1]] = 0 /\ Available(limit[2], 2)'
  BY DEF Optimize
<1>3. DOMAIN operands' = Value /\ \A v \in Value : operands'[v] \subseteq 1..(v - 1)
  BY DEF Optimize
<1>4. /\ DOMAIN reads' \subseteq Value \X Exits /\ \A p \in DOMAIN reads' : reads'[p] = p[1]
  <2>1. PICK P \in SUBSET (Value \X Exits) : reads' = [p \in P |-> p[1]]
    BY DEF Optimize
  <2> QED
    BY <2>1
<1>5. /\ \A v \in Value : \A o \in operands'[v] : place'[o] <= place'[v]
      /\ \A p \in DOMAIN reads' : Available(p[1], p[2])'
      /\ chained' => limit'[2] \notin FromFirst'
  BY DEF Optimize
<1>6. /\ \A v \in Value : operands'[v] \subseteq Value /\ \A o \in operands'[v] : o < v
      /\ Value' = Value /\ Exits' = Exits /\ limit'[1] \in Value /\ limit'[2] \in Value
      /\ \A p \in DOMAIN reads' : p[1] \in Value /\ p[2] \in Exits /\ reads'[p] = p[1]
  BY <1>2, <1>3, <1>4, Numbers DEF Exits, Value
<1>7. \A v \in Value : PlaceOf(v)' = place'[v] /\ Root(v)' = v
  BY Numbers DEF PlaceOf, Root, FirstRoot, Value, IVExit
<1>8. \A v \in Value : \A q : Fit(v, q)' <=> place'[v] <= q /\ (place'[v] = 1 /\ q = 2 => chained')
  BY <1>7 DEF Fit
<1>9. Shaped'
  <2>1. chained' => limit'[1] # limit'[2]
    BY <1>2, <1>5, <1>6, FirstIsNext
  <2>2. Fit(limit[1], 0)' /\ Fit(limit[2], 2)'
    BY <1>2, <1>6, <1>7 DEF Fit, Available
  <2> QED
    BY <1>2, <2>1, <2>2 DEF Shaped
<1>10. Range(clones)' = {}
  BY <1>1 DEF Range
<1>11. Populated' /\ Fresh'
  BY <1>3, <1>6, <1>10 DEF Populated, Made, Fresh
<1>12. Standing'
  <2>1. \A p \in DOMAIN reads' : Root(reads[p])' = p[1]
    BY <1>6, Numbers DEF Root, FirstRoot, Value, IVExit
  <2>2. ASSUME NEW x \in Value
        PROVE  /\ {Root(o)' : o \in operands'[x]} = {Root(o)' : o \in operands'[Root(x)']}
               /\ \A o \in operands'[x] : Root(o)' < Root(x)'
    BY <1>6, <1>7
  <2>3. ASSUME NEW x \in Value
        PROVE  ({Root(o) : o \in operands[x]} = {Root(o) : o \in operands[Root(x)]})'
    BY <2>2
  <2>4. ASSUME NEW x \in Value PROVE (\A o \in operands[x] : Root(o) < Root(x))'
    BY <2>2
  <2> QED
    BY <1>3, <2>1, <2>3, <2>4 DEF Standing
<1>13. Fitting'
  <2>1. ASSUME NEW x \in Value, NEW o \in operands'[x] PROVE Fit(o, PlaceOf(x))'
    <3>1. o \in Value /\ place'[o] <= place'[x] /\ place'[x] \in 0..1 /\ PlaceOf(x)' = place'[x]
      BY <1>2, <1>5, <1>6, <1>7
    <3>2. PlaceOf(o)' = place'[o]
      BY <1>7, <3>1
    <3> QED
      BY <3>1, <3>2 DEF Fit
  <2>2. ASSUME NEW p \in DOMAIN reads' PROVE Fit(reads[p], p[2])'
    <3>1. /\ reads'[p] \in Value /\ reads'[p] = p[1] /\ PlaceOf(p[1])' = place'[p[1]]
          /\ place'[p[1]] <= p[2] /\ (place'[p[1]] = 1 /\ p[2] = 2 => chained')
      BY <1>5, <1>6, <1>7 DEF Available
    <3> QED
      BY <3>1 DEF Fit
  <2> QED
    BY <1>3, <2>1, <2>2 DEF Fitting
<1>14. Ordered'
  BY <1>1 DEF Ordered
<1>15. Pending' /\ Swept' /\ Wanted' /\ Traced' /\ Kept' /\ Either' /\ Caused'
  BY <1>1 DEF Pending, Swept, Wanted, Traced, Kept, Either, Caused
<1> QED
  BY <1>1, <1>3, <1>5, <1>6, <1>9, <1>11, <1>12, <1>13, <1>14, <1>15 DEF PInv

\* Steps that leave the probe and the rewrite alone.

\* Steps that leave the probe and the rewrite alone.
LEMMA PartsKept ==
    ASSUME UNCHANGED <<probe, sink>>,
           Shaped, Populated, Standing, Fitting, Fresh, Pending, Swept, Wanted, Traced, Kept,
           Either, Caused, Ordered
    PROVE  /\ Shaped' /\ Populated' /\ Standing' /\ Fitting' /\ Fresh' /\ Pending' /\ Swept'
           /\ Wanted' /\ Traced' /\ Kept' /\ Either' /\ Caused' /\ Ordered'
           /\ WellFormed' <=> WellFormed
           /\ FromFirst' = FromFirst
<1>1. UNCHANGED <<shapes, operands, reads, k, needs, Sinks, O, uses, clones>>
  BY DEF probe, sink
<1>2. /\ UNCHANGED <<kind, place, limit, chained>>
      /\ \A x : PlaceOf(x)' = PlaceOf(x) /\ Root(x)' = Root(x) /\ By(x)' = By(x)
      /\ \A x, q : Past(x, q)' = Past(x, q) /\ Fit(x, q)' = Fit(x, q)
  BY <1>1, Still
<1>3. /\ \A x : Repl(x)' = Repl(x) /\ Cloned(x)' = Cloned(x) /\ Near(x)' = Near(x)
                /\ Uses(x)' = Uses(x) /\ Ahead(x)' = Ahead(x)
      /\ Old' = Old /\ \A p : ReadBy(p)' = ReadBy(p)
  BY <1>1, <1>2 DEF Repl, Sunk, IVExit, Cloned, Value, Near, PlaceOf, Uses, ReadBy, By, Ahead, Old
<1>4. Shaped' /\ Populated' /\ Fitting'
  BY <1>1, <1>2 DEF Shaped, Populated, Fitting, Fit, PlaceOf, Made, IVExit, Value, Exits
<1>5. Standing'
  <2>1. Standing' <=> Standing
    BY <1>1, <1>2 DEF Standing, Root, FirstRoot, IVExit
  <2> QED
    BY <2>1
<1>6. Fresh'
  <2>1. Fresh' <=> Fresh
    BY <1>1, <1>2 DEF Fresh, Root, FirstRoot, PlaceOf, IVExit, Value, Exits
  <2> QED
    BY <2>1
<1>7. Wanted'
  BY <1>1, <1>2, <1>3 DEF Wanted, PlaceOf, IVExit, Value, Exits, Root, FirstRoot
<1>8. Traced'
  BY <1>1, <1>2, <1>3 DEF Traced, IVExit, Value, Stale, Clean, Planned, Past
<1>9. Kept'
  BY <1>1, <1>2 DEF Kept, Root, FirstRoot, IVExit, Value
<1>10. Either' /\ Caused' /\ Ordered'
  BY <1>1, <1>2, <1>3 DEF Either, Caused, Ordered, Sunk, IVExit
<1>11. Popped' = Popped
  BY <1>1, <1>2, <1>3 DEF Popped
<1>12. Pending'
  <2>1. Repl(O)' = Repl(O)
    BY <1>1, <1>2 DEF Repl, Sunk, IVExit
  <2> QED
    BY <1>1, <1>2, <1>3, <1>11, <2>1 DEF Pending
<1>13. Swept'
  BY <1>1, <1>2, <1>3, <1>11 DEF Swept, Past
<1>14. WellFormed' <=> WellFormed
  BY <1>1, <1>2 DEF WellFormed, PlaceOf, IVExit, Value
<1>15. FromFirst' = FromFirst
  BY <1>1, <1>2 DEF FromFirst, Value
<1> QED
  BY <1>4, <1>5, <1>6, <1>7, <1>8, <1>9, <1>10, <1>12, <1>13, <1>14, <1>15

\* A probe that is turned down, and one that the verifier sees.
LEMMA EndsKept == RInv /\ PInv /\ (Reject \/ Verify) => PInv'
<1> SUFFICES ASSUME RInv, PInv, Reject \/ Verify PROVE PInv'
  OBVIOUS
<1>1. /\ UNCHANGED <<probe, sink>> /\ pc \in Late
      /\ \/ pc' = "rejected"
         \/ /\ k = 2 /\ uses = {} /\ Sinks = <<>>
            /\ pc' = IF WellFormed THEN "transplanted" ELSE "unverified"
  BY DEF Reject, Verify, RewriteDone, Late
<1>2. /\ Shaped' /\ Populated' /\ Standing' /\ Fitting' /\ Fresh' /\ Pending' /\ Swept'
      /\ Wanted' /\ Traced' /\ Kept' /\ Either' /\ Caused' /\ Ordered'
      /\ WellFormed' <=> WellFormed
  BY <1>1, PartsKept DEF PInv
<1>3. UNCHANGED <<k, uses, Sinks>>
  BY <1>1 DEF sink
<1> QED
  BY <1>1, <1>2, <1>3 DEF PInv

LEMMA StutterKept == PInv /\ UNCHANGED svars => PInv'
<1> SUFFICES ASSUME PInv, UNCHANGED svars, pc \in Late PROVE PInv'
  BY DEF PInv, svars, vars
<1>1. UNCHANGED <<probe, sink, pc>>
  BY DEF svars, vars
<1>2. /\ Shaped' /\ Populated' /\ Standing' /\ Fitting' /\ Fresh' /\ Pending' /\ Swept'
      /\ Wanted' /\ Traced' /\ Kept' /\ Either' /\ Caused' /\ Ordered'
      /\ WellFormed' <=> WellFormed
      /\ FromFirst' = FromFirst
  BY <1>1, PartsKept DEF PInv
<1>3. UNCHANGED <<k, uses, Sinks, chained, limit, operands, Value>>
  BY <1>1 DEF sink, probe, shapes, Value
<1>4. (pc = "match" => (chained => limit[2] \notin FromFirst))'
  BY <1>1, <1>2, <1>3 DEF PInv
<1>5. (pc = "match" => /\ DOMAIN operands = Value
                       /\ \A v \in Value : operands[v] \subseteq 1..(v - 1))'
  BY <1>1, <1>3 DEF PInv
<1>6. (/\ pc \in {"transplanted", "unverified"} => k = 2 /\ uses = {} /\ Sinks = <<>>
       /\ pc = "unverified" => ~WellFormed)'
  BY <1>1, <1>2, <1>3 DEF PInv
<1> QED
  BY <1>2, <1>4, <1>5, <1>6 DEF PInv

LEMMA PlannedStep == SInv /\ RInv /\ PInv /\ [SinkNext]_svars => PInv'
<1> SUFFICES ASSUME SInv, RInv, PInv, [SinkNext]_svars PROVE PInv'
  OBVIOUS
<1>1. CASE Step /\ UNCHANGED <<probe, sink>>
  <2>1. pc = "walk"
    BY <1>1 DEF Step, Pop, End, Find, Ambiguous, Skip, TooDeep, Push, Look
  <2>2. pc' \in {"walk", "found", "none"}
    BY <1>1, <2>1, WalkStep DEF SInv, WInv
  <2> QED
    BY <2>2 DEF PInv, Late
<1>2. CASE BuildProbe
  BY <1>2 DEF BuildProbe, PInv, Late
<1>3. CASE UNCHANGED svars
  BY <1>3, StutterKept
<1>4. ASSUME NEW U \in uses, SetUse(U) \/ LeaveUse(U) \/ Sink(U) \/ Rewire(U) PROVE PInv'
  BY <1>4, VisitsKept
<1> QED
  BY <1>1, <1>2, <1>3, <1>4, OptimizeEstablishes, EndsKept, PlansEstablish, PopKept
  DEF SinkNext, Rewrite, Transplanted

LEMMA PlannedInit == SinkInit => PInv
<1> SUFFICES ASSUME SinkInit PROVE PInv
  OBVIOUS
<1>1. pc = "walk"
  BY DEF SinkInit, Init
<1> QED
  BY <1>1 DEF PInv, Late

LEMMA PlannedAlways == SinkSpec => [](RInv /\ PInv)
<1>1. SInv /\ RInv /\ [SinkNext]_svars => RInv'
  BY RewriteStep
<1>2. SInv /\ RInv /\ PInv /\ [SinkNext]_svars => PInv'
  BY PlannedStep
<1> QED
  BY <1>1, <1>2, RewriteInit, PlannedInit, SinkSpecInv, PTL DEF SinkSpec

-----------------------------------------------------------------------------
(* What the last of them leaves.                                           *)

\* The nodes that do not see the limit of loop e, but its index only.
Sound(e, D) == {y \in Made : /\ y \notin D
                             /\ Root(y) = limit[e] => y = IVExit(e)
                             /\ ~chained => PlaceOf(y) \in {0, e}}

\* What the proofs below use of an accepted probe.
LEMMA Accepted ==
    ASSUME RInv, PInv, pc = "transplanted"
    PROVE  /\ Shaped /\ Populated /\ Standing /\ Fitting /\ Fresh /\ k = 2
           /\ limit \in [Exits -> Value]
           /\ DOMAIN operands \subseteq Nodes /\ Made \subseteq Nodes
           /\ \A x \in DOMAIN operands : operands[x] \subseteq Nodes /\ operands[x] \subseteq Made
           /\ \A p \in DOMAIN reads : reads[p] \in Made /\ p[2] \in Exits
           /\ \A x : PlaceOf(x) \in 0..2
<1>1. /\ Shaped /\ Populated /\ Standing /\ Fitting /\ Fresh /\ k = 2
      /\ limit \in [Exits -> Value]
  BY DEF PInv, Late, RInv, Stages
<1>2. DOMAIN operands \subseteq Nodes /\ \A x \in DOMAIN operands : operands[x] \subseteq Nodes
  BY RewriteTypeOK DEF SinkTypeOK, Range
<1>3. Made \subseteq Nodes
  BY <1>1, <1>2, Numbers DEF Made
<1>4. \A x : PlaceOf(x) \in 0..2
  BY <1>1 DEF PlaceOf, Shaped
<1>5. \A p \in DOMAIN reads : p[2] \in Exits
  BY DEF RInv, Numbered
<1> QED
  BY <1>1, <1>2, <1>3, <1>4, <1>5 DEF Populated

LEMMA CleanedBoth ==
    ASSUME RInv, PInv, pc = "transplanted", NEW e \in Exits
    PROVE  \E D : Stale(e, D) /\ Clean(e, D)
<1>1. pc \in Late /\ k = 2 /\ uses = {} /\ Sinks = <<>> /\ Traced
  BY DEF PInv, Late
<1>2. CASE e = 1
  BY <1>1, <1>2 DEF Traced
<1>3. CASE e = 2
  <2>1. PICK D : Stale(2, D) /\ Planned(D)
    BY <1>1 DEF Traced
  <2> QED
    BY <1>1, <1>3, <2>1, PhaseEnds
<1> QED
  BY <1>2, <1>3 DEF Exits

\* A node that may be used at place q is sound if it is not stale.
LEMMA SoundIf ==
    ASSUME RInv, PInv, pc = "transplanted", NEW e \in Exits, NEW D, Stale(e, D),
           NEW o \in Made, o \notin D, NEW q \in 0..2, Fit(o, q), ~chained => q \in {0, e}
    PROVE  o \in Sound(e, D)
<1>1. /\ Shaped /\ Populated /\ Fresh /\ k = 2 /\ limit \in [Exits -> Value] /\ e \in 1..2
      /\ PlaceOf(o) \in 0..2
  BY Accepted DEF Exits
<1>2. ~chained => PlaceOf(o) \in {0, e}
  BY <1>1 DEF Fit
<1>3. ASSUME Root(o) = limit[e] PROVE o = IVExit(e)
  <2>1. o \in Value \cup Range(clones) \cup {IVExit(1), IVExit(2)}
    BY <1>1 DEF Made, Populated
  <2>2. CASE o \in Value
    BY <1>1, <1>3, <2>2, Roots DEF Stale
  <2>3. CASE o \in Range(clones)
    <3>1. o \notin Value
      BY <1>1, <2>3, Numbers DEF Populated
    <3>2. PlaceOf(o) \in 1..2
      BY <3>1 DEF PlaceOf
    <3> QED
      BY <1>1, <1>2, <1>3, <2>3, <3>2 DEF Fresh
  <2>4. CASE o \in {IVExit(1), IVExit(2)}
    <3>1. PICK i \in 1..2 : o = IVExit(i)
      BY <2>4
    <3>2. PlaceOf(o) = i /\ Root(o) = limit[i]
      BY <1>1, <3>1, Numbers, Roots DEF PlaceOf
    <3>3. chained => limit[1] # limit[2]
      BY <1>1 DEF Shaped
    <3>4. i = e
      BY <1>1, <1>2, <1>3, <3>1, <3>2, <3>3
    <3> QED
      BY <3>1, <3>4
  <2> QED
    BY <2>1, <2>2, <2>3, <2>4
<1> QED
  BY <1>2, <1>3 DEF Sound

\* What a sound node is computed from is sound.
LEMMA SoundClosed ==
    ASSUME RInv, PInv, pc = "transplanted", NEW e \in Exits, NEW D, Stale(e, D), Clean(e, D),
           NEW y \in Sound(e, D), y \in DOMAIN operands, ~(y \in Value /\ kind[y] = "merge")
    PROVE  operands[y] \subseteq Sound(e, D)
<1>1. SUFFICES ASSUME NEW o \in operands[y] PROVE o \in Sound(e, D)
  OBVIOUS
<1>2. o \in Made /\ Fit(o, PlaceOf(y)) /\ PlaceOf(y) \in 0..2
  BY Accepted DEF Fitting
<1>3. y \notin D /\ (~chained => PlaceOf(y) \in {0, e})
  BY DEF Sound
<1>4. o \notin D
  <2>1. CASE Past(e, PlaceOf(y))
    <3>1. By(y) \in Uses(o) /\ By(y).at = PlaceOf(y)
      BY UsesAre
    <3> QED
      BY <2>1, <3>1 DEF Clean
  <2>2. CASE ~Past(e, PlaceOf(y))
    <3>1. y \in Ahead(e)
      BY <1>2, <1>3, <2>2 DEF Past, Ahead, Exits
    <3> QED
      BY <1>3, <3>1 DEF Stale
  <2> QED
    BY <2>1, <2>2
<1> QED
  BY <1>2, <1>3, <1>4, SoundIf

LEMMA SoundStops ==
    ASSUME RInv, PInv, pc = "transplanted", NEW e \in Exits, NEW D, Stale(e, D), Clean(e, D),
           NEW o \in Sound(e, D)
    PROVE  Stopped(e, o)
<1> DEFINE rank == [x \in Nodes |-> Root(x)]
<1>1. /\ limit \in [Exits -> Value] /\ DOMAIN operands \subseteq Nodes /\ Standing
      /\ \A x \in DOMAIN operands : operands[x] \subseteq Nodes /\ operands[x] \subseteq Made
      /\ Made \subseteq Nodes
  BY Accepted
<1>2. Sound(e, D) \in SUBSET Nodes
  BY <1>1 DEF Sound
<1>3. \A x \in Nodes : rank[x] \in Nat /\ rank[x] = Root(x)
  BY <1>1, Roots
<1>4. \A x \in DOMAIN operands : \A q \in operands[x] : rank[q] < rank[x]
  BY <1>1, <1>3 DEF Standing
<1>5. \A y \in Sound(e, D) : \/ y \notin DOMAIN operands \/ (y \in Value /\ kind[y] = "merge")
                             \/ operands[y] \subseteq Sound(e, D)
  BY SoundClosed
<1> HIDE DEF rank
<1>6. From(o) \subseteq Sound(e, D)
  BY <1>1, <1>2, <1>3, <1>4, <1>5, FromWithin
<1> QED
  BY <1>2, <1>6, OrigIs DEF Stopped, Sound

\* Whatever is used past an exit sees the index of the loop.
LEMMA UsedPastStops ==
    ASSUME RInv, PInv, pc = "transplanted", NEW e \in Exits, NEW o \in Made, NEW q \in 0..2,
           Fit(o, q), Past(e, q), NEW U \in Uses(o), U.at = q
    PROVE  Stopped(e, o)
<1>1. PICK D : Stale(e, D) /\ Clean(e, D)
  BY CleanedBoth
<1>2. o \notin D
  BY <1>1 DEF Clean
<1>3. ~chained => q \in {0, e}
  BY DEF Past
<1> QED
  BY <1>1, <1>2, <1>3, SoundIf, SoundStops

LEMMA RealIndexSeen == RInv /\ PInv => PastExitSeesRealIndex
<1> SUFFICES ASSUME RInv, PInv, pc = "transplanted"
             PROVE  /\ \A p \in DOMAIN reads :
                        /\ Orig(reads[p]) = p[1]
                        /\ \A e \in Exits : Past(e, p[2]) => Stopped(e, reads[p])
                    /\ \A x \in DOMAIN operands :
                        /\ {Orig(o) : o \in operands[x]} = {Orig(o) : o \in operands[Orig(x)]}
                        /\ \A o \in operands[x], e \in Exits :
                              Past(e, PlaceOf(x)) => Stopped(e, o)
  BY DEF PastExitSeesRealIndex
<1>1. /\ Standing /\ Fitting /\ Populated /\ limit \in [Exits -> Value]
      /\ DOMAIN operands \subseteq Nodes /\ Made \subseteq Nodes
      /\ \A x \in DOMAIN operands : operands[x] \subseteq Nodes /\ operands[x] \subseteq Made
      /\ \A p \in DOMAIN reads : reads[p] \in Made /\ p[2] \in Exits
      /\ \A x : PlaceOf(x) \in 0..2
  BY Accepted
<1>2. ASSUME NEW p \in DOMAIN reads
      PROVE  /\ Orig(reads[p]) = p[1]
             /\ \A e \in Exits : Past(e, p[2]) => Stopped(e, reads[p])
  <2>1. Orig(reads[p]) = p[1]
    BY <1>1, OrigIs DEF Standing
  <2>2. ReadBy(p) \in Uses(reads[p]) /\ ReadBy(p).at = p[2]
    BY UsesAre
  <2>3. p[2] \in 0..2 /\ Fit(reads[p], p[2])
    BY <1>1 DEF Fitting, Exits
  <2> QED
    BY <1>1, <2>1, <2>2, <2>3, UsedPastStops
<1>3. ASSUME NEW x \in DOMAIN operands
      PROVE  {Orig(o) : o \in operands[x]} = {Orig(o) : o \in operands[Orig(x)]}
  <2>1. Orig(x) = Root(x) /\ Root(x) \in DOMAIN operands
    BY <1>1, OrigIs, Roots DEF Populated
  <2>2. {Root(o) : o \in operands[x]} = {Root(o) : o \in operands[Root(x)]}
    BY <1>1 DEF Standing
  <2>3. \A o \in operands[x] \cup operands[Root(x)] : Orig(o) = Root(o)
    BY <1>1, <2>1, OrigIs
  <2> QED
    BY <2>1, <2>2, <2>3
<1>4. ASSUME NEW x \in DOMAIN operands, NEW o \in operands[x], NEW e \in Exits, Past(e, PlaceOf(x))
      PROVE  Stopped(e, o)
  <2>1. By(x) \in Uses(o) /\ By(x).at = PlaceOf(x)
    BY UsesAre
  <2>2. o \in Made /\ Fit(o, PlaceOf(x)) /\ PlaceOf(x) \in 0..2
    BY <1>1 DEF Fitting
  <2> QED
    BY <1>4, <2>1, <2>2, UsedPastStops
<1> QED
  BY <1>2, <1>3, <1>4

\* In every probe that the verifier accepts, of whatever shape and in whatever
\* order its uses were looked at, what is used past the exit of a step loop stands
\* for the same value as in LLVM's probe, and sees where the loop did stop and
\* never the limit that was computed from the snapshot.
THEOREM RealIndexPastExits == SinkSpec => []PastExitSeesRealIndex
BY PlannedAlways, RealIndexSeen, PTL

LEMMA VerifierReason == RInv /\ PInv => VerifiesUnlessTwoWays
<1> SUFFICES ASSUME RInv, PInv, pc = "unverified"
             PROVE  \E c \in Range(clones) : Cardinality(Near(c)) > 1
  BY DEF VerifiesUnlessTwoWays, Near
<1>1. ~WellFormed /\ Fitting /\ Ordered /\ Populated
  BY DEF PInv, Late
<1>2. PICK j \in DOMAIN clones :
        \E o \in operands[clones[j]] :
          /\ o \in Range(clones) /\ PlaceOf(o) = PlaceOf(clones[j])
          /\ ~\E b \in 1..(j - 1) : clones[b] = o
  BY <1>1 DEF WellFormed, Fitting, Fit
<1> DEFINE c == clones[j]
<1>3. c \in Range(clones) /\ c \in DOMAIN operands
  BY <1>1 DEF Range, Populated
<1>4. \A o \in Range(clones) : o \notin Value
  BY <1>1, Numbers DEF Populated
<1>5. PICK o, q \in Near(c) : o # q
  BY <1>1, <1>2, <1>4 DEF Ordered, Near
<1>6. IsFiniteSet(Near(c))
  <2>1. Near(c) \subseteq Nodes
    BY <1>3, RewriteTypeOK DEF SinkTypeOK, Range, Near
  <2>2. IsFiniteSet(Nodes)
    BY Numbers, FS_Interval
  <2> QED
    BY <2>1, <2>2, FS_Subset
<1>7. Cardinality(Near(c)) > 1
  <2>1. Cardinality({o, q}) = 2 /\ IsFiniteSet({o, q})
    <3>1. IsFiniteSet({o}) /\ Cardinality({o}) = 1
      BY FS_Singleton
    <3>2. {o, q} = {o} \cup {q} /\ q \notin {o}
      BY <1>5
    <3> QED
      BY <3>1, <3>2, FS_AddElement
  <2>2. Cardinality({o, q}) <= Cardinality(Near(c))
    BY <1>5, <1>6, FS_Subset
  <2>3. Cardinality(Near(c)) \in Nat
    BY <1>6, FS_CardinalityType
  <2> QED
    BY <2>1, <2>2, <2>3
<1> QED
  BY <1>3, <1>7

\* The verifier turns no probe down, whatever its shape and the order of the uses,
\* in which no clone is computed from two values that are computed at the same exit.
THEOREM TurnedDownForTwoWays == SinkSpec => []VerifiesUnlessTwoWays
BY PlannedAlways, VerifierReason, PTL

=============================================================================
