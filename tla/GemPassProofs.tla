--------------------------- MODULE GemPassProofs ---------------------------
(***************************************************************************)
(* Proofs about GemPass, for every module of markers and queries and       *)
(* every count that LLVM may choose.                                       *)
(*                                                                         *)
(* What makes the published factor right is that a loop is batched only if *)
(* its token is its own (Decided), so that a token seen twice has the      *)
(* factor 1 from each of its loops (Alone).                                *)
(***************************************************************************)
EXTENDS GemPass, FiniteSetTheorems, TLAPS

Counted == MarkerCounts = [t \in Token |-> Cardinality(MarkersOf(t))]

\* Which variables mean something at which place.
Control ==
    /\ pc \in {"clone", "record"} => current \in marks
    /\ tagged = IF pc = "clone" THEN {current} ELSE {}
    /\ pc \in {"queries", "done"} => marks = {}
    /\ pc = "done" => DOMAIN published = Query

\* A loop that has not been looked at, or is only tagged, is as it was.
Untouched ==
    \A m \in marks : (pc = "record" /\ m = current) \/ shape[m] = Plain

Decided ==
    /\ pc = "clone" => MayUnroll(current) /\ count >= 2 /\ factor = 1
    /\ pc = "record" => /\ Covers(shape[current], factor)
                        /\ factor # 1 => MayUnroll(current)

\* The factor on record covers the loops whose marker is gone.
OnRecord ==
    \A m \in Marker \ marks : site[m] # NoToken =>
        site[m] \in DOMAIN SiteFactors /\ Covers(shape[m], SiteFactors[site[m]])

\* A token on record has had a marker, and a factor other than 1 only if it
\* has had no other.
Alone ==
    \A t \in DOMAIN SiteFactors :
        /\ \E m \in Marker \ marks : site[m] = t
        /\ MarkerCounts[t] # 1 => SiteFactors[t] = 1

Answered ==
    \A q \in DOMAIN published :
        pc \in {"queries", "done"} /\ published[q] = FactorFor(asks[q])

Inv == TypeOK /\ Counted /\ Control /\ Untouched /\ Decided /\ OnRecord /\ Alone /\ Answered

-----------------------------------------------------------------------------
\* Any factor covers a loop as written, and a batch's own length the batch with
\* its cleanup loop.
LEMMA CoversPlain ==
    ASSUME NEW f \in Factor
    PROVE  Covers(Plain, f)
BY DEF Covers, Plain, Factor

LEMMA CoversBatch ==
    ASSUME NEW c \in Nat, c >= 2
    PROVE  <<c, 1>> \in Seq(Factor) /\ Covers(<<c, 1>>, c)
BY DEF Covers, Factor

\* "Token && MarkerCounts.lookup(Token) == 1": no other marker has the token.
LEMMA UnrolledAlone ==
    ASSUME TypeOK, Counted, NEW m \in Marker, MayUnroll(m),
           NEW other \in Marker, site[other] = site[m]
    PROVE  other = m
<1> DEFINE M == MarkersOf(site[m])
<1>1. site[m] \in Token
  BY DEF TypeOK, MayUnroll
<1>2. Cardinality(M) = 1
  BY <1>1 DEF Counted, MayUnroll
<1>3. M \subseteq Marker
  BY DEF MarkersOf
<1>4. IsFiniteSet(M)
  BY <1>3, NameAssumption, FS_Subset
<1>5. PICK x : M = {x}
  BY <1>2, <1>4, FS_Singleton
<1>6. m \in M /\ other \in M
  BY DEF MarkersOf
<1> QED
  BY <1>5, <1>6

LEMMA InitInv == Init => Inv
<1> SUFFICES ASSUME Init PROVE Inv
  OBVIOUS
<1>1. DOMAIN SiteFactors = {} /\ DOMAIN published = {}
  BY DEF Init
<1>2. Range(SiteFactors) = {} /\ Range(published) = {}
  BY <1>1 DEF Range
<1>3. MarkerCounts \in [Token -> Nat]
  <2>1. ASSUME NEW t \in Token PROVE Cardinality(MarkersOf(t)) \in Nat
    <3>1. MarkersOf(t) \subseteq Marker
      BY DEF MarkersOf
    <3> QED
      BY <3>1, NameAssumption, FS_Subset, FS_CardinalityType
  <2> QED
    BY <2>1 DEF Init
<1>4. shape \in [Marker -> Seq(Factor)]
  <2>1. Plain \in Seq(Factor)
    BY DEF Plain, Factor
  <2> QED
    BY <2>1 DEF Init
<1>5. TypeOK
  BY <1>1, <1>2, <1>3, <1>4 DEF Init, TypeOK, Factor
<1>6. Counted /\ Control /\ Untouched /\ Decided
  BY DEF Init, Counted, Control, Untouched, Decided
<1>7. OnRecord /\ Alone /\ Answered
  BY <1>1 DEF Init, OnRecord, Alone, Answered
<1> QED
  BY <1>5, <1>6, <1>7 DEF Inv

\* What the tagged loop becomes and the factor it is decided to have, until the
\* decision is recorded.
LEMMA CloneInv ==
    ASSUME Inv, CloneFails \/ StayChecked \/ FormBatchedLoop
    PROVE  Inv'
<1> USE DEF Goto
<1>1. /\ pc = "clone" /\ pc' = "record" /\ current \in Marker /\ tagged' = {}
      /\ UNCHANGED <<site, asks, MarkerCounts, current, count, SiteFactors, marks, published>>
  BY DEF Inv, TypeOK, Control, CloneFails, StayChecked, FormBatchedLoop, input
<1>2. MayUnroll(current) /\ count \in Nat /\ count >= 2 /\ shape[current] = Plain
  BY <1>1 DEF Inv, TypeOK, Control, Decided, Untouched
<1>3. /\ factor' \in Factor
      /\ \/ shape' = shape
         \/ shape' = [shape EXCEPT ![current] = Plain]
         \/ shape' = [shape EXCEPT ![current] = <<count, 1>>]
      /\ Covers(shape'[current], factor')
  <2>1. CASE CloneFails \/ StayChecked
    BY <1>1, <1>2, <2>1, CoversPlain DEF CloneFails, StayChecked, Inv, TypeOK, Decided
  <2>2. CASE FormBatchedLoop
    BY <1>1, <1>2, <2>2, CoversBatch
       DEF FormBatchedLoop, ChainIsWhole, Inv, TypeOK, Factor
  <2> QED
    BY <2>1, <2>2
<1>4. shape' \in [Marker -> Seq(Factor)]
  <2>1. Plain \in Seq(Factor)
    BY DEF Plain, Factor
  <2> QED
    BY <1>1, <1>2, <1>3, <2>1, CoversBatch DEF Inv, TypeOK
<1>5. \A m \in Marker \ {current} : shape'[m] = shape[m]
  BY <1>1, <1>3 DEF Inv, TypeOK
<1>6. TypeOK'
  BY <1>1, <1>3, <1>4 DEF Inv, TypeOK
<1>7. Counted' /\ Control' /\ Alone' /\ Answered'
  BY <1>1 DEF Inv, Counted, MarkersOf, Control, Alone, Answered, FactorFor
<1>8. Untouched' /\ Decided'
  BY <1>1, <1>2, <1>3, <1>5 DEF Inv, TypeOK, Untouched, Decided, MayUnroll
<1>9. OnRecord'
  BY <1>1, <1>5 DEF Inv, Control, OnRecord
<1> QED
  BY <1>6, <1>7, <1>8, <1>9 DEF Inv

\* `SiteFactors.insert`, and what it finds there already.
LEMMA RecordInv == ASSUME Inv, Record PROVE Inv'
<1> DEFINE t == site[current]
<1>1. /\ pc = "record" /\ pc' = "marker" /\ current \in marks /\ current \in Marker
      /\ marks' = marks \ {current} /\ tagged = {}
      /\ UNCHANGED <<site, asks, MarkerCounts, factor, shape, tagged, published>>
  BY DEF Record, Goto, input, Inv, TypeOK, Control
<1>2. t \in Token \cup {NoToken} /\ factor \in Factor /\ Covers(shape[current], factor)
  BY <1>1 DEF Inv, TypeOK, Decided
<1>3. ASSUME t \in DOMAIN SiteFactors
      PROVE  factor = 1 /\ SiteFactors[t] = 1
  <2>1. PICK m \in Marker \ marks : site[m] = t
    BY <1>3 DEF Inv, Alone
  <2>2. ~MayUnroll(current)
    BY <1>1, <2>1, UnrolledAlone DEF Inv
  <2>3. t # NoToken
    BY <1>3, NameAssumption DEF Inv, TypeOK
  <2>4. factor = 1
    BY <1>1, <2>2 DEF Inv, Decided
  <2>5. MarkerCounts[t] # 1
    BY <2>2, <2>3 DEF MayUnroll
  <2> QED
    BY <1>3, <2>4, <2>5 DEF Inv, Alone
<1>4. ASSUME t # NoToken
      PROVE  SiteFactors' = [x \in DOMAIN SiteFactors \cup {t} |->
                                IF x = t THEN factor ELSE SiteFactors[x]]
  <2>1. SiteFactors' = [x \in DOMAIN SiteFactors \cup {t} |->
                          IF x # t THEN SiteFactors[x]
                          ELSE IF t \in DOMAIN SiteFactors THEN Recorded(SiteFactors[t])
                          ELSE factor]
    BY <1>4 DEF Record
  <2>2. t \in DOMAIN SiteFactors => Recorded(SiteFactors[t]) = factor
    BY <1>3 DEF Recorded
  <2> QED
    BY <2>1, <2>2
<1>5. t = NoToken => SiteFactors' = SiteFactors
  BY DEF Record
<1>6. /\ DOMAIN SiteFactors' = DOMAIN SiteFactors \cup ({t} \ {NoToken})
      /\ t # NoToken => SiteFactors'[t] = factor
      /\ \A x \in DOMAIN SiteFactors : SiteFactors'[x] = SiteFactors[x]
  BY <1>2, <1>3, <1>4, <1>5
<1>7. TypeOK'
  <2>1. \A x \in DOMAIN SiteFactors : SiteFactors[x] \in Factor
    BY DEF Inv, TypeOK, Range
  <2>2. \A x \in DOMAIN SiteFactors' : SiteFactors'[x] \in Factor
    BY <1>2, <1>6, <2>1
  <2>3. Range(SiteFactors') \subseteq Factor /\ DOMAIN SiteFactors' \subseteq Token
    BY <1>2, <1>6, <2>2 DEF Range, Inv, TypeOK
  <2>4. current' = NoMarker /\ count' = 0
    BY DEF Record
  <2> QED
    BY <1>1, <2>3, <2>4 DEF Inv, TypeOK
<1>8. Counted' /\ Control' /\ Answered'
  BY <1>1 DEF Inv, Counted, MarkersOf, Control, Answered
<1>9. Untouched' /\ Decided'
  BY <1>1 DEF Inv, Untouched, Decided
<1>10. OnRecord'
  BY <1>1, <1>2, <1>6 DEF Inv, OnRecord
<1>11. Alone'
  <2> SUFFICES ASSUME NEW x \in DOMAIN SiteFactors'
               PROVE  /\ \E m \in Marker \ marks' : site[m] = x
                      /\ MarkerCounts[x] # 1 => SiteFactors'[x] = 1
    BY <1>1 DEF Alone
  <2>1. CASE x \in DOMAIN SiteFactors
    BY <1>1, <1>6, <2>1 DEF Inv, Alone
  <2>2. CASE x = t /\ t # NoToken
    BY <1>1, <1>6, <2>2 DEF Inv, Decided, MayUnroll
  <2> QED
    BY <1>6, <2>1, <2>2
<1> QED
  BY <1>7, <1>8, <1>9, <1>10, <1>11 DEF Inv

LEMMA NextInv == Inv /\ [Next]_vars => Inv'
<1> SUFFICES ASSUME Inv, [Next]_vars PROVE Inv'
  OBVIOUS
<1> USE DEF Goto, input
<1>1. CASE LeaveAlone
  <2>1. TypeOK' /\ Counted' /\ Control'
    BY <1>1 DEF LeaveAlone, Inv, TypeOK, Counted, MarkersOf, Control, Factor
  <2>2. current' \in marks /\ current' \in Marker /\ factor' = 1 /\ shape' = shape
    BY <1>1 DEF LeaveAlone, Inv, TypeOK
  <2>3. Untouched' /\ Decided'
    <3>1. Covers(shape[current'], 1)
      BY <1>1, <2>2, CoversPlain DEF LeaveAlone, Inv, Untouched, Factor
    <3> QED
      BY <1>1, <2>2, <3>1 DEF LeaveAlone, Inv, Untouched, Decided
  <2>4. OnRecord' /\ Alone' /\ Answered'
    BY <1>1 DEF LeaveAlone, Inv, OnRecord, Alone, Answered
  <2> QED
    BY <2>1, <2>3, <2>4 DEF Inv
<1>2. CASE Decide
  <2>1. PICK m \in marks : MayUnroll(m) /\ current' = m /\ tagged' = tagged \cup {m}
    BY <1>2 DEF Decide
  <2>2. count' \in Nat /\ count' >= 2 /\ factor' = 1 /\ m \in Marker
    BY <1>2, NameAssumption DEF Decide, Inv, TypeOK
  <2>3. TypeOK' /\ Counted' /\ Control'
    BY <1>2, <2>1, <2>2 DEF Decide, Inv, TypeOK, Counted, MarkersOf, Control, Factor
  <2>4. Untouched' /\ Decided'
    BY <1>2, <2>1, <2>2 DEF Decide, Inv, Untouched, Decided, MayUnroll
  <2>5. OnRecord' /\ Alone' /\ Answered'
    BY <1>2 DEF Decide, Inv, OnRecord, Alone, Answered
  <2> QED
    BY <2>3, <2>4, <2>5 DEF Inv
<1>3. CASE CloneFails \/ StayChecked \/ FormBatchedLoop
  BY <1>3, CloneInv
<1>4. CASE Record
  BY <1>4, RecordInv
<1>5. CASE BeginQueries \/ Finish
  <2>1. \/ pc = "marker" /\ pc' = "queries" /\ marks = {}
        \/ pc = "queries" /\ pc' = "done" /\ DOMAIN published = Query
    BY <1>5 DEF BeginQueries, Finish
  <2>2. UNCHANGED <<input, current, count, factor, shape, tagged, SiteFactors, marks, published>>
    BY <1>5 DEF BeginQueries, Finish
  <2>3. TypeOK' /\ Counted' /\ Control'
    BY <2>1, <2>2 DEF Inv, TypeOK, Counted, MarkersOf, Control
  <2>4. Untouched' /\ Decided'
    BY <2>1, <2>2 DEF Inv, Untouched, Decided, Control
  <2>5. OnRecord' /\ Alone'
    BY <2>1, <2>2 DEF Inv, OnRecord, Alone
  <2>6. Answered'
    BY <2>1, <2>2 DEF Inv, Answered, FactorFor
  <2> QED
    BY <2>3, <2>4, <2>5, <2>6 DEF Inv
<1>6. CASE ReplaceQuery
  <2>1. PICK q \in Query \ DOMAIN published :
             published' = [x \in DOMAIN published \cup {q} |->
                             IF x = q THEN FactorFor(asks[q]) ELSE published[x]]
    BY <1>6 DEF ReplaceQuery
  <2>2. pc = "queries" /\ UNCHANGED <<input, pc, current, count, factor, shape, tagged,
                                       SiteFactors, marks>>
    BY <1>6 DEF ReplaceQuery
  <2>3. FactorFor(asks[q]) \in Factor
    BY DEF FactorFor, Factor, Inv, TypeOK, Range
  <2>4. TypeOK'
    <3>1. \A x \in DOMAIN published' : published'[x] \in Factor
      BY <2>1, <2>3 DEF Inv, TypeOK, Range
    <3>2. DOMAIN published' \subseteq Query /\ Range(published') \subseteq Factor
      BY <2>1, <3>1 DEF Range, Inv, TypeOK
    <3> QED
      BY <2>2, <3>2 DEF Inv, TypeOK
  <2>5. Counted' /\ Control' /\ Untouched' /\ Decided' /\ OnRecord' /\ Alone'
    BY <2>2 DEF Inv, Counted, MarkersOf, Control, Untouched, Decided, OnRecord, Alone
  <2>6. Answered'
    BY <2>1, <2>2 DEF Inv, Answered, FactorFor
  <2> QED
    BY <2>4, <2>5, <2>6 DEF Inv
<1>7. CASE UNCHANGED vars
  BY <1>7 DEF vars, Inv, TypeOK, Counted, MarkersOf, Control, Untouched, Decided, MayUnroll,
              OnRecord, Alone, Answered, FactorFor
<1> QED
  BY <1>1, <1>2, <1>3, <1>4, <1>5, <1>6, <1>7 DEF Next, Done

-----------------------------------------------------------------------------
LEMMA InvCovers == Inv => FactorCoversCopies
<1> SUFFICES ASSUME Inv, NEW q \in DOMAIN published, asks[q] # NoToken,
                    NEW m \in MarkersOf(asks[q])
             PROVE  Covers(shape[m], published[q])
  BY DEF FactorCoversCopies
<1>1. marks = {} /\ published[q] = FactorFor(asks[q])
  BY DEF Inv, Control, Answered
<1>2. m \in Marker \ marks /\ site[m] = asks[q]
  BY <1>1 DEF MarkersOf
<1>3. asks[q] \in DOMAIN SiteFactors /\ Covers(shape[m], SiteFactors[asks[q]])
  BY <1>2 DEF Inv, OnRecord
<1> QED
  BY <1>1, <1>3 DEF FactorFor

\* The invariant holds in every state of every behaviour.
THEOREM SpecInv == Spec => []Inv
BY InitInv, NextInv, PTL DEF Spec

\* Every variable keeps its type; no factor is below one.
THEOREM TypeCorrect == Spec => []TypeOK
<1>1. Inv => TypeOK
  BY DEF Inv
<1> QED
  BY <1>1, SpecInv, PTL

\* The factor a handler is given covers the steps of every loop with its token,
\* the contract that parfor_ rests on (ShapeAssumption of ParforLoop).
THEOREM FactorsCover == Spec => []FactorCoversCopies
BY InvCovers, SpecInv, PTL

\* No tag outlives the transformation of its loop; in the end no marker and no
\* query is left.
THEOREM CleansUp == Spec => []NothingLeftBehind
<1>1. Inv => NothingLeftBehind
  BY DEF Inv, Control, NothingLeftBehind
<1> QED
  BY <1>1, SpecInv, PTL

=============================================================================
