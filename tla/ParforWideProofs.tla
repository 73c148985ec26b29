-------------------------- MODULE ParforWideProofs --------------------------
(***************************************************************************)
(* parfor runs each index of its range once, for indices of every width:   *)
(* the casts lose nothing of what the calls are to run, and a split gives  *)
(* away exactly what the loop will not do.  The counterexample for ranges  *)
(* too long for one call is a finding; that they stay in the range is      *)
(* proved here too.                                                        *)
(***************************************************************************)
EXTENDS ParforWide, FiniteSetTheorems, TLAPS

MinIdx(c) == IF c.signed THEN SIG_ATOMIC_MIN ELSE 0

\* A call whose bounds are of its index type and in order, and which runs nothing
\* that is not in the range.
Good(c) ==
    /\ MinIdx(c) <= c.from /\ c.from <= c.to /\ c.to <= MaxIdx(c)
    /\ c.from < c.to => i <= c.base + c.from /\ c.base + c.to <= j

TypeInv ==
    /\ wide \in BOOLEAN /\ signed \in BOOLEAN
    /\ i \in IdxValues /\ j \in IdxValues /\ (~wide => i <= j)
    /\ pc \in {"dispatch", "run", "done"}
    /\ inc_i \in FACTORS
    /\ calls \subseteq CallType
    /\ call \in CallType \cup {None}
    /\ sig_safe_i \in Int /\ loop_end \in Int /\ busy \in Nat
    /\ promoted \in BOOLEAN
    /\ runs \in [LOW..HIGH -> Nat]

\* Before the dispatch nothing has been called, after the end nothing is left.
Idle ==
    /\ pc = "dispatch" => calls = {} /\ call = None /\ \A k \in DOMAIN runs : runs[k] = 0
    /\ pc = "done" => calls = {} /\ call = None
    /\ call = None => busy = 0 /\ ~promoted

Waiting == \A c \in calls : Good(c)

\* Where the loop stands: a step under way ends below loop_end, which is the end
\* of the call until it is split.
Running == call # None =>
    /\ Good(call)
    /\ call.from <= ssi /\ ssi + busy <= loop_end /\ loop_end <= call.to
    /\ busy <= inc_i
    /\ ~promoted => loop_end = call.to

OneOwner == pc # "dispatch" /\ LengthFits =>
    /\ IsFiniteSet(calls)
    /\ \A k \in DOMAIN runs : Owners(k) = IF k \in Iterations THEN 1 ELSE 0

Inv == TypeInv /\ Idle /\ Waiting /\ Running /\ OneOwner /\ StaysInRange

-----------------------------------------------------------------------------
(* Arithmetic.                                                             *)

LEMMA ModIs ==
    ASSUME NEW b \in Nat \ {0}, NEW x \in Int
    PROVE  /\ x \in 0..(b - 1) => x % b = x
           /\ x \in (-b)..(-1) => x % b = x + b
           /\ x \in b..(2 * b - 1) => x % b = x - b
           /\ x % b \in 0..(b - 1)
           /\ x >= 0 => x % b <= x
OBVIOUS

LEMMA DivIs ==
    ASSUME NEW b \in Nat \ {0}, NEW x \in Nat
    PROVE  x \div b \in Nat /\ (x \div b) * b <= x
OBVIOUS

\* What the conversions do to values that the type holds, or just does not.
LEMMA Conversions ==
    ASSUME NEW x \in Int
    PROVE  /\ UINT32_RANGE \in Nat \ {0} /\ UINT32_RANGE = 4 * BLOCK /\ BLOCK \in Nat \ {0}
           /\ x \in 0..(4 * BLOCK - 1) => Uint32(x) = x
           /\ x \in (-(4 * BLOCK))..(-1) => Uint32(x) = x + 4 * BLOCK
           /\ x \in (-(2 * BLOCK))..(2 * BLOCK - 1) => SigAtomic(x) = x
           /\ x \in (2 * BLOCK)..(4 * BLOCK - 1) => SigAtomic(x) = x - 4 * BLOCK
           /\ Uint32(x) \in 0..(4 * BLOCK - 1) /\ SigAtomic(x) \in Int
           /\ x >= 0 => Uint32(x) <= x
<1> DEFINE r == 4 * BLOCK
           y == x + 2 * BLOCK
<1>1. BLOCK \in Nat \ {0} /\ UINT32_RANGE = r /\ r \in Nat \ {0}
  BY WidthAssumption DEF UINT32_RANGE
<1>2. Uint32(x) = x % r /\ SigAtomic(x) = (y % r) - 2 * BLOCK
  <2>1. x - SIG_ATOMIC_MIN = y
    BY <1>1 DEF SIG_ATOMIC_MIN
  <2> QED
    BY <1>1, <2>1 DEF Uint32, SigAtomic, SIG_ATOMIC_MIN
<1>3. y \in Int
  BY <1>1
<1> HIDE DEF r, y
<1>4. /\ x \in 0..(r - 1) => x % r = x
      /\ x \in (-r)..(-1) => x % r = x + r
      /\ x % r \in 0..(r - 1)
      /\ x >= 0 => x % r <= x
  BY <1>1, ModIs
<1>5. /\ y \in 0..(r - 1) => y % r = y
      /\ y \in r..(2 * r - 1) => y % r = y - r
      /\ y % r \in 0..(r - 1)
  BY <1>1, <1>3, ModIs
<1> QED
  BY <1>1, <1>2, <1>4, <1>5 DEF r, y

\* A value of the index type is itself, and can be read back from sig_safe_i.
LEMMA IdxIs ==
    ASSUME NEW c \in CallType, NEW x \in MinIdx(c)..MaxIdx(c)
    PROVE  x \in Int /\ Idx(c, x) = x /\ SigAtomic(x) \in Int /\ Idx(c, SigAtomic(x)) = x
<1>1. /\ BLOCK \in Nat \ {0} /\ x \in Int
      /\ MinIdx(c) = (IF c.signed THEN -(2 * BLOCK) ELSE 0)
      /\ MaxIdx(c) = (IF c.signed THEN 2 * BLOCK - 1 ELSE 4 * BLOCK - 1)
  BY WidthAssumption DEF MinIdx, MaxIdx, SIG_ATOMIC_MIN, SIG_ATOMIC_MAX, UINT32_RANGE
<1>2. CASE c.signed
  <2>1. x \in (-(2 * BLOCK))..(2 * BLOCK - 1)
    BY <1>1, <1>2
  <2>2. SigAtomic(x) = x
    BY <2>1, Conversions
  <2> QED
    BY <1>1, <1>2, <2>2 DEF Idx
<1>3. CASE ~c.signed
  <2>1. x \in 0..(4 * BLOCK - 1)
    BY <1>1, <1>3
  <2>2. Uint32(x) = x
    BY <2>1, Conversions
  <2>3. CASE x < 2 * BLOCK
    <3>1. SigAtomic(x) = x
      BY <1>1, <2>1, <2>3, Conversions
    <3> QED
      BY <1>1, <1>3, <2>2, <3>1 DEF Idx
  <2>4. CASE x >= 2 * BLOCK
    <3>1. SigAtomic(x) = x - 4 * BLOCK
      BY <1>1, <2>1, <2>4, Conversions
    <3>2. x - 4 * BLOCK \in (-(4 * BLOCK))..(-1)
      BY <1>1, <2>1
    <3>3. Uint32(x - 4 * BLOCK) = x - 4 * BLOCK + 4 * BLOCK
      BY <3>2, Conversions
    <3> QED
      BY <1>1, <1>3, <2>2, <3>1, <3>3 DEF Idx
  <2> QED
    BY <1>1, <2>3, <2>4
<1> QED
  BY <1>2, <1>3

\* A difference that does not come out negative has not wrapped, and nothing less
\* wraps either.
LEMMA DifferenceIs ==
    ASSUME NEW c \in CallType, NEW x \in MinIdx(c)..MaxIdx(c), NEW y \in x..MaxIdx(c),
           Idx(c, y - x) >= 0, NEW z \in 0..(y - x)
    PROVE  Idx(c, z) = z
<1>1. /\ BLOCK \in Nat \ {0} /\ x \in Int /\ y \in Int
      /\ MinIdx(c) = (IF c.signed THEN -(2 * BLOCK) ELSE 0)
      /\ MaxIdx(c) = (IF c.signed THEN 2 * BLOCK - 1 ELSE 4 * BLOCK - 1)
  BY WidthAssumption DEF MinIdx, MaxIdx, SIG_ATOMIC_MIN, SIG_ATOMIC_MAX, UINT32_RANGE
<1>2. y - x \in 0..(4 * BLOCK - 1)
  BY <1>1
<1>3. z \in 0..(4 * BLOCK - 1) /\ z \in Int /\ z <= y - x
  BY <1>1, <1>2
<1>4. CASE c.signed
  <2>1. Idx(c, y - x) = SigAtomic(y - x)
    BY <1>4 DEF Idx
  <2>2. CASE y - x < 2 * BLOCK
    <3>1. z \in (-(2 * BLOCK))..(2 * BLOCK - 1)
      BY <1>1, <1>2, <1>3, <2>2
    <3>2. SigAtomic(z) = z
      BY <3>1, Conversions
    <3> QED
      BY <1>4, <3>2 DEF Idx
  <2>3. CASE y - x >= 2 * BLOCK
    <3>1. y - x \in (2 * BLOCK)..(4 * BLOCK - 1)
      BY <1>1, <1>2, <2>3
    <3>2. SigAtomic(y - x) = y - x - 4 * BLOCK
      BY <3>1, Conversions
    <3> QED
      BY <1>1, <1>2, <2>1, <3>2
  <2> QED
    BY <1>1, <2>2, <2>3
<1>5. CASE ~c.signed
  <2>1. Uint32(z) = z
    BY <1>3, Conversions
  <2> QED
    BY <1>5, <2>1 DEF Idx
<1> QED
  BY <1>4, <1>5

-----------------------------------------------------------------------------
(* Ownership.                                                              *)

HoldersIn(S, k) == {c \in S : k \in Indices(c)}
Holders(k) == HoldersIn(calls, k)

LEMMA IndicesAre ==
    ASSUME NEW c \in CallType, NEW k \in Int
    PROVE  k \in Indices(c) <=> c.base + c.from <= k /\ k < c.base + c.to
<1>1. c.base \in Int /\ c.from \in Int /\ c.to \in Int
  BY DEF CallType
<1>2. ASSUME c.base + c.from <= k, k < c.base + c.to PROVE k \in Indices(c)
  <2>1. k - c.base \in c.from..(c.to - 1) /\ k = c.base + (k - c.base)
    BY <1>1, <1>2
  <2> QED
    BY <2>1 DEF Indices
<1>3. ASSUME k \in Indices(c) PROVE c.base + c.from <= k /\ k < c.base + c.to
  <2>1. PICK d \in c.from..(c.to - 1) : k = c.base + d
    BY <1>3 DEF Indices
  <2> QED
    BY <1>1, <2>1
<1> QED
  BY <1>2, <1>3

LEMMA RemainingIs ==
    ASSUME call = None \/ (call \in CallType /\ ssi \in Int /\ loop_end \in Int), NEW k \in Int
    PROVE  k \in Remaining <=> call # None /\ call.base + ssi <= k /\ k < call.base + loop_end
<1>1. CASE call = None
  BY <1>1 DEF Remaining
<1>2. CASE call # None
  <2>1. call.base \in Int /\ ssi \in Int /\ loop_end \in Int
    BY <1>2 DEF CallType
  <2>2. Remaining = {call.base + d : d \in ssi..(loop_end - 1)}
    BY <1>2 DEF Remaining
  <2> HIDE DEF ssi
  <2>3. ASSUME call.base + ssi <= k, k < call.base + loop_end PROVE k \in Remaining
    <3>1. k - call.base \in ssi..(loop_end - 1) /\ k = call.base + (k - call.base)
      BY <2>1, <2>3
    <3> QED
      BY <2>2, <3>1
  <2>4. ASSUME k \in Remaining PROVE call.base + ssi <= k /\ k < call.base + loop_end
    <3>1. PICK d \in ssi..(loop_end - 1) : k = call.base + d
      BY <2>2, <2>4
    <3> QED
      BY <2>1, <3>1
  <2> QED
    BY <1>2, <2>3, <2>4
<1> QED
  BY <1>1, <1>2

\* The owners of an index, one by one.
LEMMA OwnersAre ==
    ASSUME TypeInv, IsFiniteSet(calls), NEW k \in LOW..HIGH
    PROVE  /\ IsFiniteSet(Holders(k)) /\ Cardinality(Holders(k)) \in Nat
           /\ Cardinality(Holders(k)) = 0 <=> Holders(k) = {}
           /\ runs[k] \in Nat
           /\ Owners(k) = runs[k] + Cardinality(Holders(k)) + (IF k \in Remaining THEN 1 ELSE 0)
<1>1. Holders(k) \in SUBSET calls
  BY DEF Holders, HoldersIn
<1>2. IsFiniteSet(Holders(k))
  BY <1>1, FS_Subset
<1>3. Cardinality(Holders(k)) \in Nat /\ (Cardinality(Holders(k)) = 0 <=> Holders(k) = {})
  BY <1>2, FS_CardinalityType, FS_EmptySet
<1> QED
  BY <1>2, <1>3 DEF Owners, Holders, HoldersIn, TypeInv

\* One more holder, and one less.
LEMMA AddHolder ==
    ASSUME NEW S, IsFiniteSet(S), NEW c, NEW k, k \in Indices(c) => HoldersIn(S, k) = {}
    PROVE  /\ IsFiniteSet(S \cup {c})
           /\ Cardinality(HoldersIn(S \cup {c}, k)) =
                  Cardinality(HoldersIn(S, k)) + (IF k \in Indices(c) THEN 1 ELSE 0)
<1> DEFINE H == HoldersIn(S \cup {c}, k)
<1>1. IsFiniteSet(HoldersIn(S, k)) /\ IsFiniteSet(S \cup {c})
  <2>1. HoldersIn(S, k) \in SUBSET S
    BY DEF HoldersIn
  <2> QED
    BY <2>1, FS_Subset, FS_AddElement
<1>2. Cardinality(HoldersIn(S, k)) \in Nat
  BY <1>1, FS_CardinalityType
<1>3. CASE k \in Indices(c)
  <2>1. H = HoldersIn(S, k) \cup {c} /\ c \notin HoldersIn(S, k)
    BY <1>3 DEF HoldersIn
  <2> QED
    BY <1>1, <1>3, <2>1, FS_AddElement
<1>4. CASE k \notin Indices(c)
  <2>1. H = HoldersIn(S, k)
    BY <1>4 DEF HoldersIn
  <2> QED
    BY <1>1, <1>2, <1>4, <2>1
<1> QED
  BY <1>3, <1>4

LEMMA RemoveHolder ==
    ASSUME IsFiniteSet(calls), NEW c \in calls, NEW k
    PROVE  /\ IsFiniteSet(calls \ {c})
           /\ Cardinality(HoldersIn(calls \ {c}, k)) =
                  Cardinality(Holders(k)) - (IF k \in Indices(c) THEN 1 ELSE 0)
<1> DEFINE H == HoldersIn(calls \ {c}, k)
<1>1. IsFiniteSet(Holders(k)) /\ IsFiniteSet(calls \ {c})
  <2>1. Holders(k) \in SUBSET calls
    BY DEF Holders, HoldersIn
  <2> QED
    BY <2>1, FS_Subset, FS_RemoveElement
<1>2. Cardinality(Holders(k)) \in Nat
  BY <1>1, FS_CardinalityType
<1>3. CASE k \in Indices(c)
  <2>1. H = Holders(k) \ {c} /\ c \in Holders(k)
    BY <1>3 DEF Holders, HoldersIn
  <2> QED
    BY <1>1, <1>3, <2>1, FS_RemoveElement
<1>4. CASE k \notin Indices(c)
  <2>1. H = Holders(k)
    BY <1>4 DEF Holders, HoldersIn
  <2> QED
    BY <1>1, <1>2, <1>4, <2>1
<1> QED
  BY <1>3, <1>4

-----------------------------------------------------------------------------
(* The invariant holds at first.                                           *)

LEMMA Values ==
    /\ BLOCK \in Nat \ {0} /\ UINT32_RANGE = 4 * BLOCK
    /\ SIG_ATOMIC_MIN = -(2 * BLOCK) /\ SIG_ATOMIC_MAX = 2 * BLOCK - 1
    /\ FACTORS \subseteq 1..(2 * BLOCK - 1)
    /\ LOW \in Int /\ HIGH \in Int /\ None \notin CallType
    /\ \A x \in IdxValues : x \in Int
    /\ ~signed => \A x \in IdxValues : x >= 0
    /\ ~wide => \A x \in IdxValues : /\ signed => x \in (-(2 * BLOCK))..(2 * BLOCK - 1)
                                     /\ ~signed => x \in 0..(4 * BLOCK - 1)
<1>1. /\ BLOCK \in Nat \ {0} /\ UINT32_RANGE = 4 * BLOCK
      /\ SIG_ATOMIC_MIN = -(2 * BLOCK) /\ SIG_ATOMIC_MAX = 2 * BLOCK - 1
      /\ FACTORS \subseteq 1..(2 * BLOCK - 1)
      /\ LOW \in Int /\ HIGH \in Int /\ None \notin CallType
  BY WidthAssumption, NameAssumption DEF UINT32_RANGE, SIG_ATOMIC_MIN, SIG_ATOMIC_MAX
<1>2. CASE wide
  <2>1. IdxValues = (IF signed THEN LOW ELSE 0)..HIGH
    BY <1>2 DEF IdxValues
  <2> QED
    BY <1>1, <1>2, <2>1
<1>3. CASE ~wide
  <2>1. IdxValues = IF signed THEN SIG_ATOMIC_MIN..SIG_ATOMIC_MAX ELSE 0..(UINT32_RANGE - 1)
    BY <1>3 DEF IdxValues
  <2> QED
    BY <1>1, <1>3, <2>1
<1> QED
  BY <1>1, <1>2, <1>3

LEMMA InitInv == Init => Inv
<1> SUFFICES ASSUME Init PROVE Inv
  OBVIOUS
<1>1. /\ calls = {} /\ call = None /\ busy = 0 /\ promoted = FALSE /\ pc = "dispatch"
      /\ sig_safe_i = 0 /\ loop_end = 0 /\ runs = [k \in LOW..HIGH |-> 0]
      /\ wide \in BOOLEAN /\ signed \in BOOLEAN /\ i \in IdxValues /\ j \in IdxValues
      /\ (~wide => i <= j) /\ inc_i \in FACTORS
  BY DEF Init, NoLoop
<1>2. TypeInv
  <2>1. runs \in [LOW..HIGH -> Nat] /\ calls \subseteq CallType /\ call \in CallType \cup {None}
    BY <1>1
  <2>2. sig_safe_i \in Int /\ loop_end \in Int /\ busy \in Nat
    BY <1>1
  <2>3. promoted \in BOOLEAN
    BY <1>1, Zenon
  <2> QED
    BY <1>1, <2>1, <2>2, <2>3 DEF TypeInv
<1>3. Idle /\ Waiting /\ Running /\ OneOwner /\ StaysInRange
  BY <1>1 DEF Idle, Waiting, Running, OneOwner, StaysInRange
<1> QED
  BY <1>2, <1>3 DEF Inv

-----------------------------------------------------------------------------
(* The dispatch.                                                           *)

\* One call for the range.
LEMMA DispatchOne ==
    ASSUME Inv, NEW c \in CallType, Good(c), c.base + c.from = i, c.base + c.to = j,
           Dispatch("run"), calls' = {c}
    PROVE  Inv'
<1> USE DEF Inv
<1>1. /\ pc = "dispatch" /\ pc' = "run" /\ call = None
      /\ UNCHANGED <<wide, signed, i, j, call, sig_safe_i, loop_end, busy, promoted, inc_i, runs>>
      /\ \A k \in DOMAIN runs : runs[k] = 0
  BY DEF Dispatch, range, loop, Idle
<1>2. TypeInv'
  BY <1>1 DEF TypeInv, IdxValues
<1>3. Idle' /\ Waiting' /\ Running'
  BY <1>1 DEF Idle, Waiting, Running, Good, MinIdx, MaxIdx
<1>4. StaysInRange'
  BY <1>1 DEF StaysInRange
<1>5. OneOwner'
  <2>1. IsFiniteSet(calls')
    BY FS_Singleton
  <2>2. ASSUME NEW k \in LOW..HIGH PROVE Owners(k)' = IF k \in Iterations' THEN 1 ELSE 0
    <3>1. k \in Int /\ i \in Int /\ j \in Int /\ runs'[k] = 0
      BY <1>1, Values DEF TypeInv
    <3>2. k \in Indices(c) <=> k \in Iterations
      BY <3>1, IndicesAre DEF Iterations
    <3>3. Remaining' = {}
      BY <1>1 DEF Remaining
    <3>4. Owners(k)' = 0 + Cardinality({d \in {c} : k \in Indices(d)}) + 0
      BY <3>1, <3>3 DEF Owners, Indices
    <3>5. CASE k \in Indices(c)
      <4>1. {d \in {c} : k \in Indices(d)} = {c}
        BY <3>5
      <4> QED
        BY <1>1, <3>2, <3>4, <3>5, <4>1, FS_Singleton DEF Iterations
    <3>6. CASE k \notin Indices(c)
      <4>1. {d \in {c} : k \in Indices(d)} = {}
        BY <3>6
      <4> QED
        BY <1>1, <3>2, <3>4, <3>6, <4>1, FS_EmptySet DEF Iterations
    <3> QED
      BY <3>5, <3>6
  <2>3. DOMAIN runs' = LOW..HIGH
    BY <1>2 DEF TypeInv
  <2> QED
    BY <2>1, <2>2, <2>3 DEF OneOwner
<1> QED
  BY <1>2, <1>3, <1>4, <1>5

LEMMA UseIdxInv == Inv /\ UseIdx => Inv'
<1> SUFFICES ASSUME Inv, UseIdx PROVE Inv'
  OBVIOUS
<1>1. Dispatch("run") /\ ~wide /\ calls' = {Call(signed, i, j, 0)}
  BY DEF UseIdx
<1> DEFINE c == Call(signed, i, j, 0)
<1>2. /\ i \in IdxValues /\ j \in IdxValues /\ i <= j /\ signed \in BOOLEAN
      /\ i \in Int /\ j \in Int
  BY <1>1, Values DEF Inv, TypeInv
<1>3. c \in CallType /\ c.base + c.from = i /\ c.base + c.to = j
  BY <1>2 DEF CallType, Call
<1>4. Good(c)
  BY <1>1, <1>2, Values DEF Good, Call, MinIdx, MaxIdx
<1> QED
  BY <1>1, <1>3, <1>4, DispatchOne

LEMMA UseBoundsInv == Inv /\ UseBounds => Inv'
<1> SUFFICES ASSUME Inv, UseBounds PROVE Inv'
  OBVIOUS
<1>1. /\ Dispatch("run") /\ i < j /\ (FitsSigAtomic \/ FitsUint32)
      /\ calls' = {Call(signed, Narrow(i), Narrow(j), 0)}
  BY DEF UseBounds
<1> DEFINE c == Call(signed, i, j, 0)
<1>2. /\ i \in IdxValues /\ j \in IdxValues /\ signed \in BOOLEAN
      /\ i \in Int /\ j \in Int /\ (~signed => i >= 0)
  BY Values DEF Inv, TypeInv
<1>3. ASSUME signed PROVE Narrow(i) = i /\ Narrow(j) = j /\ Good(c)
  <2>1. i \in (-(2 * BLOCK))..(2 * BLOCK - 1) /\ j \in (-(2 * BLOCK))..(2 * BLOCK - 1)
    BY <1>1, <1>2, <1>3, Values DEF FitsSigAtomic, FitsUint32
  <2>2. Narrow(i) = i /\ Narrow(j) = j
    BY <1>3, <2>1, Conversions DEF Narrow
  <2>3. Good(c)
    BY <1>1, <1>2, <1>3, <2>1, Values DEF Good, Call, MinIdx, MaxIdx
  <2> QED
    BY <2>2, <2>3
<1>4. ASSUME ~signed PROVE Narrow(i) = i /\ Narrow(j) = j /\ Good(c)
  <2>1. i \in 0..(4 * BLOCK - 1) /\ j \in 0..(4 * BLOCK - 1)
    BY <1>1, <1>2, <1>4, Values DEF FitsSigAtomic, FitsUint32
  <2>2. Narrow(i) = i /\ Narrow(j) = j
    BY <1>4, <2>1, Conversions DEF Narrow
  <2>3. Good(c)
    BY <1>1, <1>2, <1>4, <2>1, Values DEF Good, Call, MinIdx, MaxIdx
  <2> QED
    BY <2>2, <2>3
<1>5. c \in CallType /\ c.base + c.from = i /\ c.base + c.to = j
  BY <1>2 DEF CallType, Call
<1>6. Good(c) /\ calls' = {c}
  BY <1>1, <1>3, <1>4
<1> QED
  BY <1>1, <1>5, <1>6, DispatchOne

LEMMA UseLengthInv == Inv /\ UseLength => Inv'
<1> SUFFICES ASSUME Inv, UseLength PROVE Inv'
  OBVIOUS
<1>1. /\ Dispatch("run") /\ i < j /\ LengthFits
      /\ calls' = {Call(FALSE, 0, Uint32(j - i), i)}
  BY DEF UseLength
<1>2. i \in Int /\ j \in Int
  BY Values DEF Inv, TypeInv
<1>3. j - i \in 0..(4 * BLOCK - 1)
  BY <1>1, <1>2, Values DEF LengthFits
<1>4. Uint32(j - i) = j - i
  BY <1>3, Conversions
<1> DEFINE c == Call(FALSE, 0, j - i, i)
<1>5. c \in CallType /\ c.base + c.from = i /\ c.base + c.to = j
  BY <1>2 DEF CallType, Call
<1>6. Good(c)
  BY <1>1, <1>2, <1>3, Values DEF Good, Call, MinIdx, MaxIdx
<1> QED
  BY <1>1, <1>4, <1>5, <1>6, DispatchOne

\* However wrong the blocks' lengths are, no block reaches past the range.
LEMMA UseBlocksInv == Inv /\ UseBlocks => Inv'
<1> SUFFICES ASSUME Inv, UseBlocks PROVE Inv'
  OBVIOUS
<1> USE DEF Inv
<1>1. /\ pc = "dispatch" /\ pc' = "run" /\ call = None /\ i < j /\ ~LengthFits
      /\ calls' = {Call(FALSE, 0, BlockEnd(block), i + block * BLOCK) :
                       block \in 0..(num_blocks - 1)}
      /\ UNCHANGED <<wide, signed, i, j, call, sig_safe_i, loop_end, busy, promoted, inc_i, runs>>
      /\ \A k \in DOMAIN runs : runs[k] = 0
  BY DEF UseBlocks, Dispatch, range, loop, Idle
<1>2. i \in Int /\ j \in Int /\ BLOCK \in Nat \ {0}
  BY Values DEF TypeInv
<1>3. ASSUME NEW block \in 0..(num_blocks - 1)
      PROVE  /\ Call(FALSE, 0, BlockEnd(block), i + block * BLOCK) \in CallType
             /\ Good(Call(FALSE, 0, BlockEnd(block), i + block * BLOCK))
  <2> DEFINE last == (j - i - 1) \div BLOCK
             offset == block * BLOCK
  <2>1. last \in Nat /\ last * BLOCK <= j - i - 1
    <3>1. j - i - 1 \in Nat
      BY <1>1, <1>2
    <3> QED
      BY <1>2, <3>1, DivIs
  <2>2. block \in 0..last /\ block # num_blocks
    BY <2>1 DEF num_blocks
  <2> HIDE DEF last
  <2>3. offset \in Nat /\ offset <= last * BLOCK
    BY <1>2, <2>1, <2>2
  <2>4. BlockEnd(block) = Uint32(j - i - offset)
    BY <2>2 DEF BlockEnd
  <2> HIDE DEF offset
  <2>5. last * BLOCK \in Int
    BY <1>2, <2>1
  <2>6. j - i - offset \in Nat /\ j - i - offset > 0
    BY <1>2, <2>1, <2>3, <2>5
  <2> DEFINE length == Uint32(j - i - offset)
  <2>7. length \in 0..(4 * BLOCK - 1) /\ length <= j - i - offset
    BY <2>6, Conversions
  <2> HIDE DEF length
  <2>8. Call(FALSE, 0, length, i + offset) \in CallType
    BY <1>2, <2>3, <2>7 DEF Call, CallType
  <2>9. Good(Call(FALSE, 0, length, i + offset))
    BY <1>2, <2>3, <2>7, Values DEF Call, Good, MinIdx, MaxIdx
  <2> QED
    BY <2>4, <2>8, <2>9 DEF length, offset
<1>4. \A c \in calls' : c \in CallType /\ Good(c)
  BY <1>1, <1>3
<1>5. TypeInv'
  BY <1>1, <1>4 DEF TypeInv, IdxValues
<1>6. Idle' /\ Running' /\ StaysInRange'
  BY <1>1 DEF Idle, Running, StaysInRange
<1>8. Waiting'
  <2>1. ASSUME NEW c, Good(c) PROVE Good(c)'
    BY <1>1, <2>1 DEF Good, MinIdx, MaxIdx
  <2> QED
    BY <1>4, <2>1 DEF Waiting
<1>7. OneOwner'
  BY <1>1 DEF OneOwner, LengthFits
<1> QED
  BY <1>5, <1>6, <1>7, <1>8

LEMMA EmptyInv == Inv /\ Empty => Inv'
<1> SUFFICES ASSUME Inv, Empty PROVE Inv'
  OBVIOUS
<1> USE DEF Inv
<1>1. /\ pc = "dispatch" /\ pc' = "done" /\ call = None /\ i >= j /\ calls = {} /\ calls' = {}
      /\ UNCHANGED <<wide, signed, i, j, call, sig_safe_i, loop_end, busy, promoted, inc_i, runs>>
      /\ \A k \in DOMAIN runs : runs[k] = 0
  BY DEF Empty, Dispatch, range, loop, Idle
<1>2. i \in Int /\ j \in Int
  BY Values DEF TypeInv
<1>3. TypeInv'
  BY <1>1 DEF TypeInv, IdxValues
<1>4. Idle' /\ Waiting' /\ Running' /\ StaysInRange'
  BY <1>1 DEF Idle, Waiting, Running, StaysInRange
<1>5. OneOwner'
  <2>1. ASSUME NEW k \in LOW..HIGH PROVE Owners(k)' = 0 /\ k \notin Iterations'
    <3>1. runs'[k] = 0
      BY <1>1 DEF TypeInv
    <3>2. Remaining' = {}
      BY <1>1 DEF Remaining
    <3>3. Owners(k)' = 0 + Cardinality({c \in {} : k \in Indices(c)}) + 0
      BY <1>1, <3>1, <3>2 DEF Owners, Indices
    <3>4. Owners(k)' = 0
      BY <3>3, FS_EmptySet
    <3> QED
      BY <1>1, <1>2, <3>4, Values DEF Iterations
  <2>2. DOMAIN runs' = LOW..HIGH
    BY <1>3 DEF TypeInv
  <2> QED
    BY <1>1, <2>1, <2>2, FS_EmptySet DEF OneOwner
<1> QED
  BY <1>3, <1>4, <1>5

-----------------------------------------------------------------------------
(* The loop.                                                               *)

\* Where the loop that runs stands.
LEMMA Stands ==
    ASSUME Inv, call # None
    PROVE  /\ call \in CallType /\ Good(call) /\ pc = "run"
           /\ call.from \in Int /\ call.to \in Int /\ call.base \in Int
           /\ ssi \in Int /\ loop_end \in Int /\ busy \in 0..inc_i /\ inc_i \in Nat \ {0}
           /\ i \in Int /\ j \in Int
           /\ MinIdx(call) \in Int /\ MaxIdx(call) \in Int
           /\ MinIdx(call) <= call.from /\ call.from <= ssi /\ ssi + busy <= loop_end
           /\ loop_end <= call.to /\ call.to <= MaxIdx(call)
           /\ call.from < call.to => i <= call.base + call.from /\ call.base + call.to <= j
           /\ ~promoted => loop_end = call.to
           /\ IF call.signed THEN MinIdx(call) = -(2 * BLOCK) /\ MaxIdx(call) = 2 * BLOCK - 1
              ELSE MinIdx(call) = 0 /\ MaxIdx(call) = 4 * BLOCK - 1
<1> USE DEF Inv
<1>1. call \in CallType /\ pc = "run" /\ Good(call)
  BY DEF TypeInv, Idle, Running
<1>2. call.from \in Int /\ call.to \in Int /\ call.base \in Int /\ call.signed \in BOOLEAN
  BY <1>1 DEF CallType
<1>3. BLOCK \in Nat \ {0} /\ inc_i \in Nat \ {0} /\ i \in Int /\ j \in Int
  BY Values DEF TypeInv
<1>4. IF call.signed THEN MinIdx(call) = -(2 * BLOCK) /\ MaxIdx(call) = 2 * BLOCK - 1
      ELSE MinIdx(call) = 0 /\ MaxIdx(call) = 4 * BLOCK - 1
  BY Values DEF MinIdx, MaxIdx
<1>5. ssi \in Int
  <2>1. sig_safe_i \in Int
    BY DEF TypeInv
  <2>2. Uint32(sig_safe_i) \in Int /\ SigAtomic(sig_safe_i) \in Int
    BY <1>3, <2>1, Conversions
  <2> QED
    BY <2>2 DEF ssi, Idx
<1>6. /\ MinIdx(call) <= call.from /\ call.to <= MaxIdx(call)
      /\ call.from < call.to => i <= call.base + call.from /\ call.base + call.to <= j
  BY <1>1 DEF Good
<1>7. /\ call.from <= ssi /\ ssi + busy <= loop_end /\ loop_end <= call.to
      /\ busy <= inc_i
      /\ ~promoted => loop_end = call.to
  BY DEF Running
<1>8. loop_end \in Int /\ busy \in 0..inc_i
  BY <1>3, <1>7 DEF TypeInv
<1>9. MinIdx(call) \in Int /\ MaxIdx(call) \in Int
  BY <1>2, <1>3, <1>4
<1> QED
  BY <1>1, <1>2, <1>3, <1>4, <1>5, <1>6, <1>7, <1>8, <1>9

\* What the range is does not change, nor what is good.
LEMMA GoodKept ==
    ASSUME UNCHANGED <<i, j>>, NEW c, Good(c)
    PROVE  Good(c)'
BY DEF Good, MinIdx, MaxIdx

\* A call that waits becomes the loop's.
LEMMA RunCallInv == Inv /\ RunCall => Inv'
<1> SUFFICES ASSUME Inv, RunCall PROVE Inv'
  OBVIOUS
<1> USE DEF Inv
<1>1. PICK c \in calls : calls' = calls \ {c} /\ Enter(c)
  BY DEF RunCall
<1>2. /\ pc = "run" /\ call = None /\ call' = c /\ sig_safe_i' = SigAtomic(c.from)
      /\ loop_end' = c.to /\ busy' = 0 /\ promoted' = FALSE
      /\ UNCHANGED <<wide, signed, i, j, pc, inc_i, runs>>
  BY <1>1 DEF RunCall, Enter, range
<1>3. c \in CallType /\ Good(c) /\ c # None
  BY <1>1, Values DEF TypeInv, Waiting
<1>4. c.from \in Int /\ c.to \in Int /\ c.signed \in BOOLEAN
  BY <1>3 DEF CallType
<1>5. c.from \in MinIdx(c)..MaxIdx(c) /\ c.from <= c.to
  <2>1. MinIdx(c) \in Int /\ MaxIdx(c) \in Int
    BY <1>4, Values DEF MinIdx, MaxIdx
  <2> QED
    BY <1>3, <1>4, <2>1 DEF Good
<1>6. sig_safe_i' \in Int /\ ssi' = c.from
  <2>1. ssi' = Idx(c, SigAtomic(c.from))
    BY <1>2 DEF ssi, Idx, SigAtomic, Uint32
  <2> QED
    BY <1>2, <1>3, <1>5, <2>1, IdxIs
<1>7. TypeInv'
  BY <1>1, <1>2, <1>3, <1>4, <1>6 DEF TypeInv, IdxValues
<1>8. Idle' /\ StaysInRange'
  BY <1>2, <1>3 DEF Idle, StaysInRange, Iterations
<1>9. Waiting'
  BY <1>1, <1>2, GoodKept DEF Waiting
<1>10. Running'
  <2>1. Good(call)'
    BY <1>2, <1>3 DEF Good, MinIdx, MaxIdx
  <2>2. inc_i' \in Nat
    BY <1>2, Values DEF TypeInv
  <2> QED
    BY <1>2, <1>4, <1>5, <1>6, <2>1, <2>2 DEF Running
<1>11. OneOwner'
  <2> SUFFICES ASSUME LengthFits PROVE OneOwner'
    BY <1>2 DEF OneOwner, LengthFits
  <2>1. IsFiniteSet(calls) /\ \A k \in DOMAIN runs : Owners(k) = IF k \in Iterations THEN 1 ELSE 0
    BY <1>2 DEF OneOwner
  <2>2. IsFiniteSet(calls')
    BY <1>1, <2>1, RemoveHolder
  <2>3. ASSUME NEW k \in LOW..HIGH PROVE Owners(k)' = Owners(k)
    <3>1. k \in Int
      BY Values
    <3>2. Owners(k) = runs[k] + Cardinality(Holders(k)) + 0 /\ runs[k] \in Nat
          /\ Cardinality(Holders(k)) \in Nat
      BY <1>2, <2>1, OwnersAre DEF Remaining
    <3>3. Cardinality(HoldersIn(calls \ {c}, k)) =
              Cardinality(Holders(k)) - (IF k \in Indices(c) THEN 1 ELSE 0)
      BY <1>1, <2>1, RemoveHolder
    <3>4. Remaining' = Indices(c)
      BY <1>2, <1>3, <1>6 DEF Remaining, Indices
    <3>5. Owners(k)' = runs[k] + Cardinality(HoldersIn(calls \ {c}, k))
                       + (IF k \in Indices(c) THEN 1 ELSE 0)
      BY <1>1, <1>2, <3>4 DEF Owners, HoldersIn, Indices
    <3> QED
      BY <3>2, <3>3, <3>5
  <2>4. DOMAIN runs = LOW..HIGH /\ Iterations' = Iterations
    BY <1>2 DEF TypeInv, Iterations
  <2> QED
    BY <1>2, <2>1, <2>2, <2>3, <2>4 DEF OneOwner
<1> QED
  BY <1>7, <1>8, <1>9, <1>10, <1>11

\* Steps that leave the calls, the runs and what remains as they are.
LEMMA OwnersKept ==
    ASSUME TypeInv, OneOwner, UNCHANGED <<i, j, pc, calls, runs>>, Remaining' = Remaining
    PROVE  OneOwner'
<1>1. \A k : Owners(k)' = Owners(k)
  BY DEF Owners, Indices
<1>2. Iterations' = Iterations /\ LengthFits' = LengthFits
  BY DEF Iterations, LengthFits
<1> QED
  BY <1>1, <1>2 DEF OneOwner

\* A step is begun only if it ends below loop_end.
LEMMA BeginInv == Inv /\ Begin /\ UNCHANGED <<range, pc>> => Inv'
<1> SUFFICES ASSUME Inv, Begin, UNCHANGED <<range, pc>> PROVE Inv'
  OBVIOUS
<1> USE DEF Inv
<1>1. /\ call # None
      /\ UNCHANGED <<wide, signed, i, j, pc, inc_i, calls, call, sig_safe_i, loop_end, promoted, runs>>
  BY DEF Begin, range
<1>2. PICK length \in {1, inc_i} : Fits(length) /\ busy' = length
  BY DEF Begin
<1>3. ssi' = ssi
  BY <1>1 DEF ssi, Idx, SigAtomic, Uint32
<1>4. length \in Nat /\ ssi + length <= loop_end /\ length <= inc_i
  <2>1. ssi \in Int /\ loop_end \in Int /\ inc_i \in Nat \ {0}
    BY <1>1, Stands
  <2>2. ssi + length - 1 < loop_end
    BY <1>2 DEF Fits
  <2> QED
    BY <2>1, <2>2
<1>5. TypeInv' /\ Idle' /\ StaysInRange'
  BY <1>1, <1>2, <1>4 DEF TypeInv, IdxValues, Idle, StaysInRange, Iterations
<1>6. Waiting'
  BY <1>1, GoodKept DEF Waiting
<1>7. Running'
  <2>1. Good(call)'
    BY <1>1 DEF Running, Good, MinIdx, MaxIdx
  <2> QED
    BY <1>1, <1>2, <1>3, <1>4, <2>1 DEF Running
<1>8. Remaining' = Remaining
  BY <1>1, <1>3 DEF Remaining
<1> QED
  BY <1>1, <1>5, <1>6, <1>7, <1>8, OwnersKept

\* What has been run is what remains no longer.
LEMMA PublishInv == Inv /\ Publish /\ UNCHANGED <<range, pc>> => Inv'
<1> SUFFICES ASSUME Inv, Publish, UNCHANGED <<range, pc>> PROVE Inv'
  OBVIOUS
<1> USE DEF Inv
<1> DEFINE done == {call.base + Idx(call, ssi + d) : d \in 0..(busy - 1)}
<1>1. /\ busy > 0 /\ sig_safe_i' = SigAtomic(Idx(call, ssi + busy)) /\ busy' = 0
      /\ runs' = [k \in DOMAIN runs |-> IF k \in done THEN runs[k] + 1 ELSE runs[k]]
      /\ UNCHANGED <<wide, signed, i, j, pc, inc_i, calls, call, loop_end, promoted>>
  BY DEF Publish, range
<1>2. call # None
  BY <1>1 DEF TypeInv, Idle
<1>3. /\ call \in CallType /\ call.from \in Int /\ call.to \in Int /\ call.base \in Int
      /\ ssi \in Int /\ loop_end \in Int /\ busy \in Nat /\ i \in Int /\ j \in Int
      /\ inc_i \in Nat /\ MinIdx(call) \in Int /\ MaxIdx(call) \in Int
      /\ MinIdx(call) <= call.from /\ call.from <= ssi /\ ssi + busy <= loop_end
      /\ loop_end <= call.to /\ call.to <= MaxIdx(call)
      /\ call.from < call.to => i <= call.base + call.from /\ call.base + call.to <= j
      /\ ~promoted => loop_end = call.to
  BY <1>2, Stands
<1>4. ssi' = ssi + busy /\ sig_safe_i' \in Int
  <2>1. ssi + busy \in MinIdx(call)..MaxIdx(call)
    BY <1>3
  <2>2. /\ Idx(call, ssi + busy) = ssi + busy /\ SigAtomic(ssi + busy) \in Int
        /\ Idx(call, SigAtomic(ssi + busy)) = ssi + busy
    BY <1>3, <2>1, IdxIs
  <2>3. ssi' = Idx(call, sig_safe_i')
    BY <1>1 DEF ssi, Idx, SigAtomic, Uint32
  <2> QED
    BY <1>1, <2>2, <2>3
<1>5. \A k \in Int : k \in done <=> call.base + ssi <= k /\ k < call.base + ssi + busy
  <2>1. ASSUME NEW d \in 0..(busy - 1) PROVE Idx(call, ssi + d) = ssi + d
    <3>1. ssi + d \in MinIdx(call)..MaxIdx(call)
      BY <1>3
    <3> QED
      BY <1>3, <3>1, IdxIs
  <2>2. done = {call.base + (ssi + d) : d \in 0..(busy - 1)}
    BY <2>1
  <2> HIDE DEF done, ssi
  <2>3. ASSUME NEW k \in Int, call.base + ssi <= k, k < call.base + ssi + busy PROVE k \in done
    <3>1. k - call.base - ssi \in 0..(busy - 1) /\ k = call.base + (ssi + (k - call.base - ssi))
      BY <1>3, <2>3
    <3> QED
      BY <2>2, <3>1
  <2>4. ASSUME NEW k \in Int, k \in done
        PROVE  call.base + ssi <= k /\ k < call.base + ssi + busy
    <3>1. PICK d \in 0..(busy - 1) : k = call.base + (ssi + d)
      BY <2>2, <2>4
    <3> QED
      BY <1>3, <3>1
  <2> QED
    BY <2>3, <2>4
<1> HIDE DEF done
<1>6. TypeInv'
  <2>1. runs' \in [LOW..HIGH -> Nat]
    BY <1>1 DEF TypeInv
  <2> QED
    BY <1>1, <1>4, <2>1 DEF TypeInv, IdxValues
<1>7. Idle' /\ Waiting'
  <2>1. Waiting'
    BY <1>1, GoodKept DEF Waiting
  <2> QED
    BY <1>1, <1>2, <2>1 DEF Idle, TypeInv
<1>8. Running'
  <2>1. Good(call)'
    BY <1>1, <1>2 DEF Running, Good, MinIdx, MaxIdx
  <2> QED
    BY <1>1, <1>3, <1>4, <2>1 DEF Running
<1>9. StaysInRange'
  <2> SUFFICES ASSUME NEW k \in LOW..HIGH, runs'[k] > 0 PROVE k \in Iterations
    BY <1>1, <1>6 DEF StaysInRange, TypeInv, Iterations
  <2>1. k \in Int
    BY Values
  <2>2. CASE k \in done
    <3>1. call.base + ssi <= k /\ k < call.base + ssi + busy
      BY <1>5, <2>1, <2>2
    <3>2. i <= k /\ k < j
      BY <1>1, <1>3, <2>1, <3>1
    <3> QED
      BY <3>2 DEF Iterations
  <2>3. CASE k \notin done
    BY <1>1, <2>3 DEF StaysInRange, TypeInv
  <2> QED
    BY <2>2, <2>3
<1>10. OneOwner'
  <2> SUFFICES ASSUME LengthFits, pc # "dispatch" PROVE OneOwner'
    BY <1>1 DEF OneOwner, LengthFits
  <2>1. IsFiniteSet(calls) /\ \A k \in DOMAIN runs : Owners(k) = IF k \in Iterations THEN 1 ELSE 0
    BY DEF OneOwner
  <2>2. ASSUME NEW k \in LOW..HIGH PROVE Owners(k)' = Owners(k)
    <3>1. k \in Int
      BY Values
    <3>2. /\ Owners(k) = runs[k] + Cardinality(Holders(k)) + (IF k \in Remaining THEN 1 ELSE 0)
          /\ runs[k] \in Nat /\ Cardinality(Holders(k)) \in Nat
      BY <2>1, OwnersAre
    <3>3. Owners(k)' = runs'[k] + Cardinality(Holders(k)) + (IF k \in Remaining' THEN 1 ELSE 0)
      BY <1>1 DEF Owners, Holders, HoldersIn, Indices
    <3>4. k \in Remaining <=> call.base + ssi <= k /\ k < call.base + loop_end
      BY <1>2, <1>3, <3>1, RemainingIs
    <3>5. k \in Remaining' <=> call.base + (ssi + busy) <= k /\ k < call.base + loop_end
      <4>1. Remaining' = {call.base + d : d \in (ssi + busy)..(loop_end - 1)}
        BY <1>1, <1>2, <1>4 DEF Remaining
      <4> DEFINE s == ssi + busy
      <4>2. s \in Int /\ Remaining' = {call.base + d : d \in s..(loop_end - 1)}
        BY <1>3, <4>1
      <4> HIDE DEF s
      <4>3. ASSUME call.base + s <= k, k < call.base + loop_end PROVE k \in Remaining'
        <5>1. k - call.base \in s..(loop_end - 1) /\ k = call.base + (k - call.base)
          BY <1>3, <3>1, <4>2, <4>3
        <5> QED
          BY <4>2, <5>1
      <4>4. ASSUME k \in Remaining' PROVE call.base + s <= k /\ k < call.base + loop_end
        <5>1. PICK d \in s..(loop_end - 1) : k = call.base + d
          BY <4>2, <4>4
        <5> QED
          BY <1>3, <4>2, <5>1
      <4> QED
        BY <4>3, <4>4 DEF s
    <3>6. runs'[k] = IF call.base + ssi <= k /\ k < call.base + ssi + busy THEN runs[k] + 1
                     ELSE runs[k]
      BY <1>1, <1>5, <3>1 DEF TypeInv
    <3> HIDE DEF ssi
    <3> QED
      BY <1>3, <3>1, <3>2, <3>3, <3>4, <3>5, <3>6
  <2>3. DOMAIN runs = LOW..HIGH /\ DOMAIN runs' = LOW..HIGH /\ Iterations' = Iterations
    BY <1>1 DEF TypeInv, Iterations
  <2> QED
    BY <1>1, <2>1, <2>2, <2>3 DEF OneOwner
<1> QED
  BY <1>6, <1>7, <1>8, <1>9, <1>10

\* The loop ends when nothing remains.
LEMMA LeaveInv == Inv /\ Leave /\ UNCHANGED <<range, pc>> => Inv'
<1> SUFFICES ASSUME Inv, Leave, UNCHANGED <<range, pc>> PROVE Inv'
  OBVIOUS
<1> USE DEF Inv
<1>1. /\ call # None /\ busy = 0 /\ ~Fits(1)
      /\ call' = None /\ sig_safe_i' = 0 /\ loop_end' = 0 /\ promoted' = FALSE
      /\ UNCHANGED <<wide, signed, i, j, pc, inc_i, calls, busy, runs>>
  BY DEF Leave, range
<1>2. ~(ssi < loop_end) /\ ssi \in Int /\ loop_end \in Int
  <2>1. /\ ssi \in Int /\ loop_end \in Int /\ call.to \in Int /\ MaxIdx(call) \in Int
        /\ ssi + busy <= loop_end /\ loop_end <= call.to /\ call.to <= MaxIdx(call)
    BY <1>1, Stands
  <2> HIDE DEF ssi
  <2> QED
    BY <1>1, <2>1 DEF Fits
<1>3. TypeInv'
  <2>1. call' \in CallType \cup {None} /\ sig_safe_i' \in Int /\ loop_end' \in Int
    BY <1>1
  <2>2. promoted' \in BOOLEAN
    BY <1>1, Zenon
  <2> QED
    BY <1>1, <2>1, <2>2 DEF TypeInv, IdxValues
<1>4. Idle' /\ StaysInRange' /\ Running'
  BY <1>1, Stands DEF Idle, StaysInRange, Iterations, Running
<1>5. Waiting'
  BY <1>1, GoodKept DEF Waiting
<1>6. Remaining' = Remaining
  <2>1. Remaining = {call.base + d : d \in ssi..(loop_end - 1)}
    BY <1>1 DEF Remaining
  <2>2. ssi..(loop_end - 1) = {}
    BY <1>2
  <2>3. Remaining' = {}
    BY <1>1 DEF Remaining
  <2> QED
    BY <2>1, <2>2, <2>3
<1> QED
  BY <1>1, <1>3, <1>4, <1>5, <1>6, OwnersKept


\* The handler finds nothing to give away.
LEMMA PromoteNothingInv == Inv /\ PromoteNothing /\ UNCHANGED <<range, pc>> => Inv'
<1> SUFFICES ASSUME Inv, PromoteNothing, UNCHANGED <<range, pc>> PROVE Inv'
  OBVIOUS
<1> USE DEF Inv
<1>1. /\ call # None /\ promoted' = TRUE
      /\ UNCHANGED <<wide, signed, i, j, pc, inc_i, calls, call, sig_safe_i, loop_end, busy, runs>>
  BY DEF PromoteNothing, range
<1>2. ssi' = ssi
  BY <1>1 DEF ssi, Idx, SigAtomic, Uint32
<1>3. TypeInv'
  <2>1. promoted' \in BOOLEAN
    BY <1>1, Zenon
  <2> QED
    BY <1>1, <2>1 DEF TypeInv, IdxValues
<1>4. Idle' /\ StaysInRange'
  BY <1>1 DEF Idle, StaysInRange, Iterations
<1>5. Waiting'
  BY <1>1, GoodKept DEF Waiting
<1>6. Running'
  <2>1. Good(call)'
    BY <1>1 DEF Running, Good, MinIdx, MaxIdx
  <2> QED
    BY <1>1, <1>2, <2>1 DEF Running
<1>7. Remaining' = Remaining
  BY <1>1, <1>2 DEF Remaining
<1> QED
  BY <1>1, <1>3, <1>4, <1>5, <1>6, <1>7, OwnersKept

job(f, t) == [call EXCEPT !.from = f, !.to = t]

\* Where the handler splits, if it does: the loop keeps one batch, and the rest
\* is not negative, so that neither it nor its half wraps.
LEMMA SplitsAt ==
    ASSUME Inv, call # None, ~promoted, ~TooLittle
    PROVE  \E mid \in Int :
              /\ Idx(call, ssi + inc_i) = ssi + inc_i
              /\ midpoint(ssi + inc_i, loop_end) = mid
              /\ ssi + inc_i <= mid /\ mid < loop_end /\ loop_end = call.to
<1>1. /\ call \in CallType /\ call.from \in Int /\ call.to \in Int
      /\ ssi \in Int /\ loop_end \in Int /\ inc_i \in Nat \ {0}
      /\ MinIdx(call) \in Int /\ MaxIdx(call) \in Int
      /\ MinIdx(call) <= call.from /\ call.from <= ssi /\ ssi <= loop_end
      /\ loop_end <= call.to /\ call.to <= MaxIdx(call) /\ loop_end = call.to
  <2>1. /\ ssi \in Int /\ loop_end \in Int /\ busy \in 0..inc_i /\ inc_i \in Nat \ {0}
        /\ ssi + busy <= loop_end
    BY Stands
  <2> HIDE DEF ssi
  <2>2. ssi <= loop_end
    BY <2>1
  <2> QED
    BY <2>2, Stands
<1> DEFINE s == ssi
           e == loop_end
           length == Idx(call, e - s)
           z == e - (s + inc_i)
<1>2. length > inc_i /\ length \in Int
  <2>1. ~(length <= inc_i)
    BY DEF TooLittle
  <2>2. length \in Int
    <3>1. e - s \in Int /\ BLOCK \in Nat \ {0}
      BY <1>1, Values
    <3>2. Uint32(e - s) \in Int /\ SigAtomic(e - s) \in Int
      BY <3>1, Conversions
    <3> QED
      BY <3>2 DEF Idx
  <2> HIDE DEF length
  <2> QED
    BY <1>1, <2>1, <2>2
<1>3. s \in MinIdx(call)..MaxIdx(call) /\ e \in s..MaxIdx(call)
  <2> HIDE DEF ssi
  <2> QED
    BY <1>1
<1>4. length = e - s /\ \A d \in 0..(e - s) : Idx(call, d) = d
  <2>1. length >= 0 /\ e - s \in 0..(e - s)
    <3> HIDE DEF length, ssi
    <3> QED
      BY <1>1, <1>2
  <2>2. ASSUME NEW d \in 0..(e - s) PROVE Idx(call, d) = d
    BY <1>1, <1>3, <2>1, DifferenceIs
  <2> QED
    BY <2>1, <2>2
<1> HIDE DEF ssi
<1>5. s + inc_i < e /\ s + inc_i \in MinIdx(call)..MaxIdx(call)
  BY <1>1, <1>2, <1>4
<1>6. Idx(call, s + inc_i) = s + inc_i
  BY <1>1, <1>5, IdxIs
<1>7. z \in 0..(e - s) /\ z > 0 /\ Idx(call, z) = z
  <2>1. z \in 0..(e - s) /\ z > 0
    BY <1>1, <1>5
  <2> QED
    BY <1>4, <2>1
<1>8. z \div 2 \in Nat /\ z \div 2 < z
  <2> HIDE DEF z
  <2>1. z \in Int /\ z > 0
    BY <1>1, <1>7
  <2> QED
    BY <2>1
<1> DEFINE half == z \div 2
<1>9. s + inc_i + half < e /\ s + inc_i + half \in MinIdx(call)..MaxIdx(call)
      /\ s + inc_i <= s + inc_i + half /\ s + inc_i + half \in Int
  <2>1. half \in Nat /\ half < e - (s + inc_i)
    BY <1>8
  <2> HIDE DEF half
  <2> QED
    BY <1>1, <1>5, <2>1
<1>10. midpoint(s + inc_i, e) = s + inc_i + half
  <2>1. Idx(call, s + inc_i + half) = s + inc_i + half
    BY <1>1, <1>9, IdxIs
  <2> QED
    BY <1>7, <2>1 DEF midpoint
<1> QED
  BY <1>1, <1>6, <1>9, <1>10

\* The handler splits what remains.
LEMMA PromoteSplitInv == Inv /\ PromoteSplit /\ UNCHANGED <<range, pc>> => Inv'
<1> SUFFICES ASSUME Inv, PromoteSplit, UNCHANGED <<range, pc>> PROVE Inv'
  OBVIOUS
<1> USE DEF Inv
<1>1. /\ call # None /\ ~promoted /\ ~TooLittle /\ promoted' = TRUE
      /\ UNCHANGED <<wide, signed, i, j, pc, inc_i, call, sig_safe_i, busy, runs>>
  BY DEF PromoteSplit, range
<1>2. PICK mid \in Int :
              /\ Idx(call, ssi + inc_i) = ssi + inc_i
              /\ midpoint(ssi + inc_i, loop_end) = mid
              /\ ssi + inc_i <= mid /\ mid < loop_end /\ loop_end = call.to
  BY <1>1, SplitsAt
<1> DEFINE prom_i == ssi + inc_i
           right == job(mid, call.to)
           left == job(prom_i, mid)
<1>3. /\ loop_end' = prom_i
      /\ calls' = calls \cup {right} \cup (IF prom_i >= mid THEN {} ELSE {left})
  BY <1>2 DEF PromoteSplit, job
<1>4. /\ call \in CallType /\ call.from \in Int /\ call.to \in Int /\ call.base \in Int
      /\ ssi \in Int /\ loop_end \in Int /\ busy \in 0..inc_i /\ inc_i \in Nat \ {0}
      /\ i \in Int /\ j \in Int /\ MinIdx(call) \in Int /\ MaxIdx(call) \in Int
      /\ MinIdx(call) <= call.from /\ call.from <= ssi /\ ssi + busy <= loop_end
      /\ loop_end <= call.to /\ call.to <= MaxIdx(call) /\ pc = "run" /\ Good(call)
      /\ call.from < call.to => i <= call.base + call.from /\ call.base + call.to <= j
  BY <1>1, Stands
<1>5. ssi' = ssi
  BY <1>1 DEF ssi, Idx, SigAtomic, Uint32
<1> HIDE DEF ssi
<1>6. /\ prom_i \in Int /\ call.from <= prom_i /\ ssi < prom_i /\ call.from <= mid
      /\ call.from < call.to
      /\ ssi + busy <= prom_i /\ prom_i <= mid /\ mid < call.to /\ prom_i <= call.to
  BY <1>2, <1>4
<1> HIDE DEF prom_i
<1>7. ASSUME NEW f \in Int, NEW t \in Int, call.from <= f, f <= t, t <= call.to
      PROVE  /\ job(f, t) \in CallType /\ Good(job(f, t))
             /\ job(f, t).base = call.base /\ job(f, t).from = f /\ job(f, t).to = t
  <2>1. /\ job(f, t) \in CallType
        /\ job(f, t).base = call.base /\ job(f, t).from = f /\ job(f, t).to = t
        /\ job(f, t).signed = call.signed
    BY <1>4 DEF job, CallType
  <2>2. MinIdx(job(f, t)) = MinIdx(call) /\ MaxIdx(job(f, t)) = MaxIdx(call)
    BY <2>1 DEF MinIdx, MaxIdx
  <2>3. /\ MinIdx(call) <= f /\ t <= MaxIdx(call)
        /\ i <= call.base + f /\ call.base + t <= j
    BY <1>4, <1>6, <1>7
  <2> QED
    BY <1>7, <2>1, <2>2, <2>3 DEF Good
<1>8. /\ right \in CallType /\ Good(right)
      /\ right.base = call.base /\ right.from = mid /\ right.to = call.to
      /\ left \in CallType /\ Good(left)
      /\ left.base = call.base /\ left.from = prom_i /\ left.to = mid
  <2>1. mid <= call.to /\ call.to <= call.to
    BY <1>4, <1>6
  <2> QED
    BY <1>4, <1>6, <1>7, <2>1
<1> HIDE DEF left, right
<1>9. TypeInv'
  <2>1. promoted' \in BOOLEAN
    BY <1>1, Zenon
  <2>2. calls' \subseteq CallType
    BY <1>3, <1>8 DEF TypeInv
  <2> QED
    BY <1>1, <1>3, <1>6, <2>1, <2>2 DEF TypeInv, IdxValues
<1>10. Idle' /\ StaysInRange'
  BY <1>1, <1>4 DEF Idle, StaysInRange, Iterations
<1>11. Waiting'
  <2>1. \A c \in calls' : Good(c)
    BY <1>3, <1>8 DEF Waiting
  <2> QED
    BY <1>1, <2>1, GoodKept DEF Waiting
<1>12. Running'
  <2>1. Good(call)'
    BY <1>1, <1>4 DEF Good, MinIdx, MaxIdx
  <2> QED
    BY <1>1, <1>3, <1>4, <1>5, <1>6, <2>1 DEF Running
<1>13. OneOwner'
  <2> SUFFICES ASSUME LengthFits PROVE OneOwner'
    BY <1>1 DEF OneOwner, LengthFits
  <2>1. IsFiniteSet(calls) /\ \A k \in DOMAIN runs : Owners(k) = IF k \in Iterations THEN 1 ELSE 0
    BY <1>4 DEF OneOwner
  <2> DEFINE calls1 == calls \cup {right}
  <2>2. IsFiniteSet(calls1) /\ IsFiniteSet(calls')
    <3>1. IsFiniteSet(calls1)
      BY <2>1, FS_AddElement
    <3>2. IsFiniteSet(calls1 \cup {left})
      BY <3>1, FS_AddElement
    <3> QED
      BY <1>3, <3>1, <3>2
  <2>3. DOMAIN runs = LOW..HIGH /\ Iterations' = Iterations
    BY <1>1 DEF TypeInv, Iterations
  <2>4. ASSUME NEW k \in LOW..HIGH PROVE Owners(k)' = Owners(k)
    <3> DEFINE R == k \in Indices(right)
               L == k \in Indices(left)
    <3>1. k \in Int
      BY Values
    <3>2. /\ Owners(k) = runs[k] + Cardinality(Holders(k)) + (IF k \in Remaining THEN 1 ELSE 0)
          /\ runs[k] \in Nat /\ Cardinality(Holders(k)) \in Nat
          /\ Cardinality(Holders(k)) = 0 <=> Holders(k) = {}
      BY <2>1, OwnersAre
    <3>3. Owners(k) \in {0, 1}
      BY <2>1, <2>3
    <3>4. k \in Remaining <=> call.base + ssi <= k /\ k < call.base + loop_end
      BY <1>1, <1>4, <3>1, RemainingIs
    <3>5. k \in Remaining' <=> call.base + ssi <= k /\ k < call.base + prom_i
      <4>1. Remaining' = {call.base + d : d \in ssi..(prom_i - 1)}
        BY <1>1, <1>3, <1>5 DEF Remaining
      <4>2. ASSUME call.base + ssi <= k, k < call.base + prom_i PROVE k \in Remaining'
        <5>1. k - call.base \in ssi..(prom_i - 1) /\ k = call.base + (k - call.base)
          BY <1>4, <1>6, <3>1, <4>2
        <5> QED
          BY <4>1, <5>1
      <4>3. ASSUME k \in Remaining' PROVE call.base + ssi <= k /\ k < call.base + prom_i
        <5>1. PICK d \in ssi..(prom_i - 1) : k = call.base + d
          BY <4>1, <4>3
        <5> QED
          BY <1>4, <1>6, <5>1
      <4> QED
        BY <4>2, <4>3
    <3>6. /\ R <=> call.base + mid <= k /\ k < call.base + call.to
          /\ L <=> call.base + prom_i <= k /\ k < call.base + mid
      BY <1>8, <3>1, IndicesAre
    <3> HIDE DEF R, L
    <3>7. /\ R \/ L => k \in Remaining
          /\ ~(R /\ L)
          /\ k \in Remaining' => k \in Remaining /\ ~R /\ ~L
          /\ k \in Remaining => k \in Remaining' \/ R \/ L
          /\ L => ~(prom_i >= mid)
      BY <1>2, <1>4, <1>6, <3>1, <3>4, <3>5, <3>6
    <3>8. k \in Remaining => Holders(k) = {}
      BY <3>2, <3>3
    <3>9. Cardinality(HoldersIn(calls1, k)) = Cardinality(Holders(k)) + (IF R THEN 1 ELSE 0)
      <4>1. R => HoldersIn(calls, k) = {}
        BY <3>7, <3>8 DEF Holders
      <4> QED
        BY <2>1, <4>1, AddHolder DEF R, Holders
    <3>10. Cardinality(HoldersIn(calls', k)) =
               Cardinality(Holders(k)) + (IF R THEN 1 ELSE 0) + (IF L THEN 1 ELSE 0)
      <4>1. CASE prom_i >= mid
        <5>1. calls' = calls1 /\ ~L
          BY <1>3, <3>7, <4>1
        <5> QED
          BY <3>2, <3>9, <5>1
      <4>2. CASE ~(prom_i >= mid)
        <5>1. calls' = calls1 \cup {left}
          BY <1>3, <4>2
        <5>2. L => HoldersIn(calls1, k) = {}
          BY <3>7, <3>8 DEF Holders, HoldersIn, R
        <5>3. Cardinality(HoldersIn(calls1 \cup {left}, k)) =
                  Cardinality(HoldersIn(calls1, k)) + (IF L THEN 1 ELSE 0)
          BY <2>2, <5>2, AddHolder DEF L
        <5> QED
          BY <3>9, <5>1, <5>3
      <4> QED
        BY <4>1, <4>2
    <3>11. Owners(k)' = runs[k] + Cardinality(HoldersIn(calls', k))
                        + (IF k \in Remaining' THEN 1 ELSE 0)
      BY <1>1 DEF Owners, HoldersIn, Indices
    <3> QED
      BY <3>2, <3>7, <3>10, <3>11
  <2> QED
    BY <1>1, <2>1, <2>2, <2>3, <2>4 DEF OneOwner
<1> QED
  BY <1>9, <1>10, <1>11, <1>12, <1>13

-----------------------------------------------------------------------------
(* Every step, and what follows.                                           *)

LEMMA FinishInv == Inv /\ Finish => Inv'
<1> SUFFICES ASSUME Inv, Finish PROVE Inv'
  OBVIOUS
<1> USE DEF Inv
<1>1. /\ pc = "run" /\ pc' = "done" /\ calls = {} /\ call = None
      /\ UNCHANGED <<wide, signed, i, j, calls, call, sig_safe_i, loop_end, busy, promoted, inc_i, runs>>
  BY DEF Finish, range, loop
<1>2. TypeInv'
  BY <1>1 DEF TypeInv, IdxValues
<1>3. Idle' /\ Waiting' /\ Running' /\ StaysInRange'
  BY <1>1 DEF Idle, Waiting, Running, StaysInRange, Iterations
<1>4. OneOwner'
  <2>1. \A k : Owners(k)' = Owners(k)
    BY <1>1 DEF Owners, Remaining, Indices
  <2>2. Iterations' = Iterations /\ LengthFits' = LengthFits
    BY <1>1 DEF Iterations, LengthFits
  <2> QED
    BY <1>1, <2>1, <2>2 DEF OneOwner
<1> QED
  BY <1>2, <1>3, <1>4

LEMMA StutterInv == Inv /\ UNCHANGED vars => Inv'
<1> SUFFICES ASSUME Inv, UNCHANGED vars PROVE Inv'
  OBVIOUS
<1> USE DEF Inv
<1>1. UNCHANGED <<wide, signed, i, j, pc, calls, call, sig_safe_i, loop_end, busy, promoted,
                  inc_i, runs>>
  BY DEF vars, range, loop
<1>2. TypeInv'
  <2>1. promoted' \in BOOLEAN
    BY <1>1, Zenon DEF TypeInv
  <2> QED
    BY <1>1, <2>1 DEF TypeInv, IdxValues
<1>3. Idle' /\ StaysInRange'
  BY <1>1 DEF Idle, StaysInRange, Iterations
<1>4. Waiting'
  BY <1>1, GoodKept DEF Waiting
<1>5. ssi' = ssi
  BY <1>1 DEF ssi, Idx, SigAtomic, Uint32
<1>6. Running'
  <2>1. call # None => Good(call)'
    BY <1>1 DEF Running, Good, MinIdx, MaxIdx
  <2> QED
    BY <1>1, <1>5, <2>1 DEF Running
<1>7. Remaining' = Remaining
  BY <1>1, <1>5 DEF Remaining
<1> QED
  BY <1>1, <1>2, <1>3, <1>4, <1>6, <1>7, OwnersKept

LEMMA StepInv == Inv /\ [Next]_vars => Inv'
<1> SUFFICES ASSUME Inv, [Next]_vars PROVE Inv'
  OBVIOUS
<1>1. CASE Empty
  BY <1>1, EmptyInv
<1>2. CASE UseIdx
  BY <1>2, UseIdxInv
<1>3. CASE UseBounds
  BY <1>3, UseBoundsInv
<1>4. CASE UseLength
  BY <1>4, UseLengthInv
<1>5. CASE UseBlocks
  BY <1>5, UseBlocksInv
<1>6. CASE RunCall
  BY <1>6, RunCallInv
<1>7. CASE Run
  BY <1>7, BeginInv, PublishInv, LeaveInv, PromoteNothingInv, PromoteSplitInv
     DEF Run, LoopStep, Handler
<1>8. CASE Finish
  BY <1>8, FinishInv
<1>9. CASE Done \/ UNCHANGED vars
  BY <1>9, StutterInv DEF Done
<1> QED
  BY <1>1, <1>2, <1>3, <1>4, <1>5, <1>6, <1>7, <1>8, <1>9 DEF Next

\* The invariant the proofs go by: the bounds of every call are of its type and
\* within the range, and of the indices that are watched none is owned twice.
THEOREM SpecInv == Spec => []Inv
<1>1. Init => Inv
  BY InitInv
<1>2. Inv /\ [Next]_vars => Inv'
  BY StepInv
<1> QED
  BY <1>1, <1>2, PTL DEF Spec

\* Whatever the width of the type and the factor, each index of a range that one
\* call can count has exactly one owner at every moment, and no other index any:
\* the casts of the dispatch and the wrapped arithmetic of the split lose none.
THEOREM OneOwnerEach == Spec => []EachIndexHasOneOwner
<1>1. Inv => EachIndexHasOneOwner
  BY DEF Inv, OneOwner, LengthFits, EachIndexHasOneOwner
<1> QED
  BY <1>1, SpecInv, PTL

\* No index outside the range is handed to the body, not even of a range too long
\* to be counted, whose blocks have the wrong lengths.
THEOREM RangeKept == Spec => []StaysInRange
<1>1. Inv => StaysInRange
  BY DEF Inv
<1> QED
  BY <1>1, SpecInv, PTL
=============================================================================
