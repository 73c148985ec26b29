----------------------------- MODULE ScanProofs -----------------------------
(***************************************************************************)
(* A promoted scan computes the prefix sums, joins what it enqueued and    *)
(* frees what it allocated: proofs for arrays of every length, as long as  *)
(* the index type has room for the five iterations that the handler looks  *)
(* ahead (NoWrap).  The counterexample beyond is a finding.                *)
(***************************************************************************)
EXTENDS Scan, WellFoundedInduction, FiniteSetTheorems, TLAPS

-----------------------------------------------------------------------------
(* Sets of natural numbers.                                                *)

Smaller == {p \in Nat \X Nat : p[1] < p[2]}

LEMMA SmallerWellFounded == IsWellFoundedOn(Smaller, Nat)
<1>1. OpToRel(<, Nat) = Smaller
  BY Zenon DEF OpToRel, Smaller
<1> QED
  BY <1>1, NatLessThanWellFounded, Zenon

\* A set of natural numbers has a least element.
LEMMA NatLeast ==
    ASSUME NEW S, S \subseteq Nat, S # {}
    PROVE  \E x \in S : \A y \in S : x <= y
<1>1. PICK x \in S : \A y \in S : <<y, x>> \notin Smaller
  BY SmallerWellFounded, WFMin, Zenon
<1>2. ASSUME NEW y \in S PROVE x <= y
  <2>1. <<y, x>> \in Nat \X Nat => y >= x
    BY <1>1 DEF Smaller
  <2> QED
    BY <2>1
<1> QED
  BY <1>2

-----------------------------------------------------------------------------
(* The invariant.                                                          *)

NoWrap == MAX_N + 5 < IDX_RANGE

Looping == pc \in {"check", "body", "store", "close"}

\* The elements up to here are done, until the par begins.
Place == IF pc = "store" THEN i + 1 ELSE IF pc \in {"sync", "rest"} THEN up.arr ELSE i

\* Who stands where.
Control ==
    /\ Looping => /\ i = sig_safe_i /\ i <= loop_end /\ a = <<0, Place>>
                  /\ job # "joined"
    /\ pc \in {"body", "store"} => i < loop_end
    /\ pc \in {"close", "first", "sync", "rest", "par"} => i = loop_end
    /\ pc \in {"first", "sync", "rest", "par"} => job # "none"
    /\ pc \in {"first", "sync"} => job # "joined"
    /\ pc \in {"rest", "par"} => job = "joined"
    /\ pc = "done" => job \in {"none", "joined"} /\ ~live
    /\ pc = "par" <=> right # "none" /\ pc # "done"
    /\ pc = "rest" \/ job \in {"none", "queued"} => ~live
    /\ job = "running" => live
    /\ ~promoted => job = "none"
    /\ job = "none" => loop_end = n

\* The split that the handler chose leaves every third some work.
Split == job # "none" =>
    /\ up = [arr |-> third1(loop_end, n), n |-> third2(loop_end, n) - third1(loop_end, n)]
    /\ 0 < loop_end /\ loop_end < up.arr
    /\ up.n \in Nat \ {0} /\ up.arr + up.n < n

\* Which chunk an element of the middle part is in.
ChunkOf(j) == (j - up.arr) \div scan_chunksize(up.n)

\* What each element is.
Elements ==
    /\ pc \notin {"par", "done"} =>
           \A j \in 0..(n - 1) : arr[j] = IF j < Place THEN <<0, j + 1>> ELSE <<j, j + 1>>
    /\ pc = "par" =>
           /\ \A j \in 0..(up.arr - 1) : arr[j] = <<0, j + 1>>
           /\ \A j \in up.arr..(up.arr + up.n - 1) :
                 arr[j] = IF ChunkOf(j) \in todo THEN <<j, j + 1>> ELSE <<0, j + 1>>
           /\ \A j \in (up.arr + up.n)..(n - 1) :
                 IF right # "done" THEN arr[j] = <<j, j + 1>>
                 ELSE ~reused => arr[j] = <<0, j + 1>>
    /\ ResultIsPrefix

\* What the partials are, and the sum that the right branch read.
Sweeps ==
    /\ job = "running" =>
           /\ DOMAIN partials = Chunks(up.n) /\ todo \subseteq Chunks(up.n)
           /\ \A c \in Chunks(up.n) \ todo :
                 partials[c] = <<up.arr + Start(c, up.n), up.arr + End(c, up.n)>>
    /\ (job = "finished" /\ live) \/ pc = "par" =>
           /\ DOMAIN partials = Chunks(up.n)
           /\ ~reused => \A c \in Chunks(up.n) : partials[c] = <<up.arr, up.arr + End(c, up.n)>>
    /\ pc = "par" => /\ todo \subseteq Chunks(up.n)
                     /\ ~live => todo = {}
    /\ reused => /\ pc \in {"par", "done"} /\ ~live
                 /\ right = "read" => \A c \in DOMAIN partials : partials[c] = Wrong
    /\ right = "scan" => /\ sum02 \in {Wrong, <<0, up.arr + up.n>>}
                         /\ ~reused => sum02 = <<0, up.arr + up.n>>

Inv == TypeOK /\ Control /\ Split /\ Elements /\ Sweeps

-----------------------------------------------------------------------------
(* Arithmetic.                                                             *)

LEMMA DivIs ==
    ASSUME NEW x \in Nat, NEW b \in Nat \ {0}
    PROVE  /\ x \div b \in Nat
           /\ (x \div b) * b <= x
           /\ x < (x \div b) * b + b
OBVIOUS

LEMMA ModIs ==
    ASSUME NEW b \in Nat \ {0}, NEW x \in 0..(b - 1)
    PROVE  x % b = x
OBVIOUS

LEMMA ModType ==
    ASSUME NEW b \in Nat \ {0}, NEW x \in Int
    PROVE  x % b \in 0..(b - 1)
OBVIOUS

LEMMA Multiple ==
    ASSUME NEW x \in Nat, NEW y \in Nat, NEW b \in Nat, x < y
    PROVE  x * b + b <= y * b
OBVIOUS

\* The thirds of what is left, and they stay in between.
LEMMA Thirds ==
    ASSUME NEW x \in Nat, NEW y \in Nat, x <= y, y < IDX_RANGE
    PROVE  /\ third1(x, y) = x + ((y - x) \div 5)
           /\ third2(x, y) = y - 2 * ((y - x) \div 5)
           /\ third1(x, y) \in x..y /\ third2(x, y) \in third1(x, y)..y
<1> DEFINE d == (y - x) \div 5
<1>1. y - x \in 0..(IDX_RANGE - 1) /\ IDX_RANGE \in Nat \ {0}
  BY RangeAssumption
<1>2. d \in Nat /\ 5 * d <= y - x
  BY <1>1
<1>3. Idx(y - x) = y - x
  BY <1>1, ModIs DEF Idx
<1> HIDE DEF d
<1>4. x + d \in 0..(IDX_RANGE - 1) /\ y - 2 * d \in 0..(IDX_RANGE - 1)
  BY <1>1, <1>2
<1>5. Idx(x + d) = x + d /\ Idx(y - 2 * d) = y - 2 * d
  BY <1>1, <1>4, ModIs DEF Idx
<1>6. third1(x, y) = x + d /\ third2(x, y) = y - 2 * d
  BY <1>3, <1>5 DEF third1, third2, d
<1> QED
  BY <1>2, <1>6 DEF d

-----------------------------------------------------------------------------
(* Chunks.                                                                 *)

LEMMA ChunksizeIs ==
    ASSUME NEW m \in Nat \ {0}
    PROVE  scan_chunksize(m) \in 1..m
<1> DEFINE S == {d \in Nat : m < d * d}
<1>1. m + 1 \in S
  OBVIOUS
<1>2. PICK d \in S : \A y \in S : d <= y
  <2>1. S \subseteq Nat /\ S # {}
    BY <1>1
  <2> HIDE DEF S
  <2> QED
    BY <2>1, NatLeast
<1>3. d \in Nat /\ m < d * d /\ d # 0
  BY <1>2
<1>4. d - 1 \in Nat /\ ~(m < (d - 1) * (d - 1))
  BY <1>2, <1>3
<1>5. d - 1 \in 0..m
  BY <1>3, <1>4
<1>6. \E c \in 0..m : c * c <= m /\ m < (c + 1) * (c + 1)
  <2>1. (d - 1) * (d - 1) <= m /\ m < (d - 1 + 1) * (d - 1 + 1)
    BY <1>3, <1>4
  <2> QED
    BY <1>5, <2>1
<1>7. scan_chunksize(m) \in 0..m /\ m < (scan_chunksize(m) + 1) * (scan_chunksize(m) + 1)
  BY <1>6 DEF scan_chunksize
<1>8. scan_chunksize(m) # 0
  BY <1>7
<1> QED
  BY <1>7, <1>8

\* The chunks of m elements lie one after the other from 0 to m.
LEMMA ChunksAre ==
    ASSUME NEW m \in Nat \ {0}
    PROVE  LET last == (m - 1) \div scan_chunksize(m) IN
           /\ last \in 0..(m - 1) /\ Chunks(m) = 0..last
           /\ Start(0, m) = 0 /\ End(last, m) = m
           /\ \A c \in Chunks(m) :
                 /\ Start(c, m) \in 0..m /\ End(c, m) \in 1..m /\ Start(c, m) < End(c, m)
                 /\ c # 0 => c - 1 \in Chunks(m) /\ End(c - 1, m) = Start(c, m)
<1> DEFINE s == scan_chunksize(m)
           last == (m - 1) \div s
<1>1. s \in 1..m
  BY ChunksizeIs
<1>2. last \in Nat /\ last * s <= m - 1 /\ m - 1 < last * s + s
  <2>1. m - 1 \in Nat /\ s \in Nat \ {0}
    BY <1>1
  <2> HIDE DEF s
  <2> QED
    BY <2>1, DivIs
<1>3. Chunks(m) = 0..last
  BY DEF Chunks
<1> HIDE DEF last
<1>4. last <= m - 1
  BY <1>1, <1>2
<1>5. ASSUME NEW c \in 0..last
      PROVE  /\ Start(c, m) = c * s /\ c * s \in 0..(m - 1)
             /\ c # last => (c + 1) * s <= m - 1 /\ End(c, m) = (c + 1) * s /\ c * s + s = (c + 1) * s
  <2>1. Start(c, m) = c * s
    BY DEF Start
  <2>2. c * s \in Nat /\ c * s <= last * s
    BY <1>1, <1>2
  <2>3. CASE c # last
    <3>1. c * s + s = (c + 1) * s /\ (c + 1) * s \in Nat
      BY <1>1
    <3>2. (c + 1) * s <= last * s
      BY <1>1, <1>2, <2>3, Multiple, <3>1
    <3>3. ~(s > m - c * s)
      <4> DEFINE u == c * s
                 w == (c + 1) * s
                 z == last * s
      <4>1. u \in Nat /\ w = u + s /\ w <= z /\ z <= m - 1 /\ z \in Nat
        BY <1>1, <1>2, <2>2, <3>1, <3>2
      <4> HIDE DEF u, w, z
      <4>2. ~(s > m - u)
        BY <1>1, <4>1
      <4> QED
        BY <4>2 DEF u
    <3>4. End(c, m) = c * s + s
      BY <2>1, <3>3 DEF End
    <3> QED
      BY <1>1, <1>2, <2>1, <2>2, <3>1, <3>2, <3>4
  <2> QED
    BY <1>1, <1>2, <2>1, <2>2, <2>3
<1>6. End(last, m) = m /\ Start(last, m) = last * s
  <2>1. Start(last, m) = last * s /\ last * s \in 0..(m - 1)
    BY <1>2, <1>5
  <2>2. s >= m - last * s
    BY <1>1, <1>2
  <2>3. CASE s > m - last * s
    BY <2>1, <2>3 DEF End
  <2>4. CASE s = m - last * s
    <3>1. ~(s > m - last * s) /\ last * s + s = m
      BY <1>1, <2>1, <2>4
    <3> QED
      BY <2>1, <3>1 DEF End
  <2> QED
    BY <1>1, <2>1, <2>2, <2>3, <2>4
<1>7. ASSUME NEW c \in 0..last
      PROVE  /\ Start(c, m) \in 0..m /\ End(c, m) \in 1..m /\ Start(c, m) < End(c, m)
             /\ c # 0 => c - 1 \in 0..last /\ End(c - 1, m) = Start(c, m)
  <2>1. c = last => Start(c, m) \in 0..m /\ End(c, m) \in 1..m /\ Start(c, m) < End(c, m)
    BY <1>1, <1>5, <1>6
  <2>2. c # last => Start(c, m) \in 0..m /\ End(c, m) \in 1..m /\ Start(c, m) < End(c, m)
    <3> SUFFICES ASSUME c # last
                 PROVE  Start(c, m) \in 0..m /\ End(c, m) \in 1..m /\ Start(c, m) < End(c, m)
      OBVIOUS
    <3> DEFINE u == c * s
    <3>1. c * s \in 0..(m - 1) /\ Start(c, m) = c * s /\ End(c, m) = c * s + s /\ c * s + s <= m - 1
      BY <1>5
    <3> HIDE DEF u
    <3>2. u \in 0..(m - 1) /\ Start(c, m) = u /\ End(c, m) = u + s /\ u + s <= m - 1
      BY <3>1 DEF u
    <3> QED
      BY <1>1, <3>2
  <2>3. ASSUME c # 0
        PROVE  c - 1 \in 0..last /\ End(c - 1, m) = Start(c, m)
    <3>1. c - 1 \in 0..last /\ c - 1 # last /\ c - 1 + 1 = c
      BY <1>2, <2>3
    <3>2. End(c - 1, m) = (c - 1 + 1) * s
      BY <1>5, <3>1
    <3> QED
      BY <1>5, <3>1, <3>2
  <2>4. Start(c, m) \in 0..m /\ End(c, m) \in 1..m /\ Start(c, m) < End(c, m)
    BY <2>1, <2>2
  <2> QED
    BY <2>3, <2>4
<1>8. 0 \in 0..last /\ 0 * s = 0
  BY <1>1, <1>2
<1>9. Start(0, m) = 0
  BY <1>5, <1>8
<1> QED
  BY <1>2, <1>3, <1>4, <1>6, <1>7, <1>9 DEF last

\* Each element is in one chunk.
LEMMA InChunk ==
    ASSUME NEW m \in Nat \ {0}, NEW j \in 0..(m - 1), NEW c \in Chunks(m)
    PROVE  /\ j \div scan_chunksize(m) \in Chunks(m)
           /\ j \in Start(c, m)..(End(c, m) - 1) <=> j \div scan_chunksize(m) = c
<1> DEFINE s == scan_chunksize(m)
           last == (m - 1) \div s
           q == j \div s
<1>1. s \in 1..m
  BY ChunksizeIs
<1>2. last \in Nat /\ last * s <= m - 1 /\ m - 1 < last * s + s
  <2>1. m - 1 \in Nat /\ s \in Nat \ {0}
    BY <1>1
  <2> HIDE DEF s
  <2> QED
    BY <2>1, DivIs
<1>3. q \in Nat /\ q * s <= j /\ j < q * s + s
  BY <1>1, DivIs
<1>4. Chunks(m) = 0..last
  BY DEF Chunks
<1> HIDE DEF last, q
<1>5. q \in 0..last
  <2>1. CASE q > last
    <3>1. last * s + s <= q * s
      BY <1>1, <1>2, <1>3, <2>1, Multiple
    <3> DEFINE u == last * s
               w == q * s
    <3>2. u \in Nat /\ w \in Nat /\ u + s <= w /\ w <= j /\ m - 1 < u + s
      BY <1>1, <1>2, <1>3, <3>1
    <3> HIDE DEF u, w
    <3> QED
      BY <1>1, <3>2
  <2> QED
    BY <1>2, <1>3, <2>1
<1>6. /\ Start(c, m) = c * s /\ c * s \in Nat
      /\ End(c, m) = IF s > m - c * s THEN m ELSE c * s + s
  BY <1>1, <1>4 DEF Start, End
<1>7. j \in Start(c, m)..(End(c, m) - 1) <=> (c * s <= j /\ j < c * s + s)
  <2> DEFINE u == c * s
  <2>1. u \in Nat /\ Start(c, m) = u /\ End(c, m) = IF s > m - u THEN m ELSE u + s
    BY <1>6
  <2> HIDE DEF u
  <2>2. j \in Start(c, m)..(End(c, m) - 1) <=> (u <= j /\ j < u + s)
    BY <1>1, <2>1
  <2> QED
    BY <2>2 DEF u
<1>8. (c * s <= j /\ j < c * s + s) <=> q = c
  <2>1. CASE q < c
    <3>1. q * s + s <= c * s
      BY <1>1, <1>3, <1>4, <2>1, Multiple
    <3> QED
      BY <1>1, <1>3, <1>6, <2>1, <3>1
  <2>2. CASE c < q
    <3>1. c * s + s <= q * s
      BY <1>1, <1>3, <1>4, <2>2, Multiple
    <3> QED
      BY <1>1, <1>3, <1>6, <2>2, <3>1
  <2>3. CASE q = c
    BY <1>3, <2>3
  <2> QED
    BY <1>2, <1>3, <1>4, <2>1, <2>2, <2>3
<1> QED
  BY <1>4, <1>5, <1>7, <1>8 DEF q

-----------------------------------------------------------------------------
(* Sums.                                                                   *)

LEMMA SumIs ==
    ASSUME NEW x \in Nat, NEW y \in Nat, NEW z \in Nat
    PROVE  Sum(<<x, y>>, <<y, z>>) = <<x, z>>
BY DEF Sum, Wrong

\* Induction over an interval.
LEMMA IntervalInduction ==
    ASSUME NEW from \in Nat, NEW to \in Nat, NEW S, from \in S,
           \A j \in (from + 1)..(to - 1) : j - 1 \in S => j \in S
    PROVE  \A j \in from..(to - 1) : j \in S
<1> DEFINE T == {l \in from..(to - 1) : l \notin S}
<1> SUFFICES ASSUME T # {} PROVE FALSE
  OBVIOUS
<1>1. PICK l \in T : \A y \in T : l <= y
  <2>1. T \subseteq Nat
    OBVIOUS
  <2> HIDE DEF T
  <2> QED
    BY <2>1, NatLeast
<1>2. l \in (from + 1)..(to - 1) /\ l - 1 \in from..(to - 1) /\ ~(l <= l - 1)
  OBVIOUS
<1>3. l - 1 \in S
  BY <1>1, <1>2
<1> QED
  BY <1>2, <1>3

\* Part j of A is the sum of what lies between the ends e[j] and e[j + 1] ...
Adjacent(A, e, from, to) ==
    /\ \A j \in from..to : e[j] \in Nat
    /\ \A j \in from..(to - 1) : A[j] = <<e[j], e[j + 1]>>

\* ... and sum j of f of all between s and there.
AllFrom(f, s, e, from, to) ==
    /\ DOMAIN f = from..(to - 1)
    /\ \A j \in from..(to - 1) : f[j] = <<s, e[j + 1]>>

\* The running sums of adjacent parts.
LEMMA SumsAre ==
    ASSUME NEW A, NEW from \in Nat, NEW to \in Nat, NEW s \in Nat, NEW e,
           from < to, Adjacent(A, e, from, to), NEW x, x = <<s, e[from]>>
    PROVE  AllFrom(Sums(x, A, from, to), s, e, from, to)
<1> USE DEF Adjacent
<1> DEFINE f == Sums(x, A, from, to)
           g == [j \in from..(to - 1) |-> <<s, e[j + 1]>>]
<1>0. \A j \in from..(to - 1) : Sum(<<s, e[j]>>, A[j]) = <<s, e[j + 1]>>
  <2> SUFFICES ASSUME NEW j \in from..(to - 1) PROVE Sum(<<s, e[j]>>, A[j]) = <<s, e[j + 1]>>
    OBVIOUS
  <2>1. e[j] \in Nat /\ e[j + 1] \in Nat /\ A[j] = <<e[j], e[j + 1]>>
    OBVIOUS
  <2> QED
    BY <2>1, SumIs
<1>1. ASSUME NEW j \in from..(to - 1)
      PROVE  g[j] = Sum(IF j = from THEN x ELSE g[j - 1], A[j])
  <2>1. CASE j = from
    BY <1>0, <2>1
  <2>2. CASE j # from
    <3>1. j - 1 \in from..(to - 1) /\ j - 1 + 1 = j
      BY <2>2
    <3>2. g[j - 1] = <<s, e[j]>>
      BY <3>1
    <3> QED
      BY <1>0, <2>2, <3>2
  <2> QED
    BY <2>1, <2>2
<1>2. g = [j \in from..(to - 1) |-> Sum(IF j = from THEN x ELSE g[j - 1], A[j])]
  BY <1>1
<1>3. f = [j \in from..(to - 1) |-> Sum(IF j = from THEN x ELSE f[j - 1], A[j])]
  <2> HIDE DEF g
  <2> QED
    BY <1>2 DEF Sums
<1> HIDE DEF f, g
<1>4. \A j \in from..(to - 1) : f[j] = Sum(IF j = from THEN x ELSE f[j - 1], A[j])
  BY <1>3
<1> DEFINE S == {j \in Nat : f[j] = <<s, e[j + 1]>>}
<1>5. from \in S
  <2>1. from \in from..(to - 1)
    OBVIOUS
  <2>2. f[from] = Sum(<<s, e[from]>>, A[from])
    BY <1>4, <2>1
  <2> QED
    BY <1>0, <2>1, <2>2
<1>6. ASSUME NEW j \in (from + 1)..(to - 1), j - 1 \in S PROVE j \in S
  <2>1. j \in from..(to - 1) /\ j # from /\ j - 1 + 1 = j /\ j \in Nat
    OBVIOUS
  <2>2. f[j - 1] = <<s, e[j]>>
    BY <1>6, <2>1
  <2>3. f[j] = Sum(<<s, e[j]>>, A[j])
    BY <1>4, <2>1, <2>2
  <2> QED
    BY <1>0, <2>1, <2>3
<1>7. \A j \in from..(to - 1) : j \in S
  <2> HIDE DEF S
  <2> QED
    BY <1>5, <1>6, IntervalInduction
<1> QED
  BY <1>3, <1>7 DEF f, AllFrom

\* Nothing comes of what is Wrong.
LEMMA SumsWrong ==
    ASSUME NEW A, NEW from \in Nat, NEW to \in Nat
    PROVE  /\ DOMAIN Sums(Wrong, A, from, to) = from..(to - 1)
           /\ \A j \in from..(to - 1) : Sums(Wrong, A, from, to)[j] = Wrong
<1> DEFINE f == Sums(Wrong, A, from, to)
           g == [j \in from..(to - 1) |-> Wrong]
<1>0. \A y : Sum(Wrong, y) = Wrong
  BY DEF Sum
<1>1. ASSUME NEW j \in from..(to - 1)
      PROVE  g[j] = Sum(IF j = from THEN Wrong ELSE g[j - 1], A[j])
  <2>1. j # from => j - 1 \in from..(to - 1)
    OBVIOUS
  <2>2. (IF j = from THEN Wrong ELSE g[j - 1]) = Wrong
    BY <2>1
  <2> QED
    BY <1>0, <2>2
<1>2. g = [j \in from..(to - 1) |-> Sum(IF j = from THEN Wrong ELSE g[j - 1], A[j])]
  BY <1>1
<1>3. f = [j \in from..(to - 1) |-> Sum(IF j = from THEN Wrong ELSE f[j - 1], A[j])]
  <2> HIDE DEF g
  <2> QED
    BY <1>2 DEF Sums
<1> HIDE DEF f, g
<1>4. \A j \in from..(to - 1) : f[j] = Sum(IF j = from THEN Wrong ELSE f[j - 1], A[j])
  BY <1>3
<1> DEFINE S == {j \in Nat : f[j] = Wrong}
<1>5. CASE from < to
  <2>1. from \in from..(to - 1)
    BY <1>5
  <2>2. from \in S
    BY <1>0, <1>4, <2>1
  <2>3. ASSUME NEW j \in (from + 1)..(to - 1), j - 1 \in S PROVE j \in S
    <3>1. j \in from..(to - 1) /\ j # from /\ j \in Nat
      OBVIOUS
    <3> QED
      BY <1>0, <1>4, <2>3, <3>1
  <2>4. \A j \in from..(to - 1) : j \in S
    <3> HIDE DEF S
    <3> QED
      BY <2>2, <2>3, IntervalInduction
  <2> QED
    BY <1>3, <2>4 DEF f
<1>6. CASE ~(from < to)
  BY <1>3, <1>6 DEF f
<1> QED
  BY <1>5, <1>6

\* B is A, with the prefix sums from `from` up to `to`.
Prefixed(B, A, from, to) ==
    B = [j \in DOMAIN A |-> IF j \in from..(to - 1) THEN <<0, j + 1>> ELSE A[j]]

Untouched(A, from, to) == \A j \in from..(to - 1) : A[j] = <<j, j + 1>>

\* A scan of elements that are there is their prefix sums, from where it began.
LEMMA ScannedIs ==
    ASSUME NEW A, NEW from \in Nat, NEW to \in Nat, from < to, Untouched(A, from, to)
    PROVE  Prefixed(Scanned(<<0, from>>, A, from, to), A, from, to)
<1> DEFINE e == [j \in Nat |-> j]
           f == Sums(<<0, from>>, A, from, to)
<1>1. Adjacent(A, e, from, to) /\ \A j \in from..(to - 1) : e[j + 1] = j + 1
  BY DEF Adjacent, Untouched
<1>2. <<0, from>> = <<0, e[from]>> /\ 0 \in Nat /\ to \in Nat
  OBVIOUS
<1> HIDE DEF e
<1>3. AllFrom(f, 0, e, from, to)
  BY <1>1, <1>2, SumsAre
<1>4. \A j \in from..(to - 1) : f[j] = <<0, e[j + 1]>>
  BY <1>3 DEF AllFrom
<1>5. \A j \in from..(to - 1) : f[j] = <<0, j + 1>>
  BY <1>1, <1>4
<1>6. Scanned(<<0, from>>, A, from, to) =
          [j \in DOMAIN A |-> IF j \in from..(to - 1) THEN f[j] ELSE A[j]]
  BY DEF Scanned
<1> HIDE DEF f
<1> QED
  BY <1>5, <1>6 DEF Prefixed

\* B is A, spoiled from `from` up to `to`.
Spoiled(B, A, from, to) ==
    B = [j \in DOMAIN A |-> IF j \in from..(to - 1) THEN Wrong ELSE A[j]]

LEMMA ScannedWrong ==
    ASSUME NEW A, NEW from \in Nat, NEW to \in Nat
    PROVE  Spoiled(Scanned(Wrong, A, from, to), A, from, to)
<1> DEFINE f == Sums(Wrong, A, from, to)
<1>1. \A j \in from..(to - 1) : f[j] = Wrong
  BY SumsWrong
<1>2. Scanned(Wrong, A, from, to) =
          [j \in DOMAIN A |-> IF j \in from..(to - 1) THEN f[j] ELSE A[j]]
  BY DEF Scanned
<1> HIDE DEF f
<1> QED
  BY <1>1, <1>2 DEF Spoiled

\* A reduction of them is the sum of all.
LEMMA ReducedIs ==
    ASSUME NEW A, NEW from \in Nat, NEW to \in Nat, from < to,
           \A j \in from..(to - 1) : A[j] = <<j, j + 1>>
    PROVE  Reduced(A, from, to) = <<from, to>>
<1> DEFINE e == [j \in Nat |-> j]
<1>1. Adjacent(A, e, from, to)
  BY DEF Adjacent
<1>2. <<from, from>> = <<from, e[from]>> /\ e[to - 1 + 1] = to /\ to - 1 \in from..(to - 1)
  OBVIOUS
<1> HIDE DEF e
<1>3. AllFrom(Sums(<<from, from>>, A, from, to), from, e, from, to)
  BY <1>1, <1>2, SumsAre
<1>4. Sums(<<from, from>>, A, from, to)[to - 1] = <<from, e[to - 1 + 1]>>
  BY <1>2, <1>3 DEF AllFrom
<1> QED
  BY <1>2, <1>4 DEF Reduced
-----------------------------------------------------------------------------
(* What holds in every state.                                              *)

LEMMA Facts ==
    ASSUME TypeOK, NoWrap
    PROVE  /\ IDX_RANGE \in Nat \ {0} /\ n \in Nat /\ n + 5 < IDX_RANGE
           /\ i \in 0..n /\ loop_end \in 0..n
           /\ arr \in [0..(n - 1) -> Value] /\ DOMAIN arr = 0..(n - 1)
           /\ \A j \in 0..n : <<0, j>> \in Value
           /\ \A j \in 0..(n - 1) : <<0, j + 1>> \in Value /\ <<j, j + 1>> \in Value
           /\ \A j, l \in 0..n : <<j, l>> \in Value
           /\ Wrong \in Value
<1>1. IDX_RANGE \in Nat \ {0} /\ n \in Nat /\ n + 5 < IDX_RANGE
  BY RangeAssumption DEF TypeOK, NoWrap
<1>2. /\ i \in 0..n /\ loop_end \in 0..n
      /\ arr \in [0..(n - 1) -> Value] /\ DOMAIN arr = 0..(n - 1)
  BY DEF TypeOK
<1>3. \A j, l \in 0..n : <<j, l>> \in Value
  BY <1>1 DEF Value
<1>4. \A j \in 0..(n - 1) : j \in 0..n /\ j + 1 \in 0..n
  BY <1>1
<1>5. 0 \in 0..n
  BY <1>1
<1>6. Wrong \in Value
  BY <1>1 DEF Value, Wrong
<1> QED
  BY <1>1, <1>2, <1>3, <1>4, <1>5, <1>6

\* The middle part, and that the join finds it again.
LEMMA Middle ==
    ASSUME TypeOK, Control, Split, NoWrap, job # "none"
    PROVE  /\ n \in Nat /\ n < IDX_RANGE /\ loop_end \in Nat /\ up.arr \in Nat
           /\ 0 < loop_end /\ loop_end < up.arr
           /\ up.n \in Nat \ {0} /\ up.arr + up.n < n
           /\ pc \in {"first", "sync", "rest", "par"} =>
                 /\ i = loop_end /\ t1 = up.arr /\ t2 = up.arr + up.n
                 /\ t2 - t1 = up.n
                 /\ up = [arr |-> t1, n |-> t2 - t1]
<1>1. /\ n \in Nat /\ n < IDX_RANGE /\ loop_end \in Nat /\ loop_end <= n
      /\ up.arr \in Nat /\ 0 < loop_end /\ loop_end < up.arr
      /\ up.n \in Nat \ {0} /\ up.arr + up.n < n
      /\ up = [arr |-> third1(loop_end, n), n |-> third2(loop_end, n) - third1(loop_end, n)]
  BY RangeAssumption DEF TypeOK, Split, NoWrap
<1>2. third1(loop_end, n) \in Nat /\ third2(loop_end, n) \in Nat
  BY <1>1, Thirds
<1>3. up.arr = third1(loop_end, n) /\ up.n = third2(loop_end, n) - third1(loop_end, n)
  BY <1>1
<1>4. third2(loop_end, n) = up.arr + up.n
  BY <1>2, <1>3
<1>5. pc \in {"first", "sync", "rest", "par"} => i = loop_end
  BY DEF Control
<1> QED
  BY <1>1, <1>2, <1>3, <1>4, <1>5 DEF t1, t2

LEMMA SplitKept ==
    ASSUME Split, UNCHANGED <<n, loop_end, up>>, job' # "none" => job # "none"
    PROVE  Split'
BY DEF Split

\* The sweeps are not under way, or are left alone.
LEMMA SweepsKept ==
    ASSUME Sweeps, UNCHANGED <<partials, todo, live, job, up, right, sum02, reused>>,
           pc \notin {"par", "done"}, pc' # "par"
    PROVE  Sweeps'
BY DEF Sweeps

\* Nothing happens to the array before the par.
LEMMA ElementsKept ==
    ASSUME Elements, UNCHANGED <<n, arr>>, pc \notin {"par", "done"}, pc' \notin {"par", "done"},
           Place' = Place
    PROVE  Elements'
BY DEF Elements, ResultIsPrefix

-----------------------------------------------------------------------------
LEMMA InitInv == Init => Inv
<1> SUFFICES ASSUME Init PROVE Inv
  OBVIOUS
<1>1. /\ n \in 0..MAX_N /\ MAX_N \in 0..(IDX_RANGE - 1) /\ IDX_RANGE \in Nat
      /\ n \in Nat /\ n < IDX_RANGE
      /\ arr = [j \in 0..(n - 1) |-> <<j, j + 1>>]
      /\ a = <<0, 0>> /\ pc = "check" /\ i = 0 /\ sig_safe_i = 0 /\ loop_end = n
      /\ promoted = FALSE /\ up = [arr |-> 0, n |-> 0] /\ job = "none" /\ partials = <<>>
      /\ live = FALSE /\ todo = {} /\ right = "none" /\ sum02 = Wrong /\ reused = FALSE
  BY RangeAssumption DEF Init
<1>2. TypeOK
  <2>1. arr \in [0..(n - 1) -> Value] /\ a \in Value /\ sum02 \in Value
    BY <1>1 DEF Value, Wrong
  <2>2. DOMAIN partials = {}
    BY <1>1
  <2>3. up.arr = 0 /\ up.n = 0
    BY <1>1
  <2>4. i \in 0..n /\ sig_safe_i \in 0..n /\ loop_end \in 0..n
    BY <1>1
  <2>5. up.arr \in 0..n /\ up.arr + up.n \in 0..n
    BY <1>1, <2>3
  <2>6. DOMAIN partials \subseteq Index /\ \A c \in DOMAIN partials : partials[c] \in Value
    BY <2>2
  <2>7. /\ n \in 0..MAX_N /\ pc = "check" /\ promoted \in BOOLEAN /\ live \in BOOLEAN
        /\ reused \in BOOLEAN /\ job = "none" /\ todo \subseteq Index /\ right = "none"
    BY <1>1
  <2> QED
    BY <2>1, <2>4, <2>5, <2>6, <2>7 DEF TypeOK
<1>3. Control
  BY <1>1 DEF Control, Looping, Place
<1>4. Split
  BY <1>1 DEF Split
<1>5. Elements
  BY <1>1 DEF Elements, Place, ResultIsPrefix
<1>6. Sweeps
  BY <1>1 DEF Sweeps
<1> QED
  BY <1>2, <1>3, <1>4, <1>5, <1>6 DEF Inv

-----------------------------------------------------------------------------
(* The loop, and its handler.                                              *)

LEMMA CheckInv == Inv /\ Check => Inv'
<1> SUFFICES ASSUME Inv, Check PROVE Inv'
  OBVIOUS
<1> USE DEF Inv
<1>1. /\ pc = "check" /\ pc' = IF i < loop_end THEN "body" ELSE "close"
      /\ UNCHANGED <<n, arr, a, i, sig_safe_i, loop_end, promoted, up, job, partials, live,
                     todo, right, sum02, reused>>
  BY DEF Check, Goto, sweep
<1>2. Place' = Place
  BY <1>1 DEF Place
<1>3. TypeOK'
  BY <1>1 DEF TypeOK
<1>4. Control'
  <2>1. i \in Nat /\ loop_end \in Nat
    BY DEF TypeOK
  <2> QED
    BY <1>1, <1>2, <2>1 DEF Control, Looping
<1>5. Split' /\ Sweeps' /\ Elements'
  BY <1>1, <1>2, SplitKept, SweepsKept, ElementsKept
<1> QED
  BY <1>3, <1>4, <1>5

LEMMA ExecuteInv == NoWrap /\ Inv /\ Execute => Inv'
<1> SUFFICES ASSUME NoWrap, Inv, Execute PROVE Inv'
  OBVIOUS
<1> USE DEF Inv
<1>1. /\ pc = "body" /\ pc' = "store"
      /\ a' = Sum(a, arr[i]) /\ arr' = [arr EXCEPT ![i] = a']
      /\ UNCHANGED <<n, i, sig_safe_i, loop_end, promoted, up, job, partials, live,
                     todo, right, sum02, reused>>
  BY DEF Execute, Goto, sweep
<1>2. /\ i < loop_end /\ a = <<0, i>> /\ Place = i /\ Place' = i + 1
      /\ i \in 0..(n - 1) /\ n \in Nat
  BY <1>1, Facts DEF Control, Looping, Place
<1>3. arr[i] = <<i, i + 1>>
  <2>1. \A j \in 0..(n - 1) : arr[j] = IF j < i THEN <<0, j + 1>> ELSE <<j, j + 1>>
    BY <1>1, <1>2 DEF Elements
  <2>2. ~(i < i)
    BY <1>2
  <2> QED
    BY <1>2, <2>1, <2>2
<1>4. a' = <<0, i + 1>>
  BY <1>1, <1>2, <1>3, SumIs
<1>5. arr' = [j \in 0..(n - 1) |-> IF j = i THEN <<0, i + 1>> ELSE arr[j]]
  BY <1>1, <1>4, Facts
<1>6. TypeOK'
  <2>1. arr' \in [0..(n - 1) -> Value] /\ a' \in Value
    BY <1>2, <1>4, <1>5, Facts
  <2> QED
    BY <1>1, <2>1 DEF TypeOK
<1>7. Control'
  BY <1>1, <1>2, <1>4 DEF Control, Looping
<1>8. Split' /\ Sweeps'
  BY <1>1, SplitKept, SweepsKept
<1>9. Elements'
  <2>1. \A j \in 0..(n - 1) : arr[j] = IF j < i THEN <<0, j + 1>> ELSE <<j, j + 1>>
    BY <1>1, <1>2 DEF Elements
  <2>2. ASSUME NEW j \in 0..(n - 1)
        PROVE  arr'[j] = IF j < i + 1 THEN <<0, j + 1>> ELSE <<j, j + 1>>
    <3>1. arr'[j] = IF j = i THEN <<0, i + 1>> ELSE arr[j]
      BY <1>5
    <3>2. CASE j = i
      BY <1>2, <3>1, <3>2
    <3>3. CASE j # i
      <4>1. j < i + 1 <=> j < i
        BY <1>2, <3>3
      <4> QED
        BY <2>1, <3>1, <3>3, <4>1
    <3> QED
      BY <3>2, <3>3
  <2> QED
    BY <1>1, <1>2, <2>2 DEF Elements, ResultIsPrefix
<1> QED
  BY <1>6, <1>7, <1>8, <1>9

LEMMA PublishInv == NoWrap /\ Inv /\ Publish => Inv'
<1> SUFFICES ASSUME NoWrap, Inv, Publish PROVE Inv'
  OBVIOUS
<1> USE DEF Inv
<1>1. /\ pc = "store" /\ pc' = "check" /\ i' = i + 1 /\ sig_safe_i' = i'
      /\ UNCHANGED <<n, arr, a, loop_end, promoted, up, job, partials, live,
                     todo, right, sum02, reused>>
  BY DEF Publish, Goto, sweep
<1>2. i < loop_end /\ Place = i + 1 /\ Place' = i + 1 /\ i + 1 \in 0..n /\ i + 1 <= loop_end
  BY <1>1, Facts DEF Control, Looping, Place
<1>3. TypeOK'
  BY <1>1, <1>2 DEF TypeOK
<1>4. Control'
  BY <1>1, <1>2 DEF Control, Looping
<1>5. Split' /\ Sweeps' /\ Elements'
  BY <1>1, <1>2, SplitKept, SweepsKept, ElementsKept
<1> QED
  BY <1>3, <1>4, <1>5

LEMMA PromoteNothingInv == Inv /\ PromoteNothing => Inv'
<1> SUFFICES ASSUME Inv, PromoteNothing PROVE Inv'
  OBVIOUS
<1> USE DEF Inv
<1>1. /\ Looping /\ pc \notin {"par", "done"} /\ promoted' = TRUE
      /\ UNCHANGED <<n, arr, a, pc, i, sig_safe_i, loop_end, up, job, partials, live,
                     todo, right, sum02, reused>>
  BY DEF PromoteNothing, Promotable, sweep, Looping
<1>2. Place' = Place
  BY <1>1 DEF Place
<1>3. TypeOK'
  BY <1>1 DEF TypeOK
<1>4. Control'
  BY <1>1, <1>2 DEF Control, Looping
<1>5. Split' /\ Sweeps' /\ Elements'
  BY <1>1, <1>2, SplitKept, SweepsKept, ElementsKept
<1> QED
  BY <1>3, <1>4, <1>5

\* The loop has not passed the iteration that it is to stop at.
LEMMA PromoteInv == NoWrap /\ Inv /\ Promote => Inv'
<1> SUFFICES ASSUME NoWrap, Inv, Promote PROVE Inv'
  OBVIOUS
<1> USE DEF Inv
<1>1. /\ Looping /\ ~promoted /\ pc \notin {"par", "done"} /\ promoted' = TRUE
      /\ loop_end' = PromI
      /\ up' = [arr |-> third1(PromI, n), n |-> third2(PromI, n) - third1(PromI, n)]
      /\ job' = "queued"
      /\ PromI < third1(PromI, n) /\ third1(PromI, n) < third2(PromI, n)
      /\ third2(PromI, n) < n
      /\ UNCHANGED <<n, arr, a, pc, i, sig_safe_i, partials, live, todo, right, sum02, reused>>
  BY DEF Promote, Promotable, sweep, Looping, Worthwhile
<1>2. /\ i = sig_safe_i /\ job = "none" /\ ~live /\ loop_end = n /\ i \in 0..n /\ n \in Nat
      /\ n + 5 < IDX_RANGE /\ IDX_RANGE \in Nat \ {0}
  BY <1>1, Facts DEF Control
<1>3. PromI = i + 5
  <2>1. sig_safe_i + 5 \in 0..(IDX_RANGE - 1)
    BY <1>2
  <2> QED
    BY <1>2, <2>1, ModIs DEF PromI, Idx
<1> DEFINE h1 == third1(PromI, n)
           h2 == third2(PromI, n)
<1>4. h1 \in Int /\ h2 \in Int
  BY <1>2, <1>3, ModType DEF third1, third2, Idx
<1>5. /\ PromI \in Nat /\ PromI < n /\ PromI > i /\ PromI > 0 /\ PromI < h1 /\ h1 < h2 /\ h2 < n
      /\ up'.arr = h1 /\ up'.n = h2 - h1
  <2>1. PromI < h1 /\ h1 < h2 /\ h2 < n
    BY <1>1
  <2>2. up'.arr = h1 /\ up'.n = h2 - h1
    BY <1>1
  <2> HIDE DEF h1, h2
  <2> QED
    BY <1>2, <1>3, <1>4, <2>1, <2>2
<1>6. Split'
  <2>1. up' = [arr |-> third1(loop_end', n'), n |-> third2(loop_end', n') - third1(loop_end', n')]
    BY <1>1
  <2> HIDE DEF h1, h2
  <2>2. /\ 0 < loop_end' /\ loop_end' < up'.arr
        /\ up'.n \in Nat \ {0} /\ up'.arr + up'.n < n'
    BY <1>1, <1>4, <1>5
  <2> QED
    BY <2>1, <2>2 DEF Split
<1>7. Place' = Place
  BY <1>1 DEF Place, Looping
<1>8. pc # "close"
  BY <1>2, <1>3, <1>5 DEF Control
<1> HIDE DEF h1, h2
<1>9. TypeOK'
  <2>1. loop_end' \in 0..n /\ up'.arr \in 0..n /\ up'.arr + up'.n \in 0..n
    BY <1>1, <1>2, <1>4, <1>5
  <2> QED
    BY <1>1, <2>1 DEF TypeOK
<1>10. Control'
  <2>1. i <= loop_end' /\ i < loop_end'
    BY <1>1, <1>2, <1>5
  <2> QED
    BY <1>1, <1>2, <1>7, <1>8, <2>1 DEF Control, Looping
<1>11. Elements'
  BY <1>1, <1>7, ElementsKept
<1>12. Sweeps'
  BY <1>1, <1>2 DEF Sweeps, Control
<1> QED
  BY <1>6, <1>9, <1>10, <1>11, <1>12

-----------------------------------------------------------------------------
(* The job.                                                                *)

\* The chunks of the middle part, as indices.
LEMMA ChunksType ==
    ASSUME TypeOK, NoWrap, Split, job # "none"
    PROVE  /\ Chunks(up.n) \subseteq Index /\ Chunks(up.n) \subseteq Nat
           /\ \A c \in Chunks(up.n) :
                 /\ up.arr + Start(c, up.n) \in 0..n /\ up.arr + End(c, up.n) \in 0..n
                 /\ up.arr + Start(c, up.n) < up.arr + End(c, up.n)
                 /\ up.arr + End(c, up.n) <= up.arr + up.n
<1>1. /\ n \in Nat /\ n < IDX_RANGE /\ up.arr \in Nat /\ IDX_RANGE \in Nat
      /\ up.n \in Nat \ {0} /\ up.arr + up.n < n
  BY Facts DEF Split, TypeOK
<1> DEFINE last == (up.n - 1) \div scan_chunksize(up.n)
<1>2. /\ last \in 0..(up.n - 1) /\ Chunks(up.n) = 0..last
      /\ \A c \in Chunks(up.n) : /\ Start(c, up.n) \in 0..up.n /\ End(c, up.n) \in 1..up.n
                                 /\ Start(c, up.n) < End(c, up.n)
  BY <1>1, ChunksAre
<1> HIDE DEF last
<1>3. 0..last \subseteq 0..(IDX_RANGE - 1) /\ 0..last \subseteq Nat
  BY <1>1, <1>2
<1>4. ASSUME NEW c \in Chunks(up.n)
      PROVE  /\ up.arr + Start(c, up.n) \in 0..n /\ up.arr + End(c, up.n) \in 0..n
             /\ up.arr + Start(c, up.n) < up.arr + End(c, up.n)
             /\ up.arr + End(c, up.n) <= up.arr + up.n
  BY <1>1, <1>2
<1> QED
  BY <1>2, <1>3, <1>4 DEF Index

LEMMA StealInv == NoWrap /\ Inv /\ Steal => Inv'
<1> SUFFICES ASSUME NoWrap, Inv, Steal PROVE Inv'
  OBVIOUS
<1> USE DEF Inv
<1>1. /\ job = "queued" /\ job' \in {"running", "finished"}
      /\ UNCHANGED <<n, arr, a, pc, i, sig_safe_i, loop_end, promoted, up, right, sum02,
                     reused>>
  BY DEF Steal, loop
<1>2. /\ pc \notin {"rest", "par", "done"} /\ ~live /\ right = "none" /\ ~reused
      /\ promoted
  BY <1>1 DEF Control, TypeOK, Sweeps
<1>3. Place' = Place
  BY <1>1 DEF Place
<1>4. Split' /\ Elements'
  BY <1>1, <1>2, <1>3, SplitKept, ElementsKept
<1>5. \/ /\ job' = "running" /\ live' = TRUE /\ todo' = Chunks(up.n)
         /\ partials' = [c \in Chunks(up.n) |-> Wrong]
      \/ job' = "finished" /\ UNCHANGED <<partials, live, todo>>
  BY DEF Steal, sweep
<1>6. Control'
  BY <1>1, <1>2, <1>3, <1>5 DEF Control, Looping
<1>7. Sweeps'
  BY <1>1, <1>2, <1>5 DEF Sweeps
<1>8. TypeOK'
  <2>1. CASE job' = "finished" /\ UNCHANGED <<partials, live, todo>>
    BY <1>1, <2>1 DEF TypeOK
  <2>2. CASE /\ job' = "running" /\ live' = TRUE /\ todo' = Chunks(up.n)
             /\ partials' = [c \in Chunks(up.n) |-> Wrong]
    <3>1. Chunks(up.n) \subseteq Index /\ Wrong \in Value
      BY <1>1, ChunksType, Facts
    <3>2. DOMAIN partials' \subseteq Index /\ \A c \in DOMAIN partials' : partials'[c] \in Value
      BY <2>2, <3>1
    <3> QED
      BY <1>1, <2>2, <3>1, <3>2 DEF TypeOK
  <2> QED
    BY <1>5, <2>1, <2>2
<1> QED
  BY <1>4, <1>6, <1>7, <1>8

\* While the job sums the middle part nobody changes it.
LEMMA MiddleUntouched ==
    ASSUME NoWrap, Inv, job \in {"queued", "running", "finished"}
    PROVE  \A j \in up.arr..(n - 1) : arr[j] = <<j, j + 1>>
<1> USE DEF Inv
<1>1. pc \notin {"par", "rest", "done"} /\ job # "none"
  BY DEF Control
<1>2. /\ n \in Nat /\ up.arr \in Nat /\ loop_end \in Nat /\ loop_end < up.arr
  BY <1>1, Middle
<1>3. Place <= up.arr /\ Place \in Nat
  <2>1. i \in Nat
    BY <1>2 DEF TypeOK
  <2>2. CASE pc = "store"
    BY <1>2, <2>1, <2>2 DEF Control, Place
  <2>3. CASE pc = "sync"
    BY <1>2, <2>3 DEF Place
  <2>4. CASE pc \in {"check", "body", "close", "first"}
    BY <1>2, <2>1, <2>4 DEF Control, Place, Looping
  <2> QED
    BY <1>1, <2>2, <2>3, <2>4 DEF TypeOK
<1>4. \A j \in 0..(n - 1) : arr[j] = IF j < Place THEN <<0, j + 1>> ELSE <<j, j + 1>>
  BY <1>1 DEF Elements
<1>5. ASSUME NEW j \in up.arr..(n - 1) PROVE arr[j] = <<j, j + 1>>
  <2>1. j \in 0..(n - 1) /\ ~(j < Place)
    BY <1>2, <1>3
  <2> QED
    BY <1>4, <2>1
<1> QED
  BY <1>5

LEMMA SumChunkInv == NoWrap /\ Inv /\ SumChunk => Inv'
<1> SUFFICES ASSUME NoWrap, Inv, SumChunk PROVE Inv'
  OBVIOUS
<1> USE DEF Inv
<1>1. PICK c \in todo :
          /\ job = "running" /\ todo' = todo \ {c}
          /\ partials' = [partials EXCEPT ![c] =
                 Reduced(arr, up.arr + Start(c, up.n), up.arr + End(c, up.n))]
          /\ UNCHANGED <<n, arr, a, pc, i, sig_safe_i, loop_end, promoted, up, job, live,
                         right, sum02, reused>>
  BY DEF SumChunk, loop
<1>2. /\ DOMAIN partials = Chunks(up.n) /\ todo \subseteq Chunks(up.n)
      /\ pc \notin {"par", "done", "rest"} /\ right = "none" /\ ~reused
      /\ \A d \in Chunks(up.n) \ todo :
            partials[d] = <<up.arr + Start(d, up.n), up.arr + End(d, up.n)>>
  BY <1>1 DEF Sweeps, Control, TypeOK
<1> DEFINE from == up.arr + Start(c, up.n)
           to == up.arr + End(c, up.n)
<1>3. /\ from \in 0..n /\ to \in 0..n /\ from < to /\ n \in Nat /\ up.arr \in Nat
      /\ from >= up.arr /\ to <= n
  <2>1. from \in 0..n /\ to \in 0..n /\ from < to
    BY <1>1, <1>2, ChunksType
  <2>2. n \in Nat /\ up.arr \in Nat /\ up.n \in Nat \ {0}
    BY <1>1, Middle
  <2>3. Start(c, up.n) \in Nat
    BY <1>2, <2>2, ChunksAre
  <2> QED
    BY <2>1, <2>2, <2>3
<1>4. Reduced(arr, from, to) = <<from, to>>
  <2>1. \A j \in up.arr..(n - 1) : arr[j] = <<j, j + 1>>
    BY <1>1, MiddleUntouched
  <2> HIDE DEF from, to
  <2>2. \A j \in from..(to - 1) : arr[j] = <<j, j + 1>>
    BY <1>3, <2>1
  <2>3. from \in Nat /\ to \in Nat
    BY <1>3
  <2> QED
    BY <1>3, <2>2, <2>3, ReducedIs
<1>5. partials' = [d \in Chunks(up.n) |-> IF d = c THEN <<from, to>> ELSE partials[d]]
  <2> HIDE DEF from, to
  <2>1. partials' = [partials EXCEPT ![c] = <<from, to>>]
    BY <1>1, <1>4 DEF from, to
  <2> QED
    BY <1>2, <2>1
<1>6. TypeOK'
  <2>1. <<from, to>> \in Value
    BY <1>3, Facts
  <2>2. DOMAIN partials' \subseteq Index /\ \A d \in DOMAIN partials' : partials'[d] \in Value
    <3> HIDE DEF from, to
    <3> QED
      BY <1>2, <1>5, <2>1 DEF TypeOK
  <2>3. todo' \subseteq Index
    BY <1>1 DEF TypeOK
  <2> QED
    BY <1>1, <2>2, <2>3 DEF TypeOK
<1>7. Place' = Place
  BY <1>1 DEF Place
<1>8. Control'
  BY <1>1, <1>7 DEF Control, Looping
<1>9. Split' /\ Elements'
  BY <1>1, <1>2, <1>7, SplitKept, ElementsKept
<1>10. Sweeps'
  <2>1. \A d \in Chunks(up.n) \ todo' :
           partials'[d] = <<up.arr + Start(d, up.n), up.arr + End(d, up.n)>>
    BY <1>1, <1>2, <1>5
  <2>2. DOMAIN partials' = Chunks(up.n) /\ todo' \subseteq Chunks(up.n)
    BY <1>1, <1>2, <1>5
  <2> QED
    BY <1>1, <1>2, <2>1, <2>2 DEF Sweeps
<1> QED
  BY <1>6, <1>8, <1>9, <1>10

LEMMA EndUpsweepInv == NoWrap /\ Inv /\ EndUpsweep => Inv'
<1> SUFFICES ASSUME NoWrap, Inv, EndUpsweep PROVE Inv'
  OBVIOUS
<1> USE DEF Inv
<1> DEFINE count == Cardinality(Chunks(up.n))
           last == (up.n - 1) \div scan_chunksize(up.n)
           e == [d \in Nat |-> IF d \in 0..last THEN up.arr + Start(d, up.n) ELSE up.arr + up.n]
<1>1. /\ job = "running" /\ todo = {} /\ job' = "finished"
      /\ partials' = Sums(<<up.arr, up.arr>>, partials, 0, count)
      /\ UNCHANGED <<n, arr, a, pc, i, sig_safe_i, loop_end, promoted, up, live, todo,
                     right, sum02, reused>>
  BY DEF EndUpsweep, loop
<1>2. /\ DOMAIN partials = Chunks(up.n)
      /\ pc \notin {"par", "done", "rest"} /\ right = "none" /\ ~reused
      /\ \A d \in Chunks(up.n) :
            partials[d] = <<up.arr + Start(d, up.n), up.arr + End(d, up.n)>>
  BY <1>1 DEF Sweeps, Control, TypeOK
<1>3. up.n \in Nat \ {0} /\ up.arr \in Nat /\ n \in Nat /\ up.arr + up.n < n
  BY <1>1, Middle
<1>4. /\ last \in 0..(up.n - 1) /\ Chunks(up.n) = 0..last
      /\ Start(0, up.n) = 0 /\ End(last, up.n) = up.n
      /\ \A d \in Chunks(up.n) :
            /\ Start(d, up.n) \in 0..up.n /\ End(d, up.n) \in 1..up.n
            /\ d # 0 => d - 1 \in Chunks(up.n) /\ End(d - 1, up.n) = Start(d, up.n)
  BY <1>3, ChunksAre
<1>5. count = last + 1 /\ count \in Nat /\ 0 < count /\ 0..(count - 1) = 0..last
  <2> HIDE DEF last
  <2>1. Cardinality(0..last) = IF 0 > last THEN 0 ELSE last - 0 + 1
    BY <1>4, FS_Interval
  <2>2. count = Cardinality(0..last)
    BY <1>4
  <2> HIDE DEF count
  <2>3. last \in Nat /\ count = last + 1
    BY <1>4, <2>1, <2>2
  <2> QED
    BY <2>3
<1> HIDE DEF last, count
<1>6. ASSUME NEW d \in 0..last
      PROVE  e[d] = up.arr + Start(d, up.n) /\ e[d + 1] = up.arr + End(d, up.n)
             /\ e[d] \in Nat /\ e[d + 1] \in Nat
  <2>0. d \in Nat /\ Start(d, up.n) \in Nat /\ End(d, up.n) \in Nat
    BY <1>3, <1>4
  <2>1. e[d] = up.arr + Start(d, up.n) /\ e[d] \in Nat /\ up.arr + End(d, up.n) \in Nat
    BY <1>3, <2>0
  <2>2. CASE d = last
    <3>1. d + 1 \notin 0..last /\ d + 1 \in Nat
      BY <1>4, <2>2
    <3> QED
      BY <1>3, <1>4, <2>1, <2>2, <3>1
  <2>3. CASE d # last
    <3>1. d + 1 \in 0..last /\ d + 1 # 0 /\ d + 1 - 1 = d
      BY <1>4, <2>3
    <3>2. \A f \in 0..last : f # 0 => End(f - 1, up.n) = Start(f, up.n)
      BY <1>4
    <3>3. End(d + 1 - 1, up.n) = Start(d + 1, up.n)
      <4> DEFINE f == d + 1
      <4>1. f \in 0..last /\ f # 0
        BY <3>1
      <4> HIDE DEF f
      <4>2. End(f - 1, up.n) = Start(f, up.n)
        BY <3>2, <4>1
      <4> QED
        BY <4>2 DEF f
    <3> QED
      BY <2>1, <3>1, <3>3
  <2> QED
    BY <2>2, <2>3
<1>7. e[0] = up.arr
  <2>1. 0 \in 0..last
    BY <1>4
  <2> QED
    BY <1>3, <1>4, <1>6, <2>1
<1> HIDE DEF e
<1>8. Adjacent(partials, e, 0, count)
  <2>1. ASSUME NEW d \in 0..count PROVE e[d] \in Nat
    <3>1. CASE d = 0
      BY <1>3, <1>7, <3>1
    <3>2. CASE d # 0
      <4>1. d - 1 \in 0..last /\ d - 1 + 1 = d
        BY <1>4, <1>5, <3>2
      <4> QED
        BY <1>6, <4>1
    <3> QED
      BY <3>1, <3>2
  <2>2. \A d \in 0..(count - 1) : partials[d] = <<e[d], e[d + 1]>>
    BY <1>2, <1>4, <1>5, <1>6
  <2> QED
    BY <2>1, <2>2 DEF Adjacent
<1>9. AllFrom(partials', up.arr, e, 0, count)
  <2>1. <<up.arr, up.arr>> = <<up.arr, e[0]>> /\ 0 \in Nat
    BY <1>7
  <2>2. AllFrom(Sums(<<up.arr, up.arr>>, partials, 0, count), up.arr, e, 0, count)
    BY <1>3, <1>5, <1>8, <2>1, SumsAre
  <2> QED
    BY <1>1, <2>2
<1>10. /\ DOMAIN partials' = Chunks(up.n)
       /\ \A d \in Chunks(up.n) : partials'[d] = <<up.arr, up.arr + End(d, up.n)>>
  BY <1>4, <1>5, <1>6, <1>9 DEF AllFrom
<1>11. TypeOK'
  <2>1. up.arr \in 0..n
    BY <1>3
  <2>2. \A d \in Chunks(up.n) : up.arr + End(d, up.n) \in 0..n
    BY <1>1, ChunksType
  <2>3. \A d \in DOMAIN partials' : partials'[d] \in Value
    BY <1>10, <2>1, <2>2, Facts
  <2>4. DOMAIN partials' \subseteq Index
    BY <1>1, <1>10, ChunksType
  <2> QED
    BY <1>1, <2>3, <2>4 DEF TypeOK
<1>12. Place' = Place
  BY <1>1 DEF Place
<1>13. Control'
  BY <1>1, <1>2, <1>12 DEF Control, Looping
<1>14. Split' /\ Elements'
  BY <1>1, <1>2, <1>12, SplitKept, ElementsKept
<1>15. Sweeps'
  BY <1>1, <1>2, <1>10 DEF Sweeps
<1> QED
  BY <1>11, <1>13, <1>14, <1>15

-----------------------------------------------------------------------------
(* The join.                                                               *)

LEMMA CloseInv == NoWrap /\ Inv /\ Close => Inv'
<1> SUFFICES ASSUME NoWrap, Inv, Close PROVE Inv'
  OBVIOUS
<1> USE DEF Inv
<1>1. /\ pc = "close" /\ pc' = IF promoted /\ i # n THEN "first" ELSE "done"
      /\ UNCHANGED <<n, arr, a, i, sig_safe_i, loop_end, promoted, up, job, partials, live,
                     todo, right, sum02, reused>>
  BY DEF Close, Goto, sweep
<1>2. /\ i = loop_end /\ right = "none" /\ ~reused /\ Place = i /\ n \in Nat
      /\ i \in 0..n /\ job # "joined"
  BY <1>1, Facts DEF Control, Looping, Place, Sweeps
<1>3. TypeOK' /\ Split' /\ Sweeps'
  BY <1>1, <1>2, SplitKept, SweepsKept DEF TypeOK
<1>4. CASE promoted /\ i # n
  <2>1. pc' = "first" /\ Place' = Place /\ job # "none"
    BY <1>1, <1>2, <1>4 DEF Place, Control
  <2>2. Control'
    BY <1>1, <1>2, <2>1 DEF Control, Looping
  <2>3. Elements'
    BY <1>1, <2>1, ElementsKept
  <2> QED
    BY <1>3, <2>2, <2>3
<1>5. CASE ~(promoted /\ i # n)
  <2>1. pc' = "done"
    BY <1>1, <1>5
  <2>2. i = n /\ job = "none"
    <3>1. CASE i = n
      <4>1. ~(loop_end < n)
        BY <1>2, <3>1
      <4>2. job # "none" => up.arr \in Nat /\ loop_end < n
        <5> SUFFICES ASSUME job # "none" PROVE up.arr \in Nat /\ loop_end < n
          OBVIOUS
        <5>1. /\ loop_end \in Nat /\ up.arr \in Nat /\ up.n \in Nat \ {0} /\ loop_end < up.arr
              /\ up.arr + up.n < n
          BY Middle
        <5> QED
          BY <1>2, <5>1
      <4> QED
        BY <3>1, <4>1, <4>2
    <3>2. CASE ~promoted
      BY <1>2, <3>2 DEF Control
    <3> QED
      BY <1>5, <3>1, <3>2
  <2>3. Control'
    BY <1>1, <1>2, <2>1, <2>2 DEF Control, Looping
  <2>4. \A j \in 0..(n - 1) : arr[j] = <<0, j + 1>>
    <3>1. \A j \in 0..(n - 1) : arr[j] = IF j < n THEN <<0, j + 1>> ELSE <<j, j + 1>>
      BY <1>1, <1>2, <2>2 DEF Elements
    <3>2. \A j \in 0..(n - 1) : j < n
      BY <1>2
    <3> QED
      BY <3>1, <3>2
  <2>5. DOMAIN arr = 0..(n - 1)
    BY Facts
  <2>6. Elements'
    BY <1>1, <2>1, <2>4, <2>5 DEF Elements, ResultIsPrefix
  <2> QED
    BY <1>3, <2>3, <2>6
<1> QED
  BY <1>4, <1>5

\* What the array is before the join, or after the first part of it.
LEMMA Before ==
    ASSUME NoWrap, Inv, pc \in {"first", "sync", "rest"}
    PROVE  /\ Place \in Nat /\ 0 < Place /\ Place < n
           /\ arr[Place - 1] = <<0, Place>>
           /\ \A j \in 0..(n - 1) : arr[j] = IF j < Place THEN <<0, j + 1>> ELSE <<j, j + 1>>
           /\ \A j \in Place..(n - 1) : arr[j] = <<j, j + 1>>
<1> USE DEF Inv
<1>1. job # "none" /\ pc \notin {"par", "done"}
  BY DEF Control
<1>2. /\ n \in Nat /\ loop_end \in Nat /\ up.arr \in Nat /\ 0 < loop_end /\ loop_end < up.arr
      /\ up.n \in Nat \ {0} /\ up.arr + up.n < n /\ i = loop_end
  BY <1>1, Middle
<1>3. Place \in Nat /\ 0 < Place /\ Place < n
  BY <1>2 DEF Place
<1>4. \A j \in 0..(n - 1) : arr[j] = IF j < Place THEN <<0, j + 1>> ELSE <<j, j + 1>>
  BY <1>1 DEF Elements
<1> HIDE DEF Inv
<1>5. Place - 1 \in 0..(n - 1) /\ Place - 1 < Place /\ Place - 1 + 1 = Place
  BY <1>2, <1>3
<1>6. arr[Place - 1] = <<0, Place>>
  BY <1>4, <1>5
<1>7. \A j \in Place..(n - 1) : j \in 0..(n - 1) /\ ~(j < Place)
  BY <1>2, <1>3
<1> QED
  BY <1>3, <1>4, <1>6, <1>7

LEMMA ScanFirstInv == NoWrap /\ Inv /\ ScanFirst => Inv'
<1> SUFFICES ASSUME NoWrap, Inv, ScanFirst PROVE Inv'
  OBVIOUS
<1> USE DEF Inv
<1>1. /\ pc = "first" /\ pc' = "sync"
      /\ arr' = Scanned(arr[i - 1], arr, i, t1)
      /\ UNCHANGED <<n, a, i, sig_safe_i, loop_end, promoted, up, job, partials, live,
                     todo, right, sum02, reused>>
  BY DEF ScanFirst, Goto, sweep
<1>2. /\ job # "none" /\ Place = i /\ Place' = up.arr
  BY <1>1 DEF Control, Place
<1>3. /\ n \in Nat /\ i \in Nat /\ up.arr \in Nat /\ 0 < i /\ i < up.arr
      /\ up.arr \in 0..n /\ t1 = up.arr /\ i = loop_end
  BY <1>1, <1>2, Middle
<1>4. /\ arr[i - 1] = <<0, i>>
      /\ \A j \in 0..(n - 1) : arr[j] = IF j < i THEN <<0, j + 1>> ELSE <<j, j + 1>>
      /\ \A j \in i..(n - 1) : arr[j] = <<j, j + 1>>
  BY <1>1, <1>2, Before
<1>5. arr' = [j \in 0..(n - 1) |-> IF j \in i..(up.arr - 1) THEN <<0, j + 1>> ELSE arr[j]]
  <2>1. Untouched(arr, i, up.arr)
    BY <1>3, <1>4 DEF Untouched
  <2>2. Prefixed(Scanned(<<0, i>>, arr, i, up.arr), arr, i, up.arr)
    BY <1>3, <2>1, ScannedIs
  <2> QED
    BY <1>1, <1>3, <1>4, <2>2, Facts DEF Prefixed
<1>6. \A j \in 0..(n - 1) : arr'[j] = IF j < up.arr THEN <<0, j + 1>> ELSE <<j, j + 1>>
  <2> SUFFICES ASSUME NEW j \in 0..(n - 1)
               PROVE  arr'[j] = IF j < up.arr THEN <<0, j + 1>> ELSE <<j, j + 1>>
    OBVIOUS
  <2>1. CASE j \in i..(up.arr - 1)
    BY <1>3, <1>5, <2>1
  <2>2. CASE j \notin i..(up.arr - 1)
    <3>1. arr'[j] = arr[j] /\ (j < i <=> j < up.arr)
      BY <1>3, <1>5, <2>2
    <3> QED
      BY <1>4, <3>1
  <2> QED
    BY <2>1, <2>2
<1>7. TypeOK'
  <2>1. arr' \in [0..(n - 1) -> Value]
    BY <1>5, Facts
  <2> QED
    BY <1>1, <2>1 DEF TypeOK
<1>8. Control'
  BY <1>1 DEF Control, Looping
<1>9. Split' /\ Sweeps'
  BY <1>1, SplitKept, SweepsKept
<1>10. Elements'
  BY <1>1, <1>2, <1>6 DEF Elements, ResultIsPrefix
<1> QED
  BY <1>7, <1>8, <1>9, <1>10

LEMMA SyncUnstolenInv == NoWrap /\ Inv /\ (SyncUnstolen \/ SyncNull) => Inv'
<1> SUFFICES ASSUME NoWrap, Inv, SyncUnstolen \/ SyncNull PROVE Inv'
  OBVIOUS
<1> USE DEF Inv
<1>1. /\ pc = "sync" /\ pc' = "rest" /\ job' = "joined"
      /\ job = "queued" \/ (job = "finished" /\ ~live)
      /\ UNCHANGED <<n, arr, a, i, sig_safe_i, loop_end, promoted, up, partials, live,
                     todo, right, sum02, reused>>
  BY DEF SyncUnstolen, SyncNull, Goto, sweep
<1>2. ~live /\ right = "none" /\ ~reused /\ promoted
  BY <1>1 DEF Control, Sweeps, TypeOK
<1>3. Place' = Place
  BY <1>1 DEF Place
<1>4. TypeOK'
  BY <1>1 DEF TypeOK
<1>5. Control'
  BY <1>1, <1>2 DEF Control, Looping
<1>6. Split' /\ Elements'
  BY <1>1, <1>3, SplitKept, ElementsKept
<1>7. Sweeps'
  BY <1>1, <1>2 DEF Sweeps
<1> QED
  BY <1>4, <1>5, <1>6, <1>7

\* The chunks of the downsweep are those of the upsweep.
LEMMA SyncStolenInv == NoWrap /\ Inv /\ SyncStolen => Inv'
<1> SUFFICES ASSUME NoWrap, Inv, SyncStolen PROVE Inv'
  OBVIOUS
<1> USE DEF Inv
<1>1. /\ pc = "sync" /\ pc' = "par" /\ job = "finished" /\ live /\ job' = "joined"
      /\ todo' = Chunks(t2 - t1) /\ right' = "read"
      /\ UNCHANGED <<n, arr, a, i, sig_safe_i, loop_end, promoted, up, partials, live,
                     sum02, reused>>
  BY DEF SyncStolen, Goto
<1>2. ~reused /\ promoted /\ i = loop_end /\ Place = up.arr
  BY <1>1 DEF Control, Sweeps, TypeOK, Place
<1>3. /\ n \in Nat /\ up.arr \in Nat /\ up.n \in Nat \ {0} /\ up.arr + up.n < n
      /\ t2 - t1 = up.n
  BY <1>1, Middle
<1>4. todo' = Chunks(up.n)
  BY <1>1, <1>3
<1>5. TypeOK'
  <2>1. todo' \subseteq Index
    BY <1>1, <1>4, ChunksType
  <2> QED
    BY <1>1, <2>1 DEF TypeOK
<1>6. Control'
  BY <1>1, <1>2 DEF Control, Looping
<1>7. Split'
  BY <1>1, SplitKept
<1>8. Sweeps'
  BY <1>1, <1>2, <1>4 DEF Sweeps
<1>9. Elements'
  <2>1. \A j \in 0..(n - 1) : arr[j] = IF j < up.arr THEN <<0, j + 1>> ELSE <<j, j + 1>>
    BY <1>1, <1>2, Before
  <2>2. \A j \in 0..(up.arr - 1) : arr[j] = <<0, j + 1>>
    <3>1. \A j \in 0..(up.arr - 1) : j \in 0..(n - 1) /\ j < up.arr
      BY <1>3
    <3> QED
      BY <2>1, <3>1
  <2>3. \A j \in up.arr..(n - 1) : arr[j] = <<j, j + 1>>
    BY <1>1, <1>2, Before
  <2>4. ASSUME NEW j \in up.arr..(up.arr + up.n - 1)
        PROVE  ChunkOf(j) \in todo' /\ arr[j] = <<j, j + 1>>
    <3>1. j - up.arr \in 0..(up.n - 1) /\ j \in up.arr..(n - 1)
      BY <1>3
    <3>2. 0 \in Chunks(up.n)
      BY <1>3, ChunksAre
    <3>3. ChunkOf(j) \in Chunks(up.n)
      BY <1>3, <3>1, <3>2, InChunk DEF ChunkOf
    <3> QED
      BY <1>4, <2>3, <3>1, <3>3
  <2>5. \A j \in (up.arr + up.n)..(n - 1) : arr[j] = <<j, j + 1>>
    BY <1>3, <2>3
  <2>6. \A j : ChunkOf(j)' = ChunkOf(j)
    BY <1>1 DEF ChunkOf
  <2>7. \A j \in up.arr..(up.arr + up.n - 1) :
            arr'[j] = IF ChunkOf(j)' \in todo' THEN <<j, j + 1>> ELSE <<0, j + 1>>
    BY <1>1, <2>4, <2>6
  <2> QED
    BY <1>1, <2>2, <2>5, <2>7 DEF Elements, ResultIsPrefix
<1> QED
  BY <1>5, <1>6, <1>7, <1>8, <1>9

LEMMA ScanRestInv == NoWrap /\ Inv /\ ScanRest => Inv'
<1> SUFFICES ASSUME NoWrap, Inv, ScanRest PROVE Inv'
  OBVIOUS
<1> USE DEF Inv
<1>1. /\ pc = "rest" /\ pc' = "done"
      /\ arr' = Scanned(arr[t1 - 1], arr, t1, n)
      /\ UNCHANGED <<n, a, i, sig_safe_i, loop_end, promoted, up, job, partials, live,
                     todo, right, sum02, reused>>
  BY DEF ScanRest, Goto, sweep
<1>2. /\ job = "joined" /\ ~live /\ right = "none" /\ Place = up.arr /\ ~reused /\ promoted
  BY <1>1 DEF Control, Place, Sweeps, TypeOK
<1>3. /\ n \in Nat /\ up.arr \in Nat /\ up.arr < n /\ t1 = up.arr
  BY <1>1, <1>2, Middle
<1>4. /\ arr[up.arr - 1] = <<0, up.arr>>
      /\ \A j \in 0..(n - 1) : arr[j] = IF j < up.arr THEN <<0, j + 1>> ELSE <<j, j + 1>>
      /\ \A j \in up.arr..(n - 1) : arr[j] = <<j, j + 1>>
  BY <1>1, <1>2, Before
<1>5. arr' = [j \in 0..(n - 1) |-> IF j \in up.arr..(n - 1) THEN <<0, j + 1>> ELSE arr[j]]
  <2>1. Untouched(arr, up.arr, n)
    BY <1>4 DEF Untouched
  <2>2. Prefixed(Scanned(<<0, up.arr>>, arr, up.arr, n), arr, up.arr, n)
    BY <1>3, <2>1, ScannedIs
  <2> QED
    BY <1>1, <1>3, <1>4, <2>2, Facts DEF Prefixed
<1>6. ASSUME NEW j \in 0..(n - 1) PROVE arr'[j] = <<0, j + 1>>
  <2>1. CASE j \in up.arr..(n - 1)
    BY <1>5, <2>1
  <2>2. CASE j \notin up.arr..(n - 1)
    <3>1. j < up.arr
      BY <1>3, <2>2
    <3> QED
      BY <1>4, <1>5, <2>2, <3>1
  <2> QED
    BY <2>1, <2>2
<1>7. TypeOK'
  <2>1. arr' \in [0..(n - 1) -> Value]
    BY <1>5, Facts
  <2> QED
    BY <1>1, <2>1 DEF TypeOK
<1>8. Control'
  BY <1>1, <1>2 DEF Control, Looping
<1>9. Split'
  BY <1>1, SplitKept
<1>10. Sweeps'
  BY <1>1, <1>2, SweepsKept
<1>11. Elements'
  <2>1. DOMAIN arr' = 0..(n - 1)
    BY <1>5
  <2> QED
    BY <1>1, <1>6, <2>1 DEF Elements, ResultIsPrefix
<1> QED
  BY <1>7, <1>8, <1>9, <1>10, <1>11

-----------------------------------------------------------------------------
(* The two branches of the par.                                            *)

LEMMA ParFacts ==
    ASSUME NoWrap, Inv, pc = "par"
    PROVE  /\ job = "joined" /\ job # "none" /\ right \in {"read", "scan", "done"}
           /\ n \in Nat /\ up.arr \in Nat /\ up.n \in Nat \ {0} /\ up.arr + up.n < n
           /\ t1 = up.arr /\ t2 = up.arr + up.n /\ t2 - t1 = up.n
           /\ arr[t1 - 1] = <<0, up.arr>>
           /\ todo \subseteq Chunks(up.n) /\ DOMAIN partials = Chunks(up.n)
           /\ ~reused => \A c \in Chunks(up.n) : partials[c] = <<up.arr, up.arr + End(c, up.n)>>
           /\ ~live => todo = {}
           /\ \A j \in 0..(up.arr - 1) : arr[j] = <<0, j + 1>>
           /\ \A j \in up.arr..(up.arr + up.n - 1) :
                 arr[j] = IF ChunkOf(j) \in todo THEN <<j, j + 1>> ELSE <<0, j + 1>>
           /\ \A j \in (up.arr + up.n)..(n - 1) :
                 IF right # "done" THEN arr[j] = <<j, j + 1>>
                 ELSE ~reused => arr[j] = <<0, j + 1>>
<1> USE DEF Inv
<1>1. /\ job = "joined" /\ right \in {"read", "scan", "done"}
  BY DEF Control, TypeOK
<1>2. /\ n \in Nat /\ up.arr \in Nat /\ up.n \in Nat \ {0} /\ up.arr + up.n < n
      /\ loop_end \in Nat /\ loop_end < up.arr
      /\ t1 = up.arr /\ t2 = up.arr + up.n /\ t2 - t1 = up.n
  BY <1>1, Middle
<1>3. /\ \A j \in 0..(up.arr - 1) : arr[j] = <<0, j + 1>>
      /\ \A j \in up.arr..(up.arr + up.n - 1) :
            arr[j] = IF ChunkOf(j) \in todo THEN <<j, j + 1>> ELSE <<0, j + 1>>
      /\ \A j \in (up.arr + up.n)..(n - 1) :
            IF right # "done" THEN arr[j] = <<j, j + 1>>
            ELSE ~reused => arr[j] = <<0, j + 1>>
  BY DEF Elements
<1>4. arr[t1 - 1] = <<0, up.arr>>
  <2>1. up.arr - 1 \in 0..(up.arr - 1) /\ up.arr - 1 + 1 = up.arr
    BY <1>2
  <2> QED
    BY <1>2, <1>3, <2>1
<1>5. /\ todo \subseteq Chunks(up.n) /\ DOMAIN partials = Chunks(up.n)
      /\ ~reused => \A c \in Chunks(up.n) : partials[c] = <<up.arr, up.arr + End(c, up.n)>>
      /\ ~live => todo = {}
  BY DEF Sweeps
<1> QED
  BY <1>1, <1>2, <1>3, <1>4, <1>5

LEMMA ScanChunkInv == NoWrap /\ Inv /\ ScanChunk => Inv'
<1> SUFFICES ASSUME NoWrap, Inv, ScanChunk PROVE Inv'
  OBVIOUS
<1>1. pc = "par" /\ UNCHANGED <<n, a, pc, i, sig_safe_i, loop_end, promoted, up, job, partials,
                                live, right, sum02, reused>>
  BY DEF ScanChunk, loop
<1>2. PICK c \in todo :
        LET pfx == IF c = 0 THEN arr[t1 - 1] ELSE Sum(arr[t1 - 1], partials[c - 1])
        IN  /\ todo' = todo \ {c}
            /\ arr' = Scanned(pfx, arr, t1 + Start(c, t2 - t1), t1 + End(c, t2 - t1))
  BY DEF ScanChunk
<1>3. /\ job = "joined" /\ job # "none" /\ right \in {"read", "scan", "done"}
      /\ n \in Nat /\ up.arr \in Nat /\ up.n \in Nat \ {0} /\ up.arr + up.n < n
      /\ t1 = up.arr /\ t2 = up.arr + up.n /\ t2 - t1 = up.n
      /\ arr[t1 - 1] = <<0, up.arr>>
      /\ todo \subseteq Chunks(up.n) /\ DOMAIN partials = Chunks(up.n)
      /\ ~reused => \A d \in Chunks(up.n) : partials[d] = <<up.arr, up.arr + End(d, up.n)>>
      /\ ~live => todo = {}
      /\ \A j \in 0..(up.arr - 1) : arr[j] = <<0, j + 1>>
      /\ \A j \in up.arr..(up.arr + up.n - 1) :
            arr[j] = IF ChunkOf(j) \in todo THEN <<j, j + 1>> ELSE <<0, j + 1>>
      /\ \A j \in (up.arr + up.n)..(n - 1) :
            IF right # "done" THEN arr[j] = <<j, j + 1>>
            ELSE ~reused => arr[j] = <<0, j + 1>>
  BY <1>1, ParFacts
<1> USE DEF Inv
<1>4. live /\ ~reused
  BY <1>1, <1>2, <1>3 DEF Sweeps
<1> DEFINE from == up.arr + Start(c, up.n)
           to == up.arr + End(c, up.n)
<1>5. /\ Start(c, up.n) \in Nat /\ End(c, up.n) \in Nat /\ Start(c, up.n) < End(c, up.n)
      /\ End(c, up.n) <= up.n
      /\ c # 0 => c - 1 \in Chunks(up.n) /\ End(c - 1, up.n) = Start(c, up.n)
      /\ c = 0 => Start(c, up.n) = 0
  <2>1. c \in Chunks(up.n)
    BY <1>3
  <2>2. /\ Start(0, up.n) = 0
        /\ \A d \in Chunks(up.n) :
              /\ Start(d, up.n) \in 0..up.n /\ End(d, up.n) \in 1..up.n
              /\ Start(d, up.n) < End(d, up.n)
              /\ d # 0 => d - 1 \in Chunks(up.n) /\ End(d - 1, up.n) = Start(d, up.n)
    BY <1>3, ChunksAre
  <2>3. /\ Start(c, up.n) \in 0..up.n /\ End(c, up.n) \in 1..up.n
        /\ Start(c, up.n) < End(c, up.n)
        /\ c # 0 => c - 1 \in Chunks(up.n) /\ End(c - 1, up.n) = Start(c, up.n)
    BY <2>1, <2>2
  <2> QED
    BY <1>3, <2>2, <2>3
<1>6. /\ from \in Nat /\ to \in Nat /\ from < to /\ up.arr <= from /\ to <= up.arr + up.n
  BY <1>3, <1>5
\* The sums of the chunks before make the chunk begin where they end.
<1>7. (IF c = 0 THEN arr[t1 - 1] ELSE Sum(arr[t1 - 1], partials[c - 1])) = <<0, from>>
  <2>1. CASE c = 0
    BY <1>3, <1>5, <2>1
  <2>2. CASE c # 0
    <3>1. partials[c - 1] = <<up.arr, up.arr + End(c - 1, up.n)>>
      BY <1>3, <1>4, <1>5, <2>2
    <3>2. partials[c - 1] = <<up.arr, from>>
      BY <1>5, <2>2, <3>1
    <3>3. Sum(<<0, up.arr>>, <<up.arr, from>>) = <<0, from>>
      <4> HIDE DEF from
      <4> QED
        BY <1>3, <1>6, SumIs
    <3> QED
      BY <1>3, <2>2, <3>2, <3>3
  <2> QED
    BY <2>1, <2>2
<1>8. arr' = Scanned(<<0, from>>, arr, from, to)
  BY <1>2, <1>3, <1>7
<1> HIDE DEF from, to
\* Which elements are the chunk's.
<1>9. \A j \in up.arr..(up.arr + up.n - 1) : j \in from..(to - 1) <=> ChunkOf(j) = c
  <2> SUFFICES ASSUME NEW j \in up.arr..(up.arr + up.n - 1)
               PROVE  j \in from..(to - 1) <=> ChunkOf(j) = c
    OBVIOUS
  <2>1. j - up.arr \in 0..(up.n - 1) /\ c \in Chunks(up.n)
    BY <1>3
  <2>2. j - up.arr \in Start(c, up.n)..(End(c, up.n) - 1) <=> ChunkOf(j) = c
    BY <1>3, <2>1, InChunk DEF ChunkOf
  <2>3. j \in from..(to - 1) <=> j - up.arr \in Start(c, up.n)..(End(c, up.n) - 1)
    BY <1>3, <1>5 DEF from, to
  <2> QED
    BY <2>2, <2>3
<1>10. arr' = [j \in 0..(n - 1) |-> IF j \in from..(to - 1) THEN <<0, j + 1>> ELSE arr[j]]
  <2>1. Untouched(arr, from, to)
    <3> SUFFICES ASSUME NEW j \in from..(to - 1) PROVE arr[j] = <<j, j + 1>>
      BY DEF Untouched
    <3>1. j \in up.arr..(up.arr + up.n - 1)
      BY <1>3, <1>6
    <3> QED
      BY <1>3, <1>9, <3>1
  <2>2. Prefixed(Scanned(<<0, from>>, arr, from, to), arr, from, to)
    BY <1>6, <2>1, ScannedIs
  <2> QED
    BY <1>8, <2>2, Facts DEF Prefixed
<1>11. TypeOK'
  <2>1. arr' \in [0..(n - 1) -> Value]
    BY <1>10, Facts
  <2> QED
    BY <1>1, <1>2, <2>1 DEF TypeOK
<1>12. Control'
  BY <1>1 DEF Control, Looping
<1>13. Split'
  BY <1>1, SplitKept
<1>14. Sweeps'
  <2>1. job' = "joined" /\ live' /\ ~reused' /\ todo' \subseteq Chunks(up'.n)
    BY <1>1, <1>2, <1>3, <1>4
  <2>2. DOMAIN partials' = Chunks(up'.n)
    BY <1>1, <1>3
  <2>3. \A d \in Chunks(up'.n) : partials'[d] = <<up'.arr, up'.arr + End(d, up'.n)>>
    BY <1>1, <1>3, <1>4
  <2>4. right' = "scan" => sum02' = <<0, up'.arr + up'.n>>
    BY <1>1, <1>4 DEF Sweeps
  <2> QED
    BY <2>1, <2>2, <2>3, <2>4 DEF Sweeps
<1>15. Elements'
  <2>1. \A j : ChunkOf(j)' = ChunkOf(j)
    BY <1>1 DEF ChunkOf
  <2>2. ASSUME NEW j \in 0..(up.arr - 1) PROVE arr'[j] = <<0, j + 1>>
    <3>1. j \in 0..(n - 1) /\ j \notin from..(to - 1)
      BY <1>3, <1>6
    <3> QED
      BY <1>3, <1>10, <3>1
  <2>3. ASSUME NEW j \in up.arr..(up.arr + up.n - 1)
        PROVE  arr'[j] = IF ChunkOf(j) \in todo' THEN <<j, j + 1>> ELSE <<0, j + 1>>
    <3>1. j \in 0..(n - 1)
      BY <1>3
    <3> QED
      BY <1>2, <1>3, <1>9, <1>10, <3>1
  <2>4. ASSUME NEW j \in (up.arr + up.n)..(n - 1)
        PROVE  arr'[j] = arr[j]
    <3>1. j \in 0..(n - 1) /\ j \notin from..(to - 1)
      BY <1>3, <1>6
    <3> QED
      BY <1>10, <3>1
  <2> QED
    BY <1>1, <1>3, <2>1, <2>2, <2>3, <2>4 DEF Elements, ResultIsPrefix
<1> QED
  BY <1>11, <1>12, <1>13, <1>14, <1>15

\* Steps of the par that leave the array and what is to be swept alone.
LEMMA ElementsInPar ==
    ASSUME Elements, pc = "par", pc' = "par", UNCHANGED <<n, arr, up, todo>>,
           right # "done", right' # "done"
    PROVE  Elements'
<1>1. \A j : ChunkOf(j)' = ChunkOf(j)
  BY DEF ChunkOf
<1> QED
  BY <1>1 DEF Elements, ResultIsPrefix

LEMMA FreePartialsInv == NoWrap /\ Inv /\ FreePartials => Inv'
<1> SUFFICES ASSUME NoWrap, Inv, FreePartials PROVE Inv'
  OBVIOUS
<1> USE DEF Inv
<1>1. /\ pc = "par" /\ todo = {} /\ live /\ live' = FALSE
      /\ UNCHANGED <<n, arr, a, pc, i, sig_safe_i, loop_end, promoted, up, job, partials, todo,
                     right, sum02, reused>>
  BY DEF FreePartials, loop
<1>2. TypeOK'
  BY <1>1 DEF TypeOK
<1>3. job = "joined"
  BY <1>1 DEF Control
<1>4. Control'
  BY <1>1, <1>3 DEF Control, Looping
<1>5. Split' /\ Sweeps'
  BY <1>1, SplitKept DEF Sweeps
<1>6. Elements'
  <2>1. \A j : ChunkOf(j)' = ChunkOf(j)
    BY <1>1 DEF ChunkOf
  <2> QED
    BY <1>1, <2>1 DEF Elements, ResultIsPrefix
<1> QED
  BY <1>2, <1>4, <1>5, <1>6

LEMMA ReuseInv == NoWrap /\ Inv /\ Reuse => Inv'
<1> SUFFICES ASSUME NoWrap, Inv, Reuse PROVE Inv'
  OBVIOUS
<1> USE DEF Inv
<1>1. /\ right = "read" /\ ~live /\ ~reused /\ reused' = TRUE
      /\ partials' = [c \in DOMAIN partials |-> Wrong]
      /\ UNCHANGED <<n, arr, a, pc, i, sig_safe_i, loop_end, promoted, up, job, live, todo,
                     right, sum02>>
  BY DEF Reuse, loop
<1>2. pc \in {"par", "done"}
  BY <1>1 DEF Control, TypeOK
<1>3. CASE pc = "done"
  <2>1. TypeOK'
    BY <1>1, Facts DEF TypeOK
  <2>2. Control'
    BY <1>1, <1>3 DEF Control, Looping, Place
  <2>3. Split'
    BY <1>1, SplitKept
  <2>4. Sweeps'
    BY <1>1, <1>3 DEF Sweeps, Control
  <2>5. Elements'
    BY <1>1, <1>3 DEF Elements, ResultIsPrefix
  <2> QED
    BY <2>1, <2>2, <2>3, <2>4, <2>5
<1>4. CASE pc = "par"
  <2>1. TypeOK'
    BY <1>1, Facts DEF TypeOK
  <2>2. job = "joined"
    BY <1>4 DEF Control
  <2>3. Control'
    BY <1>1, <1>4, <2>2 DEF Control, Looping
  <2>4. Split'
    BY <1>1, SplitKept
  <2>5. Sweeps'
    BY <1>1, <1>4, <2>2 DEF Sweeps
  <2>6. Elements'
    BY <1>1, <1>4, ElementsInPar
  <2> QED
    BY <2>1, <2>3, <2>4, <2>5, <2>6
<1> QED
  BY <1>2, <1>3, <1>4

LEMMA ReadPartialsInv == NoWrap /\ Inv /\ ReadPartials => Inv'
<1> SUFFICES ASSUME NoWrap, Inv, ReadPartials PROVE Inv'
  OBVIOUS
<1>1. /\ pc = "par" /\ right = "read" /\ right' = "scan"
      /\ sum02' = Sum(arr[t1 - 1], partials[(t2 - t1 - 1) \div scan_chunksize(t2 - t1)])
      /\ UNCHANGED <<n, arr, a, pc, i, sig_safe_i, loop_end, promoted, up, job, partials, live,
                     todo, reused>>
  BY DEF ReadPartials, loop, sweep
<1> DEFINE last == (up.n - 1) \div scan_chunksize(up.n)
<1>2. /\ job = "joined" /\ job # "none"
      /\ n \in Nat /\ up.arr \in Nat /\ up.n \in Nat \ {0} /\ up.arr + up.n < n
      /\ t1 = up.arr /\ t2 - t1 = up.n
      /\ arr[t1 - 1] = <<0, up.arr>>
      /\ DOMAIN partials = Chunks(up.n)
      /\ ~reused => \A c \in Chunks(up.n) : partials[c] = <<up.arr, up.arr + End(c, up.n)>>
  BY <1>1, ParFacts
<1>3. last \in Chunks(up.n) /\ End(last, up.n) = up.n
  <2>1. last \in 0..(up.n - 1) /\ Chunks(up.n) = 0..last /\ End(last, up.n) = up.n
    BY <1>2, ChunksAre
  <2> HIDE DEF last
  <2>2. last \in 0..last
    BY <1>2, <2>1
  <2> QED
    BY <2>1, <2>2
<1>4. sum02' = Sum(<<0, up.arr>>, partials[last])
  BY <1>1, <1>2
<1> HIDE DEF last
<1> USE DEF Inv
\* What it reads is right, or is somebody else's.
<1>5. /\ sum02' \in {Wrong, <<0, up.arr + up.n>>}
      /\ ~reused => sum02' = <<0, up.arr + up.n>>
  <2>1. CASE ~reused
    <3>1. partials[last] = <<up.arr, up.arr + up.n>>
      BY <1>2, <1>3, <2>1
    <3>2. Sum(<<0, up.arr>>, <<up.arr, up.arr + up.n>>) = <<0, up.arr + up.n>>
      BY <1>2, SumIs
    <3> QED
      BY <1>4, <3>1, <3>2
  <2>2. CASE reused
    <3>1. partials[last] = Wrong
      BY <1>1, <1>3, <2>2 DEF Sweeps
    <3> QED
      BY <1>4, <2>2, <3>1 DEF Sum
  <2> QED
    BY <2>1, <2>2
<1>6. TypeOK'
  <2>1. up.arr + up.n \in 0..n
    BY <1>2
  <2>2. sum02' \in Value
    BY <1>5, <2>1, Facts
  <2> QED
    BY <1>1, <2>2 DEF TypeOK
<1>7. Control'
  BY <1>1, <1>2 DEF Control, Looping
<1>8. Split'
  BY <1>1, SplitKept
<1>9. Sweeps'
  BY <1>1, <1>5 DEF Sweeps
<1>10. Elements'
  BY <1>1, ElementsInPar
<1> QED
  BY <1>6, <1>7, <1>8, <1>9, <1>10

LEMMA ScanLastInv == NoWrap /\ Inv /\ ScanLast => Inv'
<1> SUFFICES ASSUME NoWrap, Inv, ScanLast PROVE Inv'
  OBVIOUS
<1>1. /\ pc = "par" /\ right = "scan" /\ right' = "done"
      /\ arr' = Scanned(sum02, arr, t2, n)
      /\ UNCHANGED <<n, a, pc, i, sig_safe_i, loop_end, promoted, up, job, partials, live,
                     todo, sum02, reused>>
  BY DEF ScanLast, loop, sweep
<1> DEFINE from == up.arr + up.n
<1>2. /\ job = "joined" /\ n \in Nat /\ up.arr \in Nat /\ up.n \in Nat
      /\ from \in Nat /\ from < n
      /\ up.arr <= from /\ t2 = from
      /\ \A j \in 0..(up.arr - 1) : arr[j] = <<0, j + 1>>
      /\ \A j \in up.arr..(from - 1) :
            arr[j] = IF ChunkOf(j) \in todo THEN <<j, j + 1>> ELSE <<0, j + 1>>
      /\ \A j \in from..(n - 1) : arr[j] = <<j, j + 1>>
  BY <1>1, ParFacts
<1> USE DEF Inv
<1>3. sum02 \in {Wrong, <<0, from>>} /\ (~reused => sum02 = <<0, from>>)
  BY <1>1 DEF Sweeps
<1> HIDE DEF from
<1>4. DOMAIN arr = 0..(n - 1)
  BY Facts
<1>5. \/ /\ sum02 = <<0, from>>
         /\ arr' = [j \in 0..(n - 1) |-> IF j \in from..(n - 1) THEN <<0, j + 1>> ELSE arr[j]]
      \/ /\ reused
         /\ arr' = [j \in 0..(n - 1) |-> IF j \in from..(n - 1) THEN Wrong ELSE arr[j]]
  <2>1. CASE sum02 = <<0, from>>
    <3>1. Untouched(arr, from, n)
      BY <1>2 DEF Untouched
    <3>2. Prefixed(Scanned(<<0, from>>, arr, from, n), arr, from, n)
      BY <1>2, <3>1, ScannedIs
    <3> QED
      BY <1>1, <1>2, <1>4, <2>1, <3>2 DEF Prefixed
  <2>2. CASE reused /\ sum02 = Wrong
    <3>1. Spoiled(Scanned(Wrong, arr, from, n), arr, from, n)
      BY <1>2, ScannedWrong
    <3> QED
      BY <1>1, <1>2, <1>4, <2>2, <3>1 DEF Spoiled
  <2> QED
    BY <1>3, <2>1, <2>2
<1>6. TypeOK'
  <2>1. arr' \in [0..(n - 1) -> Value]
    BY <1>5, Facts
  <2> QED
    BY <1>1, <2>1 DEF TypeOK
<1>7. Control'
  BY <1>1, <1>2 DEF Control, Looping
<1>8. Split'
  BY <1>1, SplitKept
<1>9. Sweeps'
  BY <1>1 DEF Sweeps
<1>10. Elements'
  <2>1. \A j : ChunkOf(j)' = ChunkOf(j)
    BY <1>1 DEF ChunkOf
  <2>2. ASSUME NEW j \in 0..(from - 1) PROVE arr'[j] = arr[j]
    <3>1. j \in 0..(n - 1) /\ j \notin from..(n - 1)
      BY <1>2
    <3> QED
      BY <1>5, <3>1
  <2>3. ASSUME ~reused, NEW j \in from..(n - 1) PROVE arr'[j] = <<0, j + 1>>
    <3>1. j \in 0..(n - 1)
      BY <1>2
    <3> QED
      BY <1>5, <2>3, <3>1
  <2>4. \A j \in 0..(up.arr - 1) : j \in 0..(from - 1)
    BY <1>2
  <2>5. \A j \in up.arr..(from - 1) : j \in 0..(from - 1)
    BY <1>2
  <2>6. /\ \A j \in 0..(up.arr - 1) : arr'[j] = <<0, j + 1>>
        /\ \A j \in up.arr..(from - 1) :
              arr'[j] = IF ChunkOf(j)' \in todo' THEN <<j, j + 1>> ELSE <<0, j + 1>>
    BY <1>1, <1>2, <2>1, <2>2, <2>4, <2>5
  <2>0. up' = up
    BY <1>1
  <2>7. /\ pc' = "par" /\ right' = "done" /\ n' = n /\ up'.arr = up.arr
        /\ up'.arr + up'.n - 1 = from - 1 /\ up'.arr + up'.n = from
    <3>1. pc' = "par" /\ right' = "done" /\ n' = n
      BY <1>1
    <3>2. up'.arr = up.arr /\ up'.n = up.n
      BY <2>0
    <3>3. up'.arr + up'.n = from
      BY <3>2 DEF from
    <3> QED
      BY <1>2, <3>1, <3>2, <3>3
  <2>8. \A j \in (up'.arr + up'.n)..(n' - 1) :
            IF right' # "done" THEN arr'[j] = <<j, j + 1>>
            ELSE ~reused' => arr'[j] = <<0, j + 1>>
    BY <1>1, <2>3, <2>7
  <2>9. \A j \in up'.arr..(up'.arr + up'.n - 1) :
            arr'[j] = IF ChunkOf(j)' \in todo' THEN <<j, j + 1>> ELSE <<0, j + 1>>
    BY <2>6, <2>7
  <2>10. \A j \in 0..(up'.arr - 1) : arr'[j] = <<0, j + 1>>
    BY <2>6, <2>7
  <2> HIDE DEF Inv
  <2> QED
    BY <2>7, <2>8, <2>9, <2>10 DEF Elements, ResultIsPrefix
<1> QED
  BY <1>6, <1>7, <1>8, <1>9, <1>10

LEMMA EndParInv == NoWrap /\ Inv /\ EndPar => Inv'
<1> SUFFICES ASSUME NoWrap, Inv, EndPar PROVE Inv'
  OBVIOUS
<1>1. /\ pc = "par" /\ pc' = "done" /\ ~live /\ right = "done"
      /\ UNCHANGED <<n, arr, a, i, sig_safe_i, loop_end, promoted, up, job, partials, live,
                     todo, right, sum02, reused>>
  BY DEF EndPar, Goto, sweep
<1>2. /\ job = "joined" /\ todo = {} /\ n \in Nat /\ up.arr \in Nat /\ up.n \in Nat
      /\ \A j \in 0..(up.arr - 1) : arr[j] = <<0, j + 1>>
      /\ \A j \in up.arr..(up.arr + up.n - 1) : arr[j] = <<0, j + 1>>
      /\ ~reused => \A j \in (up.arr + up.n)..(n - 1) : arr[j] = <<0, j + 1>>
  BY <1>1, ParFacts
<1> USE DEF Inv
<1>3. TypeOK' /\ Split'
  BY <1>1, SplitKept DEF TypeOK
<1>4. promoted
  BY <1>2 DEF Control, TypeOK
<1>5. Control'
  BY <1>1, <1>2, <1>4 DEF Control, Looping
<1>6. Sweeps'
  BY <1>1, <1>2 DEF Sweeps
<1>7. Elements'
  <2>1. ASSUME ~reused, NEW j \in 0..(n - 1) PROVE arr[j] = <<0, j + 1>>
    <3>1. \/ j \in 0..(up.arr - 1) \/ j \in up.arr..(up.arr + up.n - 1)
          \/ j \in (up.arr + up.n)..(n - 1)
      BY <1>2
    <3> QED
      BY <1>2, <2>1, <3>1
  <2>2. DOMAIN arr = 0..(n - 1)
    BY Facts
  <2> QED
    BY <1>1, <2>1, <2>2 DEF Elements, ResultIsPrefix
<1> QED
  BY <1>3, <1>5, <1>6, <1>7

-----------------------------------------------------------------------------
LEMMA StutterInv == Inv /\ UNCHANGED vars => Inv'
<1> SUFFICES ASSUME Inv, UNCHANGED vars PROVE Inv'
  OBVIOUS
<1>1. UNCHANGED <<n, arr, a, pc, i, sig_safe_i, loop_end, promoted, up, job, partials, live,
                  todo, right, sum02, reused>>
  BY DEF vars, loop, sweep
<1> USE DEF Inv
<1>2. Place' = Place
  BY <1>1 DEF Place
<1>3. \A j : ChunkOf(j)' = ChunkOf(j)
  BY <1>1 DEF ChunkOf
<1>4. TypeOK' /\ Split'
  BY <1>1, SplitKept DEF TypeOK
<1>5. Control'
  BY <1>1, <1>2 DEF Control, Looping
<1>6. Sweeps'
  BY <1>1 DEF Sweeps
<1>7. Elements'
  BY <1>1, <1>2, <1>3 DEF Elements, ResultIsPrefix
<1> QED
  BY <1>4, <1>5, <1>6, <1>7

LEMMA StepInv == NoWrap /\ Inv /\ [Next]_vars => Inv'
<1> SUFFICES ASSUME NoWrap, Inv, [Next]_vars PROVE Inv'
  OBVIOUS
<1>1. CASE Loop
  BY <1>1, CheckInv, ExecuteInv, PublishInv DEF Loop
<1>2. CASE Handler
  BY <1>2, PromoteInv, PromoteNothingInv DEF Handler
<1>3. CASE Steal \/ Upsweep
  BY <1>3, StealInv, SumChunkInv, EndUpsweepInv DEF Upsweep
<1>4. CASE Join
  BY <1>4, CloseInv, ScanFirstInv, SyncUnstolenInv, SyncStolenInv, ScanRestInv DEF Join
<1>5. CASE Par
  BY <1>5, ScanChunkInv, FreePartialsInv, ReadPartialsInv, ScanLastInv, EndParInv DEF Par
<1>6. CASE Reuse
  BY <1>6, ReuseInv
<1>7. CASE Done \/ UNCHANGED vars
  BY <1>7, StutterInv DEF Done
<1> QED
  BY <1>1, <1>2, <1>3, <1>4, <1>5, <1>6, <1>7 DEF Next

-----------------------------------------------------------------------------
(* The theorems.                                                           *)

\* The inductive invariant: where the loop, the job and the branches of the par
\* stand, how the array was cut, and which sum stands where, in the array and
\* among the partials.
THEOREM SpecInv == ASSUME NoWrap PROVE Spec => []Inv
<1>1. Init => Inv
  BY InitInv
<1>2. Inv /\ [Next]_vars => Inv'
  BY StepInv
<1> QED
  BY <1>1, <1>2, PTL DEF Spec

\* Every index that scan computes stays in the array, and every chunk is one of
\* the partials.
THEOREM TypeCorrect == ASSUME NoWrap PROVE Spec => []TypeOK
<1>1. Inv => TypeOK
  BY DEF Inv
<1> QED
  BY <1>1, SpecInv, PTL

\* scan leaves the prefix sums, however long the array is: whatever is promoted
\* when, stolen or taken back, allocated or not, and in whatever order the chunks
\* of the two sweeps and the last part come, unless somebody else has got the
\* partials' storage before the right branch reads it.
THEOREM ScansPrefix == ASSUME NoWrap PROVE Spec => []ResultIsPrefix
<1>1. Inv => ResultIsPrefix
  BY DEF Inv, Elements
<1> QED
  BY <1>1, SpecInv, PTL

\* The join computes the same thirds as the handler did.
THEOREM SplitFound == ASSUME NoWrap PROVE Spec => []SplitFoundAgain
<1>1. Inv => SplitFoundAgain
  <2> SUFFICES ASSUME Inv, pc \in {"first", "sync", "rest", "par"}
               PROVE  up = [arr |-> t1, n |-> t2 - t1]
    BY DEF SplitFoundAgain
  <2>1. TypeOK /\ Control /\ Split /\ job # "none"
    BY DEF Inv, Control
  <2> QED
    BY <2>1, Middle
<1> QED
  BY <1>1, SpecInv, PTL

\* A scan that is done has joined the job that it enqueued, if any, and freed
\* what the upsweep allocated.
THEOREM LeavesNothing == ASSUME NoWrap PROVE Spec => []LeavesNothingBehind
<1>1. Inv => LeavesNothingBehind
  BY DEF Inv, Control, LeavesNothingBehind
<1> QED
  BY <1>1, SpecInv, PTL
=============================================================================
