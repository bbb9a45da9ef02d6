------------------------- MODULE DescriptorsProofs -------------------------
(***************************************************************************)
(* Descriptors, for every descriptor file, every allocation that fails and *)
(* any number of calls: no block is lost, and none is freed twice.         *)
(***************************************************************************)
EXTENDS Descriptors, WellFoundedInduction, TLAPS

(* Natural numbers have a least one among them. *)
LEMMA LeastNatural ==
    ASSUME NEW T, T \subseteq Nat, T # {}
    PROVE  \E x \in T : \A y \in T : x <= y
<1> DEFINE R == OpToRel(<, Nat)
<1>1. IsWellFoundedOn(R, Nat)
  BY NatLessThanWellFounded
<1> HIDE DEF R
<1>2. PICK x \in T : \A y \in T : ~ (<<y, x>> \in R)
  BY <1>1, WFMin
<1>3. \A y \in T : x <= y
  <2>1. SUFFICES ASSUME NEW y \in T, ~(x <= y) PROVE <<y, x>> \in R
    BY <1>2
  <2>2. y < x /\ x \in Nat /\ y \in Nat
    BY <2>1
  <2> QED
    BY <2>2 DEF R, OpToRel
<1> QED
  BY <1>3

LEMMA MinIs ==
    ASSUME NEW S \in SUBSET Nat, S # {}
    PROVE  Min(S) \in S /\ \A i \in S : Min(S) <= i
<1>1. PICK x \in S : \A y \in S : x <= y
  BY LeastNatural
<1> QED
  BY <1>1 DEF Min

(* Induction over the natural numbers, for a set. *)
LEMMA Inductive ==
    ASSUME NEW P, 0 \in P, \A n \in Nat : n \in P => n + 1 \in P
    PROVE  \A n \in Nat : n \in P
<1> SUFFICES ASSUME Nat \ P # {} PROVE FALSE
  OBVIOUS
<1>1. PICK x \in Nat \ P : \A y \in Nat \ P : x <= y
  BY LeastNatural
<1>2. x - 1 \in P /\ x - 1 \in Nat
  BY <1>1
<1>3. x - 1 + 1 \in P
  BY <1>2
<1> QED
  BY <1>1, <1>3

-----------------------------------------------------------------------------
(* Sums.                                                                   *)

(* The recursive function within SumOf exists: it is put together from the *)
(* finite ones that obey its equation as far as they go.                   *)
LEMMA SumIs ==
    ASSUME NEW f
    PROVE  /\ SumOf(f, 0) = 0
           /\ \A n \in Nat : SumOf(f, n + 1) = SumOf(f, n) + f[n + 1]
<1> DEFINE Step(g, i) == IF i = 0 THEN 0 ELSE g[i - 1] + f[i]
           Part(g, n) == DOMAIN g = 0..n /\ \A i \in 0..n : g[i] = Step(g, i)
           whole == [n \in Nat |-> (CHOOSE g : Part(g, n))[n]]
           sum == CHOOSE g : g = [i \in Nat |-> Step(g, i)]
<1>1. \A n : SumOf(f, n) = sum[n]
  BY DEF SumOf
<1>2. \A n \in Nat : \E g : Part(g, n)
  <2> DEFINE P == {n \in Nat : \E g : Part(g, n)}
  <2>1. 0 \in P
    <3>1. Part([i \in 0..0 |-> 0], 0)
      OBVIOUS
    <3> QED
      BY <3>1
  <2>2. ASSUME NEW n \in Nat, n \in P PROVE n + 1 \in P
    <3>1. PICK g : Part(g, n)
      BY <2>2
    <3> DEFINE h == [i \in 0..n + 1 |-> IF i = n + 1 THEN g[n] + f[n + 1] ELSE g[i]]
    <3>2. \A i \in 0..n + 1 : h[i] = Step(h, i)
      <4>1. TAKE i \in 0..n + 1
      <4>2. CASE i = n + 1
        BY <4>2, i - 1 = n, h[n] = g[n]
      <4>3. CASE i = 0
        BY <3>1, <4>3
      <4>4. CASE i # n + 1 /\ i # 0
        <5>1. i \in 0..n /\ i - 1 \in 0..n /\ i - 1 # n + 1
          BY <4>4
        <5>2. h[i] = g[i] /\ h[i - 1] = g[i - 1]
          BY <5>1
        <5> QED
          BY <3>1, <4>4, <5>1, <5>2
      <4> QED
        BY <4>2, <4>3, <4>4
    <3>3. DOMAIN h = 0..n + 1
      OBVIOUS
    <3> HIDE DEF h
    <3>4. Part(h, n + 1)
      BY <3>2, <3>3
    <3> QED
      BY <3>4
  <2> HIDE DEF P
  <2>3. \A n \in Nat : n \in P
    BY <2>1, <2>2, Inductive
  <2> QED
    BY <2>3 DEF P
<1>3. ASSUME NEW m \in Nat, NEW n \in Nat, NEW g, NEW h, Part(g, m), Part(h, n), m <= n
      PROVE  g[m] = h[m]
  <2> DEFINE P == {i \in Nat : i <= m => g[i] = h[i]}
  <2>1. 0 \in P
    BY <1>3
  <2>2. ASSUME NEW i \in Nat, i \in P PROVE i + 1 \in P
    <3> SUFFICES ASSUME i + 1 <= m PROVE g[i + 1] = h[i + 1]
      OBVIOUS
    <3>1. g[i] = h[i] /\ i + 1 \in 0..m /\ i + 1 \in 0..n /\ i + 1 # 0 /\ i + 1 - 1 = i
      BY <1>3, <2>2
    <3>2. g[i + 1] = g[i] + f[i + 1]
      BY <1>3, <3>1
    <3>3. h[i + 1] = h[i] + f[i + 1]
      BY <1>3, <3>1
    <3> QED
      BY <3>1, <3>2, <3>3
  <2> HIDE DEF P
  <2>3. m \in P
    BY <2>1, <2>2, Inductive
  <2> QED
    BY <2>3 DEF P
<1>4. \A n \in Nat : whole[n] = Step(whole, n)
  <2>1. TAKE n \in Nat
  <2> DEFINE g == CHOOSE g : Part(g, n)
             h == CHOOSE h : Part(h, n - 1)
  <2>2. Part(g, n) /\ whole[n] = g[n]
    BY <1>2
  <2>3. CASE n = 0
    BY <2>2, <2>3
  <2>4. CASE n # 0
    <3>1. n - 1 \in Nat
      BY <2>4
    <3>2. Part(h, n - 1) /\ whole[n - 1] = h[n - 1]
      BY <1>2, <3>1
    <3> HIDE DEF g, h
    <3>3. h[n - 1] = g[n - 1]
      <4> HIDE DEF Part
      <4>1. n - 1 <= n
        OBVIOUS
      <4> QED
        BY <1>3, <2>2, <3>1, <3>2, <4>1
    <3> QED
      BY <2>2, <2>4, <3>2, <3>3
  <2> QED
    BY <2>3, <2>4
<1>5. whole = [i \in Nat |-> Step(whole, i)]
  BY <1>4
<1> HIDE DEF whole
<1>6. sum = [i \in Nat |-> Step(sum, i)]
  BY <1>5
<1> HIDE DEF sum
<1>7. sum[0] = 0
  BY <1>6
<1>8. ASSUME NEW n \in Nat PROVE sum[n + 1] = sum[n] + f[n + 1]
  BY <1>6
<1> QED
  BY <1>1, <1>7, <1>8

LEMMA SumNat ==
    ASSUME NEW f, NEW n \in Nat, \A i \in 1..n : f[i] \in Nat
    PROVE  SumOf(f, n) \in Nat
<1> DEFINE P == {k \in Nat : k <= n => SumOf(f, k) \in Nat}
<1>1. 0 \in P
  BY SumIs
<1>2. ASSUME NEW k \in Nat, k \in P PROVE k + 1 \in P
  BY <1>2, SumIs
<1> HIDE DEF P
<1>3. n \in P
  BY <1>1, <1>2, Inductive
<1> QED
  BY <1>3 DEF P

LEMMA SumInt ==
    ASSUME NEW f, NEW n \in Nat, \A i \in 1..n : f[i] \in Int
    PROVE  SumOf(f, n) \in Int
<1> DEFINE P == {k \in Nat : k <= n => SumOf(f, k) \in Int}
<1>1. 0 \in P
  BY SumIs
<1>2. ASSUME NEW k \in Nat, k \in P PROVE k + 1 \in P
  BY <1>2, SumIs
<1> HIDE DEF P
<1>3. n \in P
  BY <1>1, <1>2, Inductive
<1> QED
  BY <1>3 DEF P

IntsTo(f, n) == \A i \in 1..n : f[i] \in Int

(* g is f without its first n numbers. *)
Shifted(g, f, n, k) == \A i \in 1..k : g[i] = f[n + i]

(* The sum of n + k numbers is that of the first n and of the k others. *)
LEMMA SumJoin ==
    ASSUME NEW f, NEW g, NEW n \in Nat, NEW k \in Nat, NEW l \in Nat, l = n + k,
           IntsTo(f, l), Shifted(g, f, n, k)
    PROVE  SumOf(f, l) = SumOf(f, n) + SumOf(g, k)
<1> DEFINE P == {i \in Nat : i <= k => SumOf(f, n + i) = SumOf(f, n) + SumOf(g, i)}
<1>5. /\ \A i \in 1..n : f[i] \in Int
      /\ \A i \in 1..k : f[n + i] \in Int /\ g[i] = f[n + i]
  <2>1. \A i \in 1..n : i \in 1..l
    OBVIOUS
  <2>2. \A i \in 1..k : n + i \in 1..l
    OBVIOUS
  <2> QED
    BY <2>1, <2>2 DEF IntsTo, Shifted
<1>1. SumOf(f, n) \in Int
  BY <1>5, SumInt
<1>2. 0 \in P
  BY <1>1, SumIs
<1>3. ASSUME NEW i \in Nat, i \in P PROVE i + 1 \in P
  <2> SUFFICES ASSUME i + 1 <= k
               PROVE  SumOf(f, n + (i + 1)) = SumOf(f, n) + SumOf(g, i + 1)
    OBVIOUS
  <2>1. SumOf(f, n + i) = SumOf(f, n) + SumOf(g, i)
    BY <1>3
  <2>2. SumOf(f, (n + i) + 1) = SumOf(f, n + i) + f[(n + i) + 1]
    BY SumIs, n + i \in Nat
  <2>3. SumOf(g, i + 1) = SumOf(g, i) + g[i + 1]
    BY SumIs
  <2>4. g[i + 1] = f[(n + i) + 1] /\ g[i + 1] \in Int
    <3>1. i + 1 \in 1..k /\ n + (i + 1) = (n + i) + 1
      OBVIOUS
    <3>2. g[i + 1] = f[n + (i + 1)] /\ f[n + (i + 1)] \in Int
      BY <1>5, <3>1
    <3> QED
      BY <3>1, <3>2
  <2>5. SumOf(g, i) \in Int
    <3>1. \A j \in 1..i : g[j] \in Int
      <4>1. \A j \in 1..i : j \in 1..k
        OBVIOUS
      <4> QED
        BY <1>5, <4>1
    <3> QED
      BY <3>1, SumInt
  <2>6. n + (i + 1) = (n + i) + 1
    OBVIOUS
  <2> QED
    BY <1>1, <2>1, <2>2, <2>3, <2>4, <2>5, <2>6
<1> HIDE DEF P
<1>4. k \in P
  BY <1>2, <1>3, Inductive
<1> QED
  BY <1>4 DEF P

LEMMA SumSplit ==
    ASSUME NEW f, NEW g, NEW n \in Nat, NEW k \in Nat,
           \A i \in 1..n + k : f[i] \in Int, \A i \in 1..k : g[i] = f[n + i]
    PROVE  SumOf(f, n + k) = SumOf(f, n) + SumOf(g, k)
<1>1. IntsTo(f, n + k)
  BY DEF IntsTo
<1>2. Shifted(g, f, n, k)
  BY DEF Shifted
<1> QED
  BY <1>1, <1>2, n + k \in Nat, SumJoin

LEMMA SumSame ==
    ASSUME NEW f, NEW g, NEW n \in Nat,
           \A i \in 1..n : f[i] \in Int, \A i \in 1..n : g[i] = f[i]
    PROVE  SumOf(g, n) = SumOf(f, n)
<1>1. \A i \in 1..n : f[0 + i] = f[i]
  OBVIOUS
<1>2. SumOf(f, 0 + n) = SumOf(f, 0) + SumOf(g, n)
  BY <1>1, SumSplit
<1>3. SumOf(f, 0) = 0 /\ SumOf(g, n) \in Int /\ 0 + n = n
  BY SumIs, SumInt
<1> QED
  BY <1>2, <1>3

(* One of the numbers is another. *)
LEMMA SumChange ==
    ASSUME NEW f, NEW g, NEW n \in Nat, NEW j \in 1..n,
           \A i \in 1..n : f[i] \in Int, \A i \in 1..n : g[i] \in Int,
           \A i \in 1..n : i # j => g[i] = f[i]
    PROVE  SumOf(g, n) = SumOf(f, n) - f[j] + g[j]
<1> DEFINE P == {i \in Nat : i <= n => SumOf(g, i) = SumOf(f, i) + (IF j <= i THEN g[j] - f[j] ELSE 0)}
<1>1. 0 \in P
  BY SumIs
<1>2. ASSUME NEW i \in Nat, i \in P PROVE i + 1 \in P
  <2>1. SumOf(f, i + 1) = SumOf(f, i) + f[i + 1] /\ SumOf(g, i + 1) = SumOf(g, i) + g[i + 1]
    BY SumIs
  <2> SUFFICES ASSUME i + 1 <= n
               PROVE  SumOf(g, i + 1) = SumOf(f, i + 1) + (IF j <= i + 1 THEN g[j] - f[j] ELSE 0)
    OBVIOUS
  <2>2. SumOf(f, i) \in Int /\ SumOf(g, i) \in Int
    BY SumInt
  <2>3. f[i + 1] \in Int /\ g[i + 1] \in Int /\ f[j] \in Int /\ g[j] \in Int
    OBVIOUS
  <2>4. CASE i + 1 = j
    BY <1>2, <2>1, <2>2, <2>3, <2>4
  <2>5. CASE i + 1 # j
    BY <1>2, <2>1, <2>2, <2>3, <2>5
  <2> QED
    BY <2>4, <2>5
<1> HIDE DEF P
<1>3. n \in P
  BY <1>1, <1>2, Inductive
<1>4. SumOf(g, n) = SumOf(f, n) + (g[j] - f[j])
  BY <1>3 DEF P
<1>5. SumOf(f, n) \in Int /\ f[j] \in Int /\ g[j] \in Int
  BY SumInt
<1> QED
  BY <1>4, <1>5

LEMMA SumZero ==
    ASSUME NEW f, NEW n \in Nat, \A i \in 1..n : f[i] = 0
    PROVE  SumOf(f, n) = 0
<1> DEFINE P == {i \in Nat : i <= n => SumOf(f, i) = 0}
<1>1. 0 \in P
  BY SumIs
<1>2. ASSUME NEW i \in Nat, i \in P PROVE i + 1 \in P
  BY <1>2, SumIs
<1> HIDE DEF P
<1>3. n \in P
  BY <1>1, <1>2, Inductive
<1> QED
  BY <1>3 DEF P

(* A loop: the values it goes through, when every round keeps to a set.    *)
Runs(g, start, Round) ==
    g = [n \in Nat |-> g[n]] /\ g[0] = start /\ \A n \in Nat : g[n + 1] = Round[g[n]]

LEMMA Rounds ==
    ASSUME NEW States, NEW start \in States, NEW Round, Round \in [States -> States]
    PROVE  \E g : Runs(g, start, Round) /\ \A n \in Nat : g[n] \in States
<1> DEFINE Part(g, n) == /\ g \in [0..n -> States] /\ g[0] = start
                         /\ \A i \in 0..n : i # n => g[i + 1] = Round[g[i]]
           whole == [n \in Nat |-> (CHOOSE g : Part(g, n))[n]]
<1>1. \A n \in Nat : \E g : Part(g, n)
  <2> DEFINE P == {n \in Nat : \E g : Part(g, n)}
  <2>1. 0 \in P
    <3>1. Part([i \in 0..0 |-> start], 0)
      OBVIOUS
    <3> QED
      BY <3>1
  <2>2. ASSUME NEW n \in Nat, n \in P PROVE n + 1 \in P
    <3>1. PICK g : Part(g, n)
      BY <2>2
    <3> DEFINE h == [i \in 0..n + 1 |-> IF i = n + 1 THEN Round[g[n]] ELSE g[i]]
    <3>2. h \in [0..n + 1 -> States] /\ h[0] = start
      BY <3>1
    <3>3. ASSUME NEW i \in 0..n + 1, i # n + 1 PROVE h[i + 1] = Round[h[i]]
      <4>1. i \in 0..n /\ h[i] = g[i]
        BY <3>3
      <4>2. CASE i = n
        BY <4>1, <4>2
      <4>3. CASE i # n
        BY <3>1, <4>1, <4>3
      <4> QED
        BY <4>2, <4>3
    <3> HIDE DEF h
    <3>4. Part(h, n + 1)
      BY <3>2, <3>3
    <3> QED
      BY <3>4
  <2> HIDE DEF P
  <2>3. \A n \in Nat : n \in P
    BY <2>1, <2>2, Inductive
  <2> QED
    BY <2>3 DEF P
<1>2. ASSUME NEW m \in Nat, NEW n \in Nat, NEW g, NEW h, Part(g, m), Part(h, n), m <= n
      PROVE  g[m] = h[m]
  <2> DEFINE P == {i \in Nat : i <= m => g[i] = h[i]}
  <2>1. 0 \in P
    BY <1>2
  <2>2. ASSUME NEW i \in Nat, i \in P PROVE i + 1 \in P
    <3> SUFFICES ASSUME i + 1 <= m PROVE g[i + 1] = h[i + 1]
      OBVIOUS
    <3>1. g[i] = h[i] /\ i \in 0..m /\ i \in 0..n /\ i # m /\ i # n
      BY <1>2, <2>2
    <3>2. g[i + 1] = Round[g[i]]
      BY <1>2, <3>1
    <3>3. h[i + 1] = Round[h[i]]
      BY <1>2, <3>1
    <3> QED
      BY <3>1, <3>2, <3>3
  <2> HIDE DEF P
  <2>3. m \in P
    BY <2>1, <2>2, Inductive
  <2> QED
    BY <2>3 DEF P
<1>3. whole \in [Nat -> States]
  <2>1. ASSUME NEW n \in Nat PROVE (CHOOSE g : Part(g, n))[n] \in States
    <3>1. Part(CHOOSE g : Part(g, n), n)
      BY <1>1
    <3> QED
      BY <3>1
  <2> QED
    BY <2>1
<1>4. whole[0] = start
  <2>1. Part(CHOOSE g : Part(g, 0), 0)
    BY <1>1
  <2> QED
    BY <2>1
<1>5. ASSUME NEW n \in Nat PROVE whole[n + 1] = Round[whole[n]]
  <2> DEFINE g == CHOOSE g : Part(g, n)
             h == CHOOSE h : Part(h, n + 1)
  <2>1. Part(g, n) /\ whole[n] = g[n]
    BY <1>1
  <2>2. Part(h, n + 1) /\ whole[n + 1] = h[n + 1]
    BY <1>1, n + 1 \in Nat
  <2> HIDE DEF g, h
  <2>3. g[n] = h[n]
    BY <1>2, <2>1, <2>2, n + 1 \in Nat, n <= n + 1, SMTT(30)
  <2>4. h[n + 1] = Round[h[n]]
    BY <2>2
  <2> QED
    BY <2>1, <2>2, <2>3, <2>4
<1> HIDE DEF whole
<1> QED
  BY <1>3, <1>4, <1>5 DEF Runs

-----------------------------------------------------------------------------
(* Buffers.                                                                *)

Lens(b) == [k \in 1..Len(b) |-> b[k].len]

(* Bytes the descriptors of b take. *)
Weight(b) == SumOf(Lens(b), Len(b))

LEMMA Bytes == \A x \in Byte : x \in Nat
  BY DEF Byte

LEMMA LensAre ==
    ASSUME NEW b \in Seq(Descs), NEW n \in 0..Len(b)
    PROVE  /\ \A k \in 1..Len(b) : Lens(b)[k] = b[k].len /\ b[k].len \in Nat /\ b[k] \in Descs
           /\ SumOf(Lens(b), n) \in Nat
<1>1. \A k \in 1..Len(b) : b[k] \in Descs
  OBVIOUS
<1>2. \A h \in Descs : h.len \in Nat
  BY Bytes, DescConstants
<1>3. \A k \in 1..Len(b) : Lens(b)[k] = b[k].len
  BY DEF Lens
<1>4. \A k \in 1..Len(b) : Lens(b)[k] \in Nat
  BY <1>1, <1>2, <1>3
<1>5. Len(b) \in Nat
  OBVIOUS
<1>6. n \in Nat /\ \A k \in 1..n : k \in 1..Len(b)
  BY <1>5
<1>7. \A k \in 1..n : Lens(b)[k] \in Nat
  BY <1>4, <1>6
<1>8. SumOf(Lens(b), n) \in Nat
  BY <1>6, <1>7, SumNat
<1> QED
  BY <1>1, <1>2, <1>3, <1>8

LEMMA RestIs ==
    ASSUME NEW b \in Seq(Descs), NEW n \in 0..Len(b)
    PROVE  /\ Rest(b, n) \in Seq(Descs) /\ Len(Rest(b, n)) = Len(b) - n
           /\ Weight(Rest(b, n)) = Weight(b) - SumOf(Lens(b), n)
           /\ Weight(Rest(b, n)) \in Nat
<1>1. /\ Rest(b, n) \in Seq(Descs) /\ Len(Rest(b, n)) = Len(b) - n
      /\ \A i \in 1..Len(b) - n : Rest(b, n)[i] = b[n + i]
  BY DEF Rest
<1>2. PICK r : r = Rest(b, n)
  OBVIOUS
<1>3. PICK k \in Nat : k = Len(b) - n
  OBVIOUS
<1>4. \A i \in 1..k : Lens(r)[i] = Lens(b)[n + i]
  <2>1. TAKE i \in 1..k
  <2>2. n + i \in 1..Len(b) /\ i \in 1..Len(r) /\ r[i] = b[n + i]
    BY <1>1, <1>2, <1>3
  <2> QED
    BY <2>2 DEF Lens
<1>5. \A i \in 1..n + k : Lens(b)[i] \in Int
  <2>1. \A i \in 1..Len(b) : Lens(b)[i] \in Nat
    BY LensAre
  <2> QED
    BY <1>3, <2>1
<1>6. n + k = Len(b) /\ Len(r) = k
  BY <1>1, <1>2, <1>3
<1>7. SumOf(Lens(b), n + k) = SumOf(Lens(b), n) + SumOf(Lens(r), k)
  <2>1. n \in Nat
    BY <1>3
  <2> QED
    BY <1>4, <1>5, <2>1, SumSplit
<1>8. SumOf(Lens(b), n) \in Nat
  BY LensAre
<1>9. SumOf(Lens(r), Len(r)) \in Nat
  BY <1>1, <1>2, <1>6, LensAre
<1>10. Weight(r) = Weight(b) - SumOf(Lens(b), n)
  BY <1>6, <1>7, <1>8, <1>9 DEF Weight
<1> QED
  BY <1>1, <1>2, <1>9, <1>10 DEF Weight

LEMMA NextHas ==
    ASSUME NEW b \in Seq(Descs), NEW i \in 0..Len(b)
    PROVE  /\ NextAt(b, i).len \in Nat
           /\ i = Len(b) => NextAt(b, i) = Hole
           /\ i < Len(b) => NextAt(b, i) = b[i + 1] /\ b[i + 1] \in Descs
<1>1. Len(b) \in Nat /\ i \in Nat
  OBVIOUS
<1>2. CASE i = Len(b)
  BY <1>1, <1>2 DEF NextAt, Hole
<1>3. CASE i < Len(b)
  <2>1. NextAt(b, i) = b[i + 1] /\ i + 1 \in 1..Len(b)
    BY <1>1, <1>3 DEF NextAt
  <2>2. b[i + 1].len \in Nat /\ b[i + 1] \in Descs
    BY <2>1, LensAre, <1>1
  <2> QED
    BY <1>3, <2>1, <2>2
<1> QED
  BY <1>1, <1>2, <1>3

(* The next descriptor, and what is left with it gone. *)
LEMMA NextIs ==
    ASSUME NEW b \in Seq(Descs), NEW size \in Int, NEW i \in 0..Len(b)
    PROVE  /\ Left(b, size, i) \in Int /\ Left(b, size, i) <= size /\ Left(b, size, 0) = size
           /\ Left(b, size, i) = size - SumOf(Lens(b), i)
           /\ i < Len(b) => Left(b, size, i + 1) = Left(b, size, i) - NextAt(b, i).len
           /\ Weight(b) = size => Left(b, size, i) = Weight(Rest(b, i))
<1>1. \A k \in 0..Len(b) : Left(b, size, k) = size - SumOf(Lens(b), k) /\ SumOf(Lens(b), k) \in Nat
  BY LensAre DEF Left, Lens
<1>2. SumOf(Lens(b), 0) = 0 /\ 0 \in 0..Len(b) /\ Len(b) \in Nat /\ i \in Nat
  <2>1. Len(b) \in Nat
    OBVIOUS
  <2> QED
    BY <2>1, SumIs
<1>5. /\ Left(b, size, i) = size - SumOf(Lens(b), i) /\ SumOf(Lens(b), i) \in Nat
      /\ Left(b, size, 0) = size
  BY <1>1, <1>2
<1>6. Left(b, size, i) \in Int /\ Left(b, size, i) <= size
  BY <1>5
<1>3. CASE i = Len(b)
  <2>1. NextAt(b, i) = Hole /\ NextAt(b, i).len \in Nat
    BY <1>3 DEF NextAt, Hole
  <2>2. Weight(Rest(b, i)) = Weight(b) - SumOf(Lens(b), i)
    BY RestIs
  <2> QED
    BY <1>3, <1>5, <1>6, <2>2
<1>4. CASE i < Len(b)
  <2>1. NextAt(b, i) = b[i + 1] /\ i + 1 \in 1..Len(b)
    BY <1>4 DEF NextAt
  <2>2. Lens(b)[i + 1] = b[i + 1].len /\ b[i + 1].len \in Nat
    BY <2>1, LensAre
  <2>3. SumOf(Lens(b), i + 1) = SumOf(Lens(b), i) + b[i + 1].len
    BY <1>2, <2>2, SumIs
  <2>4. Weight(Rest(b, i)) = Weight(b) - SumOf(Lens(b), i)
    BY RestIs
  <2>5. i + 1 \in 0..Len(b)
    BY <1>2, <1>4
  <2>6. Left(b, size, i + 1) = size - (SumOf(Lens(b), i) + b[i + 1].len)
    BY <1>1, <2>3, <2>5
  <2>7. Left(b, size, i + 1) = Left(b, size, i) - NextAt(b, i).len
    BY <1>5, <2>1, <2>2, <2>6
  <2> QED
    BY <1>4, <1>5, <1>6, <2>4, <2>7
<1> QED
  BY <1>3, <1>4

(* The loop that skips stops within the buffer; when the buffer is as long *)
(* as its descriptors say, no descriptor is cut short.                     *)
LEMMA Skips ==
    ASSUME NEW b \in Seq(Descs), NEW size \in Nat, NEW x, x = SkipExtra(b, size)
    PROVE  /\ x.n \in 0..Len(b) /\ x.b \in Seq(Descs)
           /\ x.size \in Nat /\ x.size <= size
           /\ x.end \in {"done", "invalid", "short"}
           /\ Weight(b) = size => Weight(x.b) = x.size /\ x.end # "short"
<1> DEFINE Stops(i) == \/ Left(b, size, i) < DESC_HEADER_LENGTH
                       \/ NextAt(b, i).len \notin DESC_HEADER_LENGTH..Left(b, size, i)
                       \/ NextAt(b, i).type \in Proper
           S == {i \in 0..Len(b) : Stops(i)}
<1>1. PICK n : n = Min(S)
  OBVIOUS
<1>2. PICK end : end = IF Left(b, size, n) < DESC_HEADER_LENGTH THEN "done"
                       ELSE IF NextAt(b, n).len < DESC_HEADER_LENGTH THEN "invalid"
                       ELSE IF NextAt(b, n).len > Left(b, size, n) THEN "short"
                       ELSE "done"
  OBVIOUS
<1>3. x = [end |-> end, n |-> n, b |-> Rest(b, n), size |-> Left(b, size, n)]
  BY <1>1, <1>2 DEF SkipExtra
<1>0. Len(b) \in Nat /\ Len(b) \in 0..Len(b)
  OBVIOUS
<1>4. Len(b) \in S
  <2>1. NextAt(b, Len(b)) = Hole
    BY <1>0, NextHas
  <2> QED
    BY <1>0, <2>1 DEF Hole, DESC_HEADER_LENGTH
<1>5. n \in S /\ \A i \in S : n <= i
  <2>1. S \in SUBSET Nat
    BY <1>0
  <2> HIDE DEF S
  <2> QED
    BY <1>1, <1>4, <2>1, MinIs
<1>6. n \in 0..Len(b)
  BY <1>5
<1>7. Left(b, size, n) \in Nat
  <2>1. CASE n = 0
    BY <2>1, NextIs
  <2>2. CASE n # 0
    <3>1. PICK k : k = n - 1
      OBVIOUS
    <3>2. k \in 0..Len(b) /\ k < Len(b) /\ k + 1 = n /\ k \notin S
      BY <1>5, <1>6, <2>2, <3>1
    <3>3. NextAt(b, k).len \in DESC_HEADER_LENGTH..Left(b, size, k)
      BY <3>2
    <3>4. Left(b, size, n) = Left(b, size, k) - NextAt(b, k).len /\ Left(b, size, k) \in Int
          /\ NextAt(b, k).len \in Nat
      BY <3>2, NextIs, NextHas
    <3> QED
      BY <3>3, <3>4
  <2> QED
    BY <2>1, <2>2
<1>8. ASSUME Weight(b) = size PROVE Weight(Rest(b, n)) = Left(b, size, n) /\ end # "short"
  <2>1. Left(b, size, n) = Weight(Rest(b, n))
    BY <1>6, <1>8, NextIs
  <2>2. NextAt(b, n).len <= Left(b, size, n)
    <3>1. CASE n = Len(b)
      BY <1>6, <1>7, <3>1, NextHas DEF Hole
    <3>2. CASE n < Len(b)
      <4>1. n + 1 \in 0..Len(b)
        BY <1>6, <3>2
      <4>2. Left(b, size, n + 1) = Weight(Rest(b, n + 1)) /\ Weight(Rest(b, n + 1)) \in Nat
        BY <1>8, <4>1, NextIs, RestIs
      <4>3. Left(b, size, n + 1) = Left(b, size, n) - NextAt(b, n).len /\ NextAt(b, n).len \in Nat
        BY <1>6, <3>2, NextIs, NextHas
      <4> QED
        BY <1>7, <4>2, <4>3
    <3> QED
      BY <1>6, <3>1, <3>2
  <2>3. NextAt(b, n).len \in Nat
    BY <1>6, NextHas
  <2> QED
    BY <1>2, <1>7, <2>1, <2>2, <2>3
<1>9. Rest(b, n) \in Seq(Descs)
  BY <1>6, RestIs
<1>10. Left(b, size, n) <= size
  BY <1>6, NextIs
<1>11. end \in {"done", "invalid", "short"}
  BY <1>2
<1> HIDE DEF S
<1> QED
  BY <1>3, <1>6, <1>7, <1>8, <1>9, <1>10, <1>11

LEMMA HeadIs ==
    ASSUME NEW b \in Seq(Descs)
    PROVE  /\ Hd(b).len \in Nat /\ (b # <<>> => Hd(b) \in Descs) /\ (b = <<>> => Hd(b) = Hole)
           /\ Tl(b) \in Seq(Descs)
           /\ Weight(b) \in Nat /\ Weight(b) = Hd(b).len + Weight(Tl(b))
<1>0. Len(b) \in Nat
  OBVIOUS
<1>1. Weight(b) \in Nat
  BY LensAre, <1>0 DEF Weight
<1>2. CASE b = <<>>
  <2>1. Hd(b) = Hole /\ Tl(b) = b
    BY <1>2 DEF Hd, Tl
  <2>2. Hd(b).len = 0 /\ Tl(b) \in Seq(Descs)
    BY <2>1 DEF Hole
  <2>3. Weight(b) = 0 + Weight(b)
    BY <1>1
  <2> QED
    BY <1>1, <1>2, <2>1, <2>2, <2>3
<1>3. CASE b # <<>>
  <2>1. Hd(b) = b[1] /\ 1 \in 1..Len(b) /\ Len(b) >= 1
    BY <1>3 DEF Hd
  <2>2. Tl(b) = Rest(b, 1)
    BY <1>3 DEF Tl, Rest
  <2>3. 1 \in 0..Len(b) /\ 0 \in 0..Len(b)
    BY <2>1
  <2>4. Rest(b, 1) \in Seq(Descs) /\ Weight(Rest(b, 1)) = Weight(b) - SumOf(Lens(b), 1)
    BY <2>3, RestIs
  <2>5. Lens(b)[1] = b[1].len /\ b[1].len \in Nat /\ b[1] \in Descs
    BY <2>1, <2>3, LensAre
  <2>6. SumOf(Lens(b), 0 + 1) = SumOf(Lens(b), 0) + Lens(b)[0 + 1] /\ SumOf(Lens(b), 0) = 0
    BY SumIs
  <2>7. SumOf(Lens(b), 1) = b[1].len
    BY <2>5, <2>6
  <2> QED
    BY <1>1, <1>3, <2>1, <2>2, <2>4, <2>5, <2>7
<1> QED
  BY <1>2, <1>3

-----------------------------------------------------------------------------
(* The heap.                                                               *)

Heap == [n : Int, live : Int, lost : Int, bad : BOOLEAN, oom : Int]

(* From m to u, k blocks more are in the hands of somebody. *)
Grows(m, u, k) ==
    /\ u \in Heap
    /\ ~u.bad => ~m.bad /\ u.live - u.lost = m.live - m.lost + k

LEMMA GrowsBy ==
    ASSUME NEW m \in Heap
    PROVE  /\ Grows(m, m, 0) /\ Grows(m, Refuse(m), 0) /\ Grows(m, Take1(m), 1)
           /\ \A k \in Int : /\ Grows(m, Take(m, k), k)
                             /\ Grows(m, Release(m, k), 0 - k) /\ Grows(m, Lose(m, k), 0 - k)
<1>1. Grows(m, m, 0) /\ Grows(m, Refuse(m), 0)
  BY DEF Grows, Heap, Refuse
<1>2. ASSUME NEW k \in Int
      PROVE  /\ Grows(m, Take(m, k), k)
             /\ Grows(m, Release(m, k), 0 - k) /\ Grows(m, Lose(m, k), 0 - k)
  <2>1. Grows(m, Take(m, k), k)
    <3>1. PICK i \in Int, j \in Int : i = m.n + k /\ j = m.live + k
      BY DEF Heap
    <3>4. Take(m, k) = [m EXCEPT !.n = i, !.live = j]
      BY <3>1 DEF Take
    <3>5. Take(m, k) \in Heap
      BY <3>4 DEF Heap
    <3>2. Take(m, k).bad = m.bad /\ Take(m, k).lost = m.lost /\ Take(m, k).live = m.live + k
      BY <3>1, <3>4 DEF Heap
    <3>3. m.live \in Int /\ m.lost \in Int
      BY DEF Heap
    <3> QED
      BY <3>2, <3>3, <3>5 DEF Grows
  <2>2. Grows(m, Release(m, k), 0 - k)
    BY DEF Grows, Heap, Release
  <2>3. Grows(m, Lose(m, k), 0 - k)
    BY DEF Grows, Heap, Lose
  <2> QED
    BY <2>1, <2>2, <2>3
<1> QED
  BY <1>1, <1>2 DEF Take1

LEMMA GrowsTwice ==
    ASSUME NEW m \in Heap, NEW u, NEW v, NEW j \in Int, NEW k \in Int, Grows(m, u, j), Grows(u, v, k)
    PROVE  Grows(m, v, j + k)
  BY DEF Grows, Heap

-----------------------------------------------------------------------------
(* Endpoints.                                                              *)

Endpoints == [addr : Byte, extra : Seq(Descs)]

(* Blocks of the first n endpoints. *)
Kept(eps, n) == SumOf([j \in 1..n |-> One(eps[j].extra # <<>>)], n)

LEMMA EndpointParsed ==
    ASSUME NEW b \in Seq(Descs), NEW size \in Nat, NEW m \in Heap,
           NEW e, e = parse_endpoint(b, size, m)
    PROVE  /\ e.r \in Int
           /\ e.r <= 0 => Grows(m, e.m, 0)
           /\ e.r > 0 => /\ e.b \in Seq(Descs) /\ e.size \in Nat /\ e.size <= size /\ e.ep \in Endpoints
                         /\ Grows(m, e.m, One(e.ep.extra # <<>>))
                         /\ Weight(b) = size => Weight(e.b) = e.size
<1> DEFINE h == Hd(b)
<1>1. h.len \in Nat /\ (b # <<>> => h \in Descs) /\ (b = <<>> => h = Hole)
  BY HeadIs
<1>2. ASSUME NEW r \in {OK, IO, NO_MEM}, NEW u, Grows(m, u, 0), e = EndpointStop(r, b, size, u)
      PROVE  e.r \in Int /\ e.r <= 0 /\ Grows(m, e.m, 0)
  BY <1>2 DEF EndpointStop, OK, IO, NO_MEM
<1>3. CASE size < DESC_HEADER_LENGTH
  <2>1. e = EndpointStop(IO, b, size, m)
    BY <1>3 DEF parse_endpoint
  <2> QED
    BY <1>2, <2>1, GrowsBy
<1>4. CASE ~(size < DESC_HEADER_LENGTH) /\ (h.type # "endpoint" \/ h.len > size)
  <2>1. e = EndpointStop(OK, b, size, m)
    BY <1>4 DEF parse_endpoint, OK
  <2> QED
    BY <1>2, <2>1, GrowsBy
<1>5. CASE ~(size < DESC_HEADER_LENGTH) /\ ~(h.type # "endpoint" \/ h.len > size) /\ h.len < ENDPOINT_DESC_LENGTH
  <2>1. e = EndpointStop(IO, b, size, m)
    BY <1>5 DEF parse_endpoint
  <2> QED
    BY <1>2, <2>1, GrowsBy
<1>6. CASE ~(size < DESC_HEADER_LENGTH) /\ ~(h.type # "endpoint" \/ h.len > size) /\ ~(h.len < ENDPOINT_DESC_LENGTH)
  <2>1. PICK x : x = SkipExtra(Tl(b), size - h.len)
    OBVIOUS
  <2>2. e = EndpointExtra(b, size, x, m)
    BY <1>6, <2>1 DEF parse_endpoint
  <2>3. size - h.len \in Nat /\ Tl(b) \in Seq(Descs) /\ h.len >= 7
        /\ (Weight(b) = size => Weight(Tl(b)) = size - h.len)
    <3>1. Tl(b) \in Seq(Descs) /\ Weight(b) = h.len + Weight(Tl(b)) /\ Weight(Tl(b)) \in Nat
      BY HeadIs
    <3> QED
      BY <1>1, <1>6, <3>1 DEF ENDPOINT_DESC_LENGTH
  <2>4. /\ x.n \in 0..Len(Tl(b)) /\ x.b \in Seq(Descs)
        /\ x.size \in Nat /\ x.size <= size - h.len
        /\ Weight(b) = size => Weight(x.b) = x.size
    BY <2>1, <2>3, Skips
  <2>5. h.addr \in Byte
    BY <1>1, <1>6, DescConstants DEF Hole
  <2> DEFINE extra == SubSeq(Tl(b), 1, x.n)
  <2>6. extra \in Seq(Descs)
    BY <2>3, <2>4
  <2>7. ASSUME NEW kept \in Seq(Descs), NEW u, Grows(m, u, One(kept # <<>>)),
               e = EndpointUsed(b, size, x, kept, u)
        PROVE  /\ e.r \in Int /\ e.r > 0
               /\ e.b \in Seq(Descs) /\ e.size \in Nat /\ e.size <= size /\ e.ep \in Endpoints
               /\ Grows(m, e.m, One(e.ep.extra # <<>>))
               /\ Weight(b) = size => Weight(e.b) = e.size
    <3>1. e.r = size - x.size /\ e.b = x.b /\ e.size = x.size /\ e.m = u
          /\ e.ep = [addr |-> h.addr, extra |-> kept]
      BY <2>7 DEF EndpointUsed
    <3>2. e.r \in Int /\ e.r > 0
      BY <1>1, <2>3, <2>4, <3>1, SMTT(30)
    <3>3. e.ep \in Endpoints /\ e.ep.extra = kept
      BY <2>5, <3>1 DEF Endpoints
    <3>4. e.size <= size
      BY <1>1, <2>4, <3>1
    <3> QED
      BY <2>4, <2>7, <3>1, <3>2, <3>3, <3>4
  <2>8. CASE x.end = "invalid"
    <3>1. e = EndpointStop(IO, b, size, m)
      BY <2>2, <2>8 DEF EndpointExtra
    <3> QED
      BY <1>2, <3>1, GrowsBy
  <2>9. CASE x.end # "invalid" /\ (x.end = "short" \/ extra = <<>>)
    <3>1. PICK none : none = <<>>
      OBVIOUS
    <3>2. e = EndpointUsed(b, size, x, none, m)
      BY <2>2, <2>9, <3>1 DEF EndpointExtra
    <3>3. Grows(m, m, One(none # <<>>))
      BY <3>1, GrowsBy DEF One
    <3>4. none \in Seq(Descs)
      BY <3>1
    <3> QED
      BY <2>7, <3>2, <3>3, <3>4
  <2>10. CASE x.end # "invalid" /\ ~(x.end = "short" \/ extra = <<>>) /\ Fails(m)
    <3>1. e = EndpointStop(NO_MEM, b, size, Refuse(m))
      BY <2>2, <2>10 DEF EndpointExtra
    <3> QED
      BY <1>2, <3>1, GrowsBy
  <2>11. CASE x.end # "invalid" /\ ~(x.end = "short" \/ extra = <<>>) /\ ~Fails(m)
    <3>1. e = EndpointUsed(b, size, x, extra, Take1(m))
      BY <2>2, <2>11 DEF EndpointExtra
    <3>2. Grows(m, Take1(m), One(extra # <<>>))
      BY <2>11, GrowsBy DEF One
    <3> HIDE DEF extra
    <3> QED
      BY <2>6, <2>7, <3>1, <3>2
  <2> QED
    BY <2>8, <2>9, <2>10, <2>11
<1> QED
  BY <1>3, <1>4, <1>5, <1>6

(* A sum with one number more at its end. *)
LEMMA SumMore ==
    ASSUME NEW f, NEW g, NEW n \in Nat,
           \A i \in 1..n : f[i] \in Int, \A i \in 1..n : g[i] = f[i]
    PROVE  SumOf(g, n + 1) = SumOf(f, n) + g[n + 1]
<1>1. SumOf(g, n + 1) = SumOf(g, n) + g[n + 1]
  BY SumIs
<1>2. SumOf(g, n) = SumOf(f, n)
  BY SumSame
<1> QED
  BY <1>1, <1>2

LEMMA KeptIs ==
    ASSUME NEW eps \in Seq(Endpoints), NEW n \in 0..Len(eps)
    PROVE  /\ Kept(eps, n) \in Nat
           /\ Kept(<<>>, 0) = 0
           /\ \A e \in Endpoints :
                Kept(Append(eps, e), Len(eps) + 1) = Kept(eps, Len(eps)) + One(e.extra # <<>>)
<1> DEFINE f(s, k) == [j \in 1..k |-> One(s[j].extra # <<>>)]
<1>1. Len(eps) \in Nat /\ n \in Nat
  <2>1. Len(eps) \in Nat
    OBVIOUS
  <2> QED
    BY <2>1
<1>2. \A s, k : \A j \in 1..k : f(s, k)[j] = One(s[j].extra # <<>>) /\ f(s, k)[j] \in Nat
  BY DEF One
<1>3. \A s, k : Kept(s, k) = SumOf(f(s, k), k)
  BY DEF Kept
<1>4. Kept(eps, n) \in Nat
  <2>1. PICK g : g = f(eps, n)
    OBVIOUS
  <2>2. \A j \in 1..n : g[j] \in Nat
    BY <1>2, <2>1
  <2>3. SumOf(g, n) \in Nat
    BY <1>1, <2>2, SumNat
  <2> QED
    BY <1>3, <2>1, <2>3
<1>5. Kept(<<>>, 0) = 0
  BY SumIs DEF Kept
<1>6. ASSUME NEW e \in Endpoints
      PROVE  Kept(Append(eps, e), Len(eps) + 1) = Kept(eps, Len(eps)) + One(e.extra # <<>>)
  <2>1. PICK k \in Nat : k = Len(eps)
    BY <1>1
  <2>2. PICK s : s = Append(eps, e)
    OBVIOUS
  <2>3. s[k + 1] = e /\ \A j \in 1..k : s[j] = eps[j]
    BY <2>1, <2>2
  <2>4. PICK g : g = f(s, k + 1)
    OBVIOUS
  <2>5. PICK h : h = f(eps, k)
    OBVIOUS
  <2>6. \A j \in 1..k : h[j] \in Int /\ g[j] = h[j]
    <3>1. TAKE j \in 1..k
    <3>2. h[j] = One(eps[j].extra # <<>>) /\ h[j] \in Nat
      BY <1>2, <2>5, <3>1
    <3>3. j \in 1..k + 1
      OBVIOUS
    <3>4. g[j] = One(s[j].extra # <<>>)
      BY <1>2, <2>4, <3>3
    <3> QED
      BY <2>3, <3>2, <3>4
  <2>7. g[k + 1] = One(e.extra # <<>>)
    <3>1. k + 1 \in 1..k + 1
      OBVIOUS
    <3> QED
      BY <1>2, <2>3, <2>4, <3>1
  <2>8. SumOf(g, k + 1) = SumOf(h, k) + g[k + 1]
    BY <2>6, SumMore
  <2> HIDE DEF f
  <2> QED
    BY <1>3, <2>1, <2>2, <2>4, <2>5, <2>7, <2>8
<1> QED
  BY <1>4, <1>5, <1>6

EndpointStates ==
    [r : Int, more : BOOLEAN, b : Seq(Descs), size : Nat, m : Heap, eps : Seq(Endpoints)]

(* The loop over n endpoints, from m on: what was kept of those so far is  *)
(* what the heap has more.                                                 *)
EndpointLoop(n, m, size, exact) == {w \in EndpointStates :
    /\ Len(w.eps) <= n /\ w.r <= 0 /\ w.size <= size
    /\ Grows(m, w.m, Kept(w.eps, Len(w.eps)))
    /\ exact => Weight(w.b) = w.size}

LEMMA NextEndpointDone ==
    ASSUME NEW n \in Nat, NEW m \in Heap, NEW size \in Nat, NEW exact \in BOOLEAN,
           NEW w \in EndpointLoop(n, m, size, exact)
    PROVE  NextEndpoint(n, w) \in EndpointLoop(n, m, size, exact)
<1>1. PICK e : e = parse_endpoint(w.b, w.size, w.m)
  OBVIOUS
<1>2. w \in EndpointStates /\ Len(w.eps) <= n /\ w.r <= 0 /\ Grows(m, w.m, Kept(w.eps, Len(w.eps)))
      /\ w.size <= size /\ (exact => Weight(w.b) = w.size)
  BY DEF EndpointLoop
<1>3. /\ w.r \in Int /\ w.more \in BOOLEAN /\ w.b \in Seq(Descs) /\ w.size \in Nat /\ w.m \in Heap
      /\ w.eps \in Seq(Endpoints)
      /\ Len(w.eps) \in Nat
  BY <1>2 DEF EndpointStates
<1>4. /\ e.r \in Int
      /\ e.r <= 0 => Grows(w.m, e.m, 0)
      /\ e.r > 0 => /\ e.b \in Seq(Descs) /\ e.size \in Nat /\ e.size <= w.size /\ e.ep \in Endpoints
                    /\ Grows(w.m, e.m, One(e.ep.extra # <<>>))
                    /\ Weight(w.b) = w.size => Weight(e.b) = e.size
  BY <1>1, <1>3, EndpointParsed
<1>5. Kept(w.eps, Len(w.eps)) \in Nat
  <2>1. Len(w.eps) \in 0..Len(w.eps)
    BY <1>3
  <2> QED
    BY <1>3, <2>1, KeptIs
<1>6. CASE ~w.more \/ Len(w.eps) = n
  <2>1. NextEndpoint(n, w) = w
    BY <1>6 DEF NextEndpoint
  <2> QED
    BY <2>1
<1>7. CASE ~(~w.more \/ Len(w.eps) = n) /\ e.r > 0
  <2>1. PICK u : u = NextEndpoint(n, w)
    OBVIOUS
  <2>2. u = [w EXCEPT !.b = e.b, !.size = e.size, !.m = e.m, !.eps = Append(@, e.ep)]
    BY <1>1, <1>7, <2>1 DEF NextEndpoint
  <2>3. e.m \in Heap
    BY <1>4, <1>7 DEF Grows
  <2>4. PICK s : s = Append(w.eps, e.ep)
    OBVIOUS
  <2>5. s \in Seq(Endpoints) /\ Len(s) = Len(w.eps) + 1
    BY <1>3, <1>4, <1>7, <2>4
  <2>6. u \in EndpointStates /\ u.eps = s /\ u.b = e.b /\ u.size = e.size /\ u.m = e.m /\ u.r = w.r
    BY <1>2, <1>4, <1>7, <2>2, <2>3, <2>4, <2>5 DEF EndpointStates
  <2>7. Kept(s, Len(s)) = Kept(w.eps, Len(w.eps)) + One(e.ep.extra # <<>>)
    <3>1. Len(w.eps) \in 0..Len(w.eps)
      BY <1>3
    <3>2. Kept(Append(w.eps, e.ep), Len(w.eps) + 1) = Kept(w.eps, Len(w.eps)) + One(e.ep.extra # <<>>)
      BY <1>3, <1>4, <1>7, <3>1, KeptIs
    <3> QED
      BY <2>4, <2>5, <3>2
  <2>8. One(e.ep.extra # <<>>) \in Int
    BY DEF One
  <2>9. Grows(m, e.m, Kept(s, Len(s)))
    BY <1>2, <1>4, <1>5, <1>7, <2>7, <2>8, GrowsTwice
  <2>10. Len(s) <= n /\ e.size <= size
    BY <1>2, <1>3, <1>4, <1>7, <2>5
  <2> QED
    BY <1>2, <1>4, <1>7, <2>1, <2>6, <2>9, <2>10 DEF EndpointLoop
<1>8. CASE ~(~w.more \/ Len(w.eps) = n) /\ ~(e.r > 0)
  <2>1. PICK u : u = NextEndpoint(n, w)
    OBVIOUS
  <2>2. u = [w EXCEPT !.r = e.r, !.m = e.m, !.more = FALSE]
    BY <1>1, <1>8, <2>1 DEF NextEndpoint
  <2>3. e.r <= 0 /\ e.m \in Heap /\ Grows(w.m, e.m, 0)
    BY <1>4, <1>8 DEF Grows
  <2>4. u \in EndpointStates /\ u.eps = w.eps /\ u.b = w.b /\ u.size = w.size /\ u.m = e.m /\ u.r = e.r
    BY <1>2, <1>4, <2>2, <2>3 DEF EndpointStates
  <2>5. PICK k \in Nat : k = Kept(w.eps, Len(w.eps))
    BY <1>5
  <2>6. Grows(m, e.m, k + 0) /\ k + 0 = k
    BY <1>2, <2>3, <2>5, GrowsTwice
  <2> QED
    BY <1>2, <2>1, <2>3, <2>4, <2>5, <2>6 DEF EndpointLoop
<1> QED
  BY <1>6, <1>7, <1>8

LEMMA EndpointsParsed ==
    ASSUME NEW n \in Nat, NEW b \in Seq(Descs), NEW size \in Nat, NEW m \in Heap
    PROVE  parse_endpoints(n, b, size, m) \in EndpointLoop(n, m, size, Weight(b) = size)
<1> DEFINE w0 == [r |-> OK, more |-> TRUE, b |-> b, size |-> size, m |-> m, eps |-> <<>>]
           loop == CHOOSE g : g = [k \in Nat |-> IF k = 0 THEN w0 ELSE NextEndpoint(n, g[k - 1])]
<1>1. parse_endpoints(n, b, size, m) = loop[n]
  BY DEF parse_endpoints
<1>2. PICK exact \in BOOLEAN : exact <=> Weight(b) = size
  OBVIOUS
<1>3. PICK W : W = EndpointLoop(n, m, size, exact)
  OBVIOUS
<1>4. w0 \in W
  <2>1. w0 \in EndpointStates /\ Len(w0.eps) <= n /\ w0.r <= 0 /\ w0.b = b /\ w0.size = size
    BY DEF EndpointStates, OK
  <2>2. Kept(w0.eps, Len(w0.eps)) = 0
    BY SumIs DEF Kept
  <2>3. Grows(m, w0.m, 0)
    BY GrowsBy
  <2> HIDE DEF w0
  <2> QED
    BY <1>2, <1>3, <2>1, <2>2, <2>3 DEF EndpointLoop
<1>5. \A w \in W : NextEndpoint(n, w) \in W
  BY <1>3, NextEndpointDone
<1> HIDE DEF w0
<1>6. PICK F : F = [w \in W |-> NextEndpoint(n, w)]
  OBVIOUS
<1>7. F \in [W -> W]
  BY <1>5, <1>6
<1>8. PICK g : Runs(g, w0, F) /\ \A k \in Nat : g[k] \in W
  BY <1>4, <1>7, Rounds
<1>9. g = [k \in Nat |-> IF k = 0 THEN w0 ELSE NextEndpoint(n, g[k - 1])]
  <2>1. ASSUME NEW k \in Nat, k # 0 PROVE g[k] = NextEndpoint(n, g[k - 1])
    <3>1. k - 1 \in Nat /\ (k - 1) + 1 = k
      BY <2>1
    <3>2. g[k] = F[g[k - 1]] /\ g[k - 1] \in W
      BY <1>8, <3>1 DEF Runs
    <3> QED
      BY <1>6, <3>2
  <2> QED
    BY <1>8, <2>1 DEF Runs
<1>10. loop = [k \in Nat |-> IF k = 0 THEN w0 ELSE NextEndpoint(n, loop[k - 1])]
  BY <1>9
<1> HIDE DEF loop
<1>11. loop[0] = w0 /\ \A k \in Nat : loop[k + 1] = NextEndpoint(n, loop[k])
  BY <1>10
<1> HIDE DEF loop
<1>12. PICK P : P = {k \in Nat : loop[k] \in W}
  OBVIOUS
<1>13. 0 \in P /\ \A k \in Nat : k \in P => k + 1 \in P
  <2>1. 0 \in P
    BY <1>4, <1>11, <1>12
  <2>2. ASSUME NEW k \in Nat, k \in P PROVE k + 1 \in P
    <3>1. loop[k + 1] = NextEndpoint(n, loop[k]) /\ loop[k] \in W
      BY <1>11, <1>12, <2>2
    <3>2. loop[k + 1] \in W
      BY <1>5, <3>1
    <3> QED
      BY <1>12, <3>2
  <2> QED
    BY <2>1, <2>2
<1>14. n \in P
  BY <1>13, Inductive
<1>15. loop[n] \in EndpointLoop(n, m, size, exact)
  BY <1>3, <1>12, <1>14
<1>16. exact = (Weight(b) = size)
  BY <1>2
<1> QED
  BY <1>1, <1>15, <1>16

-----------------------------------------------------------------------------
(* Altsettings.                                                            *)

Alts ==
    [num : Byte, bNumEndpoints : Nat, array : BOOLEAN, endpoint : Seq(Endpoints), extra : BOOLEAN]

Interfaces == [array : BOOLEAN, alts : Seq(Alts)]

(* Endpoints are counted only where there is an array of them. *)
Sound(a) == a.bNumEndpoints > 0 => a.array

Counted(a) == IF a.array THEN Least(a.bNumEndpoints, Len(a.endpoint)) ELSE 0

LEMMA AltBlocksAre ==
    ASSUME NEW a \in Alts
    PROVE  /\ AltBlocks(a) = One(a.extra) + One(a.array) + Kept(a.endpoint, Counted(a))
           /\ AltBlocks(a) \in Nat
           /\ Counted(a) = 0 => Kept(a.endpoint, Counted(a)) = 0
<1>1. a.endpoint \in Seq(Endpoints) /\ a.bNumEndpoints \in Nat /\ Len(a.endpoint) \in Nat
  BY DEF Alts
<1>2. Counted(a) \in 0..Len(a.endpoint)
  BY <1>1 DEF Counted, Least
<1>3. Kept(a.endpoint, Counted(a)) \in Nat
  BY <1>1, <1>2, KeptIs
<1>4. AltBlocks(a) = One(a.extra) + One(a.array) + Kept(a.endpoint, Counted(a))
  BY DEF AltBlocks, Counted, Kept
<1>5. One(a.extra) \in Nat /\ One(a.array) \in Nat
  BY DEF One
<1>6. ASSUME Counted(a) = 0 PROVE Kept(a.endpoint, Counted(a)) = 0
  BY <1>6, SumIs DEF Kept
<1> QED
  BY <1>3, <1>4, <1>5, <1>6

BlocksOf(alts) == SumOf([k \in 1..Len(alts) |-> AltBlocks(alts[k])], Len(alts))

LEMMA BlocksAre ==
    ASSUME NEW alts \in Seq(Alts)
    PROVE  /\ BlocksOf(alts) \in Nat
           /\ BlocksOf(<<>>) = 0
           /\ \A a \in Alts :
                /\ BlocksOf(Append(alts, a)) = BlocksOf(alts) + AltBlocks(a)
                /\ alts # <<>> => BlocksOf([alts EXCEPT ![Len(alts)] = a]) =
                                    BlocksOf(alts) - AltBlocks(alts[Len(alts)]) + AltBlocks(a)
<1> DEFINE f(s) == [k \in 1..Len(s) |-> AltBlocks(s[k])]
<1>1. PICK n \in Nat : n = Len(alts)
  OBVIOUS
<1>2. ASSUME NEW s \in Seq(Alts)
      PROVE  \A k \in 1..Len(s) : f(s)[k] = AltBlocks(s[k]) /\ f(s)[k] \in Nat
  <2>1. \A k \in 1..Len(s) : s[k] \in Alts
    OBVIOUS
  <2>2. \A k \in 1..Len(s) : f(s)[k] = AltBlocks(s[k])
    OBVIOUS
  <2> HIDE DEF f
  <2> QED
    BY <2>1, <2>2, AltBlocksAre
<1>3. \A s : BlocksOf(s) = SumOf(f(s), Len(s))
  BY DEF BlocksOf
<1>4. PICK h : h = f(alts)
  OBVIOUS
<1>5. \A k \in 1..n : h[k] = AltBlocks(alts[k]) /\ h[k] \in Nat
  BY <1>1, <1>2, <1>4
<1>6. BlocksOf(alts) = SumOf(h, n) /\ SumOf(h, n) \in Nat
  <2>1. SumOf(h, n) \in Nat
    BY <1>5, SumNat
  <2> QED
    BY <1>1, <1>3, <1>4, <2>1
<1>7. BlocksOf(<<>>) = 0
  BY SumIs DEF BlocksOf
<1>8. ASSUME NEW a \in Alts
      PROVE  BlocksOf(Append(alts, a)) = BlocksOf(alts) + AltBlocks(a)
  <2>1. PICK s : s = Append(alts, a)
    OBVIOUS
  <2>2. s \in Seq(Alts) /\ Len(s) = n + 1 /\ s[n + 1] = a /\ \A k \in 1..n : s[k] = alts[k]
    BY <1>1, <2>1
  <2>3. PICK g : g = f(s)
    OBVIOUS
  <2>4. \A k \in 1..n + 1 : g[k] = AltBlocks(s[k])
    BY <1>2, <2>2, <2>3
  <2>5. g[n + 1] = AltBlocks(a) /\ \A k \in 1..n : g[k] = h[k] /\ h[k] \in Int
    BY <1>5, <2>2, <2>4
  <2>6. SumOf(g, n + 1) = SumOf(h, n) + g[n + 1]
    BY <2>5, SumMore
  <2>7. BlocksOf(s) = SumOf(g, n + 1)
    BY <1>3, <2>2, <2>3
  <2> QED
    BY <1>6, <2>1, <2>5, <2>6, <2>7
<1>9. ASSUME NEW a \in Alts, alts # <<>>
      PROVE  BlocksOf([alts EXCEPT ![Len(alts)] = a]) =
               BlocksOf(alts) - AltBlocks(alts[Len(alts)]) + AltBlocks(a)
  <2>1. n \in 1..n /\ n = Len(alts)
    BY <1>1, <1>9
  <2>2. PICK s : s = [alts EXCEPT ![n] = a]
    OBVIOUS
  <2>3. s \in Seq(Alts) /\ Len(s) = n /\ s[n] = a /\ \A k \in 1..n : k # n => s[k] = alts[k]
    BY <2>1, <2>2
  <2>4. PICK g : g = f(s)
    OBVIOUS
  <2>5. \A k \in 1..n : g[k] = AltBlocks(s[k]) /\ g[k] \in Nat
    BY <1>2, <2>3, <2>4
  <2>6. g[n] = AltBlocks(a) /\ h[n] = AltBlocks(alts[n])
    BY <1>5, <2>1, <2>3, <2>5
  <2>7. \A k \in 1..n : h[k] \in Int /\ g[k] \in Int /\ (k # n => g[k] = h[k])
    BY <1>5, <2>3, <2>5
  <2>8. SumOf(g, n) = SumOf(h, n) - h[n] + g[n]
    BY <2>1, <2>7, SumChange
  <2>9. BlocksOf(s) = SumOf(g, n)
    BY <1>3, <2>3, <2>4
  <2> QED
    BY <1>6, <2>1, <2>2, <2>6, <2>8, <2>9
<1> QED
  BY <1>6, <1>7, <1>8, <1>9

LEMMA InterfaceBlocksAre ==
    ASSUME NEW intf \in Interfaces
    PROVE  /\ InterfaceBlocks(intf) = One(intf.array) + BlocksOf(intf.alts)
           /\ InterfaceBlocks(intf) \in Nat
           /\ NoInterface \in Interfaces /\ InterfaceBlocks(NoInterface) = 0
<1>1. InterfaceBlocks(intf) = One(intf.array) + BlocksOf(intf.alts)
  BY DEF InterfaceBlocks, BlocksOf
<1>2. intf.alts \in Seq(Alts) /\ One(intf.array) \in Nat
  BY DEF Interfaces, One
<1>3. BlocksOf(intf.alts) \in Nat
  BY <1>2, BlocksAre
<1>4. NoInterface \in Interfaces /\ NoInterface.alts = <<>> /\ ~NoInterface.array
  BY DEF NoInterface, Interfaces
<1>5. InterfaceBlocks(NoInterface) = 0
  BY <1>4, SumIs DEF InterfaceBlocks, One
<1> QED
  BY <1>1, <1>2, <1>3, <1>4, <1>5

AltStates ==
    [b : Seq(Descs), size : Nat, m : Heap, parsed : Nat, r : Int, more : BOOLEAN,
     number : Int, intf : Interfaces]

(* Between two rounds of the loop over altsettings.                        *)
AltRounds(m, exact) == {w \in AltStates :
    /\ w.more => w.r = 0
    /\ w.r < 0 => w.intf = NoInterface
    /\ Grows(m, w.m, InterfaceBlocks(w.intf))
    /\ exact => /\ Weight(w.b) = w.size
                /\ \A k \in 1..Len(w.intf.alts) : Sound(w.intf.alts[k])}

(* Within a round, when the last altsetting has no endpoints yet.          *)
AltMidway(m, exact) == {w \in AltStates :
    /\ w.more /\ w.r = 0 /\ w.intf.alts # <<>>
    /\ ~LastAlt(w).array /\ LastAlt(w).endpoint = <<>>
    /\ Grows(m, w.m, InterfaceBlocks(w.intf))
    /\ exact => /\ Weight(w.b) = w.size
                /\ \A k \in 1..Len(w.intf.alts) : k # Len(w.intf.alts) => Sound(w.intf.alts[k])}

LEMMA FailedDone ==
    ASSUME NEW m \in Heap, NEW exact \in BOOLEAN, NEW w \in AltStates,
           Grows(m, w.m, InterfaceBlocks(w.intf)), exact => Weight(w.b) = w.size,
           NEW code \in Int, code < 0
    PROVE  Failed(w, code) \in AltRounds(m, exact) /\ ~Failed(w, code).more
<1>1. PICK u : u = Failed(w, code)
  OBVIOUS
<1>2. PICK k \in Nat : k = InterfaceBlocks(w.intf)
  BY InterfaceBlocksAre DEF AltStates
<1>3. PICK heap : heap = Release(w.m, k)
  OBVIOUS
<1>4. u = [w EXCEPT !.r = code, !.more = FALSE, !.intf = NoInterface, !.m = heap]
  BY <1>1, <1>2, <1>3 DEF Failed
<1>5. w.m \in Heap /\ w.intf \in Interfaces
  BY DEF AltStates
<1>6. Grows(w.m, heap, 0 - k)
  BY <1>3, <1>5, GrowsBy
<1>7. heap \in Heap
  BY <1>6 DEF Grows
<1>8. Grows(m, heap, k + (0 - k)) /\ k + (0 - k) = 0
  BY <1>2, <1>6, GrowsTwice
<1>9. NoInterface \in Interfaces /\ InterfaceBlocks(NoInterface) = 0
  BY <1>5, InterfaceBlocksAre
<1>10. u \in AltStates /\ u.r = code /\ u.more = FALSE /\ u.intf = NoInterface /\ u.m = heap
       /\ u.b = w.b /\ u.size = w.size
  BY <1>4, <1>7, <1>9 DEF AltStates
<1>11. Len(NoInterface.alts) = 0
  BY DEF NoInterface
<1> QED
  BY <1>1, <1>8, <1>9, <1>10, <1>11 DEF AltRounds

LEMMA RefusedDone ==
    ASSUME NEW m \in Heap, NEW exact \in BOOLEAN, NEW w \in AltStates,
           Grows(m, w.m, InterfaceBlocks(w.intf)), exact => Weight(w.b) = w.size
    PROVE  Refused(w) \in AltRounds(m, exact) /\ ~Refused(w).more
<1>1. PICK v : v = [w EXCEPT !.m = Refuse(@)]
  OBVIOUS
<1>2. w.m \in Heap /\ w.intf \in Interfaces
  BY DEF AltStates
<1>3. PICK heap : heap = Refuse(w.m)
  OBVIOUS
<1>4. Grows(w.m, heap, 0)
  BY <1>2, <1>3, GrowsBy
<1>5. PICK k \in Nat : k = InterfaceBlocks(w.intf)
  BY <1>2, InterfaceBlocksAre
<1>6. Grows(m, heap, k + 0) /\ k + 0 = k /\ heap \in Heap
  BY <1>4, <1>5, GrowsTwice DEF Grows
<1>7. v \in AltStates /\ v.m = heap /\ v.intf = w.intf /\ v.b = w.b /\ v.size = w.size
  BY <1>1, <1>3, <1>6 DEF AltStates
<1>8. NO_MEM \in Int /\ NO_MEM < 0
  BY DEF NO_MEM
<1>9. Refused(w) = Failed(v, NO_MEM)
  BY <1>1 DEF Refused
<1> QED
  BY <1>5, <1>6, <1>7, <1>8, <1>9, FailedDone

LEMMA ParsedDone ==
    ASSUME NEW m \in Heap, NEW exact \in BOOLEAN, NEW w \in AltStates,
           Grows(m, w.m, InterfaceBlocks(w.intf)),
           exact => /\ Weight(w.b) = w.size
                    /\ \A k \in 1..Len(w.intf.alts) : Sound(w.intf.alts[k])
    PROVE  Parsed(w) \in AltRounds(m, exact) /\ ~Parsed(w).more
<1>1. PICK k \in Int : k = w.parsed /\ k >= 0
  BY DEF AltStates
<1>2. PICK u : u = [w EXCEPT !.r = k, !.more = FALSE]
  OBVIOUS
<1>3. u \in AltStates /\ u.r = k /\ u.more = FALSE /\ u.m = w.m /\ u.intf = w.intf
      /\ u.b = w.b /\ u.size = w.size
  BY <1>2 DEF AltStates
<1>4. ~(u.r < 0)
  BY <1>1, <1>3
<1>5. Parsed(w) = u
  BY <1>1, <1>2 DEF Parsed
<1> QED
  BY <1>3, <1>4, <1>5 DEF AltRounds

(* u is w with a for its last altsetting.                                  *)
Swapped(m, w, a, heap, u) ==
    /\ u \in AltStates /\ u.m = heap /\ Grows(m, heap, InterfaceBlocks(u.intf))
    /\ u.b = w.b /\ u.size = w.size /\ u.more = w.more /\ u.r = w.r
    /\ LastAlt(u) = a /\ Len(u.intf.alts) = Len(w.intf.alts)
    /\ \A k \in 1..Len(w.intf.alts) : k # Len(w.intf.alts) => u.intf.alts[k] = w.intf.alts[k]

(* Another altsetting for the last one, which holds j blocks more, like the *)
(* heap.                                                                   *)
LEMMA WithAltDone ==
    ASSUME NEW m \in Heap, NEW w \in AltStates, w.intf.alts # <<>>,
           Grows(m, w.m, InterfaceBlocks(w.intf)),
           NEW a \in Alts, NEW j \in Int, NEW heap, Grows(w.m, heap, j),
           AltBlocks(a) = AltBlocks(LastAlt(w)) + j
    PROVE  Swapped(m, w, a, heap, WithAlt(w, a, heap))
<1>1. w.intf \in Interfaces /\ w.m \in Heap
  BY DEF AltStates
<1>2. PICK alts \in Seq(Alts) : alts = w.intf.alts
  BY <1>1 DEF Interfaces
<1>3. PICK new : new = [alts EXCEPT ![Len(alts)] = a]
  OBVIOUS
<1>4. /\ new \in Seq(Alts) /\ Len(new) = Len(alts) /\ new[Len(new)] = a
      /\ \A k \in 1..Len(alts) : k # Len(alts) => new[k] = alts[k]
  BY <1>2, <1>3
<1>5. PICK intf : intf = [w.intf EXCEPT !.alts = new]
  OBVIOUS
<1>6. intf \in Interfaces /\ intf.alts = new /\ intf.array = w.intf.array
  BY <1>1, <1>4, <1>5 DEF Interfaces
<1>7. heap \in Heap
  BY DEF Grows
<1>8. PICK u : u = [w EXCEPT !.intf = intf, !.m = heap]
  OBVIOUS
<1>9. /\ u \in AltStates /\ u.intf = intf /\ u.m = heap
      /\ u.b = w.b /\ u.size = w.size /\ u.more = w.more /\ u.r = w.r /\ u.parsed = w.parsed
  BY <1>6, <1>7, <1>8 DEF AltStates
<1>10. u = WithAlt(w, a, heap)
  BY <1>1, <1>2, <1>3, <1>5, <1>8 DEF WithAlt, AltStates, Interfaces
<1>11. LastAlt(u) = a /\ LastAlt(w) = alts[Len(alts)]
  BY <1>2, <1>4, <1>6, <1>9 DEF LastAlt
<1>12. BlocksOf(new) = BlocksOf(alts) - AltBlocks(alts[Len(alts)]) + AltBlocks(a)
  BY <1>2, <1>3, BlocksAre
<1>13. BlocksOf(alts) \in Int /\ AltBlocks(alts[Len(alts)]) \in Int
  <2>1. BlocksOf(alts) \in Nat
    BY <1>2, BlocksAre
  <2>2. alts[Len(alts)] \in Alts
    BY <1>2
  <2> QED
    BY <2>1, <2>2, AltBlocksAre
<1>14. BlocksOf(new) = BlocksOf(alts) + j
  BY <1>11, <1>12, <1>13
<1>15. InterfaceBlocks(w.intf) = One(w.intf.array) + BlocksOf(alts)
       /\ InterfaceBlocks(intf) = One(w.intf.array) + BlocksOf(new) /\ One(w.intf.array) \in Int
  BY <1>1, <1>2, <1>6, InterfaceBlocksAre DEF One
<1>16. InterfaceBlocks(intf) = InterfaceBlocks(w.intf) + j /\ InterfaceBlocks(w.intf) \in Int
  BY <1>13, <1>14, <1>15
<1>17. Grows(m, heap, InterfaceBlocks(intf))
  BY <1>1, <1>16, GrowsTwice
<1> QED
  BY <1>2, <1>4, <1>6, <1>9, <1>10, <1>11, <1>17 DEF Swapped

LEMMA RoomDone ==
    ASSUME NEW m \in Heap, NEW exact \in BOOLEAN, NEW w \in AltRounds(m, exact), w.more
    PROVE  /\ AltRoom(w) \in AltRounds(m, exact) /\ AltRoom(w).more
           /\ AltRoom(w).b = w.b /\ AltRoom(w).size = w.size
<1>1. PICK heap : heap = IF w.intf.array THEN Refuse(w.m) ELSE Take1(w.m)
  OBVIOUS
<1>2. PICK intf : intf = [w.intf EXCEPT !.array = TRUE]
  OBVIOUS
<1>3. /\ w \in AltStates /\ w.r = 0 /\ Grows(m, w.m, InterfaceBlocks(w.intf))
      /\ exact => /\ Weight(w.b) = w.size
                  /\ \A k \in 1..Len(w.intf.alts) : Sound(w.intf.alts[k])
  BY DEF AltRounds
<1>4. w.intf \in Interfaces /\ w.m \in Heap
  BY <1>3 DEF AltStates
<1>5. intf \in Interfaces /\ intf.alts = w.intf.alts /\ intf.array = TRUE
  BY <1>2, <1>4 DEF Interfaces
<1>6. PICK j : j = 1 - One(w.intf.array)
  OBVIOUS
<1>7. Grows(w.m, heap, j) /\ j \in Int
  BY <1>1, <1>4, <1>6, GrowsBy DEF One
<1>8. PICK k \in Nat : k = BlocksOf(w.intf.alts)
  BY <1>4, BlocksAre DEF Interfaces
<1>9. InterfaceBlocks(w.intf) = One(w.intf.array) + k /\ InterfaceBlocks(intf) = One(TRUE) + k
  BY <1>4, <1>5, <1>8, InterfaceBlocksAre
<1>10. InterfaceBlocks(intf) = InterfaceBlocks(w.intf) + j /\ InterfaceBlocks(w.intf) \in Int
  BY <1>6, <1>8, <1>9 DEF One
<1>11. Grows(m, heap, InterfaceBlocks(intf)) /\ heap \in Heap
  BY <1>3, <1>4, <1>7, <1>10, GrowsTwice DEF Grows
<1>12. PICK u : u = [w EXCEPT !.intf = intf, !.m = heap]
  OBVIOUS
<1>13. /\ u \in AltStates /\ u.intf = intf /\ u.m = heap
       /\ u.b = w.b /\ u.size = w.size /\ u.more = w.more /\ u.r = w.r
  BY <1>3, <1>5, <1>11, <1>12 DEF AltStates
<1>14. u = AltRoom(w)
  BY <1>1, <1>2, <1>3, <1>12 DEF AltRoom, AltStates
<1>15. u \in AltRounds(m, exact)
  BY <1>3, <1>5, <1>11, <1>13 DEF AltRounds
<1> QED
  BY <1>13, <1>14, <1>15

LEMMA HeaderDone ==
    ASSUME NEW m \in Heap, NEW exact \in BOOLEAN, NEW w \in AltRounds(m, exact), w.more,
           Hd(w.b).type = "interface", Hd(w.b).len <= w.size
    PROVE  AltHeader(w) \in AltMidway(m, exact) /\ ~LastAlt(AltHeader(w)).extra
<1>1. /\ w \in AltStates /\ w.r = 0 /\ Grows(m, w.m, InterfaceBlocks(w.intf))
      /\ exact => /\ Weight(w.b) = w.size
                  /\ \A k \in 1..Len(w.intf.alts) : Sound(w.intf.alts[k])
  BY DEF AltRounds
<1>2. w.intf \in Interfaces /\ w.b \in Seq(Descs) /\ w.size \in Nat /\ w.parsed \in Nat /\ w.number \in Int
  BY <1>1 DEF AltStates
<1>3. /\ Hd(w.b).len \in Nat /\ Tl(w.b) \in Seq(Descs) /\ Weight(Tl(w.b)) \in Nat
      /\ Weight(w.b) = Hd(w.b).len + Weight(Tl(w.b))
  BY <1>2, HeadIs
<1>4. Hd(w.b) \in Descs
  BY <1>2, HeadIs DEF Hole
<1>5. Hd(w.b).num \in Byte /\ Hd(w.b).eps \in Byte
  BY <1>4, DescConstants
<1>6. PICK a : a = Alt(Hd(w.b))
  OBVIOUS
<1>7. a \in Alts /\ ~a.array /\ a.endpoint = <<>> /\ ~a.extra
  BY <1>5, <1>6, Bytes DEF Alt, Alts
<1>8. AltBlocks(a) = 0
  <2>1. Counted(a) = 0 /\ One(a.extra) = 0 /\ One(a.array) = 0
    BY <1>7 DEF Counted, One
  <2> QED
    BY <1>7, <2>1, AltBlocksAre
<1>9. PICK alts \in Seq(Alts) : alts = w.intf.alts
  BY <1>2 DEF Interfaces
<1>10. PICK new : new = Append(alts, a)
  OBVIOUS
<1>11. /\ new \in Seq(Alts) /\ new # <<>> /\ Len(new) = Len(alts) + 1 /\ new[Len(new)] = a
       /\ \A k \in 1..Len(new) : k # Len(new) => k \in 1..Len(alts) /\ new[k] = alts[k]
  BY <1>7, <1>9, <1>10
<1>12. PICK intf : intf = [w.intf EXCEPT !.alts = new]
  OBVIOUS
<1>13. intf \in Interfaces /\ intf.alts = new /\ intf.array = w.intf.array
  BY <1>2, <1>11, <1>12 DEF Interfaces
<1>14. InterfaceBlocks(intf) = InterfaceBlocks(w.intf)
  <2>1. BlocksOf(new) = BlocksOf(alts) + AltBlocks(a) /\ BlocksOf(alts) \in Nat
    BY <1>7, <1>9, <1>10, BlocksAre
  <2>2. BlocksOf(new) = BlocksOf(alts)
    BY <1>8, <2>1
  <2> QED
    BY <1>2, <1>9, <1>13, <2>2, InterfaceBlocksAre
<1>15. PICK n \in Int : n = IF w.number = -1 THEN Hd(w.b).num ELSE w.number
  BY <1>2, <1>5, Bytes
<1>16. PICK size \in Nat, parsed \in Nat :
         size = w.size - Hd(w.b).len /\ parsed = w.parsed + Hd(w.b).len
  BY <1>2, <1>3, SMTT(30)
<1>17. PICK u : u = [w EXCEPT !.b = Tl(w.b), !.size = size, !.parsed = parsed, !.number = n, !.intf = intf]
  OBVIOUS
<1>18. /\ u \in AltStates /\ u.intf = intf /\ u.m = w.m
       /\ u.b = Tl(w.b) /\ u.size = size /\ u.more = w.more /\ u.r = w.r
  BY <1>1, <1>3, <1>13, <1>17 DEF AltStates
<1>19. u = AltHeader(w)
  BY <1>1, <1>2, <1>6, <1>9, <1>10, <1>12, <1>15, <1>16, <1>17 DEF AltHeader, AltStates, Interfaces
<1>20. LastAlt(u) = a
  BY <1>11, <1>13, <1>18 DEF LastAlt
<1>21. exact => Weight(u.b) = u.size
  BY <1>1, <1>3, <1>16, <1>18
<1>22. exact => \A k \in 1..Len(u.intf.alts) : k # Len(u.intf.alts) => Sound(u.intf.alts[k])
  BY <1>1, <1>9, <1>11, <1>13, <1>18
<1> QED
  BY <1>1, <1>7, <1>11, <1>13, <1>14, <1>18, <1>19, <1>20, <1>21, <1>22 DEF AltMidway

LEMMA ExtraDone ==
    ASSUME NEW m \in Heap, NEW exact \in BOOLEAN, NEW w \in AltMidway(m, exact), ~LastAlt(w).extra
    PROVE  \/ AltExtra(w, SkipExtra(w.b, w.size)) \in AltMidway(m, exact)
           \/ /\ AltExtra(w, SkipExtra(w.b, w.size)) \in AltRounds(m, exact)
              /\ ~AltExtra(w, SkipExtra(w.b, w.size)).more
<1>1. PICK x : x = SkipExtra(w.b, w.size)
  OBVIOUS
<1>2. PICK u : u = AltExtra(w, x)
  OBVIOUS
<1>3. /\ w \in AltStates /\ w.more /\ w.r = 0 /\ w.intf.alts # <<>>
      /\ ~LastAlt(w).array /\ LastAlt(w).endpoint = <<>>
      /\ Grows(m, w.m, InterfaceBlocks(w.intf))
      /\ exact => /\ Weight(w.b) = w.size
                  /\ \A k \in 1..Len(w.intf.alts) : k # Len(w.intf.alts) => Sound(w.intf.alts[k])
  BY DEF AltMidway
<1>4. /\ w.b \in Seq(Descs) /\ w.size \in Nat /\ w.parsed \in Nat /\ w.intf \in Interfaces
      /\ w.m \in Heap
  BY <1>3 DEF AltStates
<1>5. /\ x.b \in Seq(Descs) /\ x.size \in Nat /\ x.size <= w.size
      /\ exact => Weight(x.b) = x.size /\ x.end # "short"
  BY <1>1, <1>3, <1>4, Skips
<1>6. PICK parsed \in Nat : parsed = w.parsed + w.size - x.size
  BY <1>4, <1>5
<1>7. PICK w1 : w1 = [w EXCEPT !.b = x.b, !.size = x.size, !.parsed = parsed]
  OBVIOUS
<1>8. w1 = Advance(w, x)
  BY <1>3, <1>6, <1>7 DEF Advance, AltStates
<1>9. /\ w1 \in AltStates /\ w1.b = x.b /\ w1.size = x.size /\ w1.intf = w.intf /\ w1.m = w.m
      /\ w1.more = w.more /\ w1.r = w.r
  BY <1>3, <1>5, <1>7 DEF AltStates
<1>10. LastAlt(w1) = LastAlt(w)
  BY <1>9 DEF LastAlt
<1>11. CASE x.end = "invalid"
  <2>1. u = Failed(w, IO)
    BY <1>2, <1>11 DEF AltExtra
  <2>2. IO \in Int /\ IO < 0
    BY DEF IO
  <2> QED
    BY <1>1, <1>2, <1>3, <2>1, <2>2, FailedDone
<1>12. CASE x.end = "short"
  <2>1. u = Parsed(w1)
    BY <1>2, <1>8, <1>12 DEF AltExtra
  <2> QED
    BY <1>1, <1>2, <1>3, <1>5, <1>9, <1>12, <2>1, ParsedDone
<1>13. CASE x.end \notin {"invalid", "short"} /\ x.size = w.size
  <2>1. u = w1
    BY <1>2, <1>8, <1>13 DEF AltExtra
  <2>2. w1 \in AltMidway(m, exact)
    BY <1>3, <1>5, <1>9, <1>10 DEF AltMidway
  <2> QED
    BY <1>1, <1>2, <2>1, <2>2
<1>14. CASE x.end \notin {"invalid", "short"} /\ x.size # w.size /\ Fails(w.m)
  <2>1. u = Refused(w1)
    BY <1>2, <1>8, <1>14 DEF AltExtra
  <2> QED
    BY <1>1, <1>2, <1>3, <1>5, <1>9, <2>1, RefusedDone
<1>15. CASE x.end \notin {"invalid", "short"} /\ x.size # w.size /\ ~Fails(w.m)
  <2>1. PICK a : a = [LastAlt(w) EXCEPT !.extra = TRUE]
    OBVIOUS
  <2>2. u = WithAlt(w1, a, Take1(w.m))
    BY <1>2, <1>8, <1>15, <2>1 DEF AltExtra
  <2>3. LastAlt(w) \in Alts
    BY <1>3, <1>4 DEF LastAlt, Interfaces
  <2>4. a \in Alts /\ a.extra = TRUE /\ a.array = LastAlt(w).array /\ a.endpoint = LastAlt(w).endpoint
        /\ a.bNumEndpoints = LastAlt(w).bNumEndpoints
    BY <2>1, <2>3 DEF Alts
  <2>5. AltBlocks(a) = AltBlocks(LastAlt(w)) + 1
    <3>1. Counted(a) = 0 /\ Counted(LastAlt(w)) = 0
      BY <1>3, <2>4 DEF Counted
    <3>2. AltBlocks(a) = One(a.extra) + One(a.array) + 0
      BY <2>4, <3>1, AltBlocksAre
    <3>3. AltBlocks(LastAlt(w)) = One(LastAlt(w).extra) + One(LastAlt(w).array) + 0
      BY <2>3, <3>1, AltBlocksAre
    <3> QED
      BY <1>3, <2>4, <3>2, <3>3 DEF One
  <2>6. Grows(w1.m, Take1(w.m), 1)
    BY <1>4, <1>9, GrowsBy
  <2>10. w1.intf.alts # <<>> /\ Grows(m, w1.m, InterfaceBlocks(w1.intf))
         /\ AltBlocks(a) = AltBlocks(LastAlt(w1)) + 1
    BY <1>3, <1>9, <1>10, <2>5
  <2>7. PICK v : v = WithAlt(w1, a, Take1(w.m)) /\ Swapped(m, w1, a, Take1(w.m), v)
    BY <1>9, <2>4, <2>6, <2>10, WithAltDone
  <2>11. /\ v \in AltStates /\ v.m = Take1(w.m) /\ Grows(m, v.m, InterfaceBlocks(v.intf))
         /\ v.b = x.b /\ v.size = x.size /\ v.more /\ v.r = 0
         /\ LastAlt(v) = a /\ Len(v.intf.alts) = Len(w.intf.alts)
         /\ \A k \in 1..Len(w.intf.alts) : k # Len(w.intf.alts) => v.intf.alts[k] = w.intf.alts[k]
    BY <1>3, <1>9, <2>7 DEF Swapped
  <2>8. v.intf.alts # <<>>
    <3>1. Len(w.intf.alts) # 0
      BY <1>3, <1>4 DEF Interfaces
    <3> QED
      BY <2>11, <3>1
  <2>12. ~LastAlt(v).array /\ LastAlt(v).endpoint = <<>>
    BY <1>3, <2>4, <2>11
  <2>13. exact => /\ Weight(v.b) = v.size
                  /\ \A k \in 1..Len(v.intf.alts) : k # Len(v.intf.alts) => Sound(v.intf.alts[k])
    BY <1>3, <1>5, <2>11
  <2>9. v \in AltMidway(m, exact)
    BY <2>8, <2>11, <2>12, <2>13 DEF AltMidway
  <2> QED
    BY <1>1, <1>2, <2>2, <2>7, <2>9
<1> QED
  BY <1>11, <1>12, <1>13, <1>14, <1>15

LEMMA GotDone ==
    ASSUME NEW m \in Heap, NEW exact \in BOOLEAN, NEW w \in AltStates,
           w.more, w.r = 0, w.intf.alts # <<>>,
           LastAlt(w).array, LastAlt(w).endpoint = <<>>,
           Grows(m, w.m, InterfaceBlocks(w.intf)),
           exact => /\ Weight(w.b) = w.size
                    /\ \A k \in 1..Len(w.intf.alts) : k # Len(w.intf.alts) => Sound(w.intf.alts[k]),
           NEW e \in EndpointLoop(LastAlt(w).bNumEndpoints, w.m, w.size, Weight(w.b) = w.size)
    PROVE  AltGot(w, e) \in AltRounds(m, exact)
<1>1. PICK a : a = [LastAlt(w) EXCEPT !.endpoint = e.eps]
  OBVIOUS
<1>2. w.intf \in Interfaces /\ w.m \in Heap /\ w.b \in Seq(Descs) /\ w.size \in Nat /\ w.parsed \in Nat
  BY DEF AltStates
<1>3. LastAlt(w) \in Alts
  BY <1>2 DEF LastAlt, Interfaces
<1>4. /\ e \in EndpointStates /\ Len(e.eps) <= LastAlt(w).bNumEndpoints /\ e.r <= 0
      /\ Grows(w.m, e.m, Kept(e.eps, Len(e.eps)))
      /\ e.size <= w.size /\ (exact => Weight(e.b) = e.size)
  BY DEF EndpointLoop
<1>5. e.eps \in Seq(Endpoints) /\ Len(e.eps) \in Nat /\ e.b \in Seq(Descs) /\ e.size \in Nat
      /\ e.r \in Int
  BY <1>4 DEF EndpointStates
<1>6. a \in Alts /\ a.extra = LastAlt(w).extra /\ a.array = LastAlt(w).array /\ a.endpoint = e.eps
      /\ a.bNumEndpoints = LastAlt(w).bNumEndpoints
  BY <1>1, <1>3, <1>5 DEF Alts
<1>7. PICK kept \in Nat : kept = Kept(e.eps, Len(e.eps))
  <2>1. Len(e.eps) \in 0..Len(e.eps)
    BY <1>5
  <2> QED
    BY <1>5, <2>1, KeptIs
<1>8. PICK k0 \in Int : k0 = One(LastAlt(w).extra) + One(LastAlt(w).array)
  BY DEF One
<1>9. AltBlocks(LastAlt(w)) = k0
  <2>1. Counted(LastAlt(w)) = 0
    <3>1. LastAlt(w).bNumEndpoints \in Nat /\ Len(LastAlt(w).endpoint) = 0
      BY <1>3 DEF Alts
    <3> QED
      BY <3>1 DEF Counted, Least
  <2>2. AltBlocks(LastAlt(w)) = One(LastAlt(w).extra) + One(LastAlt(w).array) + 0
    BY <1>3, <2>1, AltBlocksAre
  <2>3. AltBlocks(LastAlt(w)) = k0 + 0
    BY <1>8, <2>2
  <2> QED
    BY <2>3
<1>10. ASSUME NEW c \in Alts, c.extra = a.extra, c.array = a.array, c.endpoint = e.eps,
              Len(e.eps) <= c.bNumEndpoints
       PROVE  AltBlocks(c) = AltBlocks(LastAlt(w)) + kept
  <2>1. c.bNumEndpoints \in Nat
    BY DEF Alts
  <2>2. Counted(c) = Len(e.eps)
    BY <1>5, <1>6, <1>10, <2>1 DEF Counted, Least
  <2>3. AltBlocks(c) = One(c.extra) + One(c.array) + Kept(c.endpoint, Counted(c))
    BY AltBlocksAre
  <2>4. AltBlocks(c) = k0 + kept
    BY <1>6, <1>7, <1>8, <1>10, <2>2, <2>3
  <2> QED
    BY <1>9, <2>4
<1>11. CASE e.r < 0
  <2>1. PICK v : v = WithAlt(w, a, e.m) /\ Swapped(m, w, a, e.m, v)
    <3>1. AltBlocks(a) = AltBlocks(LastAlt(w)) + kept
      BY <1>4, <1>6, <1>10
    <3> QED
      BY <1>4, <1>6, <1>7, <3>1, WithAltDone
  <2>2. AltGot(w, e) = Failed(v, e.r)
    BY <1>1, <1>11, <2>1 DEF AltGot
  <2>3. v \in AltStates /\ Grows(m, v.m, InterfaceBlocks(v.intf)) /\ v.b = w.b /\ v.size = w.size
    BY <2>1 DEF Swapped
  <2> QED
    BY <1>5, <1>11, <2>2, <2>3, FailedDone
<1>12. CASE ~(e.r < 0)
  <2>1. PICK parsed \in Nat : parsed = w.parsed + w.size - e.size
    BY <1>2, <1>4, <1>5
  <2>2. PICK w1 : w1 = [w EXCEPT !.b = e.b, !.size = e.size, !.parsed = parsed]
    OBVIOUS
  <2>3. w1 = Advance(w, e)
    BY <2>1, <2>2 DEF Advance, AltStates
  <2>4. /\ w1 \in AltStates /\ w1.b = e.b /\ w1.size = e.size /\ w1.intf = w.intf /\ w1.m = w.m
        /\ w1.more = w.more /\ w1.r = w.r
    BY <1>5, <2>2 DEF AltStates
  <2>5. LastAlt(w1) = LastAlt(w)
    BY <2>4 DEF LastAlt
  <2>6. PICK c : c = [a EXCEPT !.bNumEndpoints = Len(e.eps)]
    OBVIOUS
  <2>7. c \in Alts /\ c.extra = a.extra /\ c.array = a.array /\ c.endpoint = e.eps
        /\ c.bNumEndpoints = Len(e.eps)
    BY <1>5, <1>6, <2>6 DEF Alts
  <2>8. AltBlocks(c) = AltBlocks(LastAlt(w1)) + kept
    BY <1>5, <1>10, <2>5, <2>7
  <2>14. w1.intf.alts # <<>> /\ Grows(m, w1.m, InterfaceBlocks(w1.intf)) /\ Grows(w1.m, e.m, kept)
    BY <1>4, <1>7, <2>4
  <2>15. PICK v : v = WithAlt(w1, c, e.m) /\ Swapped(m, w1, c, e.m, v)
    BY <1>7, <2>4, <2>7, <2>8, <2>14, WithAltDone
  <2>9. /\ v \in AltStates /\ v.m = e.m /\ Grows(m, v.m, InterfaceBlocks(v.intf))
        /\ v.b = e.b /\ v.size = e.size /\ v.more /\ v.r = 0
        /\ LastAlt(v) = c /\ Len(v.intf.alts) = Len(w.intf.alts)
        /\ \A k \in 1..Len(w.intf.alts) : k # Len(w.intf.alts) => v.intf.alts[k] = w.intf.alts[k]
    BY <2>4, <2>15 DEF Swapped
  <2>10. AltGot(w, e) = v
    BY <1>1, <1>12, <2>3, <2>6, <2>15 DEF AltGot
  <2>11. Sound(c)
    BY <1>6, <2>7 DEF Sound
  <2>12. exact => \A k \in 1..Len(v.intf.alts) : Sound(v.intf.alts[k])
    BY <2>9, <2>11 DEF LastAlt
  <2> QED
    BY <1>4, <2>9, <2>10, <2>12 DEF AltRounds
<1> QED
  BY <1>11, <1>12

LEMMA EndpointsDone ==
    ASSUME NEW m \in Heap, NEW exact \in BOOLEAN, NEW w \in AltMidway(m, exact)
    PROVE  AltEndpoints(w) \in AltRounds(m, exact)
<1>1. PICK n : n = LastAlt(w).bNumEndpoints
  OBVIOUS
<1>2. /\ w \in AltStates /\ w.more /\ w.r = 0 /\ w.intf.alts # <<>>
      /\ ~LastAlt(w).array /\ LastAlt(w).endpoint = <<>>
      /\ Grows(m, w.m, InterfaceBlocks(w.intf))
      /\ exact => /\ Weight(w.b) = w.size
                  /\ \A k \in 1..Len(w.intf.alts) : k # Len(w.intf.alts) => Sound(w.intf.alts[k])
  BY DEF AltMidway
<1>3. w.b \in Seq(Descs) /\ w.size \in Nat /\ w.intf \in Interfaces /\ w.m \in Heap
  BY <1>2 DEF AltStates
<1>4. LastAlt(w) \in Alts
  BY <1>2, <1>3 DEF LastAlt, Interfaces
<1>5. n \in Nat
  BY <1>1, <1>4 DEF Alts
<1>6. CASE n = 0
  <2>1. AltEndpoints(w) = w
    BY <1>1, <1>6 DEF AltEndpoints
  <2>2. Sound(LastAlt(w))
    BY <1>1, <1>6 DEF Sound
  <2>3. exact => \A k \in 1..Len(w.intf.alts) : Sound(w.intf.alts[k])
    BY <1>2, <2>2 DEF LastAlt
  <2> QED
    BY <1>2, <2>1, <2>3 DEF AltRounds
<1>7. CASE n # 0 /\ Fails(w.m)
  <2>1. AltEndpoints(w) = Refused(w)
    BY <1>1, <1>2, <1>7 DEF AltEndpoints
  <2> QED
    BY <1>2, <2>1, RefusedDone
<1>8. CASE n # 0 /\ ~Fails(w.m)
  <2>1. PICK heap : heap = Take1(w.m)
    OBVIOUS
  <2>2. PICK a : a = [LastAlt(w) EXCEPT !.array = TRUE]
    OBVIOUS
  <2>3. a \in Alts /\ a.extra = LastAlt(w).extra /\ a.array = TRUE /\ a.endpoint = <<>>
        /\ a.bNumEndpoints = n
    BY <1>1, <1>2, <1>4, <2>2 DEF Alts
  <2>4. AltBlocks(a) = AltBlocks(LastAlt(w)) + 1
    <3>1. Counted(a) = 0 /\ Counted(LastAlt(w)) = 0
      BY <1>2, <1>5, <2>3 DEF Counted, Least
    <3>2. AltBlocks(a) = One(a.extra) + One(a.array) + 0
      BY <2>3, <3>1, AltBlocksAre
    <3>3. AltBlocks(LastAlt(w)) = One(LastAlt(w).extra) + One(LastAlt(w).array) + 0
      BY <1>4, <3>1, AltBlocksAre
    <3> QED
      BY <1>2, <2>3, <3>2, <3>3 DEF One
  <2>5. Grows(w.m, heap, 1)
    BY <1>3, <2>1, GrowsBy
  <2>6. PICK v : v = WithAlt(w, a, heap) /\ Swapped(m, w, a, heap, v)
    BY <1>2, <2>3, <2>4, <2>5, WithAltDone
  <2>7. /\ v \in AltStates /\ v.m = heap /\ Grows(m, v.m, InterfaceBlocks(v.intf))
        /\ v.b = w.b /\ v.size = w.size /\ v.more /\ v.r = 0
        /\ LastAlt(v) = a /\ Len(v.intf.alts) = Len(w.intf.alts)
        /\ \A k \in 1..Len(w.intf.alts) : k # Len(w.intf.alts) => v.intf.alts[k] = w.intf.alts[k]
    BY <1>2, <2>6 DEF Swapped
  <2>8. PICK e : e = parse_endpoints(n, w.b, w.size, heap)
    OBVIOUS
  <2>9. e \in EndpointLoop(LastAlt(v).bNumEndpoints, v.m, v.size, Weight(v.b) = v.size)
    <3>1. heap \in Heap
      BY <2>5 DEF Grows
    <3>2. e \in EndpointLoop(n, heap, w.size, Weight(w.b) = w.size)
      BY <1>3, <1>5, <2>8, <3>1, EndpointsParsed
    <3> QED
      BY <2>3, <2>7, <3>2
  <2>10. v.intf.alts # <<>>
    <3>1. Len(w.intf.alts) # 0
      BY <1>2, <1>3 DEF Interfaces
    <3> QED
      BY <2>7, <3>1
  <2>11. exact => /\ Weight(v.b) = v.size
                  /\ \A k \in 1..Len(v.intf.alts) : k # Len(v.intf.alts) => Sound(v.intf.alts[k])
    BY <1>2, <2>7
  <2>12. AltEndpoints(w) = AltGot(v, e)
    BY <1>1, <1>2, <1>8, <2>1, <2>2, <2>6, <2>8 DEF AltEndpoints
  <2>13. LastAlt(v).array /\ LastAlt(v).endpoint = <<>>
    BY <2>3, <2>7
  <2>14. AltGot(v, e) \in AltRounds(m, exact)
    BY <2>7, <2>9, <2>10, <2>11, <2>13, GotDone
  <2> QED
    BY <2>12, <2>14
<1> QED
  BY <1>6, <1>7, <1>8

LEMMA BodyDone ==
    ASSUME NEW m \in Heap, NEW exact \in BOOLEAN, NEW w \in AltMidway(m, exact), ~LastAlt(w).extra
    PROVE  AltBody(w) \in AltRounds(m, exact)
<1>1. PICK u : u = AltExtra(w, SkipExtra(w.b, w.size))
  OBVIOUS
<1>2. AltBody(w) = AltEndpoints(u)
  BY <1>1 DEF AltBody
<1>3. CASE u \in AltMidway(m, exact)
  BY <1>2, <1>3, EndpointsDone
<1>4. CASE u \in AltRounds(m, exact) /\ ~u.more
  <2>1. AltEndpoints(u) = u
    BY <1>4 DEF AltEndpoints
  <2> QED
    BY <1>2, <1>4, <2>1
<1> QED
  BY <1>1, <1>3, <1>4, ExtraDone

LEMMA NoRoomDone ==
    ASSUME NEW m \in Heap, NEW exact \in BOOLEAN, NEW w \in AltRounds(m, exact)
    PROVE  NoRoom(w) \in AltRounds(m, exact)
<1>1. /\ w \in AltStates /\ Grows(m, w.m, InterfaceBlocks(w.intf))
      /\ exact => Weight(w.b) = w.size
  BY DEF AltRounds
<1>2. w.intf \in Interfaces /\ w.m \in Heap
  BY <1>1 DEF AltStates
<1>3. CASE w.intf.array
  <2>1. PICK k \in Nat : k = InterfaceBlocks(w.intf)
    BY <1>2, InterfaceBlocksAre
  <2>10. PICK h1 \in Heap : h1 = Refuse(Release(w.m, 1))
    <3>2. Grows(w.m, Release(w.m, 1), 0 - 1)
      BY <1>2, GrowsBy
    <3>1. Release(w.m, 1) \in Heap
      BY <3>2 DEF Grows
    <3> QED
      BY <3>1, GrowsBy DEF Grows
  <2>11. PICK h2 \in Heap : h2 = Release(h1, k)
    <3>1. Grows(h1, Release(h1, k), 0 - k)
      BY <2>1, GrowsBy
    <3> QED
      BY <3>1 DEF Grows
  <2>2. PICK heap : heap = [h2 EXCEPT !.bad = TRUE]
    OBVIOUS
  <2>3. heap \in Heap /\ heap.bad
    BY <2>2 DEF Heap
  <2>4. NoInterface \in Interfaces /\ Len(NoInterface.alts) = 0
    BY <1>2, InterfaceBlocksAre DEF NoInterface
  <2>12. PICK code \in Int : code = NO_MEM /\ code < 0
    BY DEF NO_MEM
  <2>5. PICK u : u = [w EXCEPT !.m = heap, !.r = code, !.more = FALSE, !.intf = NoInterface]
    OBVIOUS
  <2>6. u \in AltStates /\ u.m = heap /\ u.r = code /\ u.more = FALSE /\ u.intf = NoInterface
        /\ u.b = w.b /\ u.size = w.size
    BY <1>1, <2>3, <2>4, <2>5 DEF AltStates
  <2>7. NoRoom(w) = u
    <3>1. PICK v : v = [w EXCEPT !.m = h1]
      OBVIOUS
    <3>2. v \in AltStates /\ v.intf = w.intf /\ v.m = h1
      BY <1>1, <3>1 DEF AltStates
    <3>3. Refused([w EXCEPT !.m = Release(@, 1)]) = Failed(v, NO_MEM)
      BY <1>1, <2>10, <3>1 DEF Refused, AltStates
    <3>4. NoRoom(w) = [Failed(v, NO_MEM) EXCEPT !.m.bad = TRUE]
      BY <1>3, <3>3 DEF NoRoom
    <3>5. Failed(v, NO_MEM) = [v EXCEPT !.r = NO_MEM, !.more = FALSE, !.intf = NoInterface,
                                        !.m = Release(v.m, k)]
      BY <2>1, <3>2 DEF Failed
    <3> QED
      BY <1>1, <2>2, <2>5, <2>11, <2>12, <3>1, <3>2, <3>4, <3>5 DEF AltStates
  <2>8. Grows(m, heap, InterfaceBlocks(NoInterface))
    BY <2>3 DEF Grows
  <2> QED
    BY <1>1, <2>4, <2>6, <2>7, <2>8 DEF AltRounds
<1>4. CASE ~w.intf.array
  <2>1. NoRoom(w) = Refused(w)
    BY <1>4 DEF NoRoom
  <2> QED
    BY <1>1, <2>1, RefusedDone
<1> QED
  BY <1>3, <1>4

LEMMA AltLoopDone ==
    ASSUME NEW m \in Heap, NEW exact \in BOOLEAN, NEW w \in AltRounds(m, exact)
    PROVE  AltLoop(w) \in AltRounds(m, exact)
<1>1. PICK h : h = Hd(w.b)
  OBVIOUS
<1>2. /\ w \in AltStates /\ Grows(m, w.m, InterfaceBlocks(w.intf))
      /\ exact => /\ Weight(w.b) = w.size
                  /\ \A k \in 1..Len(w.intf.alts) : Sound(w.intf.alts[k])
  BY DEF AltRounds
<1>3. w.b \in Seq(Descs) /\ w.size \in Nat
  BY <1>2 DEF AltStates
<1>4. CASE ~w.more
  BY <1>4 DEF AltLoop
<1>5. CASE w.more /\ w.size < INTERFACE_DESC_LENGTH
  <2>1. AltLoop(w) = Parsed(w)
    BY <1>5 DEF AltLoop
  <2> QED
    BY <1>2, <2>1, ParsedDone
<1>6. CASE w.more /\ ~(w.size < INTERFACE_DESC_LENGTH) /\ Fails(w.m)
  <2>1. AltLoop(w) = NoRoom(w)
    BY <1>6 DEF AltLoop
  <2> QED
    BY <2>1, NoRoomDone
<1>7. CASE w.more /\ ~(w.size < INTERFACE_DESC_LENGTH) /\ ~Fails(w.m)
  <2>1. PICK v : v = AltRoom(w)
    OBVIOUS
  <2>2. v \in AltRounds(m, exact) /\ v.more /\ v.b = w.b /\ v.size = w.size
    BY <1>7, <2>1, RoomDone
  <2>3. /\ v \in AltStates /\ Grows(m, v.m, InterfaceBlocks(v.intf))
        /\ exact => /\ Weight(v.b) = v.size
                    /\ \A k \in 1..Len(v.intf.alts) : Sound(v.intf.alts[k])
    BY <2>2 DEF AltRounds
  <2>4. CASE h.type # "interface" \/ (h.len >= INTERFACE_DESC_LENGTH /\ h.len > w.size)
    <3>1. AltLoop(w) = Parsed(v)
      BY <1>1, <1>7, <2>1, <2>4 DEF AltLoop
    <3> QED
      BY <2>3, <3>1, ParsedDone
  <2>5. CASE /\ ~(h.type # "interface" \/ (h.len >= INTERFACE_DESC_LENGTH /\ h.len > w.size))
             /\ h.len < INTERFACE_DESC_LENGTH \/ h.eps > USB_MAXENDPOINTS
    <3>1. AltLoop(w) = Failed(v, IO)
      BY <1>1, <1>7, <2>1, <2>5 DEF AltLoop
    <3>2. IO \in Int /\ IO < 0
      BY DEF IO
    <3> QED
      BY <2>3, <3>1, <3>2, FailedDone
  <2>6. CASE /\ ~(h.type # "interface" \/ (h.len >= INTERFACE_DESC_LENGTH /\ h.len > w.size))
             /\ ~(h.len < INTERFACE_DESC_LENGTH \/ h.eps > USB_MAXENDPOINTS)
    <3>1. PICK u : u = AltHeader(v)
      OBVIOUS
    <3>2. h.type = "interface" /\ h.len <= v.size
      <4>1. h.len \in Nat
        BY <1>1, <1>3, HeadIs
      <4> QED
        BY <1>3, <2>2, <2>6, <4>1 DEF INTERFACE_DESC_LENGTH
    <3>3. u \in AltMidway(m, exact) /\ ~LastAlt(u).extra
      BY <1>1, <2>2, <3>1, <3>2, HeaderDone
    <3>4. PICK t : t = AltBody(u) /\ t \in AltRounds(m, exact)
      BY <3>3, BodyDone
    <3>5. AltLoop(w) = AltNext(t)
      BY <1>1, <1>7, <2>1, <2>6, <3>1, <3>4 DEF AltLoop
    <3>6. Parsed(t) \in AltRounds(m, exact)
      <4>1. /\ t \in AltStates /\ Grows(m, t.m, InterfaceBlocks(t.intf))
            /\ exact => /\ Weight(t.b) = t.size
                        /\ \A k \in 1..Len(t.intf.alts) : Sound(t.intf.alts[k])
        BY <3>4 DEF AltRounds
      <4> QED
        BY <4>1, ParsedDone
    <3>7. AltNext(t) = t \/ AltNext(t) = Parsed(t)
      BY DEF AltNext
    <3> QED
      BY <3>4, <3>5, <3>6, <3>7
  <2> QED
    BY <2>4, <2>5, <2>6
<1> QED
  BY <1>4, <1>5, <1>6, <1>7

LEMMA InterfaceParsed ==
    ASSUME NEW b \in Seq(Descs), NEW size \in Nat, NEW m \in Heap
    PROVE  parse_interface(b, size, m) \in AltRounds(m, Weight(b) = size)
<1> DEFINE w0 == [b |-> b, size |-> size, m |-> m, parsed |-> 0, r |-> 0, more |-> TRUE,
                  number |-> -1, intf |-> NoInterface]
           loop == CHOOSE g : g = [k \in Nat |-> IF k = 0 THEN w0 ELSE AltLoop(g[k - 1])]
<1>1. parse_interface(b, size, m) = loop[Len(b) + 1]
  BY DEF parse_interface
<1>2. PICK exact \in BOOLEAN : exact <=> Weight(b) = size
  OBVIOUS
<1>3. PICK W : W = AltRounds(m, exact)
  OBVIOUS
<1>4. w0 \in W
  <2>1. NoInterface \in Interfaces /\ InterfaceBlocks(NoInterface) = 0
    <3>1. NoInterface \in Interfaces
      BY DEF NoInterface, Interfaces
    <3> QED
      BY <3>1, InterfaceBlocksAre
  <2>2. w0 \in AltStates /\ w0.r = 0 /\ w0.b = b /\ w0.size = size /\ w0.m = m /\ w0.intf = NoInterface
    BY <2>1 DEF AltStates
  <2>3. Len(NoInterface.alts) = 0
    BY DEF NoInterface
  <2>4. Grows(m, m, 0)
    BY GrowsBy
  <2> HIDE DEF w0
  <2> QED
    BY <1>2, <1>3, <2>1, <2>2, <2>3, <2>4 DEF AltRounds
<1>5. \A w \in W : AltLoop(w) \in W
  BY <1>3, AltLoopDone
<1> HIDE DEF w0
<1>6. PICK F : F = [w \in W |-> AltLoop(w)]
  OBVIOUS
<1>7. F \in [W -> W]
  BY <1>5, <1>6
<1>8. PICK g : Runs(g, w0, F) /\ \A k \in Nat : g[k] \in W
  BY <1>4, <1>7, Rounds
<1>9. g = [k \in Nat |-> IF k = 0 THEN w0 ELSE AltLoop(g[k - 1])]
  <2>1. ASSUME NEW k \in Nat, k # 0 PROVE g[k] = AltLoop(g[k - 1])
    <3>1. k - 1 \in Nat /\ (k - 1) + 1 = k
      BY <2>1
    <3>2. g[k] = F[g[k - 1]] /\ g[k - 1] \in W
      BY <1>8, <3>1 DEF Runs
    <3> QED
      BY <1>6, <3>2
  <2> QED
    BY <1>8, <2>1 DEF Runs
<1>10. loop = [k \in Nat |-> IF k = 0 THEN w0 ELSE AltLoop(loop[k - 1])]
  BY <1>9
<1> HIDE DEF loop
<1>11. loop[0] = w0 /\ \A k \in Nat : loop[k + 1] = AltLoop(loop[k])
  BY <1>10
<1>12. PICK P : P = {k \in Nat : loop[k] \in W}
  OBVIOUS
<1>13. 0 \in P /\ \A k \in Nat : k \in P => k + 1 \in P
  <2>1. 0 \in P
    BY <1>4, <1>11, <1>12
  <2>2. ASSUME NEW k \in Nat, k \in P PROVE k + 1 \in P
    <3>1. loop[k + 1] = AltLoop(loop[k]) /\ loop[k] \in W
      BY <1>11, <1>12, <2>2
    <3>2. loop[k + 1] \in W
      BY <1>5, <3>1
    <3> QED
      BY <1>12, <3>2
  <2> QED
    BY <2>1, <2>2
<1>14. Len(b) + 1 \in P
  <2>1. Len(b) + 1 \in Nat
    OBVIOUS
  <2> QED
    BY <1>13, <2>1, Inductive
<1>15. loop[Len(b) + 1] \in AltRounds(m, exact)
  BY <1>3, <1>12, <1>14
<1>16. exact = (Weight(b) = size)
  BY <1>2
<1> QED
  BY <1>1, <1>15, <1>16

-----------------------------------------------------------------------------
(* Configurations.                                                         *)

Configs == {c \in [array : BOOLEAN, extra : BOOLEAN, bNumInterfaces : Nat, interface : Seq(Interfaces)] :
              c.bNumInterfaces <= Len(c.interface)}

(* Blocks of the first n interfaces. *)
BlocksWithin(ifs, n) == SumOf([k \in 1..n |-> InterfaceBlocks(ifs[k])], n)

(* Interfaces that were not parsed own nothing. *)
Blank(ifs, i) == \A k \in 1..Len(ifs) : k > i => ifs[k] = NoInterface

LEMMA WithinIs ==
    ASSUME NEW ifs \in Seq(Interfaces), NEW n \in Nat, n <= Len(ifs)
    PROVE  /\ BlocksWithin(ifs, n) \in Nat
           /\ BlocksWithin(ifs, 0) = 0
           /\ \A intf \in Interfaces, j \in 1..n :
                BlocksWithin([ifs EXCEPT ![j] = intf], n) =
                  BlocksWithin(ifs, n) - InterfaceBlocks(ifs[j]) + InterfaceBlocks(intf)
<1> DEFINE f(s) == [k \in 1..n |-> InterfaceBlocks(s[k])]
<1>1. \A k \in 1..n : ifs[k] \in Interfaces
  OBVIOUS
<1>2. PICK h : h = f(ifs)
  OBVIOUS
<1>3. \A k \in 1..n : h[k] = InterfaceBlocks(ifs[k]) /\ h[k] \in Nat
  <2>1. \A k \in 1..n : h[k] = InterfaceBlocks(ifs[k])
    BY <1>2
  <2> QED
    BY <1>1, <2>1, InterfaceBlocksAre
<1>4. BlocksWithin(ifs, n) = SumOf(h, n) /\ SumOf(h, n) \in Nat
  <2>1. SumOf(h, n) \in Nat
    BY <1>3, SumNat
  <2> QED
    BY <1>2, <2>1 DEF BlocksWithin
<1>5. BlocksWithin(ifs, 0) = 0
  BY SumIs DEF BlocksWithin
<1>6. ASSUME NEW intf \in Interfaces, NEW j \in 1..n
      PROVE  BlocksWithin([ifs EXCEPT ![j] = intf], n) =
               BlocksWithin(ifs, n) - InterfaceBlocks(ifs[j]) + InterfaceBlocks(intf)
  <2>1. PICK s : s = [ifs EXCEPT ![j] = intf]
    OBVIOUS
  <2>2. s[j] = intf /\ \A k \in 1..n : s[k] \in Interfaces /\ (k # j => s[k] = ifs[k])
    BY <1>1, <2>1
  <2>3. PICK g : g = f(s)
    OBVIOUS
  <2>4. \A k \in 1..n : g[k] = InterfaceBlocks(s[k])
    BY <2>3
  <2>5. \A k \in 1..n : g[k] \in Nat
    BY <2>2, <2>4, InterfaceBlocksAre
  <2>6. g[j] = InterfaceBlocks(intf) /\ h[j] = InterfaceBlocks(ifs[j])
    BY <1>3, <2>2, <2>4
  <2>7. \A k \in 1..n : h[k] \in Int /\ g[k] \in Int /\ (k # j => g[k] = h[k])
    BY <1>3, <2>2, <2>4, <2>5
  <2>8. SumOf(g, n) = SumOf(h, n) - h[j] + g[j]
    BY <2>7, SumChange
  <2>9. BlocksWithin(s, n) = SumOf(g, n)
    BY <2>3 DEF BlocksWithin
  <2> QED
    BY <1>4, <2>1, <2>6, <2>8, <2>9
<1> QED
  BY <1>4, <1>5, <1>6

LEMMA BlankWithin ==
    ASSUME NEW ifs \in Seq(Interfaces), NEW i \in Nat, i <= Len(ifs), Blank(ifs, i)
    PROVE  BlocksWithin(ifs, Len(ifs)) = BlocksWithin(ifs, i)
<1>1. PICK n \in Nat : n = Len(ifs)
  OBVIOUS
<1>2. PICK d \in Nat : n = i + d
  <2>1. n - i \in Nat /\ n = i + (n - i)
    BY <1>1
  <2> QED
    BY <2>1
<1>3. PICK f : f = [k \in 1..n |-> InterfaceBlocks(ifs[k])]
  OBVIOUS
<1>4. PICK h : h = [k \in 1..i |-> InterfaceBlocks(ifs[k])]
  OBVIOUS
<1>5. PICK g : g = [k \in 1..d |-> f[i + k]]
  OBVIOUS
<1>6. \A k \in 1..n : f[k] = InterfaceBlocks(ifs[k]) /\ f[k] \in Int
  <2>1. \A k \in 1..n : f[k] = InterfaceBlocks(ifs[k]) /\ ifs[k] \in Interfaces
    BY <1>1, <1>3
  <2> QED
    BY <2>1, InterfaceBlocksAre
<1>7. \A k \in 1..d : g[k] = f[i + k]
  BY <1>5
<1>8. \A k \in 1..d : g[k] = 0
  <2>1. TAKE k \in 1..d
  <2>2. i + k \in 1..n /\ i + k > i
    BY <1>2
  <2>3. ifs[i + k] = NoInterface
    BY <1>1, <2>2 DEF Blank
  <2>4. InterfaceBlocks(NoInterface) = 0
    BY InterfaceBlocksAre, <2>2, <2>3, <1>1
  <2> QED
    BY <1>6, <1>7, <2>2, <2>3, <2>4
<1>9. SumOf(g, d) = 0
  BY <1>8, SumZero
<1>10. SumOf(f, i + d) = SumOf(f, i) + SumOf(g, d)
  <2>1. \A k \in 1..i + d : f[k] \in Int
    BY <1>2, <1>6
  <2> QED
    BY <1>7, <2>1, SumSplit
<1>11. SumOf(h, i) = SumOf(f, i) /\ SumOf(f, i) \in Int
  <2>1. \A k \in 1..i : h[k] = f[k] /\ f[k] \in Int
    BY <1>2, <1>4, <1>6
  <2> QED
    BY <2>1, SumSame, SumInt
<1>12. BlocksWithin(ifs, n) = SumOf(f, n) /\ BlocksWithin(ifs, i) = SumOf(h, i)
  BY <1>3, <1>4 DEF BlocksWithin
<1> QED
  BY <1>1, <1>2, <1>9, <1>10, <1>11, <1>12

LEMMA ConfigBlocksAre ==
    ASSUME NEW c \in Configs
    PROVE  /\ ConfigBlocks(c) = One(c.array) + One(c.extra) + BlocksWithin(c.interface, c.bNumInterfaces)
           /\ ConfigBlocks(c) \in Nat
           /\ BlocksWithin(c.interface, c.bNumInterfaces) \in Nat
           /\ NoConfig \in Configs /\ ConfigBlocks(NoConfig) = 0
<1>1. c.interface \in Seq(Interfaces) /\ c.bNumInterfaces \in Nat /\ c.bNumInterfaces <= Len(c.interface)
      /\ Len(c.interface) \in Nat
  BY DEF Configs
<1>2. Least(c.bNumInterfaces, Len(c.interface)) = c.bNumInterfaces
  BY <1>1 DEF Least
<1>3. ConfigBlocks(c) = One(c.array) + One(c.extra) + BlocksWithin(c.interface, c.bNumInterfaces)
  BY <1>2 DEF ConfigBlocks, BlocksWithin
<1>4. One(c.array) \in Nat /\ One(c.extra) \in Nat
  BY DEF One
<1>5. BlocksWithin(c.interface, c.bNumInterfaces) \in Nat
  BY <1>1, WithinIs
<1>6. NoConfig \in Configs
  BY DEF NoConfig, Configs
<1>7. ConfigBlocks(NoConfig) = 0
  <2>1. Least(0, 0) = 0
    BY DEF Least
  <2>2. NoConfig.bNumInterfaces = 0 /\ Len(NoConfig.interface) = 0 /\ ~NoConfig.array /\ ~NoConfig.extra
    BY DEF NoConfig
  <2> QED
    BY <2>1, <2>2, SumIs DEF ConfigBlocks, One
<1> QED
  BY <1>3, <1>4, <1>5, <1>6, <1>7

(* In every altsetting endpoints are counted only where there is an array. *)
SoundInterface(intf) == \A k \in 1..Len(intf.alts) : Sound(intf.alts[k])
SoundConfig(c) == \A i \in 1..Len(c.interface) : SoundInterface(c.interface[i])

ConfigStates ==
    [more : BOOLEAN, i : Nat, b : Seq(Descs), size : Nat, r : Int, config : Configs, m : Heap]

(* Between two rounds of the loop over interfaces.                         *)
Filling(v) ==
    /\ v.r >= 0 /\ v.i <= v.config.bNumInterfaces
    /\ v.config.bNumInterfaces = Len(v.config.interface)
    /\ Blank(v.config.interface, v.i)

ConfigRounds(m, exact) == {v \in ConfigStates :
    /\ v.more => Filling(v)
    /\ v.r < 0 => v.config = NoConfig
    /\ Grows(m, v.m, ConfigBlocks(v.config))
    /\ exact => /\ v.more => Weight(v.b) = v.size
                /\ SoundConfig(v.config)}

LEMMA StopDone ==
    ASSUME NEW m \in Heap, NEW exact \in BOOLEAN, NEW v \in ConfigStates,
           NEW r \in Int, NEW c \in Configs, NEW heap, r < 0 => c = NoConfig,
           Grows(m, heap, ConfigBlocks(c)), exact => SoundConfig(c)
    PROVE  ConfigStop(v, r, c, heap) \in ConfigRounds(m, exact)
<1>1. PICK u : u = ConfigStop(v, r, c, heap)
  OBVIOUS
<1>2. heap \in Heap
  BY DEF Grows
<1>3. u \in ConfigStates /\ u.more = FALSE /\ u.r = r /\ u.config = c /\ u.m = heap
  BY <1>1, <1>2 DEF ConfigStop, ConfigStates
<1> QED
  BY <1>1, <1>3 DEF ConfigRounds

LEMMA ConfigFailedDone ==
    ASSUME NEW m \in Heap, NEW exact \in BOOLEAN, NEW v \in ConfigStates,
           NEW r \in Int, r < 0, NEW heap, Grows(m, heap, ConfigBlocks(v.config))
    PROVE  ConfigFailed(v, r, heap) \in ConfigRounds(m, exact)
<1>1. v.config \in Configs
  BY DEF ConfigStates
<1>2. PICK k \in Nat : k = ConfigBlocks(v.config)
  BY <1>1, ConfigBlocksAre
<1>3. heap \in Heap
  BY DEF Grows
<1>4. PICK h : h = Release(heap, k)
  OBVIOUS
<1>5. Grows(heap, h, 0 - k)
  BY <1>3, <1>4, GrowsBy
<1>6. Grows(m, h, k + (0 - k)) /\ k + (0 - k) = 0
  BY <1>2, <1>5, GrowsTwice
<1>7. NoConfig \in Configs /\ ConfigBlocks(NoConfig) = 0
  BY <1>1, ConfigBlocksAre
<1>8. SoundConfig(NoConfig)
  BY DEF SoundConfig, NoConfig
<1>9. ConfigFailed(v, r, heap) = ConfigStop(v, r, NoConfig, h)
  BY <1>2, <1>4 DEF ConfigFailed
<1> QED
  BY <1>6, <1>7, <1>8, <1>9, StopDone

LEMMA ConfigEndsDone ==
    ASSUME NEW m \in Heap, NEW exact \in BOOLEAN, NEW v \in ConfigStates, Filling(v),
           NEW heap, Grows(m, heap, ConfigBlocks(v.config)), exact => SoundConfig(v.config)
    PROVE  ConfigEnds(v, heap) \in ConfigRounds(m, exact)
<1>1. v.config \in Configs /\ v.i \in Nat /\ v.size \in Nat
  BY DEF ConfigStates
<1>2. PICK c : c = [v.config EXCEPT !.bNumInterfaces = v.i]
  OBVIOUS
<1>3. v.config.interface \in Seq(Interfaces) /\ Len(v.config.interface) \in Nat
      /\ v.i <= Len(v.config.interface)
  BY <1>1 DEF Filling, Configs
<1>4. c \in Configs /\ c.interface = v.config.interface /\ c.array = v.config.array
      /\ c.extra = v.config.extra /\ c.bNumInterfaces = v.i
  BY <1>1, <1>2, <1>3 DEF Configs
<1>5. BlocksWithin(c.interface, c.bNumInterfaces)
        = BlocksWithin(v.config.interface, v.config.bNumInterfaces)
  BY <1>1, <1>3, <1>4, BlankWithin DEF Filling
<1>6. ConfigBlocks(c) = ConfigBlocks(v.config)
  BY <1>1, <1>4, <1>5, ConfigBlocksAre
<1>7. exact => SoundConfig(c)
  BY <1>4 DEF SoundConfig
<1>8. PICK r \in Int : r = v.size /\ r >= 0
  BY <1>1
<1>9. ConfigEnds(v, heap) = ConfigStop(v, r, c, heap)
  BY <1>2, <1>8 DEF ConfigEnds
<1>10. Grows(m, heap, ConfigBlocks(c)) /\ ~(r < 0)
  BY <1>6, <1>8
<1> QED
  BY <1>4, <1>7, <1>9, <1>10, StopDone

(* An interface was parsed, from a state of the loop in which one more is  *)
(* wanted.                                                                 *)
Wanting(m, exact) == {v \in ConfigStates :
    /\ Filling(v) /\ v.i < v.config.bNumInterfaces
    /\ Grows(m, v.m, ConfigBlocks(v.config))
    /\ exact => Weight(v.b) = v.size /\ SoundConfig(v.config)}

LEMMA FilledDone ==
    ASSUME NEW m \in Heap, NEW exact \in BOOLEAN, NEW v \in Wanting(m, exact),
           NEW p \in AltRounds(v.m, exact), p.r > 0,
           NEW u, u = [v EXCEPT !.i = @ + 1, !.b = p.b, !.size = p.size, !.r = p.size, !.m = p.m,
                                !.config.interface[v.i + 1] = p.intf]
    PROVE  u \in ConfigRounds(m, exact)
<1>1. /\ v \in ConfigStates /\ Filling(v) /\ v.i < v.config.bNumInterfaces
      /\ Grows(m, v.m, ConfigBlocks(v.config))
      /\ exact => Weight(v.b) = v.size /\ SoundConfig(v.config)
  BY DEF Wanting
<1>2. v.config \in Configs /\ v.i \in Nat /\ v.m \in Heap
  BY <1>1 DEF ConfigStates
<1>3. /\ p \in AltStates /\ Grows(v.m, p.m, InterfaceBlocks(p.intf))
      /\ exact => Weight(p.b) = p.size /\ SoundInterface(p.intf)
  BY DEF AltRounds, SoundInterface
<1>4. p.b \in Seq(Descs) /\ p.size \in Nat /\ p.intf \in Interfaces /\ p.m \in Heap
  BY <1>3 DEF AltStates
<1>5. PICK ifs \in Seq(Interfaces) : ifs = v.config.interface
  BY <1>2 DEF Configs
<1>6. PICK n \in Nat : n = Len(ifs) /\ n = v.config.bNumInterfaces
  BY <1>1, <1>5 DEF Filling
<1>7. PICK j \in 1..n : j = v.i + 1
  BY <1>1, <1>2, <1>6
<1>8. ifs[j] = NoInterface
  BY <1>1, <1>2, <1>5, <1>6, <1>7 DEF Filling, Blank
<1>9. PICK new : new = [ifs EXCEPT ![j] = p.intf]
  OBVIOUS
<1>10. new \in Seq(Interfaces) /\ Len(new) = n /\ new[j] = p.intf /\ \A k \in 1..n : k # j => new[k] = ifs[k]
  <2>3. PICK intf \in Interfaces : intf = p.intf
    BY <1>4
  <2>4. new = [ifs EXCEPT ![j] = intf] /\ j \in 1..Len(ifs)
    BY <1>6, <1>7, <1>9, <2>3
  <2>1. new \in Seq(Interfaces) /\ Len(new) = Len(ifs)
    BY <2>4
  <2>2. j \in 1..Len(ifs) /\ \A k \in 1..n : k \in 1..Len(ifs)
    BY <1>6, <1>7
  <2> QED
    BY <1>6, <1>9, <2>1, <2>2
<1>11. PICK c : c = [v.config EXCEPT !.interface = new]
  OBVIOUS
<1>12. c \in Configs /\ c.interface = new /\ c.array = v.config.array /\ c.extra = v.config.extra
       /\ c.bNumInterfaces = n
  <2>1. v.config \in [array : BOOLEAN, extra : BOOLEAN, bNumInterfaces : Nat, interface : Seq(Interfaces)]
    BY <1>2 DEF Configs
  <2>2. c = [array |-> v.config.array, extra |-> v.config.extra, bNumInterfaces |-> n, interface |-> new]
    BY <1>6, <1>11, <2>1
  <2>3. c.interface = new /\ c.array = v.config.array /\ c.extra = v.config.extra /\ c.bNumInterfaces = n
    BY <2>2
  <2>4. c \in [array : BOOLEAN, extra : BOOLEAN, bNumInterfaces : Nat, interface : Seq(Interfaces)]
    <3>1. v.config.array \in BOOLEAN /\ v.config.extra \in BOOLEAN
      BY <2>1
    <3> QED
      BY <1>10, <2>2, <3>1
  <2>5. c.bNumInterfaces <= Len(c.interface)
    BY <1>10, <2>3
  <2> QED
    BY <2>3, <2>4, <2>5 DEF Configs
<1>13. PICK k \in Nat : k = InterfaceBlocks(p.intf)
  BY <1>4, InterfaceBlocksAre
<1>14. InterfaceBlocks(ifs[j]) = 0
  BY <1>4, <1>8, InterfaceBlocksAre
<1>15. BlocksWithin(new, n) = BlocksWithin(ifs, n) + k /\ BlocksWithin(ifs, n) \in Nat
  <2>3. n <= Len(ifs)
    BY <1>6
  <2>1. BlocksWithin(ifs, n) \in Nat /\ n <= Len(ifs)
    BY <2>3, WithinIs
  <2>2. BlocksWithin(new, n) = BlocksWithin(ifs, n) - InterfaceBlocks(ifs[j]) + InterfaceBlocks(p.intf)
    BY <1>4, <1>9, <2>1, WithinIs
  <2> QED
    BY <1>13, <1>14, <2>1, <2>2
<1>16. ConfigBlocks(c) = ConfigBlocks(v.config) + k /\ ConfigBlocks(v.config) \in Nat
  <2>1. ConfigBlocks(v.config) = One(v.config.array) + One(v.config.extra) + BlocksWithin(ifs, n)
        /\ ConfigBlocks(v.config) \in Nat
    BY <1>2, <1>5, <1>6, ConfigBlocksAre
  <2>2. ConfigBlocks(c) = One(v.config.array) + One(v.config.extra) + BlocksWithin(new, n)
    BY <1>12, ConfigBlocksAre
  <2>3. One(v.config.array) \in Nat /\ One(v.config.extra) \in Nat
    BY DEF One
  <2> QED
    BY <1>15, <2>1, <2>2, <2>3
<1>17. Grows(m, p.m, ConfigBlocks(c))
  BY <1>1, <1>3, <1>13, <1>16, GrowsTwice
<1>18. PICK i \in Nat : i = v.i + 1 /\ i = j
  BY <1>2, <1>7
<1>19. u = [v EXCEPT !.i = i, !.b = p.b, !.size = p.size, !.r = p.size, !.m = p.m, !.config = c]
  BY <1>1, <1>5, <1>7, <1>9, <1>11, <1>18, <1>2 DEF ConfigStates, Configs
<1>20. PICK size \in Int : size = p.size /\ size \in Nat /\ size >= 0
  BY <1>4
<1>21. u \in ConfigStates /\ u.i = i /\ u.b = p.b /\ u.size = size /\ u.r = size /\ u.m = p.m /\ u.config = c
  BY <1>1, <1>4, <1>12, <1>19, <1>20 DEF ConfigStates
<1>22. Blank(new, i)
  <2>1. SUFFICES ASSUME NEW l \in 1..Len(new), l > i PROVE new[l] = NoInterface
    BY DEF Blank
  <2>2. l \in 1..n /\ l # j /\ l > v.i
    BY <1>2, <1>10, <1>18, <2>1
  <2>3. new[l] = ifs[l]
    BY <1>10, <2>2
  <2>4. ifs[l] = NoInterface
    BY <1>1, <1>5, <1>6, <2>2 DEF Filling, Blank
  <2> QED
    BY <2>3, <2>4
<1>23. Filling(u)
  <2>1. i <= n
    BY <1>18, <1>7
  <2> QED
    BY <1>10, <1>12, <1>20, <1>21, <1>22, <2>1 DEF Filling
<1>24. exact => SoundConfig(c)
  <2>1. SUFFICES ASSUME exact, NEW l \in 1..n PROVE SoundInterface(new[l])
    BY <1>10, <1>12 DEF SoundConfig
  <2>2. CASE l = j
    BY <1>3, <1>10, <2>1, <2>2
  <2>3. CASE l # j
    BY <1>1, <1>5, <1>6, <1>10, <2>1, <2>3 DEF SoundConfig
  <2> QED
    BY <2>2, <2>3
<1>25. ~(u.r < 0)
  BY <1>20, <1>21
<1>26. exact => Weight(u.b) = u.size
  BY <1>3, <1>20, <1>21
<1> QED
  BY <1>17, <1>21, <1>23, <1>24, <1>25, <1>26 DEF ConfigRounds

LEMMA InterfaceGotDone ==
    ASSUME NEW m \in Heap, NEW exact \in BOOLEAN, NEW v \in Wanting(m, exact),
           NEW p \in AltRounds(v.m, exact)
    PROVE  InterfaceGot(v, p) \in ConfigRounds(m, exact)
<1>1. /\ v \in ConfigStates /\ Filling(v) /\ v.i < v.config.bNumInterfaces
      /\ Grows(m, v.m, ConfigBlocks(v.config))
      /\ exact => Weight(v.b) = v.size /\ SoundConfig(v.config)
  BY DEF Wanting
<1>2. v.config \in Configs /\ v.m \in Heap
  BY <1>1 DEF ConfigStates
<1>3. /\ p \in AltStates /\ Grows(v.m, p.m, InterfaceBlocks(p.intf))
      /\ p.r < 0 => p.intf = NoInterface
  BY DEF AltRounds
<1>4. p.r \in Int /\ p.intf \in Interfaces /\ p.m \in Heap
  BY <1>3 DEF AltStates
<1>5. PICK blocks \in Nat : blocks = ConfigBlocks(v.config)
  BY <1>2, ConfigBlocksAre
<1>6. PICK k \in Nat : k = InterfaceBlocks(p.intf)
  BY <1>4, InterfaceBlocksAre
<1>7. Grows(m, p.m, blocks + k)
  BY <1>1, <1>3, <1>5, <1>6, GrowsTwice
<1>8. CASE p.r < 0
  <2>1. k = 0
    BY <1>3, <1>4, <1>6, <1>8, InterfaceBlocksAre
  <2>2. blocks + k = blocks
    BY <2>1
  <2>3. Grows(m, p.m, ConfigBlocks(v.config))
    BY <1>5, <1>7, <2>2
  <2>4. InterfaceGot(v, p) = ConfigFailed(v, p.r, p.m)
    BY <1>8 DEF InterfaceGot
  <2> QED
    BY <1>1, <1>4, <1>8, <2>3, <2>4, ConfigFailedDone
<1>9. CASE p.r = 0
  <2>1. PICK h : h = Lose(p.m, k)
    OBVIOUS
  <2>2. Grows(p.m, h, 0 - k)
    BY <1>4, <2>1, GrowsBy
  <2>3. Grows(m, h, (blocks + k) + (0 - k)) /\ (blocks + k) + (0 - k) = blocks
    BY <1>7, <2>2, GrowsTwice
  <2>4. InterfaceGot(v, p) = ConfigEnds(v, h)
    BY <1>6, <1>9, <2>1 DEF InterfaceGot
  <2>5. Grows(m, h, ConfigBlocks(v.config))
    BY <1>5, <2>3
  <2> QED
    BY <1>1, <2>4, <2>5, ConfigEndsDone
<1>10. CASE p.r > 0
  <2>1. InterfaceGot(v, p) =
          [v EXCEPT !.i = @ + 1, !.b = p.b, !.size = p.size, !.r = p.size, !.m = p.m,
                    !.config.interface[v.i + 1] = p.intf]
    BY <1>4, <1>10 DEF InterfaceGot
  <2> QED
    BY <1>10, <2>1, FilledDone
<1> QED
  BY <1>4, <1>8, <1>9, <1>10

(* The bytes before an interface are kept, or not. *)
Keeping(v, b, size, keep) ==
    [[v EXCEPT !.b = b, !.size = size] EXCEPT
        !.config.extra = @ \/ keep, !.m = IF keep THEN Take1(@) ELSE @]

LEMMA KeepDone ==
    ASSUME NEW m \in Heap, NEW exact \in BOOLEAN, NEW v \in Wanting(m, exact),
           NEW b \in Seq(Descs), NEW size \in Nat, exact => Weight(b) = size,
           NEW keep \in BOOLEAN, keep => ~v.config.extra,
           NEW u, u = Keeping(v, b, size, keep)
    PROVE  u \in Wanting(m, exact) /\ u.b = b /\ u.size = size
<1>1. /\ v \in ConfigStates /\ Filling(v) /\ v.i < v.config.bNumInterfaces
      /\ Grows(m, v.m, ConfigBlocks(v.config))
      /\ exact => Weight(v.b) = v.size /\ SoundConfig(v.config)
  BY DEF Wanting
<1>2. v.config \in Configs /\ v.m \in Heap
  BY <1>1 DEF ConfigStates
<1>3. PICK heap : heap = IF keep THEN Take1(v.m) ELSE v.m
  OBVIOUS
<1>4. PICK extra \in BOOLEAN : extra = (v.config.extra \/ keep)
  OBVIOUS
<1>5. PICK c : c = [v.config EXCEPT !.extra = extra]
  OBVIOUS
<1>6. c \in Configs /\ c.extra = extra /\ c.array = v.config.array /\ c.interface = v.config.interface
      /\ c.bNumInterfaces = v.config.bNumInterfaces
  BY <1>2, <1>5 DEF Configs
<1>7. Grows(v.m, heap, One(keep)) /\ One(keep) \in Int
  BY <1>2, <1>3, GrowsBy DEF One
<1>8. One(extra) = One(v.config.extra) + One(keep)
  <2>1. v.config.extra \in BOOLEAN
    BY <1>2 DEF Configs
  <2> QED
    BY <1>4, <2>1 DEF One
<1>9. ConfigBlocks(c) = ConfigBlocks(v.config) + One(keep) /\ ConfigBlocks(v.config) \in Nat
  <2>1. PICK k \in Nat : k = BlocksWithin(v.config.interface, v.config.bNumInterfaces)
    BY <1>2, ConfigBlocksAre
  <2>2. ConfigBlocks(v.config) = One(v.config.array) + One(v.config.extra) + k
        /\ ConfigBlocks(v.config) \in Nat
    BY <1>2, <2>1, ConfigBlocksAre
  <2>3. ConfigBlocks(c) = One(v.config.array) + One(extra) + k
    BY <1>6, <2>1, ConfigBlocksAre
  <2>4. One(v.config.array) \in Int /\ One(v.config.extra) \in Int
    BY DEF One
  <2> QED
    BY <1>7, <1>8, <2>2, <2>3, <2>4
<1>10. Grows(m, heap, ConfigBlocks(c)) /\ heap \in Heap
  BY <1>1, <1>7, <1>9, GrowsTwice DEF Grows
<1>11. u = [v EXCEPT !.b = b, !.size = size, !.config = c, !.m = heap]
  BY <1>1, <1>2, <1>3, <1>4, <1>5 DEF Keeping, ConfigStates, Configs
<1>12. u \in ConfigStates /\ u.b = b /\ u.size = size /\ u.config = c /\ u.m = heap
       /\ u.i = v.i /\ u.r = v.r
  BY <1>1, <1>6, <1>10, <1>11 DEF ConfigStates
<1>13. Filling(u) /\ u.i < u.config.bNumInterfaces
  BY <1>1, <1>6, <1>12 DEF Filling
<1>14. exact => SoundConfig(c)
  BY <1>1, <1>6 DEF SoundConfig
<1> QED
  BY <1>10, <1>12, <1>13, <1>14 DEF Wanting

LEMMA InterfaceExtraDone ==
    ASSUME NEW m \in Heap, NEW exact \in BOOLEAN, NEW v \in Wanting(m, exact)
    PROVE  InterfaceExtra(v, SkipExtra(v.b, v.size)) \in ConfigRounds(m, exact)
<1>1. /\ v \in ConfigStates /\ Filling(v) /\ v.i < v.config.bNumInterfaces
      /\ Grows(m, v.m, ConfigBlocks(v.config))
      /\ exact => Weight(v.b) = v.size /\ SoundConfig(v.config)
  BY DEF Wanting
<1>2. v.config \in Configs /\ v.m \in Heap /\ v.b \in Seq(Descs) /\ v.size \in Nat
  BY <1>1 DEF ConfigStates
<1>3. PICK x : x = SkipExtra(v.b, v.size)
  OBVIOUS
<1>4. /\ x.b \in Seq(Descs) /\ x.size \in Nat
      /\ exact => Weight(x.b) = x.size /\ x.end # "short"
  BY <1>1, <1>2, <1>3, Skips
<1> DEFINE keep == x.size < v.size /\ ~v.config.extra
           v1 == [v EXCEPT !.b = x.b, !.size = x.size]
           v2 == [v1 EXCEPT !.config.extra = @ \/ keep, !.m = IF keep THEN Take1(@) ELSE @]
<1>10. CASE x.end = "invalid"
  <2>1. IO \in Int /\ IO < 0
    BY DEF IO
  <2>2. InterfaceExtra(v, x) = ConfigFailed(v, IO, v.m)
    BY <1>10 DEF InterfaceExtra
  <2> QED
    BY <1>1, <1>3, <2>1, <2>2, ConfigFailedDone
<1>11. CASE x.end = "short"
  <2>1. InterfaceExtra(v, x) = ConfigEnds(v1, v.m)
    BY <1>11 DEF InterfaceExtra
  <2>2. v1 \in ConfigStates /\ v1.config = v.config /\ v1.i = v.i /\ v1.r = v.r
    BY <1>1, <1>4 DEF ConfigStates
  <2>3. Filling(v1)
    BY <1>1, <2>2 DEF Filling
  <2> QED
    BY <1>1, <1>3, <2>1, <2>2, <2>3, ConfigEndsDone
<1>12. CASE x.end \notin {"invalid", "short"} /\ keep /\ Fails(v.m)
  <2>1. NO_MEM \in Int /\ NO_MEM < 0
    BY DEF NO_MEM
  <2>2. InterfaceExtra(v, x) = ConfigFailed(v, NO_MEM, Refuse(v.m))
    BY <1>12 DEF InterfaceExtra
  <2>3. PICK k \in Nat : k = ConfigBlocks(v.config)
    BY <1>2, ConfigBlocksAre
  <2>4. Grows(v.m, Refuse(v.m), 0)
    BY <1>2, GrowsBy
  <2>5. Grows(m, Refuse(v.m), k + 0) /\ k + 0 = k
    BY <1>1, <2>3, <2>4, GrowsTwice
  <2>6. Grows(m, Refuse(v.m), ConfigBlocks(v.config))
    BY <2>3, <2>5
  <2> QED
    BY <1>1, <1>3, <2>1, <2>2, <2>6, ConfigFailedDone
<1>13. CASE x.end \notin {"invalid", "short"} /\ ~(keep /\ Fails(v.m))
  <2>1. PICK p : p = parse_interface(x.b, x.size, v2.m)
    OBVIOUS
  <2>2. InterfaceExtra(v, x) = InterfaceGot(v2, p)
    BY <1>13, <2>1 DEF InterfaceExtra
  <2>3. v2 \in Wanting(m, exact) /\ v2.b = x.b /\ v2.size = x.size
    <3>1. keep \in BOOLEAN /\ (keep => ~v.config.extra)
      OBVIOUS
    <3> HIDE DEF keep
    <3>2. v2 = Keeping(v, x.b, x.size, keep)
      BY DEF Keeping
    <3> HIDE DEF v2, v1
    <3> QED
      BY <1>4, <3>1, <3>2, KeepDone
  <2>4. v2.m \in Heap
    BY <2>3 DEF Wanting, ConfigStates
  <2>5. p \in AltRounds(v2.m, Weight(x.b) = x.size)
    BY <1>4, <2>1, <2>4, InterfaceParsed
  <2>6. p \in AltRounds(v2.m, exact)
    BY <1>4, <2>5 DEF AltRounds
  <2> QED
    BY <1>3, <2>2, <2>3, <2>6, InterfaceGotDone
<1> QED
  BY <1>10, <1>11, <1>12, <1>13

LEMMA NextInterfaceDone ==
    ASSUME NEW m \in Heap, NEW exact \in BOOLEAN, NEW v \in ConfigRounds(m, exact)
    PROVE  NextInterface(v) \in ConfigRounds(m, exact)
<1>1. CASE v.more /\ v.i < v.config.bNumInterfaces
  <2>1. v \in Wanting(m, exact)
    BY <1>1 DEF ConfigRounds, Wanting
  <2>2. NextInterface(v) = InterfaceExtra(v, SkipExtra(v.b, v.size))
    BY <1>1 DEF NextInterface
  <2> QED
    BY <2>1, <2>2, InterfaceExtraDone
<1>2. CASE ~(v.more /\ v.i < v.config.bNumInterfaces)
  BY <1>2 DEF NextInterface
<1> QED
  BY <1>1, <1>2

LEMMA InterfacesParsed ==
    ASSUME NEW b \in Seq(Descs), NEW size \in Nat, NEW c \in Configs, NEW m \in Heap, NEW heap,
           Grows(m, heap, ConfigBlocks(c)), c.bNumInterfaces = Len(c.interface),
           Blank(c.interface, 0), SoundConfig(c)
    PROVE  parse_interfaces(b, size, c, heap) \in ConfigRounds(m, Weight(b) = size)
<1> DEFINE v0 == [more |-> TRUE, i |-> 0, b |-> b, size |-> size, r |-> size, config |-> c, m |-> heap]
           loop == CHOOSE g : g = [k \in Nat |-> IF k = 0 THEN v0 ELSE NextInterface(g[k - 1])]
<1>1. parse_interfaces(b, size, c, heap) = loop[c.bNumInterfaces]
  BY DEF parse_interfaces
<1>2. PICK exact \in BOOLEAN : exact <=> Weight(b) = size
  OBVIOUS
<1>3. PICK V : V = ConfigRounds(m, exact)
  OBVIOUS
<1>17. c.bNumInterfaces \in Nat
  BY DEF Configs
<1>4. v0 \in V
  <2>1. heap \in Heap
    BY DEF Grows
  <2>2. /\ v0 \in ConfigStates /\ v0.i = 0 /\ v0.r = size /\ v0.b = b /\ v0.size = size
        /\ v0.m = heap /\ v0.config = c
    BY <2>1 DEF ConfigStates
  <2>3. size >= 0 /\ ~(size < 0) /\ 0 <= c.bNumInterfaces
    BY <1>17
  <2> HIDE DEF v0
  <2>4. Filling(v0)
    BY <2>2, <2>3 DEF Filling
  <2> QED
    BY <1>2, <1>3, <2>2, <2>3, <2>4 DEF ConfigRounds
<1>5. \A v \in V : NextInterface(v) \in V
  BY <1>3, NextInterfaceDone
<1> HIDE DEF v0
<1>6. PICK F : F = [v \in V |-> NextInterface(v)]
  OBVIOUS
<1>7. F \in [V -> V]
  BY <1>5, <1>6
<1>8. PICK g : Runs(g, v0, F) /\ \A k \in Nat : g[k] \in V
  BY <1>4, <1>7, Rounds
<1>9. g = [k \in Nat |-> IF k = 0 THEN v0 ELSE NextInterface(g[k - 1])]
  <2>1. ASSUME NEW k \in Nat, k # 0 PROVE g[k] = NextInterface(g[k - 1])
    <3>1. k - 1 \in Nat /\ (k - 1) + 1 = k
      BY <2>1
    <3>2. g[k] = F[g[k - 1]] /\ g[k - 1] \in V
      BY <1>8, <3>1 DEF Runs
    <3> QED
      BY <1>6, <3>2
  <2> QED
    BY <1>8, <2>1 DEF Runs
<1>10. loop = [k \in Nat |-> IF k = 0 THEN v0 ELSE NextInterface(loop[k - 1])]
  BY <1>9
<1> HIDE DEF loop
<1>11. loop[0] = v0 /\ \A k \in Nat : loop[k + 1] = NextInterface(loop[k])
  BY <1>10
<1>12. PICK P : P = {k \in Nat : loop[k] \in V}
  OBVIOUS
<1>13. 0 \in P /\ \A k \in Nat : k \in P => k + 1 \in P
  <2>1. 0 \in P
    BY <1>4, <1>11, <1>12
  <2>2. ASSUME NEW k \in Nat, k \in P PROVE k + 1 \in P
    <3>1. loop[k + 1] = NextInterface(loop[k]) /\ loop[k] \in V
      BY <1>11, <1>12, <2>2
    <3>2. loop[k + 1] \in V
      BY <1>5, <3>1
    <3> QED
      BY <1>12, <3>2
  <2> QED
    BY <2>1, <2>2
<1>14. c.bNumInterfaces \in P
  BY <1>13, <1>17, Inductive
<1>15. loop[c.bNumInterfaces] \in ConfigRounds(m, exact)
  BY <1>3, <1>12, <1>14
<1>16. exact = (Weight(b) = size)
  BY <1>2
<1> QED
  BY <1>1, <1>15, <1>16

(* What parse_configuration() did not fail to build is what the heap has   *)
(* more; and a buffer without a descriptor cut short leaves no altsetting  *)
(* that counts endpoints and has no array.                                 *)
ConfigDone(m, p, exact) ==
    /\ p.r \in Int /\ p.config \in Configs
    /\ p.r < 0 => p.config = NoConfig
    /\ Grows(m, p.m, ConfigBlocks(p.config))
    /\ exact => SoundConfig(p.config)

LEMMA ConfigurationParsed ==
    ASSUME NEW b \in Seq(Descs), NEW size \in Nat, NEW m \in Heap
    PROVE  ConfigDone(m, parse_configuration(b, size, m), Weight(b) = size)
<1>1. PICK h : h = Hd(b)
  OBVIOUS
<1>2. PICK p : p = parse_configuration(b, size, m)
  OBVIOUS
<1>3. /\ h.len \in Nat /\ Tl(b) \in Seq(Descs) /\ Weight(Tl(b)) \in Nat
      /\ Weight(b) = h.len + Weight(Tl(b))
  BY <1>1, HeadIs
<1>4. /\ NoConfig \in Configs /\ ConfigBlocks(NoConfig) = 0 /\ SoundConfig(NoConfig)
  <2>1. NoConfig \in Configs
    BY DEF NoConfig, Configs
  <2> QED
    BY <2>1, ConfigBlocksAre DEF NoConfig, SoundConfig
<1>5. ASSUME NEW r \in Int, NEW heap, Grows(m, heap, 0), p = ConfigResult(r, NoConfig, heap)
      PROVE  ConfigDone(m, p, Weight(b) = size)
  BY <1>4, <1>5 DEF ConfigDone, ConfigResult
<1>6. Grows(m, m, 0) /\ Grows(m, Refuse(m), 0) /\ Grows(m, Take1(m), 1)
  BY GrowsBy
<1> DEFINE bad == \/ size < CONFIG_DESC_LENGTH
                  \/ h.type # "config"
                  \/ h.len < CONFIG_DESC_LENGTH
                  \/ h.len > size
                  \/ h.nif > USB_MAXINTERFACES
<1>7. CASE bad
  <2>1. p = ConfigResult(IO, NoConfig, m)
    BY <1>1, <1>2, <1>7 DEF parse_configuration
  <2>2. IO \in Int
    BY DEF IO
  <2> QED
    BY <1>2, <1>5, <1>6, <2>1, <2>2
<1>8. CASE ~bad /\ Fails(m)
  <2>1. p = ConfigResult(NO_MEM, NoConfig, Refuse(m))
    BY <1>1, <1>2, <1>8 DEF parse_configuration
  <2>2. NO_MEM \in Int
    BY DEF NO_MEM
  <2> QED
    BY <1>2, <1>5, <1>6, <2>1, <2>2
<1>9. CASE ~bad /\ ~Fails(m)
  <2>1. h \in Descs /\ h.type = "config" /\ h.len <= size
    BY <1>1, <1>3, <1>9, HeadIs DEF Hole
  <2>2. PICK n \in Nat : n = h.nif
    BY <2>1, DescConstants, Bytes
  <2>3. PICK ifs : ifs = [k \in 1..n |-> NoInterface]
    OBVIOUS
  <2>4. NoInterface \in Interfaces /\ Len(NoInterface.alts) = 0
    BY DEF NoInterface, Interfaces
  <2>5. ifs \in Seq(Interfaces) /\ Len(ifs) = n /\ \A k \in 1..n : ifs[k] = NoInterface
    BY <2>3, <2>4
  <2>6. PICK c : c = [array |-> TRUE, extra |-> FALSE, bNumInterfaces |-> n, interface |-> ifs]
    OBVIOUS
  <2>7. /\ c \in Configs /\ c.bNumInterfaces = n /\ c.interface = ifs /\ c.array = TRUE
        /\ c.extra = FALSE
    BY <2>5, <2>6 DEF Configs
  <2>8. Blank(ifs, 0)
    BY <2>5 DEF Blank
  <2>9. BlocksWithin(ifs, n) = 0
    <3>1. BlocksWithin(ifs, Len(ifs)) = BlocksWithin(ifs, 0) /\ BlocksWithin(ifs, 0) = 0
      <4>1. 0 <= Len(ifs)
        BY <2>5
      <4> QED
        BY <2>5, <2>8, <4>1, BlankWithin, WithinIs
    <3> QED
      BY <2>5, <3>1
  <2>10. ConfigBlocks(c) = 1
    <3>1. ConfigBlocks(c) = One(c.array) + One(c.extra) + 0
      BY <2>7, <2>9, ConfigBlocksAre
    <3> QED
      BY <2>7, <3>1 DEF One
  <2>11. SoundConfig(c)
    BY <2>4, <2>5, <2>7 DEF SoundConfig, SoundInterface
  <2>12. PICK left \in Nat : left = size - h.len
    BY <1>3, <2>1
  <2>13. p = parse_interfaces(Tl(b), left, c, Take1(m))
    BY <1>1, <1>2, <1>9, <2>2, <2>3, <2>6, <2>12 DEF parse_configuration
  <2>14. PICK exact \in BOOLEAN : exact = (Weight(Tl(b)) = left)
    OBVIOUS
  <2>15. p \in ConfigRounds(m, exact)
    BY <1>3, <1>6, <2>5, <2>7, <2>8, <2>10, <2>11, <2>13, <2>14, InterfacesParsed
  <2>16. Weight(b) = size => exact
    <3>1. ASSUME Weight(b) = size PROVE Weight(Tl(b)) = left
      BY <1>3, <2>12, <3>1
    <3> QED
      BY <2>14, <3>1
  <2>17. /\ p \in ConfigStates /\ (p.r < 0 => p.config = NoConfig)
         /\ Grows(m, p.m, ConfigBlocks(p.config)) /\ (Weight(b) = size => SoundConfig(p.config))
    BY <2>15, <2>16 DEF ConfigRounds
  <2>18. p.r \in Int /\ p.config \in Configs
    BY <2>17 DEF ConfigStates
  <2> QED
    BY <1>2, <2>17, <2>18 DEF ConfigDone
<1> QED
  BY <1>7, <1>8, <1>9

(* A configuration is handed out, or an error and nothing else.            *)
Handed(m, p, exact) ==
    /\ p.r \in Int /\ p.config \in Configs
    /\ p.r = OK => Grows(m, p.m, 1 + ConfigBlocks(p.config)) /\ (exact => SoundConfig(p.config))
    /\ p.r # OK => Grows(m, p.m, 0)

LEMMA ConfigHanded ==
    ASSUME NEW b \in Seq(Descs), NEW size \in Nat, NEW m \in Heap
    PROVE  Handed(m, raw_desc_to_config(b, size, m), Weight(b) = size)
<1>1. PICK p : p = raw_desc_to_config(b, size, m)
  OBVIOUS
<1>2. NoConfig \in Configs
  BY DEF NoConfig, Configs
<1>3. CASE Fails(m)
  <2>1. p = ConfigResult(NO_MEM, NoConfig, Refuse(m))
    BY <1>1, <1>3 DEF raw_desc_to_config
  <2>2. Grows(m, Refuse(m), 0)
    BY GrowsBy
  <2>3. NO_MEM \in Int /\ NO_MEM # OK
    BY DEF NO_MEM, OK
  <2> QED
    BY <1>1, <1>2, <2>1, <2>2, <2>3 DEF Handed, ConfigResult
<1>4. CASE ~Fails(m)
  <2>1. Grows(m, Take1(m), 1)
    BY GrowsBy
  <2>2. Take1(m) \in Heap
    BY <2>1 DEF Grows
  <2>3. PICK q : q = parse_configuration(b, size, Take1(m))
    OBVIOUS
  <2>4. ConfigDone(Take1(m), q, Weight(b) = size)
    BY <2>2, <2>3, ConfigurationParsed
  <2>5. /\ q.r \in Int /\ q.config \in Configs
        /\ q.r < 0 => q.config = NoConfig
        /\ Grows(Take1(m), q.m, ConfigBlocks(q.config))
        /\ Weight(b) = size => SoundConfig(q.config)
    BY <2>4 DEF ConfigDone
  <2>6. PICK k \in Nat : k = ConfigBlocks(q.config)
    BY <2>5, ConfigBlocksAre
  <2>7. Grows(m, q.m, 1 + k) /\ q.m \in Heap
    BY <2>1, <2>5, <2>6, GrowsTwice DEF Grows
  <2>8. p = RawParsed(q)
    BY <1>1, <1>4, <2>3 DEF raw_desc_to_config
  <2>9. CASE q.r < 0
    <3>1. p = ConfigResult(q.r, NoConfig, Release(q.m, 1))
      BY <2>8, <2>9 DEF RawParsed
    <3>2. k = 0
      BY <1>2, <2>5, <2>6, <2>9, ConfigBlocksAre
    <3>3. Grows(q.m, Release(q.m, 1), 0 - 1)
      BY <2>7, GrowsBy
    <3>4. Grows(m, Release(q.m, 1), (1 + k) + (0 - 1)) /\ (1 + k) + (0 - 1) = 0
      BY <2>7, <3>2, <3>3, GrowsTwice
    <3>5. q.r # OK
      BY <2>9 DEF OK
    <3> QED
      BY <1>1, <1>2, <2>5, <3>1, <3>4, <3>5 DEF Handed, ConfigResult
  <2>10. CASE ~(q.r < 0)
    <3>1. p = ConfigResult(OK, q.config, q.m)
      BY <2>8, <2>10 DEF RawParsed
    <3>2. OK \in Int
      BY DEF OK
    <3> QED
      BY <1>1, <2>5, <2>6, <2>7, <3>1, <3>2 DEF Handed, ConfigResult
  <2> QED
    BY <2>9, <2>10
<1> QED
  BY <1>3, <1>4

-----------------------------------------------------------------------------
(* The Binary Object Store.                                                *)

(* own blocks are freed when it fails, and stay when it does not.          *)
BosDone(m, p, own) ==
    /\ p.caps \in Seq(Descs)
    /\ p.r = OK => Grows(m, p.m, Len(p.caps))
    /\ p.r # OK => Grows(m, p.m, 0 - own)

LEMMA CapsParsed ==
    ASSUME NEW n, NEW b \in Seq(Descs), NEW size \in Int, NEW m \in Heap
    PROVE  BosDone(m, parse_dev_caps(n, b, size, m), 1)
<1> DEFINE Full(i) == \/ i = n
                      \/ Left(b, size, i) < DEVICE_CAPABILITY_SIZE
                      \/ NextAt(b, i).type # "devcap"
           S == {i \in 0..Len(b) :
                  \/ Full(i)
                  \/ NextAt(b, i).len \notin DEVICE_CAPABILITY_SIZE..Left(b, size, i)
                  \/ Fails(Take(m, i))}
           k == Min(S)
           heap == Take(m, k)
           Drop(r, all) == [r |-> r, caps |-> <<>>, m |-> Release(all, k + 1)]
<1>1. k \in 0..Len(b)
  <2>1. S \subseteq 0..Len(b)
    OBVIOUS
  <2>2. Len(b) \in S
    <3>1. Len(b) \in 0..Len(b)
      OBVIOUS
    <3>2. NextAt(b, Len(b)) = Hole
      BY <3>1, NextHas
    <3>3. Full(Len(b))
      BY <3>2 DEF Hole
    <3> QED
      BY <3>1, <3>3
  <2>3. S \subseteq Nat /\ S # {}
    BY <2>1, <2>2
  <2> HIDE DEF S
  <2>4. k \in S
    BY <2>3, MinIs
  <2> QED
    BY <2>1, <2>4
<1>2. PICK p : p = parse_dev_caps(n, b, size, m)
  OBVIOUS
<1>3. p = IF ~Full(k) /\ NextAt(b, k).len < DEVICE_CAPABILITY_SIZE THEN Drop(IO, heap)
          ELSE IF Full(k) \/ NextAt(b, k).len > Left(b, size, k)
               THEN [r |-> OK, caps |-> SubSeq(b, 1, k), m |-> heap]
          ELSE Drop(NO_MEM, Refuse(heap))
  BY <1>2 DEF parse_dev_caps
<1> HIDE DEF Full, S, k
<1>4. PICK j \in Nat : j = k
  BY <1>1
<1>5. Grows(m, heap, j) /\ heap \in Heap
  <2>1. Grows(m, heap, j)
    BY <1>4, GrowsBy
  <2> QED
    BY <2>1 DEF Grows
<1>6. ASSUME NEW all, Grows(heap, all, 0)
      PROVE  Grows(m, Release(all, j + 1), 0 - 1)
  <2>1. all \in Heap
    BY <1>6 DEF Grows
  <2>2. Grows(all, Release(all, j + 1), 0 - (j + 1))
    BY <2>1, GrowsBy
  <2>3. Grows(m, all, j + 0)
    BY <1>5, <1>6, GrowsTwice
  <2>4. Grows(m, Release(all, j + 1), (j + 0) + (0 - (j + 1)))
        /\ (j + 0) + (0 - (j + 1)) = 0 - 1
    BY <2>2, <2>3, GrowsTwice
  <2> QED
    BY <2>4
<1>7. Grows(heap, heap, 0) /\ Grows(heap, Refuse(heap), 0)
  BY <1>5, GrowsBy
<1>8. ASSUME NEW r, r # OK, NEW all, Grows(heap, all, 0), p = Drop(r, all)
      PROVE  BosDone(m, p, 1)
  <2>1. p.r # OK /\ p.caps = <<>> /\ p.m = Release(all, j + 1)
    BY <1>4, <1>8
  <2>2. p.caps \in Seq(Descs)
    BY <2>1
  <2> QED
    BY <1>6, <1>8, <2>1, <2>2 DEF BosDone
<1>9. ASSUME p = [r |-> OK, caps |-> SubSeq(b, 1, k), m |-> heap]
      PROVE  BosDone(m, p, 1)
  <2>1. SubSeq(b, 1, j) \in Seq(Descs) /\ Len(SubSeq(b, 1, j)) = j
    BY <1>1, <1>4
  <2>2. p.r = OK /\ p.caps = SubSeq(b, 1, j) /\ p.m = heap
    BY <1>4, <1>9
  <2> HIDE DEF heap
  <2> QED
    BY <1>5, <2>1, <2>2 DEF BosDone
<1>10. IO # OK /\ NO_MEM # OK
  BY DEF IO, NO_MEM, OK
<1>11. \/ p = Drop(IO, heap)
       \/ p = [r |-> OK, caps |-> SubSeq(b, 1, k), m |-> heap]
       \/ p = Drop(NO_MEM, Refuse(heap))
  BY <1>3
<1> HIDE DEF Drop, heap
<1> QED
  BY <1>2, <1>7, <1>8, <1>9, <1>10, <1>11

LEMMA BosParsed ==
    ASSUME NEW b \in Seq(Descs), NEW size \in Int, NEW m \in Heap, NEW p, p = parse_bos(b, size, m)
    PROVE  /\ p.caps \in Seq(Descs)
           /\ p.r = OK => Grows(m, p.m, 1 + Len(p.caps))
           /\ p.r # OK => Grows(m, p.m, 0)
<1>1. PICK h : h = Hd(b)
  OBVIOUS
<1>2. h.len \in Nat /\ Tl(b) \in Seq(Descs)
  BY <1>1, HeadIs
<1>3. Grows(m, m, 0) /\ Grows(m, Refuse(m), 0) /\ Grows(m, Take1(m), 1)
  BY GrowsBy
<1>4. ASSUME NEW r, r # OK, NEW heap, Grows(m, heap, 0), p = [r |-> r, caps |-> <<>>, m |-> heap]
      PROVE  p.caps \in Seq(Descs) /\ p.r # OK /\ Grows(m, p.m, 0)
  <2>1. p.caps = <<>> /\ p.r = r /\ p.m = heap
    BY <1>4
  <2> QED
    BY <1>4, <2>1
<1> DEFINE bad == \/ size < BOS_SIZE
                  \/ h.type # "bos"
                  \/ h.len < BOS_SIZE
                  \/ h.len > size
<1>5. CASE bad
  <2>1. p = [r |-> IO, caps |-> <<>>, m |-> m]
    BY <1>1, <1>5 DEF parse_bos
  <2>2. IO # OK
    BY DEF IO, OK
  <2> QED
    BY <1>3, <1>4, <2>1, <2>2
<1>6. CASE ~bad /\ Fails(m)
  <2>1. p = [r |-> NO_MEM, caps |-> <<>>, m |-> Refuse(m)]
    BY <1>1, <1>6 DEF parse_bos
  <2>2. NO_MEM # OK
    BY DEF NO_MEM, OK
  <2> QED
    BY <1>3, <1>4, <2>1, <2>2
<1>7. CASE ~bad /\ ~Fails(m)
  <2>1. p = parse_dev_caps(h.caps, Tl(b), size - h.len, Take1(m))
    BY <1>1, <1>7 DEF parse_bos
  <2>2. size - h.len \in Int /\ Take1(m) \in Heap
    BY <1>2, <1>3 DEF Grows
  <2>3. BosDone(Take1(m), p, 1)
    BY <1>2, <2>1, <2>2, CapsParsed
  <2>4. /\ p.caps \in Seq(Descs)
        /\ p.r = OK => Grows(Take1(m), p.m, Len(p.caps))
        /\ p.r # OK => Grows(Take1(m), p.m, 0 - 1)
    BY <2>3 DEF BosDone
  <2>5. PICK k \in Nat : k = Len(p.caps)
    BY <2>4
  <2>6. CASE p.r = OK
    BY <1>3, <2>4, <2>5, <2>6, GrowsTwice
  <2>7. CASE p.r # OK
    <3>1. Grows(m, p.m, 1 + (0 - 1)) /\ 1 + (0 - 1) = 0
      BY <1>3, <2>4, <2>7, GrowsTwice
    <3> QED
      BY <2>4, <2>7, <3>1
  <2> QED
    BY <2>6, <2>7
<1> QED
  BY <1>5, <1>6, <1>7

-----------------------------------------------------------------------------
(* Configurations in the descriptor file.                                  *)

Confs == [total : Nat, value : Int, b : Seq(Descs), there : Nat]

(* What a look-up finds is there, with as many bytes as the file has.      *)
Found(file, f) ==
    /\ f.r \in Int
    /\ f.r >= 0 => /\ f.at \in 1..Len(file)
                   /\ f.r = Least(file[f.at].total, file[f.at].there)

LEMMA WalkFinds ==
    ASSUME NEW file \in Seq(Confs), NEW wanted
    PROVE  Found(file, Walk(file, wanted))
<1> DEFINE S == {k \in 1..Len(file) + 1 :
                  k \in wanted \/ seek_to_next_config(Nth(file, k)) < 0}
           i == Min(S)
           next == seek_to_next_config(Nth(file, i))
<1>1. Walk(file, wanted) = [r |-> next, at |-> IF next < 0 THEN 0 ELSE i]
  BY DEF Walk
<1>2. seek_to_next_config(Nth(file, Len(file) + 1)) < 0
  <2>1. Nth(file, Len(file) + 1) = Eof
    BY DEF Nth
  <2>2. Eof.there = 0
    BY DEF Eof
  <2> QED
    BY <2>1, <2>2 DEF seek_to_next_config, NOT_FOUND
<1>3. i \in S
  <2>1. S \subseteq Nat /\ Len(file) + 1 \in S
    BY <1>2
  <2> HIDE DEF S
  <2> QED
    BY <2>1, MinIs
<1>4. i \in 1..Len(file) + 1
  BY <1>3
<1> HIDE DEF S, i
<1>5. PICK j \in 1..Len(file) + 1 : j = i
  BY <1>4
<1>6. PICK c : c = Nth(file, j)
  OBVIOUS
<1>7. c.there \in Nat /\ c.total \in Nat
  <2>1. CASE j \in 1..Len(file)
    <3>1. c = file[j] /\ file[j] \in Confs
      BY <1>6, <2>1 DEF Nth
    <3> QED
      BY <3>1 DEF Confs
  <2>2. CASE j \notin 1..Len(file)
    <3>1. c = Eof
      BY <1>6, <2>2 DEF Nth
    <3> QED
      BY <3>1 DEF Eof
  <2> QED
    BY <2>1, <2>2
<1>8. next = seek_to_next_config(c)
  BY <1>5, <1>6
<1>9. \/ next \in Int /\ next < 0
      \/ next = Least(c.total, c.there) /\ next \in Nat
  BY <1>7, <1>8 DEF seek_to_next_config, Least, IO, NOT_FOUND
<1>10. ASSUME next >= 0 PROVE j \in 1..Len(file) /\ c = file[j]
  <2>1. j # Len(file) + 1
    BY <1>2, <1>6, <1>8, <1>9, <1>10
  <2>2. j \in 1..Len(file)
    BY <1>5, <2>1
  <2> QED
    BY <1>6, <2>2 DEF Nth
<1> HIDE DEF next
<1>11. PICK w : w = Walk(file, wanted)
  OBVIOUS
<1>12. w.r = next /\ w.at = IF next < 0 THEN 0 ELSE j
  BY <1>1, <1>5, <1>11
<1>13. w.r \in Int
  BY <1>9, <1>12
<1>14. ASSUME next >= 0
       PROVE  w.at \in 1..Len(file) /\ w.r = Least(file[w.at].total, file[w.at].there)
  <2>1. ~(next < 0)
    BY <1>9, <1>14
  <2>2. w.at = j /\ next = Least(c.total, c.there)
    BY <1>9, <1>12, <2>1
  <2> QED
    BY <1>10, <1>12, <1>14, <2>2
<1> QED
  BY <1>11, <1>12, <1>13, <1>14 DEF Found

LEMMA LookupsFind ==
    ASSUME NEW file \in Seq(Confs), NEW x
    PROVE  /\ Found(file, op_get_config_descriptor(file, x))
           /\ Found(file, op_get_config_descriptor_by_value(file, x))
           /\ Found(file, op_get_active_config_descriptor(file, x))
<1>1. Found(file, op_get_config_descriptor(file, x))
  BY WalkFinds DEF op_get_config_descriptor
<1>2. Found(file, op_get_config_descriptor_by_value(file, x))
  BY WalkFinds DEF op_get_config_descriptor_by_value
<1>3. Found(file, [r |-> NOT_FOUND, at |-> 0])
  BY DEF Found, NOT_FOUND
<1>4. Found(file, op_get_active_config_descriptor(file, x))
  BY <1>2, <1>3 DEF op_get_active_config_descriptor
<1> QED
  BY <1>1, <1>2, <1>4

LEMMA FilesAre ==
    ASSUME NEW f \in Files
    PROVE  f.confs \in Seq(Confs)
  BY DescConstants DEF Confs

-----------------------------------------------------------------------------
(* The state.                                                              *)

Results ==
    [kind : {"config"}, tree : Configs] \cup [kind : {"bos"}, caps : Seq(Descs)] \cup [kind : {"copy"}]

(* Blocks the application may still free.                                  *)
Held(s) == SumOf([k \in 1..Len(s) |-> Blocks(s[k])], Len(s))

LEMMA BlocksOfResults ==
    /\ \A h \in Results : Blocks(h) \in Nat
    /\ \A c \in Configs : LET h == [kind |-> "config", tree |-> c]
                          IN h \in Results /\ Blocks(h) = 1 + ConfigBlocks(c)
    /\ \A s \in Seq(Descs) : LET h == [kind |-> "bos", caps |-> s]
                             IN h \in Results /\ Blocks(h) = 1 + Len(s)
    /\ LET h == [kind |-> "copy"] IN h \in Results /\ Blocks(h) = 1
<1>1. ASSUME NEW h \in Results PROVE Blocks(h) \in Nat
  <2>1. CASE h.kind = "config"
    <3>1. h.tree \in Configs
      BY <2>1 DEF Results
    <3>2. ConfigBlocks(h.tree) \in Nat
      BY <3>1, ConfigBlocksAre
    <3> QED
      BY <2>1, <3>2 DEF Blocks
  <2>2. CASE h.kind = "bos"
    <3>1. h.caps \in Seq(Descs)
      BY <2>2 DEF Results
    <3>2. Len(h.caps) \in Nat
      BY <3>1
    <3> QED
      BY <2>2, <3>2 DEF Blocks
  <2>3. CASE h.kind \notin {"config", "bos"}
    BY <2>3 DEF Blocks
  <2> QED
    BY <2>1, <2>2, <2>3
<1>2. ASSUME NEW c \in Configs, NEW h, h = [kind |-> "config", tree |-> c]
      PROVE  h \in Results /\ Blocks(h) = 1 + ConfigBlocks(c)
  <2>1. h.kind = "config" /\ h.tree = c
    BY <1>2
  <2> QED
    BY <1>2, <2>1 DEF Results, Blocks
<1>3. ASSUME NEW s \in Seq(Descs), NEW h, h = [kind |-> "bos", caps |-> s]
      PROVE  h \in Results /\ Blocks(h) = 1 + Len(s)
  <2>1. h.kind = "bos" /\ h.caps = s
    BY <1>3
  <2> QED
    BY <1>3, <2>1 DEF Results, Blocks
<1>4. ASSUME NEW h, h = [kind |-> "copy"] PROVE h \in Results /\ Blocks(h) = 1
  <2>1. h.kind = "copy"
    BY <1>4
  <2> QED
    BY <1>4, <2>1 DEF Results, Blocks
<1> QED
  BY <1>1, <1>2, <1>3, <1>4

LEMMA HeldIs ==
    ASSUME NEW s \in Seq(Results)
    PROVE  /\ Held(s) \in Nat
           /\ Held(<<>>) = 0
           /\ \A h \in Results : Held(Append(s, h)) = Held(s) + Blocks(h)
<1> DEFINE f(t) == [k \in 1..Len(t) |-> Blocks(t[k])]
<1>1. PICK n \in Nat : n = Len(s)
  OBVIOUS
<1>2. PICK g : g = f(s)
  OBVIOUS
<1>3. \A k \in 1..n : g[k] = Blocks(s[k]) /\ g[k] \in Nat
  <2>1. \A k \in 1..n : g[k] = Blocks(s[k]) /\ s[k] \in Results
    BY <1>1, <1>2
  <2> QED
    BY <2>1, BlocksOfResults
<1>4. Held(s) = SumOf(g, n) /\ SumOf(g, n) \in Nat
  <2>1. SumOf(g, n) \in Nat
    BY <1>3, SumNat
  <2> QED
    BY <1>1, <1>2, <2>1 DEF Held
<1>5. Held(<<>>) = 0
  BY SumIs DEF Held
<1>6. ASSUME NEW h \in Results PROVE Held(Append(s, h)) = Held(s) + Blocks(h)
  <2>1. PICK t : t = Append(s, h)
    OBVIOUS
  <2>2. Len(t) = n + 1 /\ t[n + 1] = h /\ \A k \in 1..n : t[k] = s[k]
    BY <1>1, <2>1
  <2>3. PICK u : u = f(t)
    OBVIOUS
  <2>4. \A k \in 1..n + 1 : u[k] = Blocks(t[k])
    BY <2>2, <2>3
  <2>5. u[n + 1] = Blocks(h) /\ \A k \in 1..n : u[k] = g[k] /\ g[k] \in Int
    BY <1>3, <2>2, <2>4
  <2>6. SumOf(u, n + 1) = SumOf(g, n) + u[n + 1]
    BY <2>5, SumMore
  <2>7. Held(t) = SumOf(u, n + 1)
    BY <2>2, <2>3 DEF Held
  <2> QED
    BY <1>4, <2>1, <2>5, <2>6, <2>7
<1> QED
  BY <1>4, <1>5, <1>6

Joint(t, l, r, a, d) ==
    /\ t \in Seq(Results) /\ Len(t) = a + d
    /\ \A i \in 1..a : t[i] = l[i]
    /\ \A i \in 1..d : t[a + i] = r[i]

LEMMA Joined ==
    ASSUME NEW l \in Seq(Results), NEW r \in Seq(Results), NEW a \in Nat, NEW d \in Nat,
           Len(l) = a, Len(r) = d, NEW t, t = l \o r
    PROVE  Joint(t, l, r, a, d)
<1>1. t \in Seq(Results) /\ Len(t) = a + d
  OBVIOUS
<1>2. \A i \in 1..a : t[i] = l[i]
  OBVIOUS
<1>3. ASSUME NEW i \in 1..d PROVE t[a + i] = r[i]
  <2>1. a + i \in 1..a + d /\ ~(a + i <= a) /\ (a + i) - a = i
    OBVIOUS
  <2> QED
    BY <2>1
<1> QED
  BY <1>1, <1>2, <1>3 DEF Joint

(* t is s without its e-th result: a before it and d behind it.            *)
Without(t, s, e, a, d) ==
    /\ e = a + 1 /\ Len(s) = e + d /\ Len(t) = a + d
    /\ \A i \in 1..a : t[i] = s[i]
    /\ \A i \in 1..d : t[a + i] = s[e + i]

LEMMA ResultAt ==
    ASSUME NEW s \in Seq(Results), NEW n, n = Len(s), NEW i \in 1..n
    PROVE  s[i] \in Results
<1>1. i \in 1..Len(s)
  OBVIOUS
<1> QED
  BY <1>1

(* One result is no more held.                                             *)
LEMMA HeldMinus ==
    ASSUME NEW s \in Seq(Results), NEW t \in Seq(Results), NEW a \in Nat, NEW d \in Nat,
           NEW e \in Nat, Without(t, s, e, a, d)
    PROVE  Held(t) = Held(s) - Blocks(s[e])
<1>3. e = a + 1 /\ Len(s) = e + d /\ Len(t) = a + d
  BY DEF Without
<1>4. /\ \A i \in 1..a : t[i] = s[i]
      /\ \A i \in 1..d : t[a + i] = s[e + i]
  BY DEF Without
<1>1. PICK n \in Nat : n = e + d /\ n = Len(s) /\ n = (a + 1) + d
  BY <1>3
<1>2. PICK l \in Nat : l = a + d /\ l = Len(t)
  BY <1>3
<1>6. PICK f : f = [i \in 1..n |-> Blocks(s[i])]
  OBVIOUS
<1>7. PICK g : g = [i \in 1..l |-> Blocks(t[i])]
  OBVIOUS
<1>8. PICK h : h = [i \in 1..d |-> g[a + i]]
  OBVIOUS
<1>9. \A i \in 1..n : f[i] = Blocks(s[i]) /\ f[i] \in Int
  <2>1. TAKE i \in 1..n
  <2>2. f[i] = Blocks(s[i])
    BY <1>6
  <2>3. s[i] \in Results
    BY <1>1, ResultAt
  <2>4. Blocks(s[i]) \in Int
    BY <2>3, BlocksOfResults
  <2> QED
    BY <2>2, <2>4
<1>10. \A i \in 1..l : g[i] = Blocks(t[i]) /\ g[i] \in Int
  <2>1. TAKE i \in 1..l
  <2>2. g[i] = Blocks(t[i])
    BY <1>7
  <2>3. t[i] \in Results
    BY <1>2, ResultAt
  <2>4. Blocks(t[i]) \in Int
    BY <2>3, BlocksOfResults
  <2> QED
    BY <2>2, <2>4
<1>11. \A i \in 1..a : g[i] = f[i]
  <2>1. TAKE i \in 1..a
  <2>2. i \in 1..n /\ i \in 1..l
    BY <1>1, <1>2
  <2> QED
    BY <1>4, <1>9, <1>10, <2>2
<1>12. \A i \in 1..d : h[i] = g[a + i] /\ h[i] = f[e + i]
  <2>1. TAKE i \in 1..d
  <2>2. e + i \in 1..n /\ a + i \in 1..l
    BY <1>1, <1>2
  <2>3. h[i] = g[a + i]
    BY <1>8
  <2> QED
    BY <1>4, <1>9, <1>10, <2>2, <2>3
<1>13. SumOf(f, n) = SumOf(f, e) + SumOf(h, d)
  <2>1. IntsTo(f, n)
    BY <1>9 DEF IntsTo
  <2>2. Shifted(h, f, e, d)
    BY <1>12 DEF Shifted
  <2> QED
    BY <1>1, <2>1, <2>2, SumJoin
<1>14. SumOf(g, l) = SumOf(g, a) + SumOf(h, d)
  <2>1. IntsTo(g, l)
    BY <1>10 DEF IntsTo
  <2>2. Shifted(h, g, a, d)
    BY <1>12 DEF Shifted
  <2> QED
    BY <1>2, <2>1, <2>2, SumJoin
<1>15. SumOf(f, e) = SumOf(f, a) + f[e]
  <2>1. SumOf(f, a + 1) = SumOf(f, a) + f[a + 1]
    BY SumIs
  <2> QED
    BY <1>3, <2>1
<1>16. SumOf(g, a) = SumOf(f, a)
  <2>1. \A i \in 1..a : f[i] \in Int
    BY <1>1, <1>9
  <2> QED
    BY <1>11, <2>1, SumSame
<1>17. SumOf(f, a) \in Int /\ SumOf(h, d) \in Int /\ f[e] \in Int /\ f[e] = Blocks(s[e])
  <2>1. \A i \in 1..a : f[i] \in Int
    BY <1>1, <1>9
  <2>2. \A i \in 1..d : h[i] \in Int
    <3>1. TAKE i \in 1..d
    <3>2. a + i \in 1..l
      BY <1>2
    <3> QED
      BY <1>10, <1>12, <3>2
  <2>3. e \in 1..n
    BY <1>1, <1>3
  <2> QED
    BY <1>9, <2>1, <2>2, <2>3, SumInt
<1>18. Held(s) = SumOf(f, n) /\ Held(t) = SumOf(g, l)
  BY <1>1, <1>2, <1>6, <1>7 DEF Held
<1> QED
  BY <1>13, <1>14, <1>15, <1>16, <1>17, <1>18

LEMMA HeldWithout ==
    ASSUME NEW s \in Seq(Results), NEW k \in 1..Len(s)
    PROVE  /\ SubSeq(s, 1, k - 1) \o SubSeq(s, k + 1, Len(s)) \in Seq(Results)
           /\ Held(SubSeq(s, 1, k - 1) \o SubSeq(s, k + 1, Len(s))) = Held(s) - Blocks(s[k])
<1>1. PICK n \in Nat : n = Len(s) /\ k \in 1..n
  OBVIOUS
<1>2. PICK a \in Nat, d \in Nat : k = a + 1 /\ n = (a + 1) + d
  <2>1. k - 1 \in Nat /\ n - k \in Nat /\ k = (k - 1) + 1 /\ n = ((k - 1) + 1) + (n - k)
    BY <1>1
  <2> QED
    BY <2>1
<1>3. PICK left : left = SubSeq(s, 1, a)
  OBVIOUS
<1>4. PICK right : right = SubSeq(s, (a + 1) + 1, n)
  OBVIOUS
<1>5. left \in Seq(Results) /\ Len(left) = a /\ \A i \in 1..a : left[i] = s[i]
  <2>1. a <= Len(s)
    BY <1>1, <1>2
  <2> QED
    BY <1>3, <2>1
<1>6. right \in Seq(Results) /\ Len(right) = d /\ \A i \in 1..d : right[i] = s[(a + 1) + i]
  <2>1. (a + 1) + 1 \in 1..n + 1 /\ n - (a + 1) = d
    BY <1>1, <1>2
  <2>2. right \in Seq(Results)
    BY <1>1, <1>4, <2>1
  <2>3. Len(right) = d
    BY <1>1, <1>4, <2>1
  <2>4. ASSUME NEW i \in 1..d PROVE right[i] = s[(a + 1) + i]
    <3>1. right[i] = s[(a + 1) + 1 + i - 1]
      BY <1>1, <1>4, <2>1, <2>3, <2>4
    <3>2. (a + 1) + 1 + i - 1 = (a + 1) + i
      BY <2>4
    <3> QED
      BY <3>1, <3>2
  <2> QED
    BY <2>2, <2>3, <2>4
<1>7. PICK t : t = left \o right
  OBVIOUS
<1>8. SubSeq(s, 1, k - 1) \o SubSeq(s, k + 1, Len(s)) = t
  <2>1. k - 1 = a /\ k + 1 = (a + 1) + 1
    BY <1>2
  <2> QED
    BY <1>1, <1>3, <1>4, <1>7, <2>1
<1>12. left \in Seq(Results) /\ Len(left) = a /\ right \in Seq(Results) /\ Len(right) = d
  BY <1>5, <1>6
<1>13. Joint(t, left, right, a, d)
  BY <1>7, <1>12, Joined
<1>9. /\ t \in Seq(Results) /\ Len(t) = a + d
      /\ \A i \in 1..a : t[i] = left[i]
      /\ \A i \in 1..d : t[a + i] = right[i]
  BY <1>13 DEF Joint
<1>11. PICK e \in Nat : e = a + 1 /\ e = k
  BY <1>2
<1>10. Held(t) = Held(s) - Blocks(s[e])
  <2>1. \A i \in 1..a : t[i] = s[i]
    BY <1>5, <1>9
  <2>2. \A i \in 1..d : t[a + i] = s[e + i]
    BY <1>6, <1>9, <1>11
  <2>3. Len(s) = e + d
    BY <1>1, <1>2, <1>11
  <2>4. Without(t, s, e, a, d)
    BY <1>9, <1>11, <2>1, <2>2, <2>3 DEF Without
  <2> QED
    BY <1>9, <2>4, HeldMinus
<1> QED
  BY <1>8, <1>9, <1>10, <1>11

Balanced(heap, call, held) ==
    ~heap.bad => heap.live = (IF call = Idle THEN 0 ELSE 1) + heap.lost + Held(held)

LEMMA StaysBalanced ==
    ASSUME NEW heap \in Heap, NEW call, NEW held \in Seq(Results), Balanced(heap, call, held),
           NEW heap1, NEW call1, NEW held1 \in Seq(Results), NEW k \in Int, Grows(heap, heap1, k),
           Held(held1) + One(call1 # Idle) = Held(held) + One(call # Idle) + k
    PROVE  Balanced(heap1, call1, held1) /\ heap1 \in Heap
<1>1. Held(held) \in Nat /\ Held(held1) \in Nat
  BY HeldIs
<1>2. PICK a \in Int : a = Held(held)
  BY <1>1
<1>3. PICK b \in Int : b = Held(held1)
  BY <1>1
<1>4. heap1 \in Heap /\ (~heap1.bad => ~heap.bad /\ heap1.live - heap1.lost = heap.live - heap.lost + k)
  BY DEF Grows
<1>5. heap.live \in Int /\ heap.lost \in Int /\ heap1.live \in Int /\ heap1.lost \in Int
  BY <1>4 DEF Heap
<1>6. PICK x \in Int : x = One(call # Idle) /\ x = IF call = Idle THEN 0 ELSE 1
  BY DEF One
<1>7. PICK y \in Int : y = One(call1 # Idle) /\ y = IF call1 = Idle THEN 0 ELSE 1
  BY DEF One
<1>8. b + y = a + x + k
  BY <1>2, <1>3, <1>6, <1>7
<1>11. PICK l \in Int, o \in Int : l = heap.live /\ o = heap.lost
  BY <1>5
<1>12. PICK l1 \in Int, o1 \in Int : l1 = heap1.live /\ o1 = heap1.lost
  BY <1>5
<1>9. ~heap.bad => l = x + o + a
  BY <1>2, <1>6, <1>11 DEF Balanced
<1>13. ~heap1.bad => ~heap.bad /\ l1 - o1 = l - o + k
  BY <1>4, <1>11, <1>12
<1>14. ~heap1.bad => l1 = y + o1 + b
  BY <1>8, <1>9, <1>13
<1>10. ~heap1.bad => heap1.live = y + heap1.lost + b
  BY <1>12, <1>14
<1> QED
  BY <1>3, <1>4, <1>7, <1>10 DEF Balanced

(* A configuration without a missing array is searched without a missing   *)
(* array.                                                                  *)
LEMMA SoundSearch ==
    ASSUME NEW c \in Configs, SoundConfig(c), NEW addr
    PROVE  ~find_endpoint_wild(c, addr)
<1>1. SUFFICES ASSUME NEW p \in Altsettings(c), ~AltOf(c, p).array, AltOf(c, p).bNumEndpoints > 0
               PROVE  FALSE
  BY DEF find_endpoint_wild
<1>2. PICK i \in 1..c.bNumInterfaces : p \in {i} \X (1..Len(c.interface[i].alts))
  BY <1>1 DEF Altsettings
<1>3. p[1] = i /\ p[2] \in 1..Len(c.interface[i].alts)
  BY <1>2
<1>4. i \in 1..Len(c.interface)
  BY <1>2 DEF Configs
<1>5. Sound(c.interface[i].alts[p[2]])
  BY <1>3, <1>4 DEF SoundConfig, SoundInterface
<1> QED
  BY <1>1, <1>3, <1>5 DEF AltOf, Sound

(* The inductive invariant.                                                *)
CallKnown ==
    dcall # Idle => dcall.op # "none" /\ dcall.len \in Nat /\ dnum # Unknown

(* Between its two reads a call has room for the whole configuration, if   *)
(* nobody selected another one.                                            *)
RoomKnown ==
    ~draced /\ dcall.op \in {"config", "packet"} =>
      LET f == op_get_active_config_descriptor(dfile.confs, dactive)
      IN f.r >= 0 /\ dcall.len = dfile.confs[f.at].total

NotWild == Whole(dfile.confs) /\ ~draced => ~dwild

DescInv ==
    /\ dfile \in Files /\ dheap \in Heap /\ dheld \in Seq(Results)
    /\ dwild \in BOOLEAN /\ draced \in BOOLEAN
    /\ CallKnown
    /\ Balanced(dheap, dcall, dheld)
    /\ RoomKnown
    /\ NotWild

LEMMA InvHas ==
    ASSUME DescInv
    PROVE  /\ dfile \in Files /\ dheap \in Heap /\ dheld \in Seq(Results)
           /\ dwild \in BOOLEAN /\ draced \in BOOLEAN
           /\ CallKnown /\ RoomKnown /\ NotWild
           /\ Balanced(dheap, dcall, dheld)
           /\ dfile.confs \in Seq(Confs)
           /\ Held(dheld) \in Nat
           /\ Grows(dheap, dheap, 0) /\ Grows(dheap, Refuse(dheap), 0) /\ Grows(dheap, Take1(dheap), 1)
<1>1. /\ dfile \in Files /\ dheap \in Heap /\ dheld \in Seq(Results)
      /\ dwild \in BOOLEAN /\ draced \in BOOLEAN
      /\ CallKnown /\ RoomKnown /\ NotWild
      /\ Balanced(dheap, dcall, dheld)
  BY DEF DescInv
<1> QED
  BY <1>1, FilesAre, HeldIs, GrowsBy

(* A step that changes the heap, what is held and the call that runs.      *)
LEMMA QuietKeeps ==
    ASSUME DescInv, UNCHANGED <<dfile, dactive, dwild, draced>>,
           dheld' \in Seq(Results), NEW k \in Int, Grows(dheap, dheap', k),
           Held(dheld') + One(dcall' # Idle) = Held(dheld) + One(dcall # Idle) + k,
           CallKnown', RoomKnown'
    PROVE  DescInv'
<1>1. Balanced(dheap', dcall', dheld') /\ dheap' \in Heap
  BY InvHas, StaysBalanced
<1>2. Balanced(dheap, dcall, dheld)'
  BY <1>1 DEF Balanced, Held
<1>3. NotWild'
  BY InvHas DEF NotWild
<1> QED
  BY InvHas, <1>1, <1>2, <1>3 DEF DescInv

(* No call is between its reads. *)
LEMMA IdleKnown ==
    ASSUME dcall' = Idle
    PROVE  CallKnown' /\ RoomKnown'
<1>1. dcall'.op = "none"
  BY DEF Idle
<1> QED
  BY <1>1 DEF CallKnown, RoomKnown

LEMMA SameCall ==
    ASSUME DescInv, UNCHANGED <<dfile, dnum, dactive, dcall, draced>>
    PROVE  CallKnown' /\ RoomKnown'
<1>1. CallKnown /\ RoomKnown
  BY InvHas
<1> QED
  BY <1>1 DEF CallKnown, RoomKnown

(* Hold(p) adds to what is held what p adds to the heap, j blocks apart.   *)
LEMMA HoldKeeps ==
    ASSUME DescInv, NEW p, Hold(p), NEW j \in Int, p.config \in Configs,
           p.r = OK => Grows(dheap, p.m, (1 + ConfigBlocks(p.config)) + j),
           p.r # OK => Grows(dheap, p.m, j),
           UNCHANGED <<dfile, dactive, dwild, draced>>, CallKnown', RoomKnown',
           One(dcall' # Idle) = One(dcall # Idle) + j
    PROVE  DescInv'
<1>1. Held(dheld) \in Nat /\ dheld \in Seq(Results)
  BY InvHas
<1>2. One(dcall # Idle) \in Int
  BY DEF One
<1>3. CASE p.r = OK
  <2>1. PICK k \in Nat : k = ConfigBlocks(p.config)
    BY ConfigBlocksAre
  <2>2. PICK h : h = [kind |-> "config", tree |-> p.config]
    OBVIOUS
  <2>3. h \in Results /\ Blocks(h) = 1 + k
    BY <2>1, <2>2, BlocksOfResults
  <2>4. dheap' = p.m /\ dheld' = Append(dheld, h)
    BY <1>3, <2>2 DEF Hold
  <2>5. Held(dheld') = Held(dheld) + (1 + k)
    BY <1>1, <2>3, <2>4, HeldIs
  <2>6. dheld' \in Seq(Results)
    BY <1>1, <2>3, <2>4
  <2>7. Held(dheld') + One(dcall' # Idle) = Held(dheld) + One(dcall # Idle) + ((1 + k) + j)
    BY <1>1, <1>2, <2>5
  <2>8. Grows(dheap, dheap', (1 + k) + j) /\ (1 + k) + j \in Int
    BY <1>3, <2>1, <2>4
  <2> QED
    BY <2>6, <2>7, <2>8, QuietKeeps
<1>4. CASE p.r # OK
  <2>1. dheap' = p.m /\ dheld' = dheld
    BY <1>4 DEF Hold
  <2>2. Held(dheld') + One(dcall' # Idle) = Held(dheld) + One(dcall # Idle) + j
    BY <1>1, <1>2, <2>1
  <2> QED
    BY <1>1, <1>4, <2>1, <2>2, QuietKeeps
<1> QED
  BY <1>3, <1>4

LEMMA InitializeKeeps ==
    ASSUME DescInv, NEW answer, InitializeDevice(answer)
    PROVE  DescInv'
<1>1. dnum = Unknown /\ UNCHANGED <<dfile, dheap, dheld, dcall, dcount, dwild, draced>>
  BY DEF InitializeDevice
<1>2. dcall = Idle
  BY <1>1, InvHas DEF CallKnown
<1>3. CallKnown' /\ RoomKnown'
  BY <1>1, <1>2, IdleKnown
<1>4. Balanced(dheap, dcall, dheld)' /\ NotWild'
  BY <1>1, InvHas DEF Balanced, Held, NotWild
<1> QED
  BY <1>1, <1>3, <1>4, InvHas DEF DescInv

LEMMA ActiveChangesKeeps ==
    ASSUME DescInv, NEW value, ActiveChanges(value)
    PROVE  DescInv'
<1>1. draced' = TRUE /\ UNCHANGED <<dfile, dnum, dheap, dheld, dcall, dcount, dwild>>
  BY DEF ActiveChanges
<1>2. CallKnown' /\ RoomKnown' /\ NotWild'
  BY <1>1, InvHas DEF CallKnown, RoomKnown, NotWild
<1>3. Balanced(dheap, dcall, dheld)'
  BY <1>1, InvHas DEF Balanced, Held
<1> QED
  BY <1>1, <1>2, <1>3, InvHas DEF DescInv

LEMMA HeaderKeeps ==
    ASSUME DescInv, NEW use \in {"config", "packet"}, NEW addr, GetActiveHeader(use, addr)
    PROVE  DescInv'
<1>1. PICK f : f = op_get_active_config_descriptor(dfile.confs, dactive)
  OBVIOUS
<1>2. /\ Ready
      /\ IF f.r < 0 THEN UNCHANGED <<dheap, dcall>>
         ELSE IF Fails(dheap) THEN dheap' = Refuse(dheap) /\ UNCHANGED dcall
         ELSE /\ dheap' = Take1(dheap)
              /\ dcall' = [op |-> use, addr |-> addr, len |-> dfile.confs[f.at].total]
      /\ UNCHANGED <<dfile, dnum, dactive, dheld, dwild, draced>>
  BY <1>1 DEF GetActiveHeader
<1>3. dcall = Idle /\ dnum # Unknown
  BY <1>2 DEF Ready, Unknown
<1>4. Found(dfile.confs, f)
  BY <1>1, InvHas, LookupsFind
<1>5. Held(dheld) \in Nat /\ dheld \in Seq(Results) /\ dheld' = dheld
  BY <1>2, InvHas
<1>6. CASE UNCHANGED dcall /\ (UNCHANGED dheap \/ dheap' = Refuse(dheap))
  <2>1. CallKnown' /\ RoomKnown'
    BY <1>3, <1>6, IdleKnown
  <2>2. Grows(dheap, dheap', 0)
    BY <1>6, InvHas
  <2>3. Held(dheld') + One(dcall' # Idle) = Held(dheld) + One(dcall # Idle) + 0
    BY <1>5, <1>6 DEF One
  <2> QED
    BY <1>2, <1>5, <2>1, <2>2, <2>3, QuietKeeps
<1>7. CASE /\ ~(f.r < 0) /\ dheap' = Take1(dheap)
           /\ dcall' = [op |-> use, addr |-> addr, len |-> dfile.confs[f.at].total]
  <2>1. f.r >= 0 /\ f.at \in 1..Len(dfile.confs)
    BY <1>4, <1>7 DEF Found
  <2>2. dfile.confs[f.at].total \in Nat
    <3>1. dfile.confs[f.at] \in Confs
      BY <2>1, InvHas
    <3> QED
      BY <3>1 DEF Confs
  <2>3. dcall'.op = use /\ dcall'.len = dfile.confs[f.at].total
    BY <1>7
  <2>4. dcall' # Idle
    BY <2>3 DEF Idle
  <2>5. CallKnown'
    BY <1>2, <1>3, <2>2, <2>3, <2>4 DEF CallKnown
  <2>6. RoomKnown'
    BY <1>1, <1>2, <2>1, <2>3 DEF RoomKnown
  <2>7. Held(dheld') + One(dcall' # Idle) = Held(dheld) + One(dcall # Idle) + 1
    BY <1>3, <1>5, <2>4 DEF One
  <2>8. Grows(dheap, dheap', 1)
    BY <1>7, InvHas
  <2> QED
    BY <1>2, <1>5, <2>5, <2>6, <2>7, <2>8, QuietKeeps
<1> QED
  BY <1>2, <1>6, <1>7

(* ActiveBody frees the buffer of the call, and adds what it parsed.       *)
LEMMA BodyParsed ==
    ASSUME DescInv, dcall.op \in {"config", "packet"}
    PROVE  /\ ActiveBody.config \in Configs
           /\ ActiveBody.r = OK =>
                /\ Grows(dheap, ActiveBody.m, (1 + ConfigBlocks(ActiveBody.config)) + (0 - 1))
                /\ Whole(dfile.confs) /\ ~draced => SoundConfig(ActiveBody.config)
           /\ ActiveBody.r # OK => Grows(dheap, ActiveBody.m, 0 - 1)
<1>1. PICK f : f = op_get_active_config_descriptor(dfile.confs, dactive)
  OBVIOUS
<1>2. PICK a : a = ActiveBody
  OBVIOUS
<1>3. Found(dfile.confs, f)
  BY <1>1, InvHas, LookupsFind
<1>4. dcall # Idle /\ dcall.len \in Nat
  <2>1. dcall # Idle
    BY DEF Idle
  <2> QED
    BY <2>1, InvHas DEF CallKnown
<1>5. CASE f.r < 0
  <2>1. a = ConfigResult(f.r, NoConfig, Release(dheap, 1))
    BY <1>1, <1>2, <1>5 DEF ActiveBody
  <2>2. f.r # OK
    BY <1>5 DEF OK
  <2>3. NoConfig \in Configs
    BY DEF NoConfig, Configs
  <2>4. Grows(dheap, Release(dheap, 1), 0 - 1)
    BY InvHas, GrowsBy
  <2>5. a.r = f.r /\ a.config = NoConfig /\ a.m = Release(dheap, 1)
    BY <2>1 DEF ConfigResult
  <2> QED
    BY <1>2, <2>2, <2>3, <2>4, <2>5
<1>6. CASE ~(f.r < 0)
  <2>1. PICK c : c = dfile.confs[f.at]
    OBVIOUS
  <2>2. f.at \in 1..Len(dfile.confs) /\ f.r = Least(c.total, c.there) /\ f.r \in Int /\ f.r >= 0
    BY <1>3, <1>6, <2>1 DEF Found
  <2>3. c.total \in Nat /\ c.there \in Nat /\ c.b \in Seq(Descs)
    <3>1. c \in Confs
      BY <2>1, <2>2, InvHas
    <3> QED
      BY <3>1 DEF Confs
  <2>4. PICK size \in Nat : size = Least(dcall.len, f.r)
    BY <1>4, <2>2 DEF Least
  <2>5. PICK p : p = raw_desc_to_config(c.b, size, dheap)
    OBVIOUS
  <2>6. Handed(dheap, p, Weight(c.b) = size)
    BY <2>3, <2>5, InvHas, ConfigHanded
  <2>7. p = ConfigResult(p.r, p.config, p.m)
    BY <2>5 DEF raw_desc_to_config, RawParsed, ConfigResult
  <2>8. a = [p EXCEPT !.m = Release(@, 1)]
    BY <1>1, <1>2, <1>6, <2>1, <2>4, <2>5 DEF ActiveBody
  <2>9. a.r = p.r /\ a.config = p.config /\ a.m = Release(p.m, 1)
    BY <2>7, <2>8 DEF ConfigResult
  <2>10. ASSUME Whole(dfile.confs), ~draced PROVE Weight(c.b) = size
    <3>1. c.total = c.there /\ c.total = Weight(c.b)
      BY <2>1, <2>2, <2>10 DEF Whole, Weight, Lens
    <3>2. dcall.len = c.total
      BY <1>1, <2>1, <2>10, InvHas DEF RoomKnown
    <3> QED
      BY <2>2, <2>3, <2>4, <3>1, <3>2 DEF Least
  <2>11. p.config \in Configs
    BY <2>6 DEF Handed
  <2>12. CASE p.r = OK
    <3>1. Grows(dheap, p.m, 1 + ConfigBlocks(p.config)) /\ (Weight(c.b) = size => SoundConfig(p.config))
      BY <2>6, <2>12 DEF Handed
    <3>2. PICK k \in Nat : k = ConfigBlocks(p.config)
      BY <2>11, ConfigBlocksAre
    <3>3. p.m \in Heap
      BY <3>1 DEF Grows
    <3>4. Grows(p.m, Release(p.m, 1), 0 - 1)
      BY <3>3, GrowsBy
    <3>5. Grows(dheap, Release(p.m, 1), (1 + k) + (0 - 1))
      BY <3>1, <3>2, <3>4, InvHas, GrowsTwice
    <3> QED
      BY <1>2, <2>9, <2>10, <2>11, <2>12, <3>1, <3>2, <3>5
  <2>13. CASE p.r # OK
    <3>1. Grows(dheap, p.m, 0)
      BY <2>6, <2>13 DEF Handed
    <3>2. p.m \in Heap
      BY <3>1 DEF Grows
    <3>3. Grows(p.m, Release(p.m, 1), 0 - 1)
      BY <3>2, GrowsBy
    <3>4. Grows(dheap, Release(p.m, 1), 0 + (0 - 1)) /\ 0 + (0 - 1) = 0 - 1
      BY <3>1, <3>3, InvHas, GrowsTwice
    <3> QED
      BY <1>2, <2>9, <2>11, <2>13, <3>4
  <2> QED
    BY <2>12, <2>13
<1> QED
  BY <1>5, <1>6

LEMMA GetActiveBodyKeeps ==
    ASSUME DescInv, GetActiveBody
    PROVE  DescInv'
<1>1. /\ dcall.op = "config" /\ dcall' = Idle /\ Hold(ActiveBody)
      /\ UNCHANGED <<dfile, dnum, dactive, dcount, dwild, draced>>
  BY DEF GetActiveBody
<1>2. dcall # Idle
  BY <1>1 DEF Idle
<1>3. One(dcall' # Idle) = One(dcall # Idle) + (0 - 1)
  BY <1>1, <1>2 DEF One
<1>4. CallKnown' /\ RoomKnown'
  BY <1>1, IdleKnown
<1>5. PICK p : p = ActiveBody
  OBVIOUS
<1>6. /\ p.config \in Configs
      /\ p.r = OK => Grows(dheap, p.m, (1 + ConfigBlocks(p.config)) + (0 - 1))
      /\ p.r # OK => Grows(dheap, p.m, 0 - 1)
  BY <1>1, <1>5, BodyParsed
<1>7. PICK j \in Int : j = 0 - 1
  OBVIOUS
<1> QED
  BY <1>1, <1>3, <1>4, <1>5, <1>6, <1>7, HoldKeeps

LEMMA MaxPacketSizeKeeps ==
    ASSUME DescInv, MaxPacketSize
    PROVE  DescInv'
<1>1. PICK p \in {ActiveBody} :
        /\ dwild' = (dwild \/ (p.r = OK /\ find_endpoint_wild(p.config, dcall.addr)))
        /\ dheap' = IF p.r = OK THEN Release(p.m, 1 + ConfigBlocks(p.config)) ELSE p.m
  BY DEF MaxPacketSize
<1>2. /\ dcall.op = "packet" /\ dcall' = Idle
      /\ UNCHANGED <<dfile, dnum, dactive, dheld, dcount, draced>>
  BY DEF MaxPacketSize
<1>3. dcall # Idle
  BY <1>2 DEF Idle
<1>4. CallKnown' /\ RoomKnown'
  BY <1>2, IdleKnown
<1>5. /\ p.config \in Configs
      /\ p.r = OK => /\ Grows(dheap, p.m, (1 + ConfigBlocks(p.config)) + (0 - 1))
                     /\ Whole(dfile.confs) /\ ~draced => SoundConfig(p.config)
      /\ p.r # OK => Grows(dheap, p.m, 0 - 1)
  BY <1>1, <1>2, BodyParsed
<1>6. NotWild'
  <2>1. ASSUME Whole(dfile.confs), ~draced PROVE ~dwild'
    <3>1. ~dwild
      BY <2>1, InvHas DEF NotWild
    <3>2. p.r = OK => ~find_endpoint_wild(p.config, dcall.addr)
      BY <1>5, <2>1, SoundSearch
    <3> QED
      BY <1>1, <3>1, <3>2
  <2> QED
    BY <1>2, <2>1 DEF NotWild
<1>7. Grows(dheap, dheap', 0 - 1)
  <2>1. CASE p.r = OK
    <3>1. PICK k \in Nat : k = ConfigBlocks(p.config)
      BY <1>5, ConfigBlocksAre
    <3>2. Grows(dheap, p.m, (1 + k) + (0 - 1))
      BY <1>5, <2>1, <3>1
    <3>3. p.m \in Heap
      BY <3>2 DEF Grows
    <3>4. Grows(p.m, Release(p.m, 1 + k), 0 - (1 + k))
      BY <3>3, GrowsBy
    <3>5. Grows(dheap, Release(p.m, 1 + k), ((1 + k) + (0 - 1)) + (0 - (1 + k)))
          /\ ((1 + k) + (0 - 1)) + (0 - (1 + k)) = 0 - 1
      BY <3>2, <3>4, InvHas, GrowsTwice
    <3> QED
      BY <1>1, <2>1, <3>1, <3>5
  <2>2. CASE p.r # OK
    BY <1>1, <1>5, <2>2
  <2> QED
    BY <2>1, <2>2
<1>8. Balanced(dheap', dcall', dheld') /\ dheap' \in Heap
  <2>1. Held(dheld') = Held(dheld) /\ Held(dheld) \in Nat
    BY <1>2, InvHas
  <2>2. Held(dheld') + One(dcall' # Idle) = Held(dheld) + One(dcall # Idle) + (0 - 1)
    BY <1>2, <1>3, <2>1 DEF One
  <2>3. dheld' \in Seq(Results)
    BY <1>2, InvHas
  <2>4. PICK j \in Int : j = 0 - 1
    OBVIOUS
  <2>5. PICK x, y : x = dheap' /\ y = dheld'
    OBVIOUS
  <2>6. /\ Grows(dheap, x, j) /\ y \in Seq(Results)
        /\ Held(y) + One(dcall' # Idle) = Held(dheld) + One(dcall # Idle) + j
    BY <1>7, <2>2, <2>3, <2>4, <2>5
  <2>7. Balanced(x, dcall', y) /\ x \in Heap
    BY <2>6, InvHas, StaysBalanced
  <2> QED
    BY <2>5, <2>7
<1>9. Balanced(dheap, dcall, dheld)'
  BY <1>8 DEF Balanced, Held
<1>10. dwild' \in BOOLEAN
  BY <1>1, InvHas
<1> QED
  BY <1>2, <1>4, <1>6, <1>8, <1>9, <1>10, InvHas DEF DescInv

(* A step of an idle application that changes what is held.                *)
LEMMA IdleKeeps ==
    ASSUME DescInv, UNCHANGED <<dfile, dnum, dactive, dcall, dwild, draced>>,
           dheld' \in Seq(Results), NEW k \in Int, Grows(dheap, dheap', k),
           Held(dheld') = Held(dheld) + k
    PROVE  DescInv'
<1>1. Held(dheld) \in Nat
  BY InvHas
<1>2. PICK c \in Int : c = One(dcall # Idle) /\ c = One(dcall' # Idle)
  BY DEF One
<1>3. Held(dheld') + c = Held(dheld) + c + k
  BY <1>1
<1>4. Held(dheld') + One(dcall' # Idle) = Held(dheld) + One(dcall # Idle) + k
  BY <1>2, <1>3
<1>5. CallKnown' /\ RoomKnown'
  BY SameCall
<1> QED
  BY <1>4, <1>5, QuietKeeps

LEMMA NothingKeeps ==
    ASSUME DescInv, UNCHANGED <<dfile, dnum, dactive, dcall, dwild, draced, dheld>>,
           UNCHANGED dheap \/ dheap' = Refuse(dheap)
    PROVE  DescInv'
<1>1. Grows(dheap, dheap', 0) /\ Held(dheld) \in Nat /\ dheld \in Seq(Results)
  BY InvHas
<1>2. Held(dheld') = Held(dheld) + 0 /\ dheld' \in Seq(Results)
  BY <1>1
<1> QED
  BY <1>1, <1>2, IdleKeeps

LEMMA GetConfigKeeps ==
    ASSUME DescInv, NEW index, GetConfig(index)
    PROVE  DescInv'
<1> DEFINE f == IF index > dnum THEN [r |-> NOT_FOUND, at |-> 0]
                ELSE op_get_config_descriptor(dfile.confs, index)
           p == raw_desc_to_config(dfile.confs[f.at].b,
                                   Least(dfile.confs[f.at].total, f.r), Take1(dheap))
<1>1. /\ Ready
      /\ IF f.r < 0 THEN UNCHANGED <<dheap, dheld>>
         ELSE IF Fails(dheap) THEN dheap' = Refuse(dheap) /\ UNCHANGED dheld
         ELSE Hold([p EXCEPT !.m = Release(@, 1)])
      /\ UNCHANGED <<dfile, dnum, dactive, dcall, dwild, draced>>
  BY DEF GetConfig
<1>2. Found(dfile.confs, f)
  <2>1. Found(dfile.confs, [r |-> NOT_FOUND, at |-> 0])
    BY DEF Found, NOT_FOUND
  <2> QED
    BY <2>1, InvHas, LookupsFind
<1> HIDE DEF f
<1>3. CASE UNCHANGED dheld /\ (UNCHANGED dheap \/ dheap' = Refuse(dheap))
  BY <1>1, <1>3, NothingKeeps
<1>4. CASE ~(f.r < 0) /\ Hold([p EXCEPT !.m = Release(@, 1)])
  <2>1. PICK c : c = dfile.confs[f.at]
    OBVIOUS
  <2>2. f.at \in 1..Len(dfile.confs) /\ f.r \in Int /\ f.r >= 0
    BY <1>2, <1>4 DEF Found
  <2>3. c.total \in Nat /\ c.b \in Seq(Descs)
    <3>1. c \in Confs
      BY <2>1, <2>2, InvHas
    <3> QED
      BY <3>1 DEF Confs
  <2>4. PICK size \in Nat : size = Least(c.total, f.r)
    BY <2>2, <2>3 DEF Least
  <2>5. PICK q : q = raw_desc_to_config(c.b, size, Take1(dheap))
    OBVIOUS
  <2>6. q = p
    BY <2>1, <2>4, <2>5
  <2>7. Grows(dheap, Take1(dheap), 1)
    BY InvHas
  <2>8. Take1(dheap) \in Heap
    BY <2>7 DEF Grows
  <2>9. Handed(Take1(dheap), q, Weight(c.b) = size)
    BY <2>3, <2>5, <2>8, ConfigHanded
  <2>10. q = ConfigResult(q.r, q.config, q.m)
    BY <2>5 DEF raw_desc_to_config, RawParsed, ConfigResult
  <2>11. PICK a : a = [q EXCEPT !.m = Release(@, 1)]
    OBVIOUS
  <2>12. a.r = q.r /\ a.config = q.config /\ a.m = Release(q.m, 1)
    BY <2>10, <2>11 DEF ConfigResult
  <2>13. Hold(a)
    BY <1>4, <2>6, <2>11
  <2>14. q.config \in Configs
    BY <2>9 DEF Handed
  <2>15. PICK k \in Nat : k = ConfigBlocks(q.config)
    BY <2>14, ConfigBlocksAre
  <2>16. a.r = OK => Grows(dheap, a.m, (1 + ConfigBlocks(a.config)) + 0)
    <3>1. SUFFICES ASSUME q.r = OK PROVE Grows(dheap, Release(q.m, 1), (1 + k) + 0)
      BY <2>12, <2>15
    <3>2. Grows(Take1(dheap), q.m, 1 + k)
      BY <2>9, <2>15, <3>1 DEF Handed
    <3>3. Grows(dheap, q.m, 1 + (1 + k)) /\ q.m \in Heap
      BY <2>7, <3>2, InvHas, GrowsTwice DEF Grows
    <3>4. Grows(q.m, Release(q.m, 1), 0 - 1)
      BY <3>3, GrowsBy
    <3>5. Grows(dheap, Release(q.m, 1), (1 + (1 + k)) + (0 - 1))
          /\ (1 + (1 + k)) + (0 - 1) = (1 + k) + 0
      BY <3>3, <3>4, InvHas, GrowsTwice
    <3> QED
      BY <3>5
  <2>17. a.r # OK => Grows(dheap, a.m, 0)
    <3>1. SUFFICES ASSUME q.r # OK PROVE Grows(dheap, Release(q.m, 1), 0)
      BY <2>12
    <3>2. Grows(Take1(dheap), q.m, 0)
      BY <2>9, <3>1 DEF Handed
    <3>3. Grows(dheap, q.m, 1 + 0) /\ q.m \in Heap
      BY <2>7, <3>2, InvHas, GrowsTwice DEF Grows
    <3>4. Grows(q.m, Release(q.m, 1), 0 - 1)
      BY <3>3, GrowsBy
    <3>5. Grows(dheap, Release(q.m, 1), (1 + 0) + (0 - 1)) /\ (1 + 0) + (0 - 1) = 0
      BY <3>3, <3>4, InvHas, GrowsTwice
    <3> QED
      BY <3>5
  <2>18. One(dcall' # Idle) = One(dcall # Idle) + 0
    BY <1>1 DEF One
  <2>19. CallKnown' /\ RoomKnown'
    BY <1>1, SameCall
  <2>20. a.config \in Configs
    BY <2>12, <2>14
  <2> QED
    BY <1>1, <2>13, <2>16, <2>17, <2>18, <2>19, <2>20, HoldKeeps
<1> QED
  BY <1>1, <1>3, <1>4

LEMMA GetByValueKeeps ==
    ASSUME DescInv, NEW value, GetByValue(value)
    PROVE  DescInv'
<1>1. PICK f : f = op_get_config_descriptor_by_value(dfile.confs, value)
  OBVIOUS
<1>2. PICK p : p = raw_desc_to_config(dfile.confs[f.at].b, f.r, dheap)
  OBVIOUS
<1>3. /\ IF f.r < 0 THEN UNCHANGED <<dheap, dheld>> ELSE Hold(p)
      /\ UNCHANGED <<dfile, dnum, dactive, dcall, dwild, draced>>
  BY <1>1, <1>2 DEF GetByValue
<1>4. Found(dfile.confs, f)
  BY <1>1, InvHas, LookupsFind
<1>5. CASE f.r < 0
  BY <1>3, <1>5, NothingKeeps
<1>6. CASE ~(f.r < 0)
  <2>1. PICK c : c = dfile.confs[f.at]
    OBVIOUS
  <2>2. f.at \in 1..Len(dfile.confs) /\ f.r \in Int /\ f.r >= 0
    BY <1>4, <1>6 DEF Found
  <2>3. c.b \in Seq(Descs)
    <3>1. c \in Confs
      BY <2>1, <2>2, InvHas
    <3> QED
      BY <3>1 DEF Confs
  <2>4. PICK size \in Nat : size = f.r
    BY <2>2
  <2>5. Handed(dheap, p, Weight(c.b) = size)
    <3>1. p = raw_desc_to_config(c.b, size, dheap)
      BY <1>2, <2>1, <2>4
    <3> QED
      BY <2>3, <3>1, InvHas, ConfigHanded
  <2>6. /\ p.config \in Configs
        /\ p.r = OK => Grows(dheap, p.m, 1 + ConfigBlocks(p.config))
        /\ p.r # OK => Grows(dheap, p.m, 0)
    BY <2>5 DEF Handed
  <2>7. PICK k \in Nat : k = ConfigBlocks(p.config) /\ 1 + k = (1 + k) + 0
    BY <2>6, ConfigBlocksAre
  <2>8. p.r = OK => Grows(dheap, p.m, (1 + ConfigBlocks(p.config)) + 0)
    BY <2>6, <2>7
  <2>9. One(dcall' # Idle) = One(dcall # Idle) + 0
    BY <1>3 DEF One
  <2>10. CallKnown' /\ RoomKnown'
    BY <1>3, SameCall
  <2> QED
    BY <1>3, <1>6, <2>6, <2>8, <2>9, <2>10, HoldKeeps
<1> QED
  BY <1>5, <1>6

LEMMA BosHeaderKeeps ==
    ASSUME DescInv, NEW answer \in BosAnswers, GetBosHeader(answer)
    PROVE  DescInv'
<1>1. PICK r : r = Least(answer.r, BOS_SIZE)
  OBVIOUS
<1>2. /\ Ready
      /\ IF r < BOS_SIZE THEN UNCHANGED <<dheap, dcall>>
         ELSE IF Fails(dheap) THEN dheap' = Refuse(dheap) /\ UNCHANGED dcall
         ELSE dheap' = Take1(dheap) /\ dcall' = [op |-> "bos", len |-> Hd(answer.b).total]
      /\ UNCHANGED <<dfile, dnum, dactive, dheld, dwild, draced>>
  BY <1>1 DEF GetBosHeader
<1>3. dcall = Idle /\ dnum # Unknown
  BY <1>2 DEF Ready, Unknown
<1>4. Held(dheld) \in Nat /\ dheld \in Seq(Results) /\ dheld' = dheld
  BY <1>2, InvHas
<1>5. CASE UNCHANGED dcall /\ (UNCHANGED dheap \/ dheap' = Refuse(dheap))
  BY <1>2, <1>5, NothingKeeps
<1>6. CASE /\ ~(r < BOS_SIZE) /\ dheap' = Take1(dheap)
           /\ dcall' = [op |-> "bos", len |-> Hd(answer.b).total]
  <2>1. answer.r \in Int /\ answer.r >= BOS_SIZE
    <3>1. answer.r \in Int
      BY DescConstants
    <3> QED
      BY <1>1, <1>6, <3>1 DEF Least, BOS_SIZE
  <2>2. Hd(answer.b).total \in Nat
    BY <2>1, DescConstants DEF Hd
  <2>3. dcall'.op = "bos" /\ dcall'.len \in Nat
    BY <1>6, <2>2
  <2>4. dcall' # Idle
    BY <2>3 DEF Idle
  <2>5. CallKnown' /\ RoomKnown'
    BY <1>2, <1>3, <2>3, <2>4 DEF CallKnown, RoomKnown
  <2>6. Held(dheld') + One(dcall' # Idle) = Held(dheld) + One(dcall # Idle) + 1
    BY <1>3, <1>4, <2>4 DEF One
  <2>7. Grows(dheap, dheap', 1)
    BY <1>6, InvHas
  <2> QED
    BY <1>2, <1>4, <2>5, <2>6, <2>7, QuietKeeps
<1> QED
  BY <1>2, <1>5, <1>6

LEMMA BosBodyKeeps ==
    ASSUME DescInv, NEW answer \in BosAnswers, GetBosBody(answer)
    PROVE  DescInv'
<1>1. PICK p : p = parse_bos(answer.b, Least(answer.r, dcall.len), dheap)
  OBVIOUS
<1>2. /\ dcall.op = "bos" /\ dcall' = Idle
      /\ IF answer.r < 0
         THEN dheap' = Release(dheap, 1) /\ UNCHANGED dheld
         ELSE /\ dheap' = Release(p.m, 1)
              /\ dheld' = IF p.r = OK THEN Append(dheld, [kind |-> "bos", caps |-> p.caps])
                          ELSE dheld
      /\ UNCHANGED <<dfile, dnum, dactive, dcount, dwild, draced>>
  BY <1>1 DEF GetBosBody
<1>3. dcall # Idle
  BY <1>2 DEF Idle
<1>4. dcall.len \in Nat /\ dheap \in Heap /\ dheld \in Seq(Results) /\ Held(dheld) \in Nat
  BY <1>3, InvHas DEF CallKnown
<1>5. CallKnown' /\ RoomKnown'
  BY <1>2, IdleKnown
<1>6. One(dcall' # Idle) = 0 /\ One(dcall # Idle) = 1
  BY <1>2, <1>3 DEF One
<1>7. ASSUME NEW heap, dheap' = Release(heap, 1), NEW j \in Nat, Grows(dheap, heap, j),
             dheld' \in Seq(Results), Held(dheld') = Held(dheld) + j
      PROVE  DescInv'
  <2>1. heap \in Heap
    BY <1>7 DEF Grows
  <2>2. Grows(heap, dheap', 0 - 1)
    BY <1>7, <2>1, GrowsBy
  <2>3. Grows(dheap, dheap', j + (0 - 1)) /\ j + (0 - 1) \in Int
    BY <1>4, <1>7, <2>2, GrowsTwice
  <2>4. Held(dheld') + One(dcall' # Idle) = Held(dheld) + One(dcall # Idle) + (j + (0 - 1))
    BY <1>4, <1>6, <1>7
  <2> QED
    BY <1>2, <1>5, <1>7, <2>3, <2>4, QuietKeeps
<1>8. CASE answer.r < 0
  <2>1. dheap' = Release(dheap, 1) /\ dheld' = dheld
    BY <1>2, <1>8
  <2>2. Grows(dheap, dheap, 0) /\ Held(dheld') = Held(dheld) + 0 /\ dheld' \in Seq(Results)
    BY <1>4, <2>1, InvHas
  <2> QED
    BY <1>7, <2>1, <2>2
<1>9. CASE ~(answer.r < 0)
  <2>1. /\ dheap' = Release(p.m, 1)
        /\ dheld' = IF p.r = OK THEN Append(dheld, [kind |-> "bos", caps |-> p.caps]) ELSE dheld
    BY <1>2, <1>9
  <2>2. answer.r \in Int /\ answer.b \in Seq(Descs)
    BY DescConstants
  <2>3. Least(answer.r, dcall.len) \in Int
    BY <1>4, <2>2 DEF Least
  <2>4. /\ p.caps \in Seq(Descs)
        /\ p.r = OK => Grows(dheap, p.m, 1 + Len(p.caps))
        /\ p.r # OK => Grows(dheap, p.m, 0)
    BY <1>1, <1>4, <2>2, <2>3, BosParsed
  <2>5. CASE p.r = OK
    <3>1. PICK h : h = [kind |-> "bos", caps |-> p.caps]
      OBVIOUS
    <3>2. h \in Results /\ Blocks(h) = 1 + Len(p.caps)
      BY <2>4, <3>1, BlocksOfResults
    <3>3. PICK j \in Nat : j = 1 + Len(p.caps)
      BY <2>4
    <3>4. dheld' = Append(dheld, h)
      BY <2>1, <2>5, <3>1
    <3>5. dheld' \in Seq(Results)
      BY <1>4, <3>2, <3>4
    <3>6. Held(dheld') = Held(dheld) + j
      BY <1>4, <3>2, <3>3, <3>4, HeldIs
    <3> QED
      BY <1>7, <2>1, <2>4, <2>5, <3>3, <3>5, <3>6
  <2>6. CASE p.r # OK
    <3>1. dheld' = dheld /\ Held(dheld') = Held(dheld) + 0
      BY <1>4, <2>1, <2>6
    <3> QED
      BY <1>4, <1>7, <2>1, <2>4, <2>6, <3>1
  <2> QED
    BY <2>5, <2>6
<1> QED
  BY <1>8, <1>9

(* One block is allocated for a copy, or refused, or not asked for.        *)
CopyMade ==
    \/ UNCHANGED <<dheap, dheld>>
    \/ dheap' = Refuse(dheap) /\ UNCHANGED dheld
    \/ dheap' = Take1(dheap) /\ dheld' = Append(dheld, [kind |-> "copy"])

LEMMA CopyKeeps ==
    ASSUME DescInv, CopyMade, UNCHANGED <<dfile, dnum, dactive, dcall, dwild, draced>>
    PROVE  DescInv'
<1>1. CASE UNCHANGED dheld /\ (UNCHANGED dheap \/ dheap' = Refuse(dheap))
  BY <1>1, NothingKeeps
<1>2. CASE dheap' = Take1(dheap) /\ dheld' = Append(dheld, [kind |-> "copy"])
  <2>1. PICK h : h = [kind |-> "copy"]
    OBVIOUS
  <2>2. h \in Results /\ Blocks(h) = 1
    BY <2>1, BlocksOfResults
  <2>3. dheld \in Seq(Results) /\ dheld' = Append(dheld, h)
    BY <1>2, <2>1, InvHas
  <2>4. dheld' \in Seq(Results)
    BY <2>2, <2>3
  <2>5. Held(dheld') = Held(dheld) + 1
    BY <2>2, <2>3, HeldIs
  <2>6. Grows(dheap, dheap', 1)
    BY <1>2, InvHas
  <2> QED
    BY <2>4, <2>5, <2>6, IdleKeeps
<1> QED
  BY <1>1, <1>2 DEF CopyMade

LEMMA CapabilityKeeps ==
    ASSUME DescInv, NEW k, NEW type, GetCapability(k, type)
    PROVE  DescInv'
<1>1. CopyMade
  BY DEF GetCapability, CopyMade
<1>2. UNCHANGED <<dfile, dnum, dactive, dcall, dwild, draced>>
  BY DEF GetCapability
<1> QED
  BY <1>1, <1>2, CopyKeeps

LEMMA CompanionKeeps ==
    ASSUME DescInv, NEW k, GetCompanion(k)
    PROVE  DescInv'
<1>1. CopyMade
  BY DEF GetCompanion, CopyMade
<1>2. UNCHANGED <<dfile, dnum, dactive, dcall, dwild, draced>>
  BY DEF GetCompanion
<1> QED
  BY <1>1, <1>2, CopyKeeps

LEMMA FreeKeeps ==
    ASSUME DescInv, NEW k \in 1..Len(dheld), FreeHeld(k)
    PROVE  DescInv'
<1>1. PICK b : b = Blocks(dheld[k])
  OBVIOUS
<1>2. /\ dheap' = Release(dheap, b)
      /\ dheld' = SubSeq(dheld, 1, k - 1) \o SubSeq(dheld, k + 1, Len(dheld))
      /\ UNCHANGED <<dfile, dnum, dactive, dcall, dcount, dwild, draced>>
  BY <1>1 DEF FreeHeld
<1>3. dheld \in Seq(Results) /\ dheap \in Heap /\ Held(dheld) \in Nat
  BY InvHas
<1>4. b \in Nat
  <2>1. dheld[k] \in Results
    BY <1>3
  <2> QED
    BY <1>1, <2>1, BlocksOfResults
<1>5. dheld' \in Seq(Results) /\ Held(dheld') = Held(dheld) - b
  BY <1>1, <1>2, <1>3, HeldWithout
<1>6. Grows(dheap, dheap', 0 - b)
  BY <1>2, <1>3, <1>4, GrowsBy
<1>7. PICK j \in Int : j = 0 - b /\ Held(dheld') = Held(dheld) + j
  BY <1>3, <1>4, <1>5
<1> QED
  BY <1>2, <1>5, <1>6, <1>7, IdleKeeps

LEMMA DescStep ==
    ASSUME DescInv, [DescNext]_descVars
    PROVE  DescInv'
<1>1. CASE \E answer \in Actives : InitializeDevice(answer)
  BY <1>1, InitializeKeeps
<1>2. CASE GetActiveHeader("config", 0)
  BY <1>2, HeaderKeeps
<1>3. CASE \E addr \in {1, 2} : GetActiveHeader("packet", addr)
  BY <1>3, HeaderKeeps
<1>4. CASE GetActiveBody
  BY <1>4, GetActiveBodyKeeps
<1>5. CASE MaxPacketSize
  BY <1>5, MaxPacketSizeKeeps
<1>6. CASE \E i \in 1..2 : GetConfig(i)
  BY <1>6, GetConfigKeeps
<1>7. CASE \E v \in Values : GetByValue(v) \/ ActiveChanges(v)
  BY <1>7, GetByValueKeeps, ActiveChangesKeeps
<1>8. CASE \E answer \in BosAnswers : GetBosHeader(answer) \/ GetBosBody(answer)
  BY <1>8, BosHeaderKeeps, BosBodyKeeps
<1>9. CASE \E k \in 1..Len(dheld) :
             \/ \E type \in DOMAIN CapSize : GetCapability(k, type)
             \/ GetCompanion(k)
             \/ FreeHeld(k)
  BY <1>9, CapabilityKeeps, CompanionKeeps, FreeKeeps
<1>10. CASE UNCHANGED descVars
  <2>1. /\ UNCHANGED <<dfile, dnum, dactive, dcall, dwild, draced, dheld>>
        /\ UNCHANGED dheap
    BY <1>10 DEF descVars
  <2> QED
    BY <2>1, NothingKeeps
<1> QED
  BY <1>1, <1>2, <1>3, <1>4, <1>5, <1>6, <1>7, <1>8, <1>9, <1>10 DEF DescNext

LEMMA DescBegins == DescInit => DescInv
<1>1. SUFFICES ASSUME DescInit PROVE DescInv
  OBVIOUS
<1>2. /\ dfile \in Files /\ dheld = <<>> /\ dcall = Idle /\ dwild = FALSE /\ draced = FALSE
      /\ dheap \in [n : {0}, live : {0}, lost : {0}, bad : {FALSE}, oom : OomAt]
  BY <1>1 DEF DescInit
<1>3. dheap \in Heap /\ dheap.live = 0 /\ dheap.lost = 0
  <2>1. PICK oom \in OomAt : dheap = [n |-> 0, live |-> 0, lost |-> 0, bad |-> FALSE, oom |-> oom]
    BY <1>2
  <2>2. oom \in Int
    BY DescConstants
  <2> QED
    BY <2>1, <2>2 DEF Heap
<1>4. dheld \in Seq(Results) /\ Held(dheld) = 0
  <2>1. dheld \in Seq(Results)
    BY <1>2
  <2> QED
    BY <1>2, <2>1, HeldIs
<1>5. Balanced(dheap, dcall, dheld)
  BY <1>2, <1>3, <1>4 DEF Balanced
<1>6. CallKnown /\ RoomKnown /\ NotWild
  BY <1>2 DEF CallKnown, RoomKnown, NotWild, Idle
<1> QED
  BY <1>2, <1>3, <1>4, <1>5, <1>6 DEF DescInv

(* Whatever a device says about itself and whichever allocation fails,     *)
(* every block is in a result the application can free, in the call that   *)
(* is running, or in the altsetting array at which parse_configuration()   *)
(* stopped; and endpoints are searched in arrays that are there.           *)
THEOREM MemoryAlwaysExact == DescSpec => []MemoryExact
<1>1. DescInv => MemoryExact
  <2>1. SUFFICES ASSUME DescInv PROVE MemoryExact
    OBVIOUS
  <2>2. Balanced(dheap, dcall, dheld) /\ NotWild
    BY <2>1, InvHas
  <2> QED
    BY <2>2 DEF MemoryExact, Balanced, Held, NotWild
<1> QED
  BY <1>1, DescBegins, DescStep, PTL DEF DescSpec
=============================================================================
