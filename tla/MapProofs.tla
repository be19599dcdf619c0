------------------------------ MODULE MapProofs ------------------------------
(***************************************************************************)
(* Theorems about Map: the table counts its elements, always has a free    *)
(* slot, has no holes, and implements KeyedBag, for any values, keys and   *)
(* hash functions, any sizes asked for and any order of the calls.         *)
(***************************************************************************)
EXTENDS Map, FiniteSetTheorems, TLAPS

----------------------------------------------------------------------------
(* Natural numbers: the least one of a set, and induction.                 *)

LEMMA Least ==
  ASSUME NEW S \in SUBSET Nat, S # {}
  PROVE  \E n \in S : \A m \in S : n <= m
<1> DEFINE R == OpToRel(<, Nat)
<1>1. IsWellFoundedOn(R, Nat)
  BY NatLessThanWellFounded
<1>2. R = {ss \in Nat \X Nat : ss[1] < ss[2]}
  BY DEF OpToRel
<1> HIDE DEF R
<1>3. PICK n \in S : \A m \in S : ~(<<m, n>> \in R)
  BY <1>1, WFMin
<1>4. ASSUME NEW m \in S PROVE n <= m
  <2>1. m \in Nat /\ n \in Nat /\ <<m, n>> \in Nat \X Nat /\ <<m, n>> \notin R
    BY <1>3
  <2>2. ~(m < n)
    BY <1>2, <2>1
  <2> QED BY <2>1, <2>2
<1> QED BY <1>3, <1>4

LEMMA Inductive ==
  ASSUME NEW S \in SUBSET Nat, 0 \in S, \A n \in S : n + 1 \in S
  PROVE  S = Nat
<1>1. SUFFICES ASSUME Nat \ S # {} PROVE FALSE
  OBVIOUS
<1>2. PICK n \in Nat \ S : \A m \in Nat \ S : n <= m
  BY <1>1, Least
<1>3. n # 0 /\ n - 1 \in Nat /\ n - 1 \in S
  BY <1>2
<1>4. (n - 1) + 1 \in S
  BY <1>3
<1> QED BY <1>2, <1>4

----------------------------------------------------------------------------
(* Powers of two, the sizes of a table *)

LEMMA TwoToUnfolds ==
  \A n \in Nat : TwoTo[n] = IF n = 0 THEN 1 ELSE 2 * TwoTo[n - 1]
<1> DEFINE Upto(g, k) == g = [n \in 0..k |-> IF n = 0 THEN 1 ELSE 2 * g[n - 1]]
           S == {k \in Nat : \E g : Upto(g, k)}
<1>1. 0 \in S
  <2>1. Upto([n \in 0..0 |-> 1], 0)
    OBVIOUS
  <2> QED BY <2>1
<1>2. ASSUME NEW k \in S PROVE k + 1 \in S
  <2>1. PICK g : Upto(g, k)
    OBVIOUS
  <2>2. Upto([n \in 0..(k + 1) |-> IF n = k + 1 THEN 2 * g[k] ELSE g[n]], k + 1)
    BY <2>1
  <2> HIDE DEF Upto
  <2>3. \E h : Upto(h, k + 1)
    BY <2>2
  <2> QED BY <2>3
<1>3. S = Nat
  BY <1>1, <1>2, Inductive
<1> DEFINE G(k) == CHOOSE g : Upto(g, k)
<1>4. ASSUME NEW k \in Nat, NEW j \in 0..k
      PROVE  G(k)[j] = IF j = 0 THEN 1 ELSE 2 * G(k)[j - 1]
  <2>1. \E g : Upto(g, k)
    BY <1>3
  <2> HIDE DEF Upto
  <2>2. Upto(G(k), k)
    BY <2>1
  <2> HIDE DEF G
  <2> USE DEF Upto
  <2> QED BY <2>2
<1> HIDE DEF G
<1> DEFINE T == {j \in Nat : \A k \in Nat : j <= k => G(k)[j] = G(j)[j]}
<1>5. 0 \in T
  BY <1>4
<1>6. ASSUME NEW j \in T PROVE j + 1 \in T
  <2>1. \A k \in Nat : j + 1 <= k => G(k)[j + 1] = 2 * G(k)[j] /\ G(k)[j] = G(j)[j]
    BY <1>4
  <2> QED BY <2>1
<1>7. T = Nat
  BY <1>5, <1>6, Inductive
<1> DEFINE f == [n \in Nat |-> G(n)[n]]
<1>8. ASSUME NEW n \in Nat PROVE f[n] = IF n = 0 THEN 1 ELSE 2 * f[n - 1]
  <2>1. n # 0 => n - 1 \in Nat /\ n - 1 \in T /\ n - 1 <= n
    BY <1>7
  <2>2. G(n)[n] = IF n = 0 THEN 1 ELSE 2 * G(n)[n - 1]
    BY <1>4
  <2> QED BY <2>1, <2>2
<1>9. f = [n \in Nat |-> IF n = 0 THEN 1 ELSE 2 * f[n - 1]]
  BY <1>8
<1> HIDE DEF f
<1>10. \E g : g = [n \in Nat |-> IF n = 0 THEN 1 ELSE 2 * g[n - 1]]
  BY <1>9
<1>11. TwoTo = [n \in Nat |-> IF n = 0 THEN 1 ELSE 2 * TwoTo[n - 1]]
  BY <1>10 DEF TwoTo
<1> QED BY <1>11

LEMMA TwoToNext == \A n \in Nat : TwoTo[0] = 1 /\ TwoTo[n + 1] = 2 * TwoTo[n]
BY TwoToUnfolds

LEMMA TwoToType == \A n \in Nat : TwoTo[n] \in Nat /\ TwoTo[n] > n
<1> DEFINE S == {n \in Nat : TwoTo[n] \in Nat /\ TwoTo[n] > n}
<1>1. 0 \in S
  BY TwoToNext
<1>2. ASSUME NEW n \in S PROVE n + 1 \in S
  BY TwoToNext
<1>3. S = Nat
  BY <1>1, <1>2, Inductive
<1> QED BY <1>3

LEMMA TwoToGrows ==
  ASSUME NEW j \in Nat, NEW k \in Nat, j < k
  PROVE  2 * TwoTo[j] <= TwoTo[k]
<1> DEFINE S == {d \in Nat : 2 * TwoTo[j] <= TwoTo[j + 1 + d]}
<1>1. 0 \in S
  <2>1. TwoTo[j + 1] = 2 * TwoTo[j] /\ TwoTo[j] \in Nat /\ j + 1 + 0 = j + 1
    BY TwoToNext, TwoToType
  <2> QED BY <2>1
<1>2. ASSUME NEW d \in S PROVE d + 1 \in S
  <2>1. TwoTo[(j + 1 + d) + 1] = 2 * TwoTo[j + 1 + d] /\ TwoTo[j + 1 + d] \in Nat
    BY TwoToNext, TwoToType
  <2>2. TwoTo[j + 1 + (d + 1)] = 2 * TwoTo[j + 1 + d]
    BY <2>1
  <2>3. TwoTo[j] \in Nat
    BY TwoToType
  <2> QED BY <2>1, <2>2, <2>3
<1>3. S = Nat
  BY <1>1, <1>2, Inductive
<1>4. k - j - 1 \in Nat /\ j + 1 + (k - j - 1) = k
  OBVIOUS
<1> QED BY <1>3, <1>4

(* A size of a table *)
Sizes == {TwoTo[k] : k \in Nat \ {0}}

LEMMA SizeIsNat == \A n \in Sizes : n \in Nat /\ n >= 2
<1>1. \A k \in Nat \ {0} : TwoTo[k] \in Nat /\ TwoTo[k] > k
  BY TwoToType
<1> QED BY <1>1 DEF Sizes

LEMMA Doubles == \A n \in Sizes : n * 2 \in Sizes
<1>1. SUFFICES ASSUME NEW k \in Nat \ {0} PROVE TwoTo[k] * 2 \in Sizes
  BY DEF Sizes
<1>2. TwoTo[k + 1] = TwoTo[k] * 2
  BY TwoToNext, TwoToType
<1> QED BY <1>2 DEF Sizes

LEMMA Sixteen == 16 \in Sizes
<1>1. TwoTo[0] = 1 /\ TwoTo[0 + 1] = 2 /\ TwoTo[1 + 1] = 4 /\ TwoTo[2 + 1] = 8 /\ TwoTo[3 + 1] = 16
  BY TwoToNext
<1> QED BY <1>1 DEF Sizes

(* ffint_align_power2() finds a size that is large enough ... *)
LEMMA AlignPower2Type ==
  ASSUME NEW n \in Nat
  PROVE  AlignPower2(n) \in Sizes /\ AlignPower2(n) >= n
<1> DEFINE Fits(k, m) == TwoTo[k] >= m /\ (TwoTo[k] = 2 \/ TwoTo[k] < 2 * m)
           S == {m \in Nat : \E k \in 1..(m + 1) : Fits(k, m)}
<1>1. TwoTo[1] = 2
  <2>1. TwoTo[0 + 1] = 2 /\ 0 + 1 = 1
    BY TwoToNext
  <2> QED BY <2>1
<1>2. 0 \in S
  <2>1. 1 \in 1..(0 + 1) /\ Fits(1, 0)
    BY <1>1
  <2> QED BY <2>1
<1>3. ASSUME NEW m \in S PROVE m + 1 \in S
  <2>1. PICK k \in 1..(m + 1) : Fits(k, m)
    OBVIOUS
  <2>2. k \in Nat /\ TwoTo[k] \in Nat /\ TwoTo[k + 1] = 2 * TwoTo[k]
    BY TwoToType, TwoToNext
  <2>3. CASE TwoTo[k] >= m + 1
    <3>1. k \in 1..((m + 1) + 1) /\ Fits(k, m + 1)
      BY <2>1, <2>2, <2>3
    <3> QED BY <3>1
  <2>4. CASE TwoTo[k] < m + 1
    <3>1. TwoTo[k] = m
      BY <2>1, <2>2, <2>4
    <3>2. m >= 1
      BY <2>2, <3>1, TwoToType
    <3>3. k + 1 \in 1..((m + 1) + 1) /\ Fits(k + 1, m + 1)
      BY <2>2, <3>1, <3>2
    <3> QED BY <3>3
  <2> QED BY <2>2, <2>3, <2>4
<1>4. S = Nat
  BY <1>2, <1>3, Inductive
<1>5. PICK k \in 1..(n + 1) : Fits(k, n)
  BY <1>4
<1> DEFINE P == {TwoTo[j] : j \in 1..(n + 1)}
<1>6. TwoTo[k] \in P /\ TwoTo[k] >= n /\ (TwoTo[k] = 2 \/ TwoTo[k] < 2 * n)
  BY <1>5
<1> HIDE DEF Fits, S
<1>7. AlignPower2(n) = CHOOSE p \in P : p >= n /\ (p = 2 \/ p < 2 * n)
  BY DEF AlignPower2
<1>8. P \subseteq Sizes
  BY DEF Sizes
<1> HIDE DEF P
<1> QED BY <1>6, <1>7, <1>8

(* ... and keeps what is a size already. *)
LEMMA AlignPower2Same ==
  ASSUME NEW n \in Sizes
  PROVE  AlignPower2(n) = n
<1>1. PICK k \in Nat \ {0} : n = TwoTo[k]
  BY DEF Sizes
<1>2. n \in Nat /\ n >= 2 /\ n > k
  BY <1>1, TwoToType, SizeIsNat
<1> DEFINE P == {TwoTo[j] : j \in 1..(n + 1)}
<1>3. n \in P
  BY <1>1, <1>2
<1>4. ASSUME NEW p \in P, p >= n, p = 2 \/ p < 2 * n PROVE p = n
  <2>1. PICK j \in 1..(n + 1) : p = TwoTo[j]
    OBVIOUS
  <2>2. p \in Nat /\ j \in Nat
    BY <1>2, <2>1, TwoToType
  <2>3. CASE p = 2
    BY <1>2, <1>4, <2>3
  <2>4. CASE p < 2 * n
    <3>1. ~(k < j)
      BY <1>1, <2>1, <2>2, <2>4, TwoToGrows, <1>2
    <3>2. ~(j < k)
      <4>1. j < k => 2 * p <= n
        BY <1>1, <2>1, <2>2, TwoToGrows
      <4> QED BY <4>1, <1>2, <1>4, <2>2
    <3> QED BY <1>1, <2>1, <2>2, <3>1, <3>2
  <2> QED BY <1>4, <2>3, <2>4
<1>5. AlignPower2(n) = CHOOSE p \in P : p >= n /\ (p = 2 \/ p < 2 * n)
  BY DEF AlignPower2
<1> HIDE DEF P
<1>6. n >= n /\ (n = 2 \/ n < 2 * n)
  BY <1>2
<1> QED BY <1>3, <1>4, <1>5, <1>6

----------------------------------------------------------------------------
(* Places of a table of n slots, around the circle.  Gap counts the steps  *)
(* of a probe from one place to another.                                   *)

Places(n) == 0..(n - 1)
Gap(a, b, n) == (b - a) % n

LEMMA PlacesAreNat == ASSUME NEW n \in Nat, NEW a \in Places(n) PROVE a \in Nat
BY DEF Places

LEMMA GapCases ==
  ASSUME NEW n \in Nat, n >= 1, NEW a \in Places(n), NEW b \in Places(n)
  PROVE  /\ Gap(a, b, n) = IF a <= b THEN b - a ELSE b - a + n
         /\ Gap(a, b, n) \in Places(n)
<1>1. a \in Nat /\ b \in Nat /\ a < n /\ b < n
  BY DEF Places
<1>2. (b - a) % n = IF a <= b THEN b - a ELSE b - a + n
  BY <1>1
<1> QED BY <1>1, <1>2 DEF Gap, Places

LEMMA AfterCases ==
  ASSUME NEW n \in Nat, n >= 1, NEW a \in Places(n), NEW d \in 0..n
  PROVE  /\ After(a, d, n) = IF a + d < n THEN a + d ELSE a + d - n
         /\ After(a, d, n) \in Places(n)
<1>1. a \in Nat /\ d \in Nat /\ a < n /\ d <= n
  BY DEF Places
<1>2. (a + d) % n = IF a + d < n THEN a + d ELSE a + d - n
  BY <1>1
<1> QED BY <1>1, <1>2 DEF After, Places

LEMMA AfterGap ==
  ASSUME NEW n \in Nat, n >= 1, NEW a \in Places(n), NEW b \in Places(n)
  PROVE  After(a, Gap(a, b, n), n) = b
<1>1. Gap(a, b, n) \in 0..n /\ Gap(a, b, n) = IF a <= b THEN b - a ELSE b - a + n
  BY GapCases DEF Places
<1>2. \A d \in 0..n : After(a, d, n) = IF a + d < n THEN a + d ELSE a + d - n
  BY AfterCases
<1> QED BY <1>1, <1>2 DEF Places

LEMMA GapAfter ==
  ASSUME NEW n \in Nat, n >= 1, NEW a \in Places(n), NEW d \in Places(n)
  PROVE  Gap(a, After(a, d, n), n) = d
<1>1. /\ After(a, d, n) = IF a + d < n THEN a + d ELSE a + d - n
      /\ After(a, d, n) \in Places(n)
  BY AfterCases DEF Places
<1>2. Gap(a, After(a, d, n), n)
        = IF a <= After(a, d, n) THEN After(a, d, n) - a ELSE After(a, d, n) - a + n
  BY <1>1, GapCases
<1> QED BY <1>1, <1>2 DEF Places

(* The circle cut open in front of place b. *)
LEMMA GapShift ==
  ASSUME NEW n \in Nat, n >= 1, NEW b \in Places(n), NEW h \in Places(n), NEW s \in Places(n)
  PROVE  Gap(h, s, n) = IF Gap(b, h, n) <= Gap(b, s, n)
                        THEN Gap(b, s, n) - Gap(b, h, n)
                        ELSE Gap(b, s, n) - Gap(b, h, n) + n
<1>1. /\ Gap(h, s, n) = IF h <= s THEN s - h ELSE s - h + n
      /\ Gap(b, h, n) = IF b <= h THEN h - b ELSE h - b + n
      /\ Gap(b, s, n) = IF b <= s THEN s - b ELSE s - b + n
  BY GapCases
<1> QED BY <1>1 DEF Places

LEMMA GapSame ==
  ASSUME NEW n \in Nat, n >= 1, NEW a \in Places(n), NEW b \in Places(n), NEW c \in Places(n),
         Gap(a, b, n) = Gap(a, c, n)
  PROVE  b = c
BY AfterGap

LEMMA HomeType ==
  ASSUME hash \in Hashes, NEW k \in Keys, NEW n \in Nat, n >= 1
  PROVE  Home(k, n) \in Places(n)
<1>1. hash[k] \in Nat
  BY MapAssumption DEF MapAssumption
<1>2. hash[k] % n \in 0..(n - 1)
  BY <1>1
<1> QED BY <1>2 DEF Home, Places

----------------------------------------------------------------------------
(* Tables *)

Table(t, n) == t \in [Places(n) -> Vals \cup {NULL}]

(* No slot from h to i is free. *)
Path(t, n, h, i) ==
  \A s \in Places(n) : Gap(h, s, n) <= Gap(h, i, n) => t[s] # NULL

Sound(t, n) == \A i \in Occupied(t) : Path(t, n, Home(KeyOf[t[i]], n), i)

Distinct(t) == \A i, j \in Occupied(t) : t[i] = t[j] => i = j

Contents(t) == {t[i] : i \in Occupied(t)}

LEMMA OccupiedType ==
  ASSUME NEW n \in Nat, NEW t, Table(t, n)
  PROVE  /\ Occupied(t) \subseteq Places(n) /\ IsFiniteSet(Occupied(t))
         /\ Cardinality(Occupied(t)) \in Nat
         /\ \A i \in Occupied(t) : t[i] \in Vals /\ KeyOf[t[i]] \in Keys
<1>1. Occupied(t) \subseteq Places(n)
  BY DEF Occupied, Table
<1>2. IsFiniteSet(Places(n))
  BY FS_Interval DEF Places
<1>3. IsFiniteSet(Occupied(t)) /\ Cardinality(Occupied(t)) \in Nat
  BY <1>1, <1>2, FS_Subset, FS_CardinalityType
<1>4. \A i \in Occupied(t) : t[i] \in Vals /\ KeyOf[t[i]] \in Keys
  BY <1>1, MapAssumption DEF Occupied, Table, MapAssumption
<1> QED BY <1>1, <1>3, <1>4

(* A table that is not full has a free slot. *)
LEMMA SomeFree ==
  ASSUME NEW n \in Nat, NEW t, Table(t, n), Cardinality(Occupied(t)) < n
  PROVE  \E i \in Places(n) : t[i] = NULL
<1>1. SUFFICES ASSUME \A i \in Places(n) : t[i] # NULL PROVE FALSE
  OBVIOUS
<1>2. Occupied(t) = 0..(n - 1)
  BY <1>1 DEF Occupied, Table, Places
<1>3. Cardinality(0..(n - 1)) = n
  BY FS_Interval
<1> QED BY <1>2, <1>3

(* A probe ends at the first free slot. *)
LEMMA FirstFreeIsFirst ==
  ASSUME NEW n \in Nat, n >= 1, NEW t, \E i \in Places(n) : t[i] = NULL,
         NEW h \in Places(n)
  PROVE  /\ FirstFree(t, h, n) \in Places(n)
         /\ t[FirstFree(t, h, n)] = NULL
         /\ \A s \in Places(n) : Gap(h, s, n) < Gap(h, FirstFree(t, h, n), n) => t[s] # NULL
<1> DEFINE S == {d \in Places(n) : t[After(h, d, n)] = NULL}
<1>1. S # {} /\ S \in SUBSET Nat
  <2>1. PICK i \in Places(n) : t[i] = NULL
    OBVIOUS
  <2>2. Gap(h, i, n) \in Places(n) /\ After(h, Gap(h, i, n), n) = i
    BY GapCases, AfterGap
  <2> QED BY <2>1, <2>2 DEF Places
<1>2. PICK d \in S : \A e \in S : d <= e
  BY <1>1, Least
<1>3. \E c \in 0..(n - 1) : /\ t[After(h, c, n)] = NULL
                            /\ \A e \in 0..(c - 1) : t[After(h, e, n)] # NULL
  <2>1. ASSUME NEW e \in 0..(d - 1) PROVE t[After(h, e, n)] # NULL
    <3>1. e \in Places(n) /\ e < d
      BY DEF Places
    <3> QED BY <1>2, <3>1 DEF Places
  <2> QED BY <2>1 DEF Places
<1> HIDE DEF S
<1> DEFINE c == CHOOSE c \in 0..(n - 1) : /\ t[After(h, c, n)] = NULL
                                          /\ \A e \in 0..(c - 1) : t[After(h, e, n)] # NULL
<1>4. /\ c \in 0..(n - 1) /\ t[After(h, c, n)] = NULL
      /\ \A e \in 0..(c - 1) : t[After(h, e, n)] # NULL
  BY <1>3
<1>5. FirstFree(t, h, n) = After(h, c, n)
  BY DEF FirstFree
<1> HIDE DEF c
<1>6. After(h, c, n) \in Places(n) /\ Gap(h, After(h, c, n), n) = c
  BY <1>4, AfterCases, GapAfter DEF Places
<1>7. ASSUME NEW s \in Places(n), Gap(h, s, n) < c PROVE t[s] # NULL
  <2>1. Gap(h, s, n) \in Places(n) /\ After(h, Gap(h, s, n), n) = s
    BY GapCases, AfterGap
  <2>2. Gap(h, s, n) \in 0..(c - 1)
    BY <1>4, <1>7, <2>1 DEF Places
  <2> QED BY <1>4, <2>1, <2>2
<1> QED BY <1>4, <1>5, <1>6, <1>7

(* An empty table. *)
LEMMA EmptyFacts ==
  ASSUME NEW n \in Nat
  PROVE  LET t == EmptyTable(n)
         IN  /\ Table(t, n) /\ Sound(t, n) /\ Distinct(t)
             /\ Occupied(t) = {} /\ Contents(t) = {} /\ Cardinality(Occupied(t)) = 0
<1>1. Table(EmptyTable(n), n) /\ Occupied(EmptyTable(n)) = {}
  BY DEF EmptyTable, Table, Places, Occupied
<1> QED BY <1>1, FS_EmptySet DEF Sound, Distinct, Contents

(* Adding an element takes the first free slot from its home. *)
LEMMA PlaceFacts ==
  ASSUME hash \in Hashes, NEW n \in Nat, n >= 1, NEW t, Table(t, n),
         Sound(t, n), Distinct(t), NEW v \in Vals, v \notin Contents(t),
         \E i \in Places(n) : t[i] = NULL
  PROVE  LET u == Place(t, n, v)
         IN  /\ Table(u, n) /\ Sound(u, n) /\ Distinct(u)
             /\ Contents(u) = Contents(t) \cup {v}
             /\ Cardinality(Occupied(u)) = Cardinality(Occupied(t)) + 1
<1> DEFINE h == Home(KeyOf[v], n)
           f == FirstFree(t, h, n)
           u == Place(t, n, v)
<1>1. h \in Places(n)
  BY HomeType, MapAssumption DEF MapAssumption
<1> HIDE DEF h
<1>2. /\ f \in Places(n) /\ t[f] = NULL
      /\ \A s \in Places(n) : Gap(h, s, n) < Gap(h, f, n) => t[s] # NULL
  BY <1>1, FirstFreeIsFirst
<1>3. u = [t EXCEPT ![f] = v]
  BY DEF Place, h
<1> HIDE DEF f, u
<1>4. v # NULL
  BY MapAssumption DEF MapAssumption
<1>5. Table(u, n) /\ u[f] = v /\ \A i \in Places(n) \ {f} : u[i] = t[i]
  BY <1>2, <1>3 DEF Table
<1>6. DOMAIN t = Places(n) /\ DOMAIN u = Places(n)
  BY <1>5 DEF Table
<1>7. f \notin Occupied(t) /\ Occupied(u) = Occupied(t) \cup {f} /\ Occupied(t) \subseteq Places(n)
  BY <1>2, <1>4, <1>5, <1>6 DEF Occupied
<1>8. Contents(u) = Contents(t) \cup {v} /\ Distinct(u)
  BY <1>5, <1>7 DEF Contents, Distinct
<1>9. Cardinality(Occupied(u)) = Cardinality(Occupied(t)) + 1
  BY <1>7, OccupiedType, FS_AddElement
<1>10. Sound(u, n)
  <2>1. ASSUME NEW i \in Occupied(t) PROVE Path(u, n, Home(KeyOf[u[i]], n), i)
    <3>1. u[i] = t[i] /\ Path(t, n, Home(KeyOf[t[i]], n), i)
      BY <1>5, <1>7, <2>1 DEF Sound
    <3> QED BY <1>4, <1>5, <3>1 DEF Path
  <2>2. Path(u, n, h, f)
    <3>1. ASSUME NEW s \in Places(n), Gap(h, s, n) <= Gap(h, f, n) PROVE u[s] # NULL
      <4>1. CASE s = f
        BY <4>1, <1>4, <1>5
      <4>2. CASE s # f
        <5>1. Gap(h, s, n) \in Nat /\ Gap(h, f, n) \in Nat
          <6>1. Gap(h, s, n) \in Places(n) /\ Gap(h, f, n) \in Places(n)
            BY <1>1, <1>2, GapCases
          <6> QED BY <6>1, PlacesAreNat
        <5>2. Gap(h, s, n) # Gap(h, f, n)
          BY <1>1, <1>2, <4>2, GapSame
        <5> QED BY <1>2, <1>5, <3>1, <4>2, <5>1, <5>2
      <4> QED BY <4>1, <4>2
    <3> QED BY <3>1 DEF Path
  <2> QED BY <1>5, <1>7, <2>1, <2>2 DEF Sound, h
<1> QED BY <1>5, <1>8, <1>9, <1>10 DEF u

(* A resize places the same elements in a new table. *)
LEMMA RehashedFacts ==
  ASSUME hash \in Hashes, cap \in Nat, Table(data, cap), Distinct(data),
         NEW n \in Nat, Cardinality(Occupied(data)) < n
  PROVE  LET t == Rehashed(n)
         IN  /\ Table(t, n) /\ Sound(t, n) /\ Distinct(t)
             /\ Contents(t) = Contents(data)
             /\ Cardinality(Occupied(t)) = Cardinality(Occupied(data))
<1> DEFINE Upto(g, k) ==
             g = [i \in 0..k |-> IF i = 0 THEN EmptyTable(n)
                                 ELSE IF data[i - 1] = NULL THEN g[i - 1]
                                 ELSE Place(g[i - 1], n, data[i - 1])]
           S == {k \in Nat : \E g : Upto(g, k)}
<1>1. 0 \in S
  <2>1. Upto([i \in 0..0 |-> EmptyTable(n)], 0)
    OBVIOUS
  <2> HIDE DEF Upto
  <2> QED BY <2>1
<1>2. ASSUME NEW k \in S PROVE k + 1 \in S
  <2>1. PICK g : Upto(g, k)
    OBVIOUS
  <2>2. Upto([i \in 0..(k + 1) |->
                IF i = k + 1 THEN IF data[k] = NULL THEN g[k] ELSE Place(g[k], n, data[k])
                ELSE g[i]], k + 1)
    BY <2>1
  <2> HIDE DEF Upto
  <2>3. \E h : Upto(h, k + 1)
    BY <2>2
  <2> QED BY <2>3
<1>3. \E g : Upto(g, cap)
  <2>1. S = Nat
    BY <1>1, <1>2, Inductive
  <2> HIDE DEF Upto
  <2> QED BY <2>1
<1> HIDE DEF S
<1>4. PICK g : Upto(g, cap) /\ Rehashed(n) = g[cap]
  BY <1>3 DEF Rehashed
<1>5. /\ g[0] = EmptyTable(n)
      /\ \A i \in Places(cap) :
           g[i + 1] = IF data[i] = NULL THEN g[i] ELSE Place(g[i], n, data[i])
  BY <1>4 DEF Places
<1> HIDE DEF Upto
<1> DEFINE Before(k) == {j \in Occupied(data) : j < k}
           Good(k) == /\ Table(g[k], n) /\ Sound(g[k], n) /\ Distinct(g[k])
                      /\ Contents(g[k]) = {data[j] : j \in Before(k)}
                      /\ Cardinality(Occupied(g[k])) = Cardinality(Before(k))
           T == {k \in Nat : k <= cap => Good(k)}
<1>6. Occupied(data) \subseteq Places(cap) /\ IsFiniteSet(Occupied(data))
      /\ \A i \in Occupied(data) : data[i] \in Vals
  BY OccupiedType
<1>7. 0 \in T
  <2>1. Before(0) = {}
    BY <1>6 DEF Places
  <2>2. Good(0)
    BY <1>5, <2>1, EmptyFacts, FS_EmptySet
  <2> QED BY <2>2
<1>8. ASSUME NEW k \in T PROVE k + 1 \in T
  <2>1. SUFFICES ASSUME k + 1 <= cap PROVE Good(k + 1)
    OBVIOUS
  <2>2. k \in Nat /\ k \in Places(cap) /\ Good(k)
    BY <2>1 DEF Places
  <2>3. CASE data[k] = NULL
    <3>1. Before(k + 1) = Before(k)
      BY <1>6, <2>2, <2>3 DEF Places, Occupied
    <3>2. g[k + 1] = g[k]
      BY <1>5, <2>2, <2>3
    <3> QED BY <2>2, <3>1, <3>2
  <2>4. CASE data[k] # NULL
    <3>1. k \in Occupied(data) /\ data[k] \in Vals
      BY <1>6, <2>2, <2>4 DEF Occupied, Table
    <3>2. Before(k + 1) = Before(k) \cup {k} /\ k \notin Before(k)
      BY <1>6, <2>2, <3>1 DEF Places
    <3>3. /\ Cardinality(Before(k + 1)) = Cardinality(Before(k)) + 1
          /\ Cardinality(Before(k + 1)) <= Cardinality(Occupied(data))
          /\ Cardinality(Before(k)) \in Nat /\ Cardinality(Occupied(data)) \in Nat
      <4>1. IsFiniteSet(Before(k)) /\ Before(k + 1) \subseteq Occupied(data)
        BY <1>6, FS_Subset
      <4> HIDE DEF Before
      <4> QED BY <1>6, <3>2, <4>1, FS_AddElement, FS_Subset, FS_CardinalityType
    <3>4. \E i \in Places(n) : g[k][i] = NULL
      BY <2>2, <3>3, SomeFree
    <3>5. data[k] \notin Contents(g[k])
      BY <2>2, <3>1, <3>2 DEF Distinct
    <3>6. g[k + 1] = Place(g[k], n, data[k]) /\ n >= 1
      BY <1>5, <2>2, <2>4, <3>3
    <3> HIDE DEF Before
    <3>7. /\ Table(g[k + 1], n) /\ Sound(g[k + 1], n) /\ Distinct(g[k + 1])
          /\ Contents(g[k + 1]) = Contents(g[k]) \cup {data[k]}
          /\ Cardinality(Occupied(g[k + 1])) = Cardinality(Occupied(g[k])) + 1
      BY <2>2, <3>1, <3>4, <3>5, <3>6, PlaceFacts
    <3>8. Contents(g[k + 1]) = {data[j] : j \in Before(k + 1)}
      BY <2>2, <3>2, <3>7
    <3> QED BY <2>2, <3>3, <3>7, <3>8
  <2> QED BY <2>3, <2>4
<1>9. Good(cap)
  <2>1. T = Nat
    <3> HIDE DEF Good
    <3> QED BY <1>7, <1>8, Inductive
  <2> HIDE DEF Good
  <2> QED BY <2>1
<1>10. Before(cap) = Occupied(data)
  BY <1>6 DEF Places
<1> QED BY <1>4, <1>9, <1>10 DEF Contents

----------------------------------------------------------------------------
(* The invariant.  While a removal runs, one slot is the hole: it still    *)
(* holds something, which is not part of the table any more.  FromEnd      *)
(* counts the slots from the one behind the end of the chunk, where the    *)
(* circle can be cut because the end itself is free.                       *)

FromEnd(s) == Gap((rm.end + 1) % cap, s, cap)

Kept == Occupied(data) \ {rm.irm}

Removing ==
  /\ cap # 0
  /\ rm.i \in Places(cap) /\ rm.end \in Places(cap) /\ rm.irm \in Places(cap)
  /\ data[rm.end] = NULL
  /\ FromEnd(rm.irm) < FromEnd(rm.i)
  \* the chunk from the hole on
  /\ \A s \in Places(cap) : FromEnd(rm.irm) <= FromEnd(s) /\ s # rm.end => data[s] # NULL
  \* what the loop has passed is at home behind the hole
  /\ \A s \in Places(cap) :
       FromEnd(rm.i) <= FromEnd(s) /\ s # rm.end =>
         FromEnd(Home(KeyOf[data[s]], cap)) > FromEnd(rm.irm)
  /\ \A j \in Kept : Path(data, cap, Home(KeyOf[data[j]], cap), j)
  \* the value that goes is nowhere else
  /\ \A i, j \in Kept : data[i] = data[j] => i = j
  /\ rm.val \in Vals /\ data[rm.irm] \in {data[j] : j \in Kept} \cup {rm.val}
  /\ \A j \in Kept : data[j] # rm.val
  /\ rm.arg = rm.val \/ (rm.arg \in Keys /\ KeyOf[rm.val] = rm.arg)

IInv ==
  /\ hash \in Hashes
  /\ cap = 0 \/ cap \in Sizes
  /\ Table(data, cap)
  /\ len = Cardinality(Occupied(data)) /\ (cap # 0 => len < cap)
  /\ answer.arg \in Keys \cup Vals \cup {NULL}
  /\ rm \in [running : BOOLEAN, i : Nat, end : Nat, irm : Nat,
             val : Vals \cup {NULL}, arg : Keys \cup Vals \cup {NULL}]
  /\ rm.running => Removing
  /\ ~rm.running => Sound(data, cap) /\ Distinct(data)

LEMMA TableTypes ==
  ASSUME IInv
  PROVE  /\ cap \in Nat /\ len \in Nat /\ IsFiniteSet(Occupied(data))
         /\ cap # 0 => cap >= 2
         /\ Occupied(data) \subseteq Places(cap)
         /\ \A i \in Occupied(data) : data[i] \in Vals /\ KeyOf[data[i]] \in Keys
<1>1. cap \in Nat /\ (cap # 0 => cap >= 2)
  BY SizeIsNat DEF IInv
<1> QED BY <1>1, OccupiedType DEF IInv

(* No buffer is an empty table of no slots. *)
LEMMA NoTableFacts ==
  Table(<<>>, 0) /\ Sound(<<>>, 0) /\ Distinct(<<>>) /\ Occupied(<<>>) = {}
  /\ Contents(<<>>) = {} /\ Cardinality(Occupied(<<>>)) = 0
<1>1. Places(0) = {}
  BY DEF Places
<1>2. Table(<<>>, 0) /\ Occupied(<<>>) = {}
  BY <1>1 DEF Table, Occupied
<1> QED BY <1>2, FS_EmptySet DEF Sound, Distinct, Contents

LEMMA InvInit == Init => IInv
<1> SUFFICES ASSUME Init PROVE IInv
  OBVIOUS
<1>1. /\ hash \in Hashes /\ cap = 0 /\ len = 0 /\ data = <<>> /\ rm = Idle
      /\ answer.arg = NULL
  BY DEF Init, To
<1>2. /\ ~rm.running
      /\ rm \in [running : BOOLEAN, i : Nat, end : Nat, irm : Nat,
                 val : Vals \cup {NULL}, arg : Keys \cup Vals \cup {NULL}]
  BY <1>1 DEF Idle
<1> QED BY <1>1, <1>2, NoTableFacts DEF IInv

(* A call that leaves another table in place of the old one. *)
LEMMA TableStep ==
  ASSUME IInv, ~rm.running, UNCHANGED <<hash, rm>>, NEW n, NEW t,
         cap' = n, n = 0 \/ n \in Sizes, data' = t,
         Table(t, n), Sound(t, n), Distinct(t),
         len' = Cardinality(Occupied(t)), n # 0 => len' < n,
         answer'.arg \in Keys \cup Vals \cup {NULL}
  PROVE  IInv'
<1>1. Sound(data, cap)'
  BY DEF Sound, Path, Home
<1>2. Distinct(data)' /\ Table(data, cap)' /\ len' = Cardinality(Occupied(data))'
  BY DEF Distinct, Table, Occupied
<1> QED BY <1>1, <1>2 DEF IInv

(* A call that leaves the table alone. *)
LEMMA AnswerStep ==
  ASSUME IInv, ~rm.running, UNCHANGED <<hash, cap, data, len, rm>>,
         answer'.arg \in Keys \cup Vals \cup {NULL}
  PROVE  IInv'
<1>1. Sound(data, cap) /\ Distinct(data)
  BY DEF IInv
<1> QED BY <1>1, TableStep DEF IInv

LEMMA Replies ==
  \A x, r : To(x, r).arg = x
BY DEF To

LEMMA FreeStep == ASSUME IInv, Free PROVE IInv'
BY NoTableFacts, TableStep, Replies DEF Free, SetTable, Reply

LEMMA AllocStep == ASSUME IInv, NEW n \in AllocSizes, Alloc(n) PROVE IInv'
<1> DEFINE p == AlignPower2(n)
<1>1. p \in Sizes /\ p \in Nat /\ p >= 2
  BY AlignPower2Type, SizeIsNat, MapAssumption DEF MapAssumption
<1> HIDE DEF p
<1>2. CASE SetTable(p, EmptyTable(p), 0) /\ Reply(To(NULL, "done"))
  <2> DEFINE t == EmptyTable(p)
  <2>1. /\ Table(t, p) /\ Sound(t, p) /\ Distinct(t) /\ 0 = Cardinality(Occupied(t))
    BY <1>1, EmptyFacts
  <2>2. cap' = p /\ data' = t /\ len' = 0 /\ answer'.arg = NULL
    BY <1>2, Replies DEF SetTable, Reply
  <2>3. ~rm.running /\ UNCHANGED <<hash, rm>>
    BY DEF Alloc
  <2> HIDE DEF t
  <2> QED BY <1>1, <2>1, <2>2, <2>3, TableStep
<1>3. CASE SetTable(0, <<>>, 0) /\ Reply(To(NULL, "no memory"))
  BY <1>3, NoTableFacts, TableStep, Replies DEF Alloc, SetTable, Reply
<1> QED BY <1>2, <1>3 DEF Alloc, p

(* The table that ffmap_grow() asks for has room for what there is.        *)
LEMMA GrowHasRoom ==
  ASSUME IInv, NEW by \in Nat
  PROVE  LET n == AlignPower2(((len + by) * 100) \div FFMAP_RESIZE_THRESHOLD + 1)
         IN  n \in Sizes /\ n \in Nat /\ len < n
<1> DEFINE want == ((len + by) * 100) \div FFMAP_RESIZE_THRESHOLD + 1
<1>1. len \in Nat
  BY TableTypes
<1>2. want \in Nat /\ len < want
  BY <1>1 DEF FFMAP_RESIZE_THRESHOLD
<1> HIDE DEF want
<1>3. AlignPower2(want) \in Sizes /\ AlignPower2(want) >= want
  BY <1>2, AlignPower2Type
<1> QED BY <1>1, <1>2, <1>3, SizeIsNat DEF want

LEMMA GrowStep == ASSUME IInv, NEW by \in AllocSizes, Grow(by) PROVE IInv'
<1> DEFINE n == AlignPower2(((len + by) * 100) \div FFMAP_RESIZE_THRESHOLD + 1)
<1>1. n \in Sizes /\ n \in Nat /\ len < n
  BY GrowHasRoom, MapAssumption DEF MapAssumption
<1>2. /\ ~rm.running /\ UNCHANGED <<hash, rm>>
      /\ \/ SetTable(n, Rehashed(n), len) /\ Reply(To(NULL, "done"))
         \/ \E r : Reply(To(NULL, r)) /\ UNCHANGED <<cap, data, len>>
  BY DEF Grow, NoMemory
<1> HIDE DEF n
<1>3. CASE SetTable(n, Rehashed(n), len) /\ Reply(To(NULL, "done"))
  <2>1. /\ Table(Rehashed(n), n) /\ Sound(Rehashed(n), n) /\ Distinct(Rehashed(n))
        /\ Cardinality(Occupied(Rehashed(n))) = len
    BY <1>1, <1>2, RehashedFacts, TableTypes DEF IInv
  <2> QED BY <1>1, <1>2, <1>3, <2>1, TableStep, Replies DEF SetTable, Reply
<1>4. CASE \E r : Reply(To(NULL, r)) /\ UNCHANGED <<cap, data, len>>
  BY <1>2, <1>4, AnswerStep, Replies DEF Reply
<1> QED BY <1>2, <1>3, <1>4

(* Below the threshold there is room for one more, and still a free slot.  *)
LEMMA ThresholdLeavesRoom ==
  ASSUME cap \in Nat, cap >= 2, len \in Nat, ~Crowded
  PROVE  len + 1 < cap
<1> DEFINE q == ((len + 1) * 100) \div cap
<1>1. q \in Int /\ q <= 75
  BY DEF Crowded, FFMAP_RESIZE_THRESHOLD
<1>2. (len + 1) * 100 < cap * (q + 1)
  OBVIOUS
<1> HIDE DEF q
<1>3. cap * (q + 1) <= cap * 76
  BY <1>1
<1> QED BY <1>2, <1>3, <1>1

(* The element is put in a table that is not full. *)
LEMMA PlaceStep ==
  ASSUME IInv, ~rm.running, UNCHANGED <<hash, rm>>, NEW n \in Sizes, NEW t,
         Table(t, n), Sound(t, n), Distinct(t), Cardinality(Occupied(t)) + 1 < n,
         NEW v \in Vals, v \notin Contents(t), NEW l, l = Cardinality(Occupied(t)) + 1,
         SetTable(n, Place(t, n, v), l), Reply(To(NULL, "added"))
  PROVE  IInv'
<1>1. n \in Nat /\ n >= 2
  BY SizeIsNat
<1>2. Cardinality(Occupied(t)) \in Nat
  BY <1>1, OccupiedType
<1>3. \E i \in Places(n) : t[i] = NULL
  BY <1>1, <1>2, SomeFree
<1>4. LET u == Place(t, n, v)
      IN  /\ Table(u, n) /\ Sound(u, n) /\ Distinct(u)
          /\ Cardinality(Occupied(u)) = Cardinality(Occupied(t)) + 1
  BY <1>1, <1>3, PlaceFacts DEF IInv
<1> QED BY <1>1, <1>4, TableStep, Replies DEF SetTable, Reply

LEMMA NotInTable ==
  ASSUME IInv, NEW v, \A i \in DOMAIN data : data[i] # v
  PROVE  v \notin Contents(data)
BY DEF Contents, Occupied

LEMMA AddStep == ASSUME IInv, NEW v \in Vals, Add(v) PROVE IInv'
<1>1. /\ ~rm.running /\ UNCHANGED <<hash, rm>> /\ v \notin Contents(data)
      /\ Sound(data, cap) /\ Distinct(data) /\ hash \in Hashes
      /\ Table(data, cap) /\ len = Cardinality(Occupied(data))
  BY NotInTable DEF Add, IInv
<1>2. cap \in Nat /\ len \in Nat /\ (cap # 0 => cap >= 2 /\ len < cap /\ cap \in Sizes)
  BY TableTypes DEF IInv
<1>3. CASE NoMemory
  BY <1>1, <1>3, AnswerStep, Replies DEF NoMemory, Reply
<1>4. CASE /\ SetTable(16, Place(EmptyTable(16), 16, v), 1) /\ Reply(To(NULL, "added"))
  <2> DEFINE t == EmptyTable(16)
  <2>1. /\ Table(t, 16) /\ Sound(t, 16) /\ Distinct(t) /\ v \notin Contents(t)
        /\ Cardinality(Occupied(t)) = 0
    BY EmptyFacts
  <2> HIDE DEF t
  <2>2. Cardinality(Occupied(t)) + 1 < 16 /\ 1 = Cardinality(Occupied(t)) + 1
    BY <2>1
  <2> QED BY <1>1, <1>4, <2>1, <2>2, Sixteen, PlaceStep DEF t
<1>5. CASE /\ cap # 0
           /\ SetTable(cap * 2, Place(Rehashed(cap * 2), cap * 2, v), len + 1)
           /\ Reply(To(NULL, "added"))
  <2> DEFINE n == cap * 2
             t == Rehashed(n)
  <2>1. n \in Sizes /\ n \in Nat /\ len + 1 < n
    BY <1>2, <1>5, Doubles
  <2> HIDE DEF n
  <2>2. /\ Table(t, n) /\ Sound(t, n) /\ Distinct(t) /\ v \notin Contents(t)
        /\ Cardinality(Occupied(t)) = len
    BY <1>1, <1>2, <2>1, RehashedFacts
  <2> HIDE DEF t
  <2> QED BY <1>1, <1>5, <2>1, <2>2, PlaceStep DEF t, n
<1>6. CASE cap # 0 /\ ~Crowded /\ SetTable(cap, Place(data, cap, v), len + 1)
           /\ Reply(To(NULL, "added"))
  <2>1. len + 1 < cap
    BY <1>2, <1>6, ThresholdLeavesRoom
  <2> QED BY <1>1, <1>2, <1>6, <2>1, PlaceStep
<1> QED BY <1>3, <1>4, <1>5, <1>6 DEF Add

----------------------------------------------------------------------------
(* Removal *)

(* A search finds an element of vs, all of the key searched for, if and    *)
(* only if one is in the table, and before the end of the probe.           *)
LEMMA SearchFinds ==
  ASSUME IInv, ~rm.running, NEW k \in Keys, NEW vs, \A v \in vs : KeyOf[v] = k
  PROVE  /\ Matches(k, vs) = {} => \A i \in Occupied(data) : data[i] \notin vs
         /\ Matches(k, vs) # {} =>
              LET m == FirstMatch(k, vs)
                  h == Home(k, cap)
              IN  /\ cap # 0 /\ m \in Occupied(data) /\ data[m] \in vs
                  /\ Gap(h, m, cap) < Gap(h, FirstFree(data, h, cap), cap)
<1>1. /\ cap \in Nat /\ hash \in Hashes /\ Table(data, cap) /\ Sound(data, cap)
      /\ len = Cardinality(Occupied(data)) /\ Occupied(data) \subseteq Places(cap)
      /\ IsFiniteSet(Occupied(data))
  BY TableTypes DEF IInv
<1>2. CASE len = 0
  <2>1. Occupied(data) = {}
    BY <1>1, <1>2, FS_EmptySet
  <2> QED BY <1>2, <2>1 DEF Matches
<1>3. CASE len # 0
  <2> DEFINE h == Home(k, cap)
             f == FirstFree(data, h, cap)
             d(i) == Gap(h, i, cap) + 1
             M == Matches(k, vs)
  <2>1. cap # 0 /\ cap >= 1 /\ len < cap
    <3>1. Occupied(data) # {}
      BY <1>1, <1>3, FS_EmptySet
    <3>2. cap # 0
      BY <1>1, <3>1 DEF Places
    <3> QED BY <1>1, <3>2 DEF IInv
  <2>2. h \in Places(cap)
    BY <1>1, <2>1, HomeType
  <2>3. \E i \in Places(cap) : data[i] = NULL
    BY <1>1, <2>1, SomeFree
  <2>4. /\ f \in Places(cap) /\ data[f] = NULL
        /\ \A s \in Places(cap) : Gap(h, s, cap) < Gap(h, f, cap) => data[s] # NULL
    BY <1>1, <2>1, <2>2, <2>3, FirstFreeIsFirst
  <2>5. Probe(k) = [e \in 1..Gap(h, f, cap) |-> After(h, e - 1, cap)]
    BY DEF Probe, Gap
  <2>6. M = {e \in 1..Gap(h, f, cap) : data[After(h, e - 1, cap)] \in vs}
    BY <1>3, <2>5 DEF Matches
  <2>7. ASSUME NEW i \in Occupied(data), data[i] \in vs PROVE d(i) \in M
    <3>1. i \in Places(cap) /\ KeyOf[data[i]] = k /\ Path(data, cap, h, i)
      BY <1>1, <2>7 DEF Sound
    <3>2. /\ Gap(h, i, cap) \in Nat /\ Gap(h, f, cap) \in Nat
          /\ After(h, Gap(h, i, cap), cap) = i
      <4>1. Gap(h, i, cap) \in Places(cap) /\ Gap(h, f, cap) \in Places(cap)
        BY <1>1, <2>1, <2>2, <2>4, <3>1, GapCases
      <4> QED BY <1>1, <2>1, <2>2, <3>1, <4>1, AfterGap, PlacesAreNat
    <3>3. Gap(h, i, cap) < Gap(h, f, cap)
      BY <2>4, <3>1, <3>2 DEF Path
    <3>4. d(i) \in 1..Gap(h, f, cap) /\ d(i) - 1 = Gap(h, i, cap)
      BY <3>2, <3>3
    <3> QED BY <2>6, <2>7, <3>2, <3>4
  <2>8. ASSUME NEW e \in M
        PROVE  /\ After(h, e - 1, cap) \in Occupied(data)
               /\ data[After(h, e - 1, cap)] \in vs
               /\ Gap(h, After(h, e - 1, cap), cap) < Gap(h, f, cap)
    <3>1. Gap(h, f, cap) \in Places(cap)
      BY <1>1, <2>1, <2>2, <2>4, GapCases
    <3>2. e - 1 \in Places(cap) /\ e - 1 \in 0..cap /\ e - 1 < Gap(h, f, cap)
      BY <2>6, <3>1, <1>1 DEF Places
    <3>3. /\ After(h, e - 1, cap) \in Places(cap)
          /\ Gap(h, After(h, e - 1, cap), cap) = e - 1
      BY <1>1, <2>1, <2>2, <3>2, AfterCases, GapAfter
    <3>4. data[After(h, e - 1, cap)] # NULL
      BY <2>4, <3>2, <3>3
    <3> QED BY <1>1, <2>6, <3>2, <3>3, <3>4 DEF Occupied, Table
  <2>9. ASSUME M # {} PROVE \E e \in M : FirstMatch(k, vs) = After(h, e - 1, cap)
    <3>1. M \in SUBSET Nat
      BY <2>6
    <3>2. \E e \in M : \A x \in M : e <= x
      BY <2>9, <3>1, Least
    <3> DEFINE e == CHOOSE e \in M : \A x \in M : e <= x
    <3>3. e \in M
      BY <3>2
    <3>4. FirstMatch(k, vs) = Probe(k)[e]
      BY DEF FirstMatch
    <3> HIDE DEF e, M
    <3>5. e \in 1..Gap(h, f, cap)
      BY <2>6, <3>3
    <3> QED BY <2>5, <3>3, <3>4, <3>5
  <2> HIDE DEF M
  <2> QED BY <2>1, <2>7, <2>8, <2>9 DEF M
<1> QED BY <1>2, <1>3, <1>1

(* The end of the chunk is the last slot of the circle cut behind it. *)
LEMMA EndIsLast ==
  ASSUME NEW n \in Nat, n >= 1, NEW e \in Places(n)
  PROVE  /\ (e + 1) % n \in Places(n)
         /\ Gap((e + 1) % n, e, n) = n - 1
<1>1. 1 \in 0..n
  OBVIOUS
<1>2. After(e, 1, n) = (IF e + 1 < n THEN e + 1 ELSE e + 1 - n) /\ After(e, 1, n) \in Places(n)
  BY <1>1, AfterCases
<1> DEFINE b == After(e, 1, n)
<1>3. Gap(b, e, n) = IF b <= e THEN e - b ELSE e - b + n
  BY <1>2, GapCases
<1> HIDE DEF b
<1>4. Gap(b, e, n) = n - 1
  BY <1>2, <1>3 DEF Places, b
<1> QED BY <1>2, <1>4 DEF After, b

(* One slot back. *)
LEMMA OneBack ==
  ASSUME NEW n \in Nat, n >= 1, NEW b \in Places(n), NEW i \in Places(n), Gap(b, i, n) >= 1
  PROVE  /\ (i - 1) % n \in Places(n)
         /\ Gap(b, (i - 1) % n, n) = Gap(b, i, n) - 1
<1>1. i \in Nat /\ i < n
  BY DEF Places
<1> DEFINE j == (i - 1) % n
<1>2. j = (IF i = 0 THEN n - 1 ELSE i - 1) /\ j \in Places(n)
  BY <1>1 DEF Places
<1> HIDE DEF j
<1>3. /\ Gap(b, i, n) = IF b <= i THEN i - b ELSE i - b + n
      /\ Gap(b, j, n) = IF b <= j THEN j - b ELSE j - b + n
  BY <1>2, GapCases
<1>4. Gap(b, j, n) = Gap(b, i, n) - 1
  BY <1>1, <1>2, <1>3 DEF Places
<1> QED BY <1>2, <1>4 DEF j

(* Counted from the slot b behind e, the slots have numbers, of which e    *)
(* has the last; a path that does not meet e goes up in these numbers.     *)
Numbered(n, e, b) ==
  /\ b \in Places(n) /\ Gap(b, e, n) = n - 1
  /\ \A s \in Places(n) : Gap(b, s, n) \in Nat /\ Gap(b, s, n) <= n - 1
  /\ \A s \in Places(n) \ {e} : Gap(b, s, n) < n - 1
  /\ \A s, u \in Places(n) : Gap(b, s, n) = Gap(b, u, n) => s = u
  /\ \A h, s \in Places(n) :
       Gap(h, s, n) = IF Gap(b, h, n) <= Gap(b, s, n)
                      THEN Gap(b, s, n) - Gap(b, h, n)
                      ELSE Gap(b, s, n) - Gap(b, h, n) + n
  /\ \A h, s \in Places(n) :
       Gap(h, s, n) < Gap(h, e, n) => Gap(b, h, n) <= Gap(b, s, n)

LEMMA FromEndFacts ==
  ASSUME NEW n \in Nat, n >= 1, NEW e \in Places(n), NEW b, b = (e + 1) % n
  PROVE  Numbered(n, e, b)
<1>1. b \in Places(n) /\ Gap(b, e, n) = n - 1
  BY EndIsLast
<1>2. ASSUME NEW s \in Places(n) PROVE Gap(b, s, n) \in Nat /\ Gap(b, s, n) <= n - 1
  <2>1. Gap(b, s, n) \in Places(n)
    BY <1>1, GapCases
  <2> QED BY <2>1 DEF Places
<1>3. \A s, u \in Places(n) : Gap(b, s, n) = Gap(b, u, n) => s = u
  BY <1>1, GapSame
<1>4. \A s \in Places(n) \ {e} : Gap(b, s, n) < n - 1
  BY <1>1, <1>2, <1>3
<1>5. \A h, s \in Places(n) :
        Gap(h, s, n) = IF Gap(b, h, n) <= Gap(b, s, n)
                       THEN Gap(b, s, n) - Gap(b, h, n)
                       ELSE Gap(b, s, n) - Gap(b, h, n) + n
  BY <1>1, GapShift
<1>6. \A h, s \in Places(n) :
        Gap(h, s, n) < Gap(h, e, n) => Gap(b, h, n) <= Gap(b, s, n)
  BY <1>1, <1>2, <1>5
<1> QED BY <1>1, <1>2, <1>3, <1>4, <1>5, <1>6 DEF Numbered

(* A removal starts with the slot it found, at the end of the chunk. *)
LEMMA RemoveStep ==
  ASSUME IInv, NEW k \in Keys, NEW vs \in SUBSET Vals, \A v \in vs : KeyOf[v] = k,
         NEW x \in Keys \cup Vals, \A v \in vs : x = v \/ (x \in Keys /\ KeyOf[v] = x),
         RemoveOneOf(x, k, vs)
  PROVE  IInv'
<1>1. ~rm.running /\ UNCHANGED <<hash, cap, data, len>>
  BY DEF RemoveOneOf
<1>2. CASE Reply(To(x, "not found")) /\ UNCHANGED rm
  BY <1>1, <1>2, AnswerStep, Replies DEF Reply
<1>3. CASE Matches(k, vs) # {} /\ UNCHANGED answer /\ ~(Reply(To(x, "not found")) /\ UNCHANGED rm)
  <2>a. PICK h, e, m, b : /\ h = Home(k, cap) /\ e = FirstFree(data, h, cap)
                          /\ m = FirstMatch(k, vs) /\ b = (e + 1) % cap
    OBVIOUS
  <2> DEFINE o(s) == Gap(b, s, cap)
  <2>1. rm' = [running |-> TRUE, i |-> e, end |-> e, irm |-> m, val |-> data[m], arg |-> x]
    BY <1>3, <2>a DEF RemoveOneOf
  <2>2. /\ cap # 0 /\ m \in Occupied(data) /\ data[m] \in vs
        /\ Gap(h, m, cap) < Gap(h, e, cap)
    BY <1>1, <1>3, <2>a, SearchFinds
  <2>3. /\ cap \in Nat /\ cap >= 1 /\ len < cap /\ hash \in Hashes /\ Table(data, cap)
        /\ len = Cardinality(Occupied(data)) /\ Occupied(data) \subseteq Places(cap)
        /\ Sound(data, cap) /\ Distinct(data)
    BY <1>1, <2>2, TableTypes DEF IInv
  <2>4. h \in Places(cap) /\ m \in Places(cap)
    BY <2>a, <2>2, <2>3, HomeType
  <2>5. /\ e \in Places(cap) /\ data[e] = NULL
        /\ \A s \in Places(cap) : Gap(h, s, cap) < Gap(h, e, cap) => data[s] # NULL
    BY <2>a, <2>3, <2>4, SomeFree, FirstFreeIsFirst
  <2>6. /\ o(e) = cap - 1
        /\ \A s \in Places(cap) : o(s) \in Nat /\ o(s) <= cap - 1
        /\ \A s \in Places(cap) \ {e} : o(s) < cap - 1
        /\ \A s \in Places(cap) :
             Gap(h, s, cap) = IF o(h) <= o(s) THEN o(s) - o(h) ELSE o(s) - o(h) + cap
        /\ o(h) <= o(m)
    <3>1. Numbered(cap, e, b)
      BY <2>a, <2>3, <2>5, FromEndFacts
    <3> QED BY <3>1, <2>2, <2>4 DEF Numbered
  <2> HIDE DEF o
  <2>7. m # e /\ o(m) < o(e)
    <3>1. data[m] # NULL
      BY <2>2 DEF Occupied
    <3> QED BY <2>4, <2>5, <2>6, <3>1
  <2>8. ASSUME NEW s \in Places(cap), o(m) <= o(s), s # e PROVE data[s] # NULL
    <3>1. o(s) < cap - 1 /\ o(h) \in Nat /\ o(m) \in Nat /\ o(s) \in Nat
      BY <2>4, <2>6, <2>8
    <3>2. Gap(h, s, cap) = o(s) - o(h) /\ Gap(h, e, cap) = cap - 1 - o(h)
      BY <2>3, <2>4, <2>5, <2>6, <2>8, <3>1
    <3> QED BY <2>3, <2>5, <3>1, <3>2
  <2>9. ASSUME NEW s \in Places(cap) PROVE FromEnd(s)' = o(s)
    BY <1>1, <2>a, <2>1 DEF FromEnd, o, Gap
  <2>10. Kept' = Occupied(data) \ {m}
    BY <1>1, <2>1 DEF Kept, Occupied
  <2>11. rm'.end = e /\ rm'.i = e /\ rm'.irm = m /\ rm'.val = data[m] /\ rm'.arg = x /\ rm'.running
    BY <2>1
  <2>12. /\ FromEnd(m)' < FromEnd(e)'
         /\ \A s \in Places(cap) : FromEnd(m)' <= FromEnd(s)' /\ s # e => data[s] # NULL
         /\ \A s \in Places(cap) : FromEnd(e)' <= FromEnd(s)' => s = e
    <3>1. \A s \in Places(cap) : o(e) <= o(s) => s = e
      BY <2>5, <2>6, <2>3
    <3> QED BY <2>4, <2>5, <2>7, <2>8, <2>9, <3>1
  <2>13. ASSUME NEW j \in Kept'
         PROVE  Path(data, cap, Home(KeyOf[data[j]], cap), j)'
    BY <1>1, <2>3, <2>10, <2>13 DEF Sound, Path, Home, Gap
  <2>14. /\ \A i, j \in Kept' : data[i] = data[j] => i = j
         /\ \A j \in Kept' : data[j] # data[m]
    BY <2>2, <2>3, <2>10 DEF Distinct
  <2>15. data[m] \in Vals /\ (x = data[m] \/ (x \in Keys /\ KeyOf[data[m]] = x))
    BY <2>2
  <2>16. Removing'
    BY <1>1, <2>2, <2>4, <2>5, <2>11, <2>12, <2>13, <2>14, <2>15 DEF Removing
  <2>17. rm' \in [running : BOOLEAN, i : Nat, end : Nat, irm : Nat,
                  val : Vals \cup {NULL}, arg : Keys \cup Vals \cup {NULL}]
    <3>1. e \in Nat /\ m \in Nat
      BY <2>3, <2>4, <2>5, PlacesAreNat
    <3> QED BY <2>1, <2>15, <3>1
  <2>18. Table(data, cap)' /\ len' = Cardinality(Occupied(data))'
    BY <1>1, <2>3 DEF Table, Occupied
  <2> QED BY <1>1, <1>3, <2>11, <2>16, <2>17, <2>18 DEF IInv
<1> QED BY <1>2, <1>3 DEF RemoveOneOf

LEMMA RemoveKeyStep == ASSUME IInv, NEW k \in Keys, RemoveKey(k) PROVE IInv'
<1>1. Having(k) \in SUBSET Vals /\ \A v \in Having(k) : KeyOf[v] = k
  BY DEF Having
<1> QED BY <1>1, RemoveStep DEF RemoveKey

LEMMA RemoveValStep == ASSUME IInv, NEW v \in Vals, RemoveVal(v) PROVE IInv'
<1>1. KeyOf[v] \in Keys /\ {v} \in SUBSET Vals
  BY MapAssumption DEF MapAssumption
<1> QED BY <1>1, RemoveStep DEF RemoveVal

LEMMA FindStep == ASSUME IInv, NEW k \in Keys, Find(k) PROVE IInv'
<1>1. answer'.arg = k /\ ~rm.running /\ UNCHANGED <<hash, cap, data, len, rm>>
  BY Replies DEF Find, Reply
<1> QED BY <1>1, AnswerStep

(* What the loop of _ffmap_normalize() keeps the same. *)
LEMMA LoopFacts ==
  ASSUME IInv, rm.running
  PROVE  /\ Removing /\ cap \in Nat /\ cap >= 1 /\ hash \in Hashes
         /\ rm.i \in Places(cap) /\ rm.end \in Places(cap) /\ rm.irm \in Places(cap)
         /\ Occupied(data) \subseteq Places(cap) /\ rm.irm \in Occupied(data)
         /\ \A j \in Occupied(data) : Home(KeyOf[data[j]], cap) \in Places(cap)
         /\ FromEnd(rm.end) = cap - 1
         /\ \A s \in Places(cap) : FromEnd(s) \in Nat /\ FromEnd(s) <= cap - 1
         /\ \A s \in Places(cap) \ {rm.end} : FromEnd(s) < cap - 1
         /\ \A s, u \in Places(cap) : FromEnd(s) = FromEnd(u) => s = u
         /\ \A h, s \in Places(cap) :
              Gap(h, s, cap) = IF FromEnd(h) <= FromEnd(s)
                               THEN FromEnd(s) - FromEnd(h)
                               ELSE FromEnd(s) - FromEnd(h) + cap
         /\ \A h, s \in Places(cap) :
              Gap(h, s, cap) < Gap(h, rm.end, cap) => FromEnd(h) <= FromEnd(s)
         /\ Previous \in Places(cap) /\ FromEnd(Previous) = FromEnd(rm.i) - 1
         /\ Previous # rm.end /\ data[Previous] # NULL /\ Previous \in Occupied(data)
<1>1. /\ Removing /\ cap \in Nat /\ cap >= 1 /\ hash \in Hashes
      /\ rm.i \in Places(cap) /\ rm.end \in Places(cap) /\ rm.irm \in Places(cap)
      /\ Occupied(data) \subseteq Places(cap)
      /\ \A j \in Occupied(data) : KeyOf[data[j]] \in Keys
  BY TableTypes DEF IInv, Removing
<1>2. /\ (rm.end + 1) % cap \in Places(cap) /\ FromEnd(rm.end) = cap - 1
      /\ \A s \in Places(cap) : FromEnd(s) \in Nat /\ FromEnd(s) <= cap - 1
      /\ \A s \in Places(cap) \ {rm.end} : FromEnd(s) < cap - 1
      /\ \A s, u \in Places(cap) : FromEnd(s) = FromEnd(u) => s = u
      /\ \A h, s \in Places(cap) :
           Gap(h, s, cap) = IF FromEnd(h) <= FromEnd(s)
                            THEN FromEnd(s) - FromEnd(h)
                            ELSE FromEnd(s) - FromEnd(h) + cap
      /\ \A h, s \in Places(cap) :
           Gap(h, s, cap) < Gap(h, rm.end, cap) => FromEnd(h) <= FromEnd(s)
  <2>1. PICK n, b, e : n = cap /\ b = (rm.end + 1) % cap /\ e = rm.end
    OBVIOUS
  <2>2. \A s : FromEnd(s) = Gap(b, s, n)
    BY <2>1 DEF FromEnd
  <2>3. n \in Nat /\ n >= 1 /\ e \in Places(n) /\ b = (e + 1) % n
    BY <1>1, <2>1
  <2>4. Numbered(n, e, b)
    BY <2>3, FromEndFacts
  <2> QED BY <2>1, <2>2, <2>4 DEF Numbered
<1>3. FromEnd(rm.irm) \in Nat /\ FromEnd(rm.i) \in Nat /\ FromEnd(rm.i) <= cap - 1
      /\ FromEnd(rm.irm) < FromEnd(rm.i)
  BY <1>1, <1>2 DEF Removing
<1>4. Previous \in Places(cap) /\ FromEnd(Previous) = FromEnd(rm.i) - 1
  <2>1. Gap((rm.end + 1) % cap, rm.i, cap) >= 1
    BY <1>3 DEF FromEnd
  <2>2. /\ (rm.i - 1) % cap \in Places(cap)
        /\ Gap((rm.end + 1) % cap, (rm.i - 1) % cap, cap)
             = Gap((rm.end + 1) % cap, rm.i, cap) - 1
    BY <1>1, <1>2, <2>1, OneBack
  <2> QED BY <2>2 DEF Previous, FromEnd
<1>5. Previous # rm.end /\ FromEnd(rm.irm) <= FromEnd(Previous)
  BY <1>1, <1>2, <1>3, <1>4
<1>6. data[Previous] # NULL /\ data[rm.irm] # NULL
  <2>1. rm.irm # rm.end
    BY <1>1, <1>2, <1>3
  <2>2. FromEnd(rm.irm) <= FromEnd(rm.irm)
    BY <1>3
  <2> QED BY <1>1, <1>4, <1>5, <2>1, <2>2 DEF Removing
<1>7. Previous \in Occupied(data) /\ rm.irm \in Occupied(data)
  BY <1>1, <1>4, <1>6 DEF Occupied, Table, IInv
<1>8. \A j \in Occupied(data) : Home(KeyOf[data[j]], cap) \in Places(cap)
  BY <1>1, HomeType
<1> QED BY <1>1, <1>2, <1>4, <1>5, <1>6, <1>7, <1>8

LEMMA MayMoveMeans ==
  \A s : MayMove(s) <=>
           FromEnd(Home(KeyOf[data[s]], cap)) <= FromEnd(rm.irm)
BY DEF MayMove, FromEnd, Gap

LEMMA SkipStep == ASSUME IInv, NormalizeSkip PROVE IInv'
<1>1. /\ rm.running /\ UNCHANGED <<hash, cap, data, len, answer>>
      /\ rm' = [rm EXCEPT !.i = Previous] /\ Previous # rm.irm /\ ~MayMove(Previous)
  BY DEF NormalizeSkip
<1>2. /\ rm'.running /\ rm'.i = Previous /\ rm'.end = rm.end /\ rm'.irm = rm.irm
      /\ rm'.val = rm.val /\ rm'.arg = rm.arg
      /\ rm' \in [running : BOOLEAN, i : Nat, end : Nat, irm : Nat,
                  val : Vals \cup {NULL}, arg : Keys \cup Vals \cup {NULL}]
  <2>1. Previous \in Nat
    BY <1>1, LoopFacts, PlacesAreNat
  <2> QED BY <1>1, <2>1 DEF IInv
<1>3. FromEnd(rm.irm) < FromEnd(Previous)
  <2>1. FromEnd(rm.irm) # FromEnd(Previous)
    BY <1>1, LoopFacts
  <2>2. FromEnd(rm.irm) < FromEnd(rm.i)
    BY <1>1, LoopFacts DEF Removing
  <2> QED BY <1>1, <2>1, <2>2, LoopFacts
<1>4. ASSUME NEW s \in Places(cap), FromEnd(Previous) <= FromEnd(s), s # rm.end
      PROVE  FromEnd(Home(KeyOf[data[s]], cap)) > FromEnd(rm.irm)
  <2>1. CASE s = Previous
    <3>1. /\ FromEnd(Home(KeyOf[data[Previous]], cap)) \in Nat
          /\ FromEnd(rm.irm) \in Nat
      BY <1>1, LoopFacts
    <3> QED BY <1>1, <2>1, <3>1, MayMoveMeans
  <2>2. CASE s # Previous
    <3>1. FromEnd(s) # FromEnd(Previous) /\ FromEnd(s) \in Nat
      BY <1>1, <2>2, LoopFacts
    <3>2. FromEnd(rm.i) <= FromEnd(s)
      BY <1>1, <1>4, <3>1, LoopFacts
    <3> QED BY <1>1, <1>4, <3>2, LoopFacts DEF Removing
  <2> QED BY <2>1, <2>2
<1>5. Kept' = Kept /\ Occupied(data)' = Occupied(data)
  BY <1>1, <1>2 DEF Kept, Occupied
<1>6. \A j \in Kept : Path(data, cap, Home(KeyOf[data[j]], cap), j)'
  BY <1>1, LoopFacts DEF Removing, Path, Home, Gap
<1>7. Removing'
  <2>1. Removing /\ Previous \in Places(cap)
    BY <1>1, LoopFacts
  <2>2. \A s \in Places(cap) : (FromEnd(rm.i) <= FromEnd(s) /\ s # rm.end =>
          FromEnd(Home(KeyOf[data[s]], cap)) > FromEnd(rm.irm))'
    <3>1. ASSUME NEW s \in Places(cap), NEW h, h = Home(KeyOf[data[s]], cap)
          PROVE  (FromEnd(rm.i) <= FromEnd(s) /\ s # rm.end =>
                    FromEnd(Home(KeyOf[data[s]], cap)) > FromEnd(rm.irm))'
      <4>1. /\ FromEnd(s)' = FromEnd(s) /\ FromEnd(rm.i)' = FromEnd(Previous)
            /\ FromEnd(rm.irm)' = FromEnd(rm.irm)
            /\ FromEnd(Home(KeyOf[data[s]], cap))' = FromEnd(Home(KeyOf[data[s]], cap))
        BY <1>1, <1>2 DEF FromEnd, Gap, Home
      <4> QED BY <1>2, <1>4, <3>1, <4>1
    <3> QED BY <3>1
  <2>3. FromEnd(rm.irm)' < FromEnd(rm.i)'
    BY <1>1, <1>2, <1>3 DEF FromEnd, Gap
  <2>4. \A s \in Places(cap) : (FromEnd(rm.irm) <= FromEnd(s) /\ s # rm.end => data[s] # NULL)'
    BY <1>1, <1>2, <2>1 DEF Removing, FromEnd, Gap
  <2> QED BY <1>1, <1>2, <1>5, <1>6, <2>1, <2>2, <2>3, <2>4 DEF Removing
<1>8. Table(data, cap)' /\ len' = Cardinality(Occupied(data))'
  BY <1>1, <1>5 DEF Table, IInv
<1> QED BY <1>1, <1>2, <1>7, <1>8 DEF IInv

LEMMA MoveStep == ASSUME IInv, NormalizeMove PROVE IInv'
<1> DEFINE P == Previous
<1>1. /\ rm.running /\ UNCHANGED <<hash, cap, len, answer>>
      /\ data' = [data EXCEPT ![rm.irm] = data[P]]
      /\ rm' = [rm EXCEPT !.irm = P, !.i = rm.end]
      /\ P # rm.irm /\ MayMove(P)
  BY DEF NormalizeMove
<1>0. P = Previous
  OBVIOUS
<1>2. PICK p, q, e : p = P /\ q = rm.irm /\ e = rm.end
  OBVIOUS
<1>3. /\ Removing /\ cap \in Nat /\ cap >= 1 /\ hash \in Hashes /\ Table(data, cap)
      /\ p \in Places(cap) /\ q \in Places(cap) /\ e \in Places(cap)
      /\ p \in Occupied(data) /\ q \in Occupied(data) /\ p # e /\ p # q
      /\ Occupied(data) \subseteq Places(cap)
  BY <1>1, <1>2, LoopFacts DEF IInv
<1> HIDE DEF P
<1>4. /\ rm'.running /\ rm'.i = e /\ rm'.end = e /\ rm'.irm = p
      /\ rm'.val = rm.val /\ rm'.arg = rm.arg
      /\ rm' \in [running : BOOLEAN, i : Nat, end : Nat, irm : Nat,
                  val : Vals \cup {NULL}, arg : Keys \cup Vals \cup {NULL}]
  <2>1. p \in Nat /\ e \in Nat
    BY <1>3, PlacesAreNat
  <2> QED BY <1>1, <1>2, <2>1 DEF IInv
<1>5. /\ data'[q] = data[p] /\ \A s \in Places(cap) \ {q} : data'[s] = data[s]
      /\ Table(data, cap)'
  BY <1>1, <1>2, <1>3 DEF Table
<1>6. /\ Occupied(data)' = Occupied(data) /\ \A s \in Places(cap) : data[s] # NULL => data'[s] # NULL
  BY <1>1, <1>3, <1>5 DEF Occupied, Table
<1>7. Kept' = Occupied(data) \ {p} /\ Kept = Occupied(data) \ {q}
  BY <1>2, <1>4, <1>6 DEF Kept
<1>8. \A s : FromEnd(s)' = FromEnd(s)
  BY <1>1, <1>2, <1>4 DEF FromEnd, Gap
<1>9. FromEnd(q) < FromEnd(p) /\ FromEnd(p) < FromEnd(e)
  <2>1. FromEnd(q) # FromEnd(p) /\ FromEnd(q) \in Nat /\ FromEnd(p) \in Nat /\ FromEnd(e) = cap - 1
        /\ FromEnd(p) < cap - 1
    BY <1>1, <1>2, <1>3, LoopFacts
  <2>2. FromEnd(q) < FromEnd(rm.i)
    BY <1>2, <1>3 DEF Removing
  <2>3. FromEnd(p) = FromEnd(rm.i) - 1 /\ FromEnd(rm.i) \in Nat
    BY <1>0, <1>1, <1>2, LoopFacts
  <2> QED BY <2>1, <2>2, <2>3
<1>10. /\ \A s \in Places(cap) : FromEnd(p) <= FromEnd(s) /\ s # e => data'[s] # NULL
       /\ \A s \in Places(cap) : FromEnd(e) <= FromEnd(s) => s = e
  <2>1. \A s \in Places(cap) : FromEnd(s) \in Nat /\ FromEnd(s) <= cap - 1
    BY <1>1, LoopFacts
  <2>2. \A s \in Places(cap) : FromEnd(p) <= FromEnd(s) /\ s # e => data[s] # NULL
    BY <1>2, <1>3, <1>9, <2>1 DEF Removing
  <2>3. \A s \in Places(cap) : FromEnd(e) <= FromEnd(s) => s = e
    <3>1. \A s \in Places(cap) \ {e} : FromEnd(s) < FromEnd(e)
      BY <1>1, <1>2, LoopFacts
    <3> QED BY <1>3, <2>1, <3>1
  <2> QED BY <1>6, <2>2, <2>3
(* The element that moved is reached at its new place. *)
<1>11. Path(data', cap, Home(KeyOf[data[p]], cap), q)
  <2>1. PICK h : h = Home(KeyOf[data[p]], cap)
    OBVIOUS
  <2>2. h \in Places(cap) /\ Path(data, cap, h, p)
    BY <1>1, <1>3, <1>7, <2>1, LoopFacts DEF Removing
  <2>3. FromEnd(h) <= FromEnd(q)
    BY <1>1, <1>2, <2>1, MayMoveMeans
  <2>4. Gap(h, q, cap) < Gap(h, p, cap)
    <3>1. FromEnd(h) \in Nat /\ FromEnd(q) \in Nat /\ FromEnd(p) \in Nat
      BY <1>1, <1>3, <2>2, LoopFacts
    <3>2. /\ Gap(h, q, cap) = FromEnd(q) - FromEnd(h)
          /\ Gap(h, p, cap) = FromEnd(p) - FromEnd(h)
      BY <1>1, <1>3, <1>9, <2>2, <2>3, <3>1, LoopFacts
    <3> QED BY <1>9, <3>1, <3>2
  <2>5. ASSUME NEW s \in Places(cap), Gap(h, s, cap) <= Gap(h, q, cap) PROVE data'[s] # NULL
    <3>1. Gap(h, s, cap) \in Nat /\ Gap(h, q, cap) \in Nat /\ Gap(h, p, cap) \in Nat
      <4>1. Gap(h, s, cap) \in Places(cap) /\ Gap(h, q, cap) \in Places(cap)
            /\ Gap(h, p, cap) \in Places(cap)
        BY <1>3, <2>2, GapCases
      <4> QED BY <1>3, <4>1, PlacesAreNat
    <3>2. Gap(h, s, cap) <= Gap(h, p, cap)
      BY <2>4, <2>5, <3>1
    <3> QED BY <1>6, <2>2, <3>2 DEF Path
  <2> QED BY <2>1, <2>5 DEF Path
<1>12. \A j \in Kept' : Path(data', cap, Home(KeyOf[data'[j]], cap), j)
  <2>1. ASSUME NEW j \in Kept', j # q PROVE Path(data', cap, Home(KeyOf[data'[j]], cap), j)
    <3>1. j \in Kept /\ data'[j] = data[j]
      BY <1>3, <1>5, <1>7, <2>1
    <3>2. Path(data, cap, Home(KeyOf[data[j]], cap), j)
      BY <1>3, <3>1 DEF Removing
    <3> QED BY <1>6, <3>1, <3>2 DEF Path
  <2> QED BY <1>5, <1>11, <2>1
<1>13. /\ \A i, j \in Kept' : data'[i] = data'[j] => i = j
       /\ \A j \in Kept' : data'[j] # rm.val
       /\ data'[p] \in {data'[j] : j \in Kept'}
  <2>1. p \in Kept /\ q \in Kept' /\ data'[p] = data[p]
    BY <1>3, <1>5, <1>7
  <2>2. \A j \in Kept' : j # q => j \in Kept /\ j # p /\ data'[j] = data[j]
    BY <1>3, <1>5, <1>7
  <2> QED BY <1>3, <1>5, <2>1, <2>2 DEF Removing
<1>14. Removing'
  <2>1. \A j \in Kept' : Path(data, cap, Home(KeyOf[data[j]], cap), j)'
    BY <1>1, <1>12 DEF Path, Home, Gap
  <2>2. /\ FromEnd(rm.irm)' = FromEnd(p) /\ FromEnd(rm.i)' = FromEnd(e)
        /\ \A s : FromEnd(s)' = FromEnd(s)
    BY <1>1, <1>2, <1>4 DEF FromEnd, Gap
  <2>3. data'[e] = NULL
    BY <1>2, <1>3, <1>5 DEF Removing, Occupied
  <2>4. rm.val \in Vals /\ (rm.arg = rm.val \/ (rm.arg \in Keys /\ KeyOf[rm.val] = rm.arg))
        /\ cap # 0
    BY <1>3 DEF Removing
  <2>5. \A s \in Places(cap) : (FromEnd(rm.i) <= FromEnd(s) /\ s # rm.end =>
          FromEnd(Home(KeyOf[data[s]], cap)) > FromEnd(rm.irm))'
    BY <1>4, <1>10, <2>2
  <2>6. \A s \in Places(cap) : (FromEnd(rm.irm) <= FromEnd(s) /\ s # rm.end => data[s] # NULL)'
    BY <1>4, <1>10, <2>2
  <2> QED BY <1>1, <1>3, <1>4, <1>9, <1>13, <2>1, <2>2, <2>3, <2>4, <2>5, <2>6 DEF Removing
<1> QED BY <1>1, <1>4, <1>5, <1>6, <1>14 DEF IInv

(* At the end nothing is at home in front of the hole that lies behind it. *)
LEMMA EndStep == ASSUME IInv, NormalizeEnd PROVE IInv'
<1>1. /\ rm.running /\ Previous = rm.irm /\ UNCHANGED <<hash, cap>>
      /\ data' = [data EXCEPT ![rm.irm] = NULL] /\ len' = len - 1
      /\ rm' = Idle /\ answer' = To(rm.arg, "removed")
  BY DEF NormalizeEnd, Reply
<1>2. PICK q, e : q = rm.irm /\ e = rm.end
  OBVIOUS
<1>3. /\ Removing /\ cap \in Nat /\ cap >= 1 /\ hash \in Hashes /\ Table(data, cap)
      /\ q \in Places(cap) /\ e \in Places(cap) /\ q \in Occupied(data)
      /\ Occupied(data) \subseteq Places(cap) /\ len = Cardinality(Occupied(data))
      /\ len < cap /\ IsFiniteSet(Occupied(data))
  BY <1>1, <1>2, LoopFacts, TableTypes DEF IInv, Removing
<1>4. /\ Table(data, cap)' /\ data'[q] = NULL
      /\ \A s \in Places(cap) \ {q} : data'[s] = data[s]
  BY <1>1, <1>2, <1>3 DEF Table
<1>5. Occupied(data)' = Kept /\ Kept = Occupied(data) \ {q}
  BY <1>1, <1>2, <1>3, <1>4 DEF Occupied, Kept, Table
<1>6. len' = Cardinality(Occupied(data))' /\ len' < cap'
  <2>1. Cardinality(Occupied(data) \ {q}) = len - 1 /\ len \in Nat
    BY <1>3, FS_RemoveElement, FS_CardinalityType
  <2>2. Cardinality(Occupied(data))' = Cardinality(Occupied(data) \ {q})
    BY <1>5
  <2>3. len - 1 < cap
    BY <1>3, <2>1
  <2> QED BY <1>1, <2>1, <2>2, <2>3
<1>7. ASSUME NEW j \in Kept
      PROVE  Path(data', cap, Home(KeyOf[data[j]], cap), j)
  <2>1. PICK h : h = Home(KeyOf[data[j]], cap)
    OBVIOUS
  <2>2. j \in Places(cap) /\ j # q /\ j # e /\ h \in Places(cap) /\ Path(data, cap, h, j)
    BY <1>1, <1>2, <1>3, <1>5, <2>1, LoopFacts DEF Removing, Occupied
  <2>3. SUFFICES ASSUME Gap(h, q, cap) <= Gap(h, j, cap) PROVE FALSE
    BY <1>3, <1>4, <2>1, <2>2 DEF Path
  <2>4. Gap(h, j, cap) < Gap(h, e, cap)
    <3>1. data[e] = NULL
      BY <1>2, <1>3 DEF Removing
    <3>2. ~(Gap(h, e, cap) <= Gap(h, j, cap))
      BY <1>3, <2>2, <3>1 DEF Path
    <3>3. Gap(h, e, cap) \in Nat /\ Gap(h, j, cap) \in Nat
      <4>1. Gap(h, e, cap) \in Places(cap) /\ Gap(h, j, cap) \in Places(cap)
        BY <1>3, <2>2, GapCases
      <4> QED BY <1>3, <4>1, PlacesAreNat
    <3> QED BY <3>2, <3>3
  <2>5. /\ FromEnd(h) \in Nat /\ FromEnd(q) \in Nat /\ FromEnd(j) \in Nat
        /\ FromEnd(j) <= cap - 1 /\ FromEnd(rm.i) \in Nat /\ FromEnd(q) # FromEnd(j)
        /\ FromEnd(q) = FromEnd(rm.i) - 1 /\ FromEnd(h) <= FromEnd(j)
    BY <1>1, <1>2, <1>3, <2>2, <2>4, LoopFacts
  <2>6. /\ Gap(h, q, cap) = IF FromEnd(h) <= FromEnd(q) THEN FromEnd(q) - FromEnd(h)
                            ELSE FromEnd(q) - FromEnd(h) + cap
        /\ Gap(h, j, cap) = FromEnd(j) - FromEnd(h)
    BY <1>1, <1>3, <2>2, <2>5, LoopFacts
  <2>7. FromEnd(h) <= FromEnd(q) /\ FromEnd(rm.i) <= FromEnd(j)
    BY <1>3, <2>3, <2>5, <2>6
  <2>8. FromEnd(h) > FromEnd(q)
    BY <1>2, <1>3, <2>1, <2>2, <2>7 DEF Removing
  <2> QED BY <2>5, <2>7, <2>8
<1>8. Sound(data, cap)' /\ Distinct(data)'
  <2>1. \A j \in Kept : data'[j] = data[j]
    BY <1>3, <1>4, <1>5
  <2>2. Sound(data, cap)'
    BY <1>1, <1>5, <1>7, <2>1 DEF Sound, Path, Home, Gap
  <2>3. Distinct(data)'
    BY <1>3, <1>5, <2>1 DEF Distinct, Removing
  <2> QED BY <2>2, <2>3
<1>9. /\ ~rm'.running
      /\ rm' \in [running : BOOLEAN, i : Nat, end : Nat, irm : Nat,
                  val : Vals \cup {NULL}, arg : Keys \cup Vals \cup {NULL}]
  BY <1>1 DEF Idle
<1>10. answer'.arg \in Keys \cup Vals \cup {NULL}
  BY <1>1, Replies DEF IInv
<1> QED BY <1>1, <1>3, <1>4, <1>6, <1>8, <1>9, <1>10 DEF IInv

LEMMA InvStep == IInv /\ [Next]_vars => IInv'
<1> SUFFICES ASSUME IInv, [Next]_vars PROVE IInv'
  OBVIOUS
<1>1. CASE UNCHANGED vars
  <2>1. rm' = rm /\ UNCHANGED <<hash, cap, data, len, answer>>
    BY <1>1 DEF vars
  <2>2. Kept' = Kept /\ Occupied(data)' = Occupied(data)
    BY <2>1 DEF Kept, Occupied
  <2>3. Removing => Removing'
    BY <2>1, <2>2 DEF Removing, FromEnd, Path, Home, Gap
  <2>4. /\ Sound(data, cap) => Sound(data, cap)'
        /\ Distinct(data) => Distinct(data)' /\ Table(data, cap)' <=> Table(data, cap)
    BY <2>1, <2>2 DEF Sound, Path, Home, Gap, Distinct, Table
  <2> QED BY <2>1, <2>2, <2>3, <2>4 DEF IInv
<1>2. CASE Normalize
  BY <1>2, SkipStep, MoveStep, EndStep DEF Normalize
<1> QED
  BY <1>1, <1>2, FreeStep, AllocStep, GrowStep, AddStep, RemoveValStep, RemoveKeyStep, FindStep
     DEF Next

LEMMA Invariance == Spec => []IInv
BY InvInit, InvStep, PTL DEF Spec

----------------------------------------------------------------------------
(* What follows from it *)

(* The table counts its elements: len is the number of occupied slots,     *)
(* and, between calls, every element is in one slot only.                  *)
THEOREM LengthCounts == Spec => []LenCounts
<1>1. IInv => LenCounts
  <2>1. SUFFICES ASSUME IInv PROVE LenCounts
    OBVIOUS
  <2>2. cap = 0 \/ cap = AlignPower2(cap)
    BY <2>1, AlignPower2Same DEF IInv
  <2>3. cap \in Nat /\ len \in Nat
    BY <2>1, TableTypes
  <2>4. len \in 0..cap
    <3>1. CASE cap = 0
      <4>1. Occupied(data) \subseteq {}
        BY <2>1, <3>1, TableTypes DEF Places
      <4>2. len = 0
        BY <2>1, <4>1, FS_EmptySet DEF IInv
      <4> QED BY <4>2, <2>3
    <3>2. CASE cap # 0
      BY <2>1, <2>3, <3>2 DEF IInv
    <3> QED BY <3>1, <3>2
  <2>5. TypeOK
    BY <2>1, <2>2, <2>4 DEF TypeOK, IInv, Table, Places
  <2> QED BY <2>1, <2>5 DEF LenCounts, IInv, Distinct
<1> QED BY <1>1, Invariance, PTL

(* There is always a free slot: every probe ends, and the search of a      *)
(* removal never gives up on a full circle.                                *)
THEOREM ProbesAlwaysEnd == Spec => []ProbesEnd
<1>1. IInv => ProbesEnd
  BY DEF IInv, ProbesEnd
<1> QED BY <1>1, Invariance, PTL

(* Between calls no search meets a free slot before the element, whatever  *)
(* was added, moved by a resize or shifted by a removal before.            *)
THEOREM NoHolesAppear == Spec => []NoHoles
<1>1. IInv => NoHoles
  <2>1. SUFFICES ASSUME IInv, ~rm.running, NEW i \in Occupied(data), NEW h,
                        h = Home(KeyOf[data[i]], cap), NEW d \in 0..((i - h) % cap)
                 PROVE  data[After(h, d, cap)] # NULL
    BY DEF NoHoles
  <2>2. cap \in Nat /\ i \in Places(cap) /\ KeyOf[data[i]] \in Keys /\ hash \in Hashes
    BY <2>1, TableTypes DEF IInv
  <2>3. cap >= 1
    BY <2>2 DEF Places
  <2>4. h \in Places(cap)
    BY <2>1, <2>2, <2>3, HomeType
  <2>5. d \in 0..Gap(h, i, cap) /\ Gap(h, i, cap) \in Places(cap)
    BY <2>1, <2>2, <2>3, <2>4, GapCases DEF Gap
  <2>6. d \in Places(cap) /\ d \in 0..cap
    BY <2>2, <2>5 DEF Places
  <2>7. After(h, d, cap) \in Places(cap) /\ Gap(h, After(h, d, cap), cap) = d
    BY <2>2, <2>3, <2>4, <2>6, AfterCases, GapAfter
  <2>8. Path(data, cap, h, i)
    BY <2>1 DEF IInv, Sound
  <2> QED BY <2>5, <2>7, <2>8 DEF Path
<1> QED BY <1>1, Invariance, PTL

----------------------------------------------------------------------------
(***************************************************************************)
(* Map implements KeyedBag: the initial state maps to the initial state,   *)
(* and each step of the table is one step of the collection or changes     *)
(* nothing of it.                                                          *)
(*                                                                         *)
(* The collection holds what is in the slots.  During a removal the value  *)
(* that goes is still a member until the loop has ended, although a move   *)
(* may have overwritten its slot.                                          *)
(***************************************************************************)

Members ==
  {data[i] : i \in Occupied(data)} \cup (IF rm.running THEN {rm.val} ELSE {})

(* No step of the collection is seen. *)
Unseen == Members' = Members /\ answer' = answer

LEMMA BagTo == \A x, r : Bag!To(x, r) = To(x, r)
BY DEF Bag!To, To

LEMMA BagVars == Unseen => UNCHANGED Bag!vars
BY DEF Unseen, Members, Bag!vars

LEMMA IdleMembers == ~rm.running => Members = Contents(data)
BY DEF Members, Contents

LEMMA IdleMembersNext == ~rm'.running => Members' = {data'[i] : i \in Occupied(data')}
BY DEF Members, Occupied

(* A call that changes nothing of the table but may answer. *)
LEMMA StillMembers ==
  ASSUME ~rm.running, UNCHANGED <<data, rm>>
  PROVE  Members' = Members
BY DEF Members, Occupied

LEMMA AddsAreAdds ==
  ASSUME NEW v \in Vals, Members' = Members \cup {v}, Reply(To(NULL, "added"))
  PROVE  Bag!Next
<1>1. Bag!Add(v)
  BY BagTo DEF Bag!Add, Members, Reply
<1> QED BY <1>1 DEF Bag!Next

LEMMA AnswersAreAnswers ==
  ASSUME Members' = Members, NEW a, Reply(a)
  PROVE  Bag!Answer(a)
BY DEF Bag!Answer, Members, Reply

----------------------------------------------------------------------------
(* Calls that find the table between calls and leave it so *)

LEMMA FreeRefines == ASSUME Free PROVE Bag!Next
<1>1. Members' = {} /\ answer' = To(NULL, "done")
  <2>1. ~rm'.running /\ data' = <<>>
    BY DEF Free, SetTable
  <2>2. Occupied(<<>>) = {}
    BY NoTableFacts
  <2> QED BY <2>1, <2>2, IdleMembersNext DEF Free, Reply
<1>2. Bag!Clear
  BY <1>1, BagTo DEF Bag!Clear, Members
<1> QED BY <1>2 DEF Bag!Next

LEMMA AllocRefines == ASSUME NEW n \in AllocSizes, Alloc(n) PROVE Bag!Next
<1> DEFINE p == AlignPower2(n)
<1>1. p \in Nat
  BY AlignPower2Type, SizeIsNat, MapAssumption DEF MapAssumption
<1>2. ~rm'.running /\ (data' = EmptyTable(p) \/ data' = <<>>)
      /\ answer' \in {To(NULL, "done"), To(NULL, "no memory")}
  BY DEF Alloc, SetTable, Reply
<1> HIDE DEF p
<1>3. Occupied(EmptyTable(p)) = {} /\ Occupied(<<>>) = {}
  BY <1>1, EmptyFacts, NoTableFacts
<1>4. Members' = {}
  BY <1>2, <1>3, IdleMembersNext
<1>5. Bag!Clear
  BY <1>2, <1>4, BagTo DEF Bag!Clear, Members
<1> QED BY <1>5 DEF Bag!Next

(* A resize places every element again and loses none. *)
LEMMA GrowRefines == ASSUME IInv, NEW by \in AllocSizes, Grow(by) PROVE Bag!Next
<1> DEFINE n == AlignPower2(((len + by) * 100) \div FFMAP_RESIZE_THRESHOLD + 1)
<1>1. n \in Sizes /\ n \in Nat /\ len < n
  BY GrowHasRoom, MapAssumption DEF MapAssumption
<1>2. /\ ~rm.running /\ UNCHANGED <<hash, rm>>
      /\ \/ SetTable(n, Rehashed(n), len) /\ Reply(To(NULL, "done"))
         \/ UNCHANGED data /\ Reply(To(NULL, "done"))
         \/ UNCHANGED data /\ Reply(To(NULL, "no memory"))
  BY DEF Grow, NoMemory
<1> HIDE DEF n
<1>3. Members' = Members
  <2>1. CASE SetTable(n, Rehashed(n), len)
    <3>1. Contents(Rehashed(n)) = Contents(data)
      BY <1>1, <1>2, RehashedFacts, TableTypes DEF IInv
    <3>2. Members' = Contents(Rehashed(n))
      BY <1>2, <2>1, IdleMembersNext DEF SetTable, Contents
    <3> QED BY <1>2, <3>1, <3>2, IdleMembers
  <2> QED BY <1>2, <2>1, StillMembers
<1>4. Bag!Answer(To(NULL, "done")) \/ Bag!Answer(To(NULL, "no memory"))
  BY <1>2, <1>3, AnswersAreAnswers
<1> QED BY <1>4, BagTo DEF Bag!Next, Bag!Reserve, Bag!NoMemory

LEMMA AddRefines == ASSUME IInv, NEW v \in Vals, Add(v) PROVE Bag!Next
<1>1. /\ ~rm.running /\ UNCHANGED <<hash, rm>> /\ v \notin Contents(data)
      /\ Sound(data, cap) /\ Distinct(data) /\ hash \in Hashes
      /\ Table(data, cap) /\ len = Cardinality(Occupied(data))
  BY NotInTable DEF Add, IInv
<1>2. cap \in Nat /\ len \in Nat /\ (cap # 0 => cap >= 2 /\ len < cap /\ cap \in Sizes)
  BY TableTypes DEF IInv
<1>3. CASE NoMemory
  <2>1. Bag!Answer(To(NULL, "no memory"))
    BY <1>1, <1>3, StillMembers, AnswersAreAnswers DEF NoMemory
  <2> QED BY <2>1, BagTo DEF Bag!Next, Bag!NoMemory
\* A table with room, of the same elements, takes the new one.
<1>4. ASSUME NEW n \in Nat, n >= 1, NEW t, Table(t, n), Sound(t, n), Distinct(t),
             Contents(t) = Contents(data), Cardinality(Occupied(t)) < n,
             NEW l, SetTable(n, Place(t, n, v), l), Reply(To(NULL, "added"))
      PROVE  Bag!Next
  <2>1. \E i \in Places(n) : t[i] = NULL
    BY <1>4, SomeFree
  <2>2. Contents(Place(t, n, v)) = Contents(data) \cup {v}
    BY <1>1, <1>4, <2>1, PlaceFacts
  <2>3. Members' = Members \cup {v}
    BY <1>1, <1>4, <2>2, IdleMembers, IdleMembersNext DEF SetTable, Contents
  <2> QED BY <1>4, <2>3, AddsAreAdds
<1>5. CASE /\ cap = 0
           /\ SetTable(16, Place(EmptyTable(16), 16, v), 1) /\ Reply(To(NULL, "added"))
  <2> DEFINE t == EmptyTable(16)
  <2>1. /\ Table(t, 16) /\ Sound(t, 16) /\ Distinct(t) /\ Contents(t) = {}
        /\ Cardinality(Occupied(t)) = 0
    BY EmptyFacts
  <2>2. Contents(data) = {}
    BY <1>5, <1>1, TableTypes DEF Contents, Places
  <2> HIDE DEF t
  <2> QED BY <1>4, <1>5, <2>1, <2>2 DEF t
<1>6. CASE /\ cap # 0
           /\ SetTable(cap * 2, Place(Rehashed(cap * 2), cap * 2, v), len + 1)
           /\ Reply(To(NULL, "added"))
  <2> DEFINE n == cap * 2
             t == Rehashed(n)
  <2>1. n \in Nat /\ n >= 1 /\ len < n
    BY <1>2, <1>6
  <2> HIDE DEF n
  <2>2. /\ Table(t, n) /\ Sound(t, n) /\ Distinct(t) /\ Contents(t) = Contents(data)
        /\ Cardinality(Occupied(t)) = len
    BY <1>1, <1>2, <2>1, RehashedFacts
  <2> HIDE DEF t
  <2> QED BY <1>4, <1>6, <2>1, <2>2 DEF t, n
<1>7. CASE cap # 0 /\ SetTable(cap, Place(data, cap, v), len + 1) /\ Reply(To(NULL, "added"))
  BY <1>1, <1>2, <1>4, <1>7
<1> QED BY <1>3, <1>5, <1>6, <1>7 DEF Add

(* A search finds an element with the key if and only if there is one. *)
LEMMA FindRefines == ASSUME IInv, NEW k \in Keys, Find(k) PROVE Bag!Next
<1>1. ~rm.running /\ Members' = Members
  BY StillMembers DEF Find
<1>2. Members = Contents(data) /\ \A v \in Having(k) : KeyOf[v] = k
  BY <1>1, IdleMembers DEF Having
<1>3. CASE Matches(k, Having(k)) = {} /\ Reply(To(k, NULL))
  <2>1. \A i \in Occupied(data) : data[i] \notin Having(k)
    BY <1>1, <1>2, <1>3, SearchFinds
  <2>2. Bag!Having(k) = {}
    BY <1>2, <2>1, TableTypes DEF Bag!Having, Members, Having, Contents
  <2>3. Bag!Find(k)
    BY <1>1, <1>3, <2>2, AnswersAreAnswers, BagTo DEF Bag!Find
  <2> QED BY <2>3 DEF Bag!Next
<1>4. CASE Matches(k, Having(k)) # {} /\ Reply(To(k, data[FirstMatch(k, Having(k))]))
  <2>1. PICK v : v = data[FirstMatch(k, Having(k))]
    OBVIOUS
  <2>2. v \in Contents(data) /\ v \in Having(k)
    BY <1>1, <1>2, <1>4, <2>1, SearchFinds DEF Contents
  <2>3. v \in Bag!Having(k)
    BY <1>2, <2>2 DEF Bag!Having, Members, Having
  <2>4. Bag!Answer(Bag!To(k, v))
    BY <1>1, <1>4, <2>1, AnswersAreAnswers, BagTo
  <2> QED BY <2>3, <2>4 DEF Bag!Find, Bag!Next
<1> QED BY <1>3, <1>4 DEF Find

----------------------------------------------------------------------------
(* Removals *)

(* A removal that finds nothing answers; one that finds an element has     *)
(* taken nothing out yet, and the collection does not change.              *)
LEMMA SearchMissesOrStarts ==
  ASSUME IInv, NEW k \in Keys, NEW vs \in SUBSET Vals, \A v \in vs : KeyOf[v] = k,
         NEW x, RemoveOneOf(x, k, vs)
  PROVE  \/ /\ Members = Contents(data) /\ \A v \in vs : v \notin Contents(data)
            /\ Members' = Members /\ Reply(To(x, "not found"))
         \/ Unseen
<1>1. ~rm.running /\ UNCHANGED data /\ Members = Contents(data)
  BY IdleMembers DEF RemoveOneOf
<1>2. CASE Matches(k, vs) = {} /\ Reply(To(x, "not found")) /\ UNCHANGED rm
  <2>1. \A i \in Occupied(data) : data[i] \notin vs
    BY <1>1, <1>2, SearchFinds
  <2>2. \A v \in vs : v \notin Contents(data)
    BY <2>1 DEF Contents
  <2> QED BY <1>1, <1>2, <2>2, StillMembers
<1>3. CASE Matches(k, vs) # {} /\ UNCHANGED answer
           /\ rm'.running /\ rm'.val = data[FirstMatch(k, vs)]
  <2>1. data[FirstMatch(k, vs)] \in Contents(data)
    BY <1>1, <1>3, SearchFinds DEF Contents
  <2>2. Members' = Contents(data) \cup {data[FirstMatch(k, vs)]}
    BY <1>1, <1>3 DEF Members, Contents, Occupied
  <2> QED BY <1>1, <1>3, <2>1, <2>2 DEF Unseen
<1>4. CASE Matches(k, vs) # {}
  <2>1. PICK e, m : m = FirstMatch(k, vs) /\ e = FirstFree(data, Home(k, cap), cap)
    OBVIOUS
  <2>2. UNCHANGED answer
        /\ rm' = [running |-> TRUE, i |-> e, end |-> e, irm |-> m, val |-> data[m], arg |-> x]
    BY <1>4, <2>1 DEF RemoveOneOf
  <2> QED BY <1>3, <1>4, <2>1, <2>2
<1> QED BY <1>2, <1>4 DEF RemoveOneOf

LEMMA RemoveValRefines ==
  ASSUME IInv, NEW v \in Vals, RemoveVal(v)
  PROVE  Bag!Next \/ Unseen
<1>1. KeyOf[v] \in Keys /\ {v} \in SUBSET Vals
  BY MapAssumption DEF MapAssumption
<1>2. CASE v \notin Members /\ Members' = Members /\ Reply(To(v, "not found"))
  <2>1. Bag!Answer(Bag!To(v, "not found"))
    BY <1>2, AnswersAreAnswers, BagTo
  <2>2. Bag!RemoveVal(v)
    BY <1>2, <2>1 DEF Bag!RemoveVal, Members
  <2> QED BY <2>2 DEF Bag!Next
<1> QED BY <1>1, <1>2, SearchMissesOrStarts DEF RemoveVal

LEMMA RemoveKeyRefines ==
  ASSUME IInv, NEW k \in Keys, RemoveKey(k)
  PROVE  Bag!Next \/ Unseen
<1>1. Having(k) \in SUBSET Vals /\ \A v \in Having(k) : KeyOf[v] = k
  BY DEF Having
<1>2. CASE /\ Members = Contents(data) /\ \A v \in Having(k) : v \notin Contents(data)
           /\ Members' = Members /\ Reply(To(k, "not found"))
  <2>1. Bag!Answer(Bag!To(k, "not found"))
    BY <1>2, AnswersAreAnswers, BagTo
  <2>2. Contents(data) \subseteq Vals
    BY TableTypes DEF Contents
  <2>3. Bag!Having(k) = {}
    BY <1>2, <2>2 DEF Bag!Having, Members, Having
  <2>4. Bag!RemoveKey(k)
    BY <2>1, <2>3 DEF Bag!RemoveKey
  <2> QED BY <2>4 DEF Bag!Next
<1> QED BY <1>1, <1>2, SearchMissesOrStarts DEF RemoveKey

(* What stays, and what goes. *)
Remaining == {data[j] : j \in Kept}

LEMMA RemovingMembers ==
  ASSUME IInv, rm.running
  PROVE  /\ Members = Remaining \cup {rm.val} /\ rm.val \notin Remaining
         /\ Remaining \subseteq Vals /\ rm.val \in Vals
<1>1. /\ data[rm.irm] \in Remaining \cup {rm.val} /\ rm.irm \in Occupied(data)
      /\ rm.val \notin Remaining /\ rm.val \in Vals
  BY LoopFacts DEF Removing, Remaining
<1>2. {data[i] : i \in Occupied(data)} = Remaining \cup {data[rm.irm]}
  BY <1>1 DEF Remaining, Kept
<1>3. Members = Remaining \cup {rm.val}
  BY <1>1, <1>2 DEF Members
<1> QED BY <1>1, <1>3, TableTypes DEF Remaining, Kept

(* A move copies an element over the hole and leaves its old slot the      *)
(* hole: what remains is the same.                                         *)
LEMMA MoveRefines == ASSUME IInv, NormalizeMove PROVE Unseen
<1>1. PICK p, q : p = Previous /\ q = rm.irm
  OBVIOUS
<1>2. /\ rm.running /\ p # q /\ p \in Occupied(data) /\ q \in Occupied(data)
      /\ Table(data, cap) /\ Occupied(data) \subseteq Places(cap)
      /\ data' = [data EXCEPT ![q] = data[p]] /\ UNCHANGED answer
      /\ rm' = [rm EXCEPT !.irm = p, !.i = rm.end]
  BY <1>1, LoopFacts DEF NormalizeMove, IInv
<1>3. /\ rm'.running /\ rm'.val = rm.val /\ rm'.irm = p
  BY <1>2 DEF IInv
<1>4. /\ data'[q] = data[p] /\ Occupied(data)' = Occupied(data)
      /\ \A s \in Occupied(data) \ {q} : data'[s] = data[s]
  BY <1>2 DEF Occupied, Table
<1>5. {data'[i] : i \in Occupied(data)} = {data[i] : i \in Kept}
  <2>1. \A i \in Occupied(data) : \E j \in Kept : data'[i] = data[j]
    BY <1>1, <1>2, <1>4 DEF Kept
  <2>2. \A j \in Kept : j \in Occupied(data) /\ data'[j] = data[j]
    BY <1>1, <1>2, <1>4 DEF Kept
  <2> QED BY <2>1, <2>2
<1>6. Members' = {data'[i] : i \in Occupied(data)} \cup {rm.val}
  BY <1>3, <1>4 DEF Members
<1> QED BY <1>2, <1>5, <1>6, RemovingMembers DEF Unseen, Remaining

(* The loop has ended: the value the search found is out, no other one. *)
LEMMA EndRefines == ASSUME IInv, NormalizeEnd PROVE Bag!Next
<1>1. PICK q, v, x : q = rm.irm /\ v = rm.val /\ x = rm.arg
  OBVIOUS
<1>2. /\ rm.running /\ ~rm'.running /\ data' = [data EXCEPT ![q] = NULL]
      /\ Table(data, cap) /\ q \in Occupied(data) /\ Reply(To(x, "removed"))
      /\ Occupied(data) \subseteq Places(cap)
  BY <1>1, LoopFacts DEF NormalizeEnd, Idle, IInv
<1>3. /\ Members = Remaining \cup {v} /\ v \notin Remaining
      /\ Remaining \subseteq Vals /\ v \in Vals
  BY <1>1, <1>2, RemovingMembers
<1>4. Occupied(data') = Kept /\ \A j \in Kept : data'[j] = data[j]
  BY <1>1, <1>2 DEF Occupied, Kept, Table
<1>5. Members' = Members \ {v}
  <2>1. Members' = Remaining
    BY <1>2, <1>4, IdleMembersNext DEF Remaining
  <2> QED BY <1>3, <2>1
<1>6. answer' = Bag!To(x, "removed")
  BY <1>2, BagTo DEF Reply
<1>7. CASE x = v
  <2>1. Bag!RemoveVal(v)
    BY <1>3, <1>5, <1>6, <1>7 DEF Bag!RemoveVal, Members
  <2> QED BY <1>3, <2>1 DEF Bag!Next
<1>8. CASE x \in Keys /\ KeyOf[v] = x
  <2>1. v \in Bag!Having(x)
    BY <1>3, <1>8 DEF Bag!Having, Members
  <2>2. Bag!RemoveKey(x)
    BY <1>5, <1>6, <2>1 DEF Bag!RemoveKey, Members
  <2> QED BY <1>8, <2>2 DEF Bag!Next
<1> QED BY <1>1, <1>2, <1>7, <1>8, LoopFacts DEF Removing

----------------------------------------------------------------------------
(* The refinement *)

LEMMA InitRefines == Init => Bag!Init
<1> SUFFICES ASSUME Init PROVE Bag!Init
  OBVIOUS
<1>1. Members = {}
  BY NoTableFacts, IdleMembers DEF Init, Idle
<1> QED BY <1>1, BagTo DEF Bag!Init, Members, Init

LEMMA NextRefines == IInv /\ [Next]_vars => [Bag!Next]_(Bag!vars)
<1> SUFFICES ASSUME IInv, [Next]_vars PROVE [Bag!Next]_(Bag!vars)
  OBVIOUS
<1>1. CASE UNCHANGED vars
  <2>1. Unseen
    BY <1>1 DEF vars, Unseen, Members, Occupied
  <2> QED BY <2>1, BagVars
<1>2. CASE NormalizeSkip
  <2>1. UNCHANGED data /\ answer' = answer /\ rm'.running = rm.running /\ rm'.val = rm.val
    BY <1>2 DEF NormalizeSkip, IInv
  <2>2. Unseen
    BY <2>1 DEF Unseen, Members, Occupied
  <2> QED BY <2>2, BagVars
<1>3. CASE NormalizeMove
  BY <1>3, MoveRefines, BagVars
<1>4. ASSUME NEW v \in Vals, RemoveVal(v) PROVE [Bag!Next]_(Bag!vars)
  BY <1>4, RemoveValRefines, BagVars
<1>5. ASSUME NEW k \in Keys, RemoveKey(k) PROVE [Bag!Next]_(Bag!vars)
  BY <1>5, RemoveKeyRefines, BagVars
<1> QED
  BY <1>1, <1>2, <1>3, <1>4, <1>5, FreeRefines, AllocRefines, GrowRefines, AddRefines,
     FindRefines, EndRefines
     DEF Next, Normalize

(* The hash table is the collection of KeyedBag: a search finds an element *)
(* with the key if and only if one was added and not removed since, a      *)
(* removal takes out one such element and no other, and a call that runs   *)
(* out of memory loses nothing, for any hash function, however the chains  *)
(* collide and wrap, and whatever moved in between.                        *)
THEOREM TableIsABag == Spec => ImplementsBag
<1> QED
  BY InvInit, InvStep, InitRefines, NextRefines, PTL
     DEF Spec, ImplementsBag, Bag!Spec
==============================================================================
