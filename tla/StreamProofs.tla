---------------------------- MODULE StreamProofs ----------------------------
(***************************************************************************)
(* Proofs about the stream buffer (Stream): what a call of                 *)
(* ffstream_gather() shows is what the caller has given and not consumed.  *)
(*                                                                         *)
(* A capacity is a power of two that divides the range of the counters at  *)
(* least twice, so the place of a counter in the buffer goes on across     *)
(* the wrap (CounterInRow).  Powers are reasoned about by induction over   *)
(* sets of numbers, and remainders through explicit quotients.             *)
(***************************************************************************)
EXTENDS Stream, FiniteSetTheorems, SequenceTheorems, TLAPS

(* A set of numbers has a least element, and so induction *)
LEMMA Least ==
  ASSUME NEW S \in SUBSET Nat, S # {}
  PROVE  \E n \in S : \A m \in S : n <= m
<1> DEFINE R == OpToRel(<, Nat)
<1>1. IsWellFoundedOn(R, Nat)
  BY NatLessThanWellFounded
<1>2. R = {ss \in Nat \X Nat : ss[1] < ss[2]}
  BY DEF OpToRel
<1> HIDE DEF R
<1>3. PICK n \in S : \A m \in S : ~(<<m, n>> \in R)
  BY <1>1, WFMin
<1>4. ASSUME NEW m \in S PROVE n <= m
  <2>1. m \in Nat /\ n \in Nat /\ <<m, n>> \in Nat \X Nat /\ <<m, n>> \notin R
    BY <1>3
  <2>2. ~(m < n)
    BY <1>2, <2>1
  <2> QED BY <2>1, <2>2
<1> QED BY <1>3, <1>4

LEMMA NatSetInduction ==
  ASSUME NEW S, 0 \in S, \A n \in Nat : n \in S => n + 1 \in S
  PROVE  \A n \in Nat : n \in S
<1> SUFFICES ASSUME Nat \ S # {} PROVE FALSE
  OBVIOUS
<1>1. PICK n \in Nat \ S : \A m \in Nat \ S : n <= m
  BY Least
<1>2. n # 0 /\ n - 1 \in Nat
  OBVIOUS
<1> QED BY <1>1, <1>2

(* Powers of two are the numbers of subsets. *)
LEMMA PowerIsNat == \A n \in Nat : 2^n \in Nat
<1> SUFFICES ASSUME NEW n \in Nat PROVE 2^n \in Nat
  OBVIOUS
<1>1. IsFiniteSet(1..n) /\ Cardinality(1..n) = n
  BY FS_Interval
<1>2. IsFiniteSet(SUBSET (1..n)) /\ Cardinality(SUBSET (1..n)) = 2^n
  BY <1>1, FS_SUBSET
<1> QED BY <1>2, FS_CardinalityType

LEMMA PowerDoubles == \A n \in Nat : 2^(n + 1) = 2 * 2^n
<1> SUFFICES ASSUME NEW n \in Nat PROVE 2^(n + 1) = 2 * 2^n
  OBVIOUS
<1> DEFINE A == SUBSET (1..n)
<1> DEFINE With(a) == a \cup {n + 1}
<1> DEFINE B == {With(a) : a \in A}
<1>1. /\ IsFiniteSet(1..n) /\ Cardinality(1..n) = n
      /\ IsFiniteSet(1..(n + 1)) /\ Cardinality(1..(n + 1)) = n + 1
  BY FS_Interval
<1>2. /\ IsFiniteSet(A) /\ Cardinality(A) = 2^n
      /\ Cardinality(SUBSET (1..(n + 1))) = 2^(n + 1)
  BY <1>1, FS_SUBSET
<1>3. IsFiniteSet(B) /\ Cardinality(B) = Cardinality(A)
  <2> DEFINE f == [a \in A |-> With(a)]
  <2>1. f \in Bijection(A, B)
    <3>1. \A a, b \in A : With(a) = With(b) => a = b
      BY DEF A, With
    <3>2. f \in [A -> B] /\ \A b \in B : \E a \in A : f[a] = b
      OBVIOUS
    <3>3. \A a, b \in A : f[a] = f[b] => a = b
      BY <3>1
    <3> HIDE DEF f, A, B
    <3> QED BY <3>2, <3>3 DEF Bijection, Injection, Surjection, IsInjective
  <2> QED BY <1>2, <2>1, FS_Bijection DEF ExistsBijection
<1>4. A \cup B = SUBSET (1..(n + 1))
  <2>1. ASSUME NEW s \in SUBSET (1..(n + 1)), s \notin A PROVE s \in B
    <3>1. n + 1 \in s
      BY <2>1
    <3>2. s \ {n + 1} \in A /\ s = With(s \ {n + 1})
      BY <3>1
    <3> QED BY <3>2
  <2>2. 1..n \subseteq 1..(n + 1) /\ n + 1 \in 1..(n + 1)
    OBVIOUS
  <2>3. A \subseteq SUBSET (1..(n + 1)) /\ B \subseteq SUBSET (1..(n + 1))
    BY <2>2
  <2> QED BY <2>1, <2>3
<1>5. A \cap B = {}
  <2> SUFFICES ASSUME NEW a \in A, With(a) \in A PROVE FALSE
    OBVIOUS
  <2>1. n + 1 \in 1..n
    OBVIOUS
  <2> QED BY <2>1
<1> HIDE DEF A, B
<1>6. Cardinality(A \cup B) = Cardinality(A) + Cardinality(B)
  <2>1. Cardinality(A \cap B) = 0
    BY <1>5, FS_EmptySet
  <2>2. Cardinality(A) \in Nat /\ Cardinality(B) \in Nat
    BY <1>2, <1>3, FS_CardinalityType
  <2>3. Cardinality(A \cup B) = Cardinality(A) + Cardinality(B) - Cardinality(A \cap B)
    BY <1>2, <1>3, FS_Union
  <2> QED BY <2>1, <2>2, <2>3
<1>7. 2^n \in Nat /\ 2^(n + 1) \in Nat
  BY PowerIsNat
<1>8. Cardinality(A \cup B) = 2^(n + 1) /\ Cardinality(B) = 2^n
  BY <1>2, <1>3, <1>4
<1> QED BY <1>2, <1>6, <1>7, <1>8

LEMMA PowerFacts ==
  /\ 2^0 = 1
  /\ \A n \in Nat : 2^n \in Nat /\ 2^n > n /\ 2^n >= 1
<1> DEFINE S == {n \in Nat : 2^n > n}
<1>1. 2^0 = 1
  OBVIOUS
<1>2. 0 \in S
  BY <1>1
<1>3. ASSUME NEW n \in Nat, n \in S PROVE n + 1 \in S
  <2>1. 2^n \in Nat /\ 2^(n + 1) \in Nat /\ 2^(n + 1) = 2 * 2^n /\ 2^n > n
    BY <1>3, PowerIsNat, PowerDoubles
  <2>2. 2^(n + 1) > n + 1
    BY <2>1
  <2> QED BY <2>2
<1> HIDE DEF S
<1>4. \A n \in Nat : n \in S
  BY <1>2, <1>3, NatSetInduction
<1>5. \A n \in Nat : 2^n > n
  BY <1>4 DEF S
<1>6. ASSUME NEW n \in Nat PROVE 2^n \in Nat /\ 2^n > n /\ 2^n >= 1
  <2>1. 2^n \in Nat /\ 2^n > n
    BY <1>5, PowerIsNat
  <2> QED BY <2>1
<1> QED BY <1>1, <1>6

LEMMA PowerDivides ==
  ASSUME NEW a \in Nat, NEW b \in Nat, a <= b
  PROVE  \E q \in Nat \ {0} : 2^b = q * 2^a
<1> DEFINE S == {d \in Nat : \E q \in Nat \ {0} : 2^(a + d) = q * 2^a}
<1>1. 0 \in S
  <2>1. 2^(a + 0) = 1 * 2^a
    <3>1. a + 0 = a /\ 2^a \in Nat
      BY PowerFacts
    <3> QED BY <3>1
  <2> QED BY <2>1
<1>2. ASSUME NEW d \in Nat, d \in S PROVE d + 1 \in S
  <2>1. PICK q \in Nat \ {0} : 2^(a + d) = q * 2^a
    BY <1>2
  <2>2. 2^((a + d) + 1) = 2 * 2^(a + d)
    BY PowerDoubles
  <2>3. (a + d) + 1 = a + (d + 1) /\ 2^a \in Nat
    BY PowerFacts
  <2>4. 2 * (q * 2^a) = (2 * q) * 2^a
    BY <2>3
  <2>5. 2^(a + (d + 1)) = (2 * q) * 2^a /\ 2 * q \in Nat \ {0}
    BY <2>1, <2>2, <2>3, <2>4
  <2>6. \E p \in Nat \ {0} : 2^(a + (d + 1)) = p * 2^a
    BY <2>5
  <2>7. d + 1 \in Nat
    OBVIOUS
  <2> QED BY <2>6, <2>7
<1>3. b - a \in Nat /\ a + (b - a) = b
  OBVIOUS
<1> HIDE DEF S
<1>4. b - a \in S
  BY <1>1, <1>2, <1>3, NatSetInduction
<1> QED BY <1>3, <1>4 DEF S

(* Remainders *)

LEMMA DivMod ==
  ASSUME NEW x \in Nat, NEW c \in Nat \ {0}
  PROVE  /\ x \div c \in Nat /\ (x % c) \in 0..(c - 1)
         /\ x = (x \div c) * c + (x % c)
OBVIOUS

LEMMA TimesGrows ==
  ASSUME NEW a \in Int, NEW b \in Int, NEW c \in Nat, a < b
  PROVE  a * c + c <= b * c
<1>1. PICK d \in Nat : b = a + 1 + d
  <2>1. b - a - 1 \in Nat /\ b = a + 1 + (b - a - 1)
    OBVIOUS
  <2> QED BY <2>1
<1>2. (a + 1 + d) * c = a * c + c + d * c
  OBVIOUS
<1>3. d * c \in Nat
  OBVIOUS
<1>4. a * c \in Int /\ b * c \in Int
  OBVIOUS
<1> QED BY <1>1, <1>2, <1>3, <1>4

LEMMA OneRemainder ==
  ASSUME NEW c \in Nat \ {0}, NEW q \in Nat, NEW m \in 0..(c - 1)
  PROVE  (q * c + m) % c = m
<1> DEFINE x == q * c + m
<1>1. q * c \in Nat /\ x \in Nat
  OBVIOUS
<1>2. PICK d \in Nat, r \in 0..(c - 1) : r = x % c /\ x = d * c + r
  BY <1>1, DivMod
<1>3. d * c \in Nat
  OBVIOUS
<1>4. d = q
  <2>1. ~(d < q)
    <3>1. d < q => d * c + c <= q * c
      BY TimesGrows
    <3> QED BY <1>1, <1>2, <1>3, <3>1
  <2>2. ~(q < d)
    <3>1. q < d => q * c + c <= d * c
      BY TimesGrows
    <3> QED BY <1>1, <1>2, <1>3, <3>1
  <2> QED BY <2>1, <2>2
<1> QED BY <1>1, <1>2, <1>4

LEMMA RemainderOfRemainder ==
  ASSUME NEW c \in Nat \ {0}, NEW q \in Nat \ {0}, NEW x \in Nat
  PROVE  (x % (q * c)) % c = x % c
<1>1. q * c \in Nat \ {0}
  <2>1. 0 * c + c <= q * c
    BY TimesGrows
  <2> QED BY <2>1
<1>2. PICK d \in Nat, m \in 0..(q * c - 1) : m = x % (q * c) /\ x = d * (q * c) + m
  BY <1>1, DivMod
<1>3. PICK e \in Nat, r \in 0..(c - 1) : r = m % c /\ m = e * c + r
  <2>1. m \in Nat
    BY <1>1
  <2> QED BY <2>1, DivMod
<1>4. d * (q * c) + e * c = (d * q + e) * c /\ d * q + e \in Nat
  OBVIOUS
<1>5. x = (d * q + e) * c + r
  <2>1. d * (q * c) \in Nat /\ e * c \in Nat
    BY <1>1
  <2> QED BY <1>2, <1>3, <1>4, <2>1
<1>6. x % c = r
  BY <1>4, <1>5, OneRemainder
<1> QED BY <1>2, <1>3, <1>6

(* Moving on from x by n, within a row of c. *)
LEMMA StepInRow ==
  ASSUME NEW c \in Nat \ {0}, NEW x \in Nat, NEW n \in Nat, (x % c) + n <= c
  PROVE  (x + n) % c = IF (x % c) + n = c THEN 0 ELSE (x % c) + n
<1>1. PICK d \in Nat, r \in 0..(c - 1) : r = x % c /\ x = d * c + r
  BY DivMod
<1>2. CASE r + n = c
  <2>1. x + n = (d + 1) * c + 0
    <3>1. (d + 1) * c = d * c + c /\ d * c \in Nat
      OBVIOUS
    <3> QED BY <1>1, <1>2, <3>1
  <2>2. ((d + 1) * c + 0) % c = 0
    BY OneRemainder
  <2> QED BY <1>1, <1>2, <2>1, <2>2
<1>3. CASE r + n # c
  <2>1. r + n \in 0..(c - 1)
    BY <1>1, <1>3
  <2>2. x + n = d * c + (r + n)
    <3>1. d * c \in Nat
      OBVIOUS
    <3> QED BY <1>1, <3>1
  <2>3. (d * c + (r + n)) % c = r + n
    BY <2>1, OneRemainder
  <2> QED BY <1>1, <1>3, <2>2, <2>3
<1> QED BY <1>2, <1>3

LEMMA RowStarts ==
  ASSUME NEW c \in Nat \ {0}, NEW x \in Nat
  PROVE  (x - (x % c)) % c = 0
<1>1. PICK d \in Nat, m \in 0..(c - 1) : m = x % c /\ x = d * c + m
  BY DivMod
<1>2. d * c \in Nat
  OBVIOUS
<1>3. x - (x % c) = d * c + 0
  BY <1>1, <1>2
<1>4. (d * c + 0) % c = 0
  BY OneRemainder
<1> QED BY <1>3, <1>4

LEMMA SmallerPower ==
  ASSUME NEW a \in Nat, NEW b \in Nat, 2^a < 2^b
  PROVE  a < b
<1> SUFFICES ASSUME b <= a PROVE FALSE
  OBVIOUS
<1>1. PICK q \in Nat \ {0} : 2^a = q * 2^b
  BY PowerDivides
<1>2. 2^b \in Nat /\ 2^a \in Nat
  BY PowerFacts
<1>3. 0 * 2^b + 2^b <= q * 2^b
  BY <1>2, TimesGrows
<1> QED BY <1>1, <1>2, <1>3

(* The capacity is a power of two at most half of the counters' range. *)
LEMMA AlignFacts ==
  ASSUME NEW c \in StreamCaps
  PROVE  /\ AlignPower2(c) \in Nat \ {0} /\ c <= AlignPower2(c)
         /\ \E q \in Nat : q >= 2 /\ UIntMax + 1 = q * AlignPower2(c)
<1>1. PICK k \in 2..32 : UIntMax = 2^k - 1 /\ c <= 2^(k - 1)
  BY StreamAssumption DEF StreamAssumption
<1>2. c \in Nat \ {0} /\ k \in Nat /\ k - 1 \in Nat /\ (k - 1) + 1 = k
  BY StreamAssumption DEF StreamAssumption
<1>3. 2^k \in Nat /\ 2^(k - 1) \in Nat /\ 2^k = 2 * 2^(k - 1)
  BY <1>2, PowerFacts, PowerDoubles
<1>4. UIntMax + 1 = 2 * 2^(k - 1)
  BY <1>1, <1>3
<1>5. ASSUME NEW i \in Nat, i <= k - 1, 2^i = AlignPower2(c)
      PROVE  \E q \in Nat : q >= 2 /\ UIntMax + 1 = q * AlignPower2(c)
  <2>1. PICK p \in Nat \ {0} : 2^(k - 1) = p * 2^i
    BY <1>2, <1>5, PowerDivides
  <2>2. 2^i \in Nat
    BY PowerFacts
  <2>3. 2 * (p * 2^i) = (2 * p) * 2^i
    BY <2>2
  <2>4. 2 * p \in Nat /\ 2 * p >= 2
    OBVIOUS
  <2>5. UIntMax + 1 = (2 * p) * AlignPower2(c)
    BY <1>4, <1>5, <2>1, <2>3
  <2> QED BY <2>4, <2>5
<1>6. CASE c <= 2
  <2>1. AlignPower2(c) = 2
    BY <1>2, <1>6 DEF AlignPower2
  <2>2. 2^1 = 2 /\ 1 \in Nat /\ 1 <= k - 1
    OBVIOUS
  <2>3. \E q \in Nat : q >= 2 /\ UIntMax + 1 = q * AlignPower2(c)
    BY <1>5, <2>1, <2>2
  <2> QED BY <1>2, <1>6, <2>1, <2>3
<1>7. CASE c > 2
  <2> DEFINE T == {2^j : j \in 0..c}
             Q(x) == x >= c /\ x \div 2 < c
  <2>1. AlignPower2(c) = CHOOSE x \in T : Q(x)
    <3>1. ~(c <= 2)
      BY <1>2, <1>7
    <3> QED BY <3>1 DEF AlignPower2
  <2>2. \A j \in Nat : j >= 1 => 2^j \div 2 = 2^(j - 1)
    <3> SUFFICES ASSUME NEW j \in Nat, j >= 1 PROVE 2^j \div 2 = 2^(j - 1)
      OBVIOUS
    <3>1. j - 1 \in Nat /\ (j - 1) + 1 = j
      OBVIOUS
    <3>2. 2^j = 2 * 2^(j - 1) /\ 2^(j - 1) \in Nat
      BY <3>1, PowerDoubles, PowerFacts
    <3> QED BY <3>2
  <2>3. PICK j \in Nat : 2^j >= c /\ \A m \in Nat : 2^m >= c => j <= m
    <3> DEFINE S == {m \in Nat : 2^m >= c}
    <3>1. c \in S
      <4>1. 2^c \in Nat /\ 2^c > c
        BY <1>2, PowerFacts
      <4> QED BY <1>2, <4>1
    <3>2. S \in SUBSET Nat /\ S # {}
      BY <3>1
    <3> HIDE DEF S
    <3>3. PICK j \in S : \A m \in S : j <= m
      BY <3>2, Least
    <3> QED BY <3>3 DEF S
  <2>4. j >= 1
    <3>1. j = 0 => 2^j = 1
      BY PowerFacts
    <3>2. j # 0
      BY <1>2, <1>7, <2>3, <3>1
    <3> QED BY <3>2
  <2>5. j <= c
    <3>1. 2^c \in Nat /\ 2^c > c
      BY <1>2, PowerFacts
    <3>2. 2^c >= c
      BY <1>2, <3>1
    <3> QED BY <1>2, <2>3, <3>2
  <2>6. ~(2^(j - 1) >= c) /\ 2^(j - 1) \in Nat
    BY <2>3, <2>4, PowerFacts
  <2>7. 2^j \in T /\ Q(2^j)
    <3>1. j \in 0..c
      BY <1>2, <2>5
    <3>2. 2^j \div 2 < c
      BY <1>2, <2>2, <2>4, <2>6
    <3> QED BY <2>3, <3>1, <3>2
  <2> HIDE DEF T, Q
  <2>8. AlignPower2(c) \in T /\ Q(AlignPower2(c))
    BY <2>1, <2>7
  <2>9. PICK i \in 0..c : AlignPower2(c) = 2^i
    BY <2>8 DEF T
  <2>10. AlignPower2(c) >= c /\ AlignPower2(c) \div 2 < c
    BY <2>8 DEF Q
  <2>11. i \in Nat /\ i >= 1 /\ 2^i \in Nat
    <3>1. i \in Nat /\ 2^i \in Nat /\ 2^0 = 1
      BY <1>2, <2>9, PowerFacts
    <3>2. i = 0 => 2^i = 1
      BY <3>1
    <3>3. i # 0
      BY <1>2, <1>7, <2>9, <2>10, <3>1, <3>2
    <3> QED BY <3>1, <3>3
  <2>12. 2^(i - 1) < 2^(k - 1)
    <3>1. 2^(i - 1) \in Nat /\ 2^(i - 1) < c
      BY <2>2, <2>9, <2>10, <2>11, PowerFacts
    <3> QED BY <1>1, <1>2, <1>3, <3>1
  <2>13. i - 1 < k - 1
    <3>1. i - 1 \in Nat
      BY <2>11
    <3> QED BY <1>2, <2>12, <3>1, SmallerPower
  <2>14. i <= k - 1
    BY <1>2, <2>11, <2>13
  <2>15. \E q \in Nat : q >= 2 /\ UIntMax + 1 = q * AlignPower2(c)
    BY <1>5, <2>9, <2>11, <2>14
  <2>16. AlignPower2(c) \in Nat \ {0} /\ c <= AlignPower2(c)
    BY <1>2, <1>7, <2>9, <2>10, <2>11
  <2> QED BY <2>15, <2>16
<1> QED BY <1>2, <1>6, <1>7

----------------------------------------------------------------------------
(* The invariant: the buffer and the counters are those of the n bytes     *)
(* after "from", which are copied (Holds) or looked at (Looks).            *)

(* The counters go over a row of c bytes at least twice before they wrap.  *)
RowOK(c) == c = 0 \/ \E q \in Nat : q >= 2 /\ UIntMax + 1 = q * c

IsStream(s) ==
  /\ s \in [buf : Seq(Nat), ptr : Nat, r : 0..UIntMax, w : 0..UIntMax, cap : Nat]
  /\ Len(s.buf) = s.cap /\ RowOK(s.cap)

StartOf(s) == IF s.cap = 0 THEN 0 ELSE s.r % s.cap

Holds(s, from, n) ==
  /\ s.ptr = 0 /\ StartOf(s) + n <= s.cap /\ s.w = Wrap(s.r + n)
  /\ \A i \in 1..n : s.buf[StartOf(s) + i] = from + i

Looks(s, from, n) == s.ptr # 0 /\ s.ptr + s.r = from + 1 /\ s.w = s.r + n

Pending == next.given - next.consumed

StreamInv ==
  /\ IsStream(stream)
  /\ next \in [given : Nat, consumed : Nat] /\ Pending \in Nat
  /\ Holds(stream, next.consumed, Pending) \/ Looks(stream, next.consumed, Pending)
  /\ view # NoView => view.enough /\ view.at = Bytes(next.consumed + 1, Pending)

LEMMA RangeIsNat == UIntMax \in Nat /\ UIntMax >= 3 /\ StreamPiece \in 0..UIntMax
<1>1. PICK k \in 2..32 : UIntMax = 2^k - 1
  BY StreamAssumption DEF StreamAssumption
<1>2. k - 1 \in Nat /\ (k - 1) + 1 = k /\ 2^(k - 1) \in Nat /\ 2^(k - 1) > k - 1
  BY PowerFacts
<1>3. 2^k = 2 * 2^(k - 1)
  BY <1>2, PowerDoubles
<1> QED BY <1>1, <1>2, <1>3, StreamAssumption DEF StreamAssumption

(* A row is shorter than the range of the counters. *)
LEMMA RowIsShort ==
  ASSUME NEW c \in Nat, RowOK(c)
  PROVE  c <= UIntMax
<1>1. CASE c = 0
  BY <1>1, RangeIsNat
<1>2. CASE c # 0
  <2>1. PICK q \in Nat : q >= 2 /\ UIntMax + 1 = q * c
    BY <1>2 DEF RowOK
  <2>2. 1 * c + c <= q * c
    BY <2>1, TimesGrows
  <2> QED BY <1>2, <2>1, <2>2, RangeIsNat
<1> QED BY <1>1, <1>2

LEMMA WrapFacts ==
  ASSUME NEW a \in 0..UIntMax, NEW n \in 0..UIntMax
  PROVE  /\ Wrap(a + n) = IF a + n <= UIntMax THEN a + n ELSE a + n - (UIntMax + 1)
         /\ Wrap(a + n) \in 0..UIntMax
         /\ Wrap(Wrap(a + n) + UIntMax + 1 - a) = n
         /\ n <= a => Wrap(a + UIntMax + 1 - n) = a - n
<1>1. UIntMax \in Nat
  BY RangeIsNat
<1>2. Wrap(a + n) = IF a + n <= UIntMax THEN a + n ELSE a + n - (UIntMax + 1)
  BY <1>1 DEF Wrap
<1>3. Wrap(Wrap(a + n) + UIntMax + 1 - a) = n
  <2>1. CASE a + n <= UIntMax
    BY <1>1, <1>2, <2>1 DEF Wrap
  <2>2. CASE a + n > UIntMax
    BY <1>1, <1>2, <2>2 DEF Wrap
  <2> QED BY <1>1, <2>1, <2>2
<1>4. n <= a => Wrap(a + UIntMax + 1 - n) = a - n
  BY <1>1 DEF Wrap
<1> QED BY <1>1, <1>2, <1>3, <1>4

(* A counter that wraps keeps its place in the row. *)
LEMMA CounterInRow ==
  ASSUME NEW c \in Nat \ {0}, RowOK(c), NEW r \in Nat, NEW n \in Nat, (r % c) + n <= c
  PROVE  Wrap(r + n) % c = IF (r % c) + n = c THEN 0 ELSE (r % c) + n
<1>1. PICK q \in Nat : q >= 2 /\ UIntMax + 1 = q * c
  BY DEF RowOK
<1>2. (r + n) % c = IF (r % c) + n = c THEN 0 ELSE (r % c) + n
  BY StepInRow
<1>3. q \in Nat \ {0} /\ r + n \in Nat
  BY <1>1
<1>4. ((r + n) % (q * c)) % c = (r + n) % c
  BY <1>3, RemainderOfRemainder
<1>5. Wrap(r + n) = (r + n) % (q * c)
  BY <1>1 DEF Wrap
<1> QED BY <1>2, <1>4, <1>5

LEMMA StartFacts ==
  ASSUME NEW s, IsStream(s)
  PROVE  /\ StartOf(s) \in Nat /\ StartOf(s) <= s.cap /\ StartOf(s) <= s.r
         /\ s.cap # 0 => StartOf(s) < s.cap
<1>1. s.cap \in Nat /\ s.r \in Nat
  BY RangeIsNat DEF IsStream
<1>2. CASE s.cap = 0
  BY <1>1, <1>2 DEF StartOf
<1>3. CASE s.cap # 0
  <2>1. PICK d \in Nat, m \in 0..(s.cap - 1) : m = s.r % s.cap /\ s.r = d * s.cap + m
    BY <1>1, <1>3, DivMod
  <2>2. d * s.cap \in Nat
    BY <1>1
  <2> QED BY <1>1, <1>3, <2>1, <2>2 DEF StartOf
<1> QED BY <1>2, <1>3

(* ffstream_used() is the number of the pending bytes. *)
LEMMA UsedIs ==
  ASSUME NEW s, NEW from, NEW n \in Nat, IsStream(s), Holds(s, from, n) \/ Looks(s, from, n)
  PROVE  n \in 0..UIntMax /\ Wrap(s.w + UIntMax + 1 - s.r) = n
<1>1. UIntMax \in Nat /\ s.r \in 0..UIntMax /\ s.w \in 0..UIntMax /\ s.cap \in Nat
  BY RangeIsNat DEF IsStream
<1>2. CASE Holds(s, from, n)
  <2>1. n <= s.cap /\ s.cap <= UIntMax
    BY <1>1, <1>2, StartFacts, RowIsShort DEF IsStream, Holds
  <2>2. n \in 0..UIntMax
    BY <1>1, <2>1
  <2>3. Wrap(Wrap(s.r + n) + UIntMax + 1 - s.r) = n
    BY <1>1, <2>2, WrapFacts
  <2>4. s.w = Wrap(s.r + n)
    BY <1>2 DEF Holds
  <2> QED BY <2>2, <2>3, <2>4
<1>3. CASE Looks(s, from, n)
  <2>1. s.w = s.r + n /\ n \in 0..UIntMax
    BY <1>1, <1>3 DEF Looks
  <2>2. s.w + UIntMax + 1 - s.r = n + UIntMax + 1
    BY <1>1, <2>1
  <2> QED BY <1>1, <2>1, <2>2 DEF Wrap
<1> QED BY <1>2, <1>3

LEMMA UsedIsPending == StreamInv => Used = Pending /\ Pending \in 0..UIntMax
BY UsedIs DEF StreamInv, Used

LEMMA StartIsAt == StreamInv => At(stream.r) = StartOf(stream)
BY DEF At, StartOf

----------------------------------------------------------------------------
(* Copying *)

LEMMA BytesFacts ==
  ASSUME NEW from \in Nat, NEW n \in Nat
  PROVE  /\ Bytes(from + 1, n) \in Seq(Nat) /\ Len(Bytes(from + 1, n)) = n
         /\ \A i \in 1..n : Bytes(from + 1, n)[i] = from + i
BY DEF Bytes

LEMMA PutFacts ==
  ASSUME NEW buf \in Seq(Nat), NEW to \in Nat, NEW data \in Seq(Nat)
  PROVE  /\ Put(buf, to, data) \in Seq(Nat) /\ Len(Put(buf, to, data)) = Len(buf)
         /\ \A i \in 1..Len(buf) :
              Put(buf, to, data)[i] = IF i - to \in 1..Len(data) THEN data[i - to] ELSE buf[i]
<1>1. DOMAIN buf = 1..Len(buf) /\ DOMAIN data = 1..Len(data) /\ Len(buf) \in Nat /\ Len(data) \in Nat
  OBVIOUS
<1>2. \A i \in 1..Len(buf) : buf[i] \in Nat
  OBVIOUS
<1>3. \A i \in 1..Len(data) : data[i] \in Nat
  OBVIOUS
<1>4. Put(buf, to, data) = [i \in 1..Len(buf) |-> IF i - to \in 1..Len(data) THEN data[i - to] ELSE buf[i]]
  BY <1>1 DEF Put
<1>5. Put(buf, to, data) \in [1..Len(buf) -> Nat]
  BY <1>2, <1>3, <1>4
<1>6. Put(buf, to, data) \in Seq(Nat) /\ Len(Put(buf, to, data)) = Len(buf)
  BY <1>1, <1>4, <1>5
<1> QED BY <1>4, <1>6

LEMMA PutFront ==
  ASSUME NEW buf \in Seq(Nat), NEW data \in Seq(Nat)
  PROVE  /\ Put(buf, 0, data) \in Seq(Nat) /\ Len(Put(buf, 0, data)) = Len(buf)
         /\ \A i \in 1..Len(buf) :
              Put(buf, 0, data)[i] = IF i \in 1..Len(data) THEN data[i] ELSE buf[i]
<1> DEFINE b == Put(buf, 0, data)
<1>1. b \in Seq(Nat) /\ Len(b) = Len(buf)
  BY PutFacts
<1>2. \A i \in 1..Len(buf) : b[i] = IF i - 0 \in 1..Len(data) THEN data[i - 0] ELSE buf[i]
  BY PutFacts
<1>3. \A i \in 1..Len(buf) : i - 0 = i
  OBVIOUS
<1> HIDE DEF b
<1>4. \A i \in 1..Len(buf) : b[i] = IF i \in 1..Len(data) THEN data[i] ELSE buf[i]
  BY <1>2, <1>3
<1> QED BY <1>1, <1>4 DEF b

LEMMA RegionFacts ==
  ASSUME NEW buf \in Seq(Nat), NEW from \in Nat, NEW n \in Nat
  PROVE  /\ Region(buf, from, n) \in Seq(Nat) /\ Len(Region(buf, from, n)) = n
         /\ \A i \in 1..n : from + i <= Len(buf) => Region(buf, from, n)[i] = buf[from + i]
<1>1. DOMAIN buf = 1..Len(buf) /\ Len(buf) \in Nat /\ \A i \in 1..Len(buf) : buf[i] \in Nat
  OBVIOUS
<1>2. Region(buf, from, n) \in [1..n -> Nat]
  BY <1>1 DEF Region
<1>3. Region(buf, from, n) \in Seq(Nat) /\ Len(Region(buf, from, n)) = n
  BY <1>2 DEF Region
<1> QED BY <1>1, <1>3 DEF Region

(* What the buffer holds. *)
LEMMA HeldBytes ==
  ASSUME NEW s, NEW from \in Nat, NEW n \in Nat, IsStream(s), Holds(s, from, n)
  PROVE  Region(s.buf, StartOf(s), n) = Bytes(from + 1, n)
<1>1. s.buf \in Seq(Nat) /\ Len(s.buf) = s.cap /\ StartOf(s) \in Nat /\ StartOf(s) + n <= s.cap /\ s.cap \in Nat
  BY StartFacts DEF IsStream, Holds
<1> DEFINE a == Region(s.buf, StartOf(s), n)
           b == Bytes(from + 1, n)
<1>2. a \in Seq(Nat) /\ Len(a) = n /\ \A i \in 1..n : StartOf(s) + i <= Len(s.buf) => a[i] = s.buf[StartOf(s) + i]
  BY <1>1, RegionFacts
<1>3. b \in Seq(Nat) /\ Len(b) = n /\ \A i \in 1..n : b[i] = from + i
  BY BytesFacts
<1>4. \A i \in 1..n : a[i] = b[i]
  BY <1>1, <1>2, <1>3 DEF Holds
<1>5. a = [i \in 1..n |-> a[i]] /\ b = [i \in 1..n |-> b[i]]
  BY DEF Region, Bytes
<1> HIDE DEF a, b
<1>6. a = b
  BY <1>4, <1>5
<1> QED BY <1>6 DEF a, b

LEMMA ShownIsPending ==
  ASSUME StreamInv
  PROVE  Bytes(next.consumed + 1, Pending) = IF stream.ptr # 0 THEN Viewed ELSE Buffered
<1>1. Used = Pending /\ Pending \in Nat /\ next.consumed \in Nat
  BY UsedIsPending, RangeIsNat DEF StreamInv
<1>2. CASE Holds(stream, next.consumed, Pending)
  <2>1. Buffered = Region(stream.buf, StartOf(stream), Pending)
    BY <1>1, StartIsAt DEF Buffered
  <2> QED BY <1>1, <1>2, <2>1, HeldBytes DEF StreamInv, Holds
<1>3. CASE Looks(stream, next.consumed, Pending)
  BY <1>1, <1>3 DEF Looks, Viewed
<1> QED BY <1>2, <1>3 DEF StreamInv

LEMMA InvShows == StreamInv => GatherShowsTheStream
BY ShownIsPending DEF StreamInv, GatherShowsTheStream, Pending

----------------------------------------------------------------------------
(* The parts of a call *)

LEMMA EmptyHolds ==
  ASSUME NEW s, IsStream(s), s.ptr = 0, s.r = 0, s.w = 0, NEW from
  PROVE  Holds(s, from, 0)
<1>1. s.cap \in Nat /\ StartOf(s) = 0
  <2>1. s.cap \in Nat
    BY DEF IsStream
  <2> QED BY <2>1 DEF StartOf
<1>2. Wrap(0 + 0) = 0
  BY RangeIsNat DEF Wrap
<1> QED BY <1>1, <1>2 DEF Holds

(* n bytes at the start of a buffer *)
LEMMA FrontHolds ==
  ASSUME NEW s, NEW from \in Nat, NEW n \in Nat, IsStream(s),
         s.ptr = 0, s.r = 0, s.w = n, n <= s.cap,
         \A i \in 1..n : s.buf[i] = from + i
  PROVE  Holds(s, from, n)
<1>1. s.cap \in Nat /\ StartOf(s) = 0
  <2>1. s.cap \in Nat
    BY DEF IsStream
  <2> QED BY <2>1 DEF StartOf
<1>2. Wrap(0 + n) = n
  <2>1. UIntMax \in Nat /\ n \in 0..UIntMax /\ 0 + n = n
    BY RangeIsNat DEF IsStream
  <2> QED BY <2>1 DEF Wrap
<1>3. \A i \in 1..n : 0 + i = i
  OBVIOUS
<1> QED BY <1>1, <1>2, <1>3 DEF Holds

LEMMA OwnHolds ==
  ASSUME StreamInv, Pending <= stream.cap
  PROVE  IsStream(Own) /\ Own.cap = stream.cap /\ Holds(Own, next.consumed, Pending)
<1>1. Used = Pending /\ Pending \in 0..UIntMax /\ Pending \in Nat /\ next.consumed \in Nat /\ UIntMax \in Nat
  BY UsedIsPending, RangeIsNat DEF StreamInv
<1>2. CASE stream.ptr = 0
  BY <1>2 DEF StreamInv, Own, Looks
<1>3. CASE stream.ptr # 0
  <2>1. Looks(stream, next.consumed, Pending)
    BY <1>3 DEF StreamInv, Holds
  <2>2. Viewed = Bytes(next.consumed + 1, Pending)
    BY <1>1, <2>1 DEF Looks, Viewed
  <2> DEFINE b == Put(stream.buf, 0, Viewed)
  <2>3. Viewed \in Seq(Nat) /\ Len(Viewed) = Pending /\ \A i \in 1..Pending : Viewed[i] = next.consumed + i
    BY <1>1, <2>2, BytesFacts
  <2>4. stream.buf \in Seq(Nat) /\ Len(stream.buf) = stream.cap /\ stream.cap \in Nat /\ RowOK(stream.cap)
    BY DEF StreamInv, IsStream
  <2>5. b \in Seq(Nat) /\ Len(b) = stream.cap
        /\ \A i \in 1..stream.cap : b[i] = IF i \in 1..Pending THEN Viewed[i] ELSE stream.buf[i]
    BY <2>3, <2>4, PutFront
  <2>6. Own = [stream EXCEPT !.buf = b, !.ptr = 0, !.r = 0, !.w = Pending]
    BY <1>1, <1>3 DEF Own
  <2> HIDE DEF b
  <2>7. Own = [buf |-> b, ptr |-> 0, r |-> 0, w |-> Pending, cap |-> stream.cap]
    BY <2>6 DEF StreamInv, IsStream
  <2>8. IsStream(Own) /\ Own.cap = stream.cap
    BY <1>1, <2>4, <2>5, <2>7 DEF IsStream
  <2>9. ASSUME NEW i \in 1..Pending PROVE Own.buf[i] = next.consumed + i
    <3>1. i \in 1..stream.cap
      BY <1>1, <2>4
    <3>2. b[i] = Viewed[i]
      BY <2>5, <3>1
    <3> QED BY <2>3, <2>7, <3>2
  <2> QED BY <1>1, <2>7, <2>8, <2>9, FrontHolds
<1> QED BY <1>2, <1>3

LEMMA ToFrontHolds ==
  ASSUME NEW s, NEW from \in Nat, NEW n \in Nat, NEW need \in Nat,
         IsStream(s), Holds(s, from, n), s.cap # 0, Used = n, need <= s.cap
  PROVE  /\ IsStream(ToFront(s, need)) /\ ToFront(s, need).cap = s.cap
         /\ Holds(ToFront(s, need), from, n)
         /\ n < need => StartOf(ToFront(s, need)) + need <= s.cap
<1> DEFINE i == s.r % s.cap
           data == Region(s.buf, i, n)
           b == Put(s.buf, 0, data)
           t == ToFront(s, need)
<1>1. /\ UIntMax \in Nat /\ s.r \in 0..UIntMax /\ s.r \in Nat /\ s.cap \in Nat \ {0} /\ s.buf \in Seq(Nat)
      /\ Len(s.buf) = s.cap /\ RowOK(s.cap)
  BY RangeIsNat DEF IsStream
<1>2. i = StartOf(s) /\ i \in Nat /\ i <= s.r /\ i + n <= s.cap /\ s.cap <= UIntMax
  BY <1>1, StartFacts, RowIsShort DEF StartOf, Holds
<1> HIDE DEF i
<1>3. CASE n < need /\ i + need > s.cap
  <2>1. t = [s EXCEPT !.buf = b, !.r = Wrap(@ + UIntMax + 1 - i), !.w = Wrap(@ + UIntMax + 1 - i)]
    BY <1>3 DEF ToFront, i
  <2>2. Wrap(s.r + UIntMax + 1 - i) = s.r - i
    <3>1. i \in 0..UIntMax
      BY <1>1, <1>2
    <3> QED BY <1>1, <1>2, <3>1, WrapFacts
  <2>3. Wrap(s.w + UIntMax + 1 - i) = Wrap((s.r - i) + n) /\ s.r - i \in 0..UIntMax /\ n \in 0..UIntMax
    <3>1. n \in 0..UIntMax /\ s.r - i \in 0..UIntMax
      BY <1>1, <1>2
    <3>2. s.w = IF s.r + n <= UIntMax THEN s.r + n ELSE s.r + n - (UIntMax + 1)
      BY <1>1, <3>1, WrapFacts DEF Holds
    <3>3. Wrap((s.r - i) + n) = IF (s.r - i) + n <= UIntMax THEN (s.r - i) + n ELSE (s.r - i) + n - (UIntMax + 1)
      BY <3>1, WrapFacts
    <3>4. CASE s.r + n <= UIntMax
      <4>1. s.w = s.r + n /\ s.w \in 0..UIntMax /\ i \in 0..UIntMax /\ i <= s.w
        BY <1>1, <1>2, <3>2, <3>4
      <4>2. Wrap(s.w + UIntMax + 1 - i) = s.w - i
        BY <4>1, WrapFacts
      <4> QED BY SMTT(30), <1>1, <1>2, <3>1, <3>3, <3>4, <4>1, <4>2
    <3>5. CASE s.r + n > UIntMax
      <4>1. s.w = s.r + n - (UIntMax + 1)
        BY <1>1, <3>2, <3>5
      <4>2. s.w + UIntMax + 1 - i = (s.r - i) + n
        <5>1. s.w \in Int /\ s.r \in Int /\ UIntMax \in Int /\ i \in Int /\ n \in Int
          BY <1>1, <1>2, <4>1
        <5> QED BY <4>1, <5>1
      <4> QED BY <3>1, <4>2
    <3> QED BY <1>1, <3>4, <3>5
  <2>4. data \in Seq(Nat) /\ Len(data) = n /\ \A j \in 1..n : i + j <= s.cap => data[j] = s.buf[i + j]
    <3>1. s.buf \in Seq(Nat) /\ i \in Nat /\ Len(s.buf) = s.cap
      BY <1>1, <1>2
    <3>2. data \in Seq(Nat) /\ Len(data) = n
      BY <3>1, RegionFacts
    <3>3. \A j \in 1..n : i + j <= Len(s.buf) => data[j] = s.buf[i + j]
      BY <3>1, RegionFacts
    <3> QED BY <3>1, <3>2, <3>3
  <2> HIDE DEF data
  <2>5. b \in Seq(Nat) /\ Len(b) = s.cap
        /\ \A j \in 1..s.cap : b[j] = IF j \in 1..n THEN data[j] ELSE s.buf[j]
    <3>1. s.buf \in Seq(Nat) /\ Len(s.buf) = s.cap /\ data \in Seq(Nat) /\ Len(data) = n
      BY <1>1, <2>4
    <3>2. b \in Seq(Nat) /\ Len(b) = Len(s.buf)
      BY <3>1, PutFront
    <3>3. \A j \in 1..Len(s.buf) : b[j] = IF j \in 1..Len(data) THEN data[j] ELSE s.buf[j]
      BY <3>1, PutFront
    <3> QED BY <3>1, <3>2, <3>3
  <2>6. Wrap((s.r - i) + n) \in 0..UIntMax
    BY <2>3, WrapFacts
  <2>7. (s.r - i) % s.cap = 0
    <3>1. i = s.r % s.cap
      BY DEF i
    <3>2. (s.r - (s.r % s.cap)) % s.cap = 0
      BY <1>1, RowStarts
    <3> QED BY <3>1, <3>2
  <2> HIDE DEF b, t
  <2>8. t = [buf |-> b, ptr |-> s.ptr, r |-> s.r - i, w |-> Wrap((s.r - i) + n), cap |-> s.cap]
    BY <2>1, <2>2, <2>3 DEF IsStream
  <2>9. IsStream(t) /\ t.cap = s.cap
    BY <1>1, <2>3, <2>5, <2>6, <2>8 DEF IsStream
  <2>10. StartOf(t) = 0
    BY <1>1, <2>7, <2>8 DEF StartOf
  <2>11. ASSUME NEW j \in 1..n PROVE t.buf[0 + j] = from + j
    <3>1. 0 + j = j /\ j \in 1..s.cap /\ i + j <= s.cap
      BY <1>1, <1>2
    <3>2. b[j] = s.buf[i + j]
      BY <2>4, <2>5, <3>1
    <3>3. s.buf[i + j] = from + j
      BY <1>2 DEF Holds
    <3> QED BY <2>8, <3>1, <3>2, <3>3
  <2>12. Holds(t, from, n)
    <3>1. t.ptr = 0 /\ t.w = Wrap(t.r + n) /\ 0 + n <= t.cap
      BY <1>1, <1>2, <2>8 DEF Holds
    <3> QED BY <2>10, <2>11, <3>1 DEF Holds
  <2> QED BY <1>1, <2>9, <2>10, <2>12 DEF t
<1>4. CASE ~(n < need /\ i + need > s.cap)
  <2>1. t = s
    BY <1>4 DEF ToFront, i
  <2>2. n < need => StartOf(s) + need <= s.cap
    BY <1>1, <1>2, <1>4
  <2> HIDE DEF t
  <2>3. IsStream(t) /\ t.cap = s.cap /\ Holds(t, from, n) /\ (n < need => StartOf(t) + need <= s.cap)
    BY <2>1, <2>2
  <2> QED BY <2>3 DEF t
<1> QED BY <1>3, <1>4

(* Input data appended to the tail *)
Appended(s, data) ==
  [s EXCEPT !.buf = Put(@, s.w % s.cap, data), !.w = Wrap(@ + Len(data))]

LEMMA AppendHolds ==
  ASSUME NEW s, NEW from \in Nat, NEW n \in Nat, NEW k \in Nat,
         IsStream(s), Holds(s, from, n), s.cap # 0, StartOf(s) + n + k <= s.cap
  PROVE  LET t == Appended(s, Bytes(from + n + 1, k))
         IN  IsStream(t) /\ t.cap = s.cap /\ Holds(t, from, n + k)
<1> DEFINE data == Bytes(from + n + 1, k)
           to == s.w % s.cap
           b == Put(s.buf, to, data)
           t == Appended(s, data)
           i == StartOf(s)
<1>1. /\ UIntMax \in Nat /\ s.r \in 0..UIntMax /\ s.r \in Nat /\ s.cap \in Nat \ {0} /\ s.buf \in Seq(Nat)
      /\ Len(s.buf) = s.cap /\ RowOK(s.cap)
  BY RangeIsNat DEF IsStream
<1>2. i = s.r % s.cap /\ i \in Nat /\ i + n + k <= s.cap /\ s.cap <= UIntMax
  BY <1>1, StartFacts, RowIsShort DEF StartOf
<1>3. data \in Seq(Nat) /\ Len(data) = k /\ \A j \in 1..k : data[j] = (from + n) + j
  <2>1. from + n \in Nat
    OBVIOUS
  <2> QED BY <2>1, BytesFacts
<1>4. n \in 0..UIntMax /\ n + k \in 0..UIntMax /\ k \in 0..UIntMax
  BY <1>1, <1>2
<1>5. s.w = Wrap(s.r + n) /\ s.w \in 0..UIntMax /\ s.w \in Nat
  <2>1. s.w = Wrap(s.r + n)
    BY DEF Holds
  <2>2. s.w \in 0..UIntMax
    BY DEF IsStream
  <2> QED BY <1>1, <2>1, <2>2
<1>6. to = IF i + n = s.cap THEN 0 ELSE i + n
  <2>1. (s.r % s.cap) + n <= s.cap
    BY <1>1, <1>2
  <2>2. Wrap(s.r + n) % s.cap = IF (s.r % s.cap) + n = s.cap THEN 0 ELSE (s.r % s.cap) + n
    BY <1>1, <2>1, CounterInRow
  <2> QED BY <1>2, <1>5, <2>2
<1>7. to \in Nat
  BY <1>2, <1>6
<1> HIDE DEF data, to
<1>8. b \in Seq(Nat) /\ Len(b) = s.cap
      /\ \A j \in 1..s.cap : b[j] = IF j - to \in 1..k THEN data[j - to] ELSE s.buf[j]
  <2>1. s.buf \in Seq(Nat) /\ Len(s.buf) = s.cap /\ data \in Seq(Nat) /\ Len(data) = k /\ to \in Nat
    BY <1>1, <1>3, <1>7
  <2>2. b \in Seq(Nat) /\ Len(b) = Len(s.buf)
    BY <2>1, PutFacts
  <2>3. \A j \in 1..Len(s.buf) : b[j] = IF j - to \in 1..Len(data) THEN data[j - to] ELSE s.buf[j]
    BY ZenonT(40), <2>1, PutFacts
  <2> QED BY <2>1, <2>2, <2>3
<1>9. Wrap(s.w + k) = Wrap(s.r + (n + k)) /\ Wrap(s.w + k) \in 0..UIntMax
  <2>1. Wrap(s.w + k) = IF s.w + k <= UIntMax THEN s.w + k ELSE s.w + k - (UIntMax + 1)
    BY <1>4, <1>5, WrapFacts
  <2>2. Wrap(s.r + (n + k)) = IF s.r + (n + k) <= UIntMax THEN s.r + (n + k) ELSE s.r + (n + k) - (UIntMax + 1)
    BY <1>1, <1>4, WrapFacts
  <2>3. s.w = IF s.r + n <= UIntMax THEN s.r + n ELSE s.r + n - (UIntMax + 1)
    BY <1>1, <1>4, <1>5, WrapFacts
  <2>4. Wrap(s.w + k) \in 0..UIntMax
    BY <1>4, <1>5, WrapFacts
  <2>5. CASE s.r + n <= UIntMax
    BY <1>1, <1>4, <2>1, <2>2, <2>3, <2>4, <2>5
  <2>6. CASE s.r + n > UIntMax
    BY <1>1, <1>4, <2>1, <2>2, <2>3, <2>4, <2>6
  <2> QED BY <1>1, <1>4, <2>5, <2>6
<1>10. t = [s EXCEPT !.buf = b, !.w = Wrap(@ + k)]
  BY <1>3 DEF Appended, to
<1> HIDE DEF b, t, i
<1>11. t = [buf |-> b, ptr |-> s.ptr, r |-> s.r, w |-> Wrap(s.w + k), cap |-> s.cap]
  BY <1>10 DEF IsStream
<1>12. IsStream(t) /\ t.cap = s.cap
  BY <1>1, <1>8, <1>9, <1>11 DEF IsStream
<1>13. StartOf(t) = i
  BY <1>11 DEF StartOf, i
<1>14. ASSUME NEW j \in 1..(n + k) PROVE t.buf[i + j] = from + j
  <2>1. i + j \in 1..s.cap /\ j \in Nat
    BY SMTT(30), <1>1, <1>2
  <2>2. CASE j <= n
    <3>1. ~((i + j) - to \in 1..k)
      BY <1>2, <1>6, <2>1, <2>2
    <3>2. b[i + j] = s.buf[i + j]
      BY <1>8, <2>1, <3>1
    <3>3. j \in 1..n
      BY <2>2
    <3>4. s.buf[i + j] = from + j
      BY <3>3 DEF Holds, i
    <3> QED BY <1>11, <3>2, <3>4
  <2>3. CASE j > n
    <3>1. i + n # s.cap
      BY <1>1, <1>2, <2>1, <2>3
    <3>2. (i + j) - to = j - n /\ j - n \in 1..k
      BY <1>2, <1>6, <2>1, <2>3, <3>1
    <3>3. b[i + j] = data[j - n]
      BY <1>8, <2>1, <3>2
    <3>4. data[j - n] = (from + n) + (j - n)
      BY <1>3, <3>2
    <3>5. (from + n) + (j - n) = from + j
      BY <2>1
    <3> QED BY <1>11, <3>3, <3>4, <3>5
  <2> QED BY <2>1, <2>2, <2>3
<1>15. Holds(t, from, n + k)
  <2>1. t.ptr = 0 /\ i + (n + k) <= t.cap /\ t.w = Wrap(t.r + (n + k))
    BY <1>2, <1>9, <1>11 DEF Holds
  <2> QED BY <1>13, <1>14, <2>1 DEF Holds
<1> QED BY <1>12, <1>15 DEF t, data

----------------------------------------------------------------------------
(* The steps *)

LEMMA InitInv == StreamInit => StreamInv
<1> SUFFICES ASSUME StreamInit PROVE StreamInv
  OBVIOUS
<1>1. stream = [buf |-> <<>>, ptr |-> 0, r |-> 0, w |-> 0, cap |-> 0]
      /\ next = [given |-> 0, consumed |-> 0] /\ view = NoView
  BY DEF StreamInit
<1>2. UIntMax \in Nat
  BY RangeIsNat
<1>3. <<>> \in Seq(Nat) /\ Len(<<>>) = 0
  OBVIOUS
<1>4. IsStream(stream)
  BY <1>1, <1>2, <1>3 DEF IsStream, RowOK
<1>5. Pending = 0
  BY <1>1 DEF Pending
<1>6. Holds(stream, next.consumed, Pending)
  BY <1>1, <1>4, <1>5, EmptyHolds
<1> QED BY <1>1, <1>4, <1>5, <1>6 DEF StreamInv

LEMMA ReallocStep ==
  ASSUME StreamInv, NEW c \in StreamCaps, Realloc(c)
  PROVE  StreamInv'
<1> DEFINE cap == AlignPower2(c)
           new == [i \in 1..cap |-> 0]
           b == Put(new, 0, Buffered)
<1>1. cap \in Nat \ {0} /\ RowOK(cap)
  BY AlignFacts DEF RowOK
<1>2. cap > stream.cap /\ view' = NoView /\ next' = next
  BY DEF Realloc
<1>3. /\ Used = Pending /\ Pending \in 0..UIntMax /\ Pending \in Nat /\ UIntMax \in Nat
      /\ next.consumed \in Nat /\ stream.cap \in Nat /\ IsStream(stream)
  BY UsedIsPending, RangeIsNat DEF StreamInv, IsStream
<1>4. new \in Seq(Nat) /\ Len(new) = cap
  <2> HIDE DEF cap
  <2>1. new \in [1..cap -> Nat]
    OBVIOUS
  <2> QED BY <1>1, <2>1
<1>5. CASE stream.ptr # 0
  <2>1. Looks(stream, next.consumed, Pending)
    BY <1>5 DEF StreamInv, Holds
  <2>2. stream' = [stream EXCEPT !.buf = new, !.cap = cap]
    BY <1>5 DEF Realloc
  <2> HIDE DEF cap, new
  <2>3. stream' = [buf |-> new, ptr |-> stream.ptr, r |-> stream.r, w |-> stream.w, cap |-> cap]
    BY <1>3, <2>2 DEF IsStream
  <2>4. IsStream(stream')
    BY <1>1, <1>3, <1>4, <2>3 DEF IsStream
  <2>5. Looks(stream', next.consumed, Pending)
    BY <2>1, <2>3 DEF Looks
  <2> QED BY <1>2, <2>4, <2>5 DEF StreamInv, Pending
<1>6. CASE stream.ptr = 0
  <2>1. Holds(stream, next.consumed, Pending) /\ Pending <= stream.cap
    <3>1. Holds(stream, next.consumed, Pending)
      BY <1>6 DEF StreamInv, Looks
    <3>2. StartOf(stream) + Pending <= stream.cap /\ StartOf(stream) \in Nat
      BY <1>3, <3>1, StartFacts DEF Holds
    <3> QED BY <1>3, <3>1, <3>2
  <2>2. stream' = [stream EXCEPT !.buf = b, !.cap = cap, !.r = 0, !.w = Pending]
    BY <1>3, <1>6 DEF Realloc
  <2>3. Buffered = Bytes(next.consumed + 1, Pending)
    BY <1>3, <2>1, StartIsAt, HeldBytes DEF Buffered
  <2>4. /\ Buffered \in Seq(Nat) /\ Len(Buffered) = Pending
        /\ \A i \in 1..Pending : Buffered[i] = next.consumed + i
    BY <1>3, <2>3, BytesFacts
  <2> HIDE DEF cap, new
  <2>5. b \in Seq(Nat) /\ Len(b) = Len(new)
        /\ \A i \in 1..Len(new) : b[i] = IF i \in 1..Len(Buffered) THEN Buffered[i] ELSE new[i]
    BY <1>4, <2>4, PutFront
  <2> HIDE DEF b
  <2>6. stream' = [buf |-> b, ptr |-> 0, r |-> 0, w |-> Pending, cap |-> cap]
    BY <1>3, <1>6, <2>2 DEF IsStream
  <2>7. IsStream(stream')
    BY <1>1, <1>3, <1>4, <2>5, <2>6 DEF IsStream
  <2>8. ASSUME NEW i \in 1..Pending PROVE stream'.buf[i] = next.consumed + i
    <3>1. i \in 1..Len(new) /\ i \in 1..Len(Buffered)
      BY <1>1, <1>2, <1>3, <1>4, <2>1, <2>4
    <3> QED BY <2>4, <2>5, <2>6, <3>1
  <2>9. Pending <= cap
    BY <1>1, <1>2, <1>3, <2>1
  <2>10. Holds(stream', next.consumed, Pending)
    BY <1>3, <2>6, <2>7, <2>8, <2>9, FrontHolds
  <2> QED BY <1>2, <2>7, <2>10, <1>3 DEF StreamInv, Pending
<1> QED BY <1>5, <1>6

LEMMA ResetStep ==
  ASSUME StreamInv, Reset
  PROVE  StreamInv'
<1>1. IsStream(stream) /\ UIntMax \in Nat /\ next \in [given : Nat, consumed : Nat]
  BY RangeIsNat DEF StreamInv
<1>2. stream' = [buf |-> stream.buf, ptr |-> 0, r |-> 0, w |-> 0, cap |-> stream.cap]
  BY <1>1 DEF Reset, IsStream
<1>3. IsStream(stream')
  BY <1>1, <1>2 DEF IsStream
<1>4. next' = [given |-> next.given, consumed |-> next.given] /\ view' = NoView
  BY <1>1 DEF Reset
<1>5. Holds(stream', next'.consumed, 0)
  BY <1>2, <1>3, EmptyHolds
<1>6. Pending' = 0
  BY <1>1, <1>4 DEF Pending
<1> QED BY <1>1, <1>3, <1>4, <1>5, <1>6 DEF StreamInv

(* What a call gives the caller *)
LEMMA ViewFacts ==
  ASSUME NEW at, NEW need, NEW n, NEW taken, Len(at) >= need \/ taken = n
  PROVE  View(at, need, n, taken).enough /\ View(at, need, n, taken).at = at
BY DEF View

LEMMA SetViewStep ==
  ASSUME StreamInv, NEW n \in 0..StreamPiece, NEW need \in Nat, SetView(n, need)
  PROVE  StreamInv'
<1>1. /\ IsStream(stream) /\ UIntMax \in Nat /\ next \in [given : Nat, consumed : Nat]
      /\ n \in 0..UIntMax /\ n \in Nat
  BY RangeIsNat DEF StreamInv
<1>2. Pending = 0 /\ next.given = next.consumed
  <2>1. Pending = 0
    BY UsedIsPending DEF SetView
  <2> QED BY <1>1, <2>1 DEF Pending
<1>3. stream' = [buf |-> stream.buf, ptr |-> next.given + 1, r |-> 0, w |-> n, cap |-> stream.cap]
  BY <1>1 DEF SetView, IsStream
<1>4. next' = [given |-> next.given + n, consumed |-> next.consumed]
  BY <1>1 DEF SetView
<1>5. IsStream(stream')
  BY <1>1, <1>3 DEF IsStream
<1>6. Pending' = n
  BY <1>1, <1>2, <1>4 DEF Pending
<1>7. Looks(stream', next'.consumed, n)
  BY <1>1, <1>2, <1>3, <1>4 DEF Looks
<1>8. view'.enough /\ view'.at = Bytes(next.consumed + 1, n)
  BY <1>2, ViewFacts DEF SetView
<1>9. next' \in [given : Nat, consumed : Nat]
  BY <1>1, <1>4
<1> QED BY <1>1, <1>4, <1>5, <1>6, <1>7, <1>8, <1>9 DEF StreamInv

LEMMA UseViewStep ==
  ASSUME StreamInv, NEW n \in Nat, NEW need \in Nat, UseView(n, need)
  PROVE  StreamInv'
<1>1. Used = Pending /\ Pending \in Nat /\ next.consumed \in Nat /\ stream' = stream /\ next' = next
  BY UsedIsPending, RangeIsNat DEF StreamInv, UseView
<1>2. Viewed = Bytes(next.consumed + 1, Pending)
  BY ShownIsPending DEF UseView
<1>3. Len(Viewed) >= need
  <2>1. Len(Viewed) = Pending
    BY <1>1, <1>2, BytesFacts
  <2> QED BY <1>1, <2>1 DEF UseView
<1>4. view'.enough /\ view'.at = Viewed
  BY <1>3, ViewFacts DEF UseView
<1> QED BY <1>1, <1>2, <1>4 DEF StreamInv, Pending

LEMMA TakeInStep ==
  ASSUME StreamInv, NEW n \in Nat, NEW need \in Nat, TakeIn(n, need)
  PROVE  StreamInv'
<1> DEFINE s == ToFront(Own, need)
           k == IF Used >= need THEN 0 ELSE IF need - Used < n THEN need - Used ELSE n
           t == Appended(s, Bytes(next.given + 1, k))
           at == Region(t.buf, t.r % t.cap, Used + k)
<1>1. /\ Used = Pending /\ Pending \in Nat /\ next \in [given : Nat, consumed : Nat]
      /\ next.given = next.consumed + Pending /\ IsStream(stream) /\ stream.cap \in Nat
  BY UsedIsPending, RangeIsNat DEF StreamInv, Pending, IsStream
<1>2. need <= stream.cap /\ stream.cap # 0
  BY DEF TakeIn
<1>3. Pending <= stream.cap
  <2>1. CASE stream.ptr = 0
    <3>1. StartOf(stream) + Pending <= stream.cap /\ StartOf(stream) \in Nat
      BY <1>1, <2>1, StartFacts DEF StreamInv, Looks, Holds
    <3> QED BY <1>1, <3>1
  <2>2. CASE stream.ptr # 0
    <3>1. ~(need < Used)
      BY <2>2 DEF TakeIn
    <3> QED BY <1>1, <1>2, <3>1
  <2> QED BY <2>1, <2>2
<1>4. IsStream(Own) /\ Own.cap = stream.cap /\ Holds(Own, next.consumed, Pending)
  BY <1>3, OwnHolds
<1>5. /\ IsStream(s) /\ s.cap = stream.cap /\ Holds(s, next.consumed, Pending)
      /\ Pending < need => StartOf(s) + need <= stream.cap
  <2>1. Own.cap # 0 /\ need <= Own.cap /\ next.consumed \in Nat
    BY <1>1, <1>2, <1>4
  <2> QED BY <1>1, <1>4, <2>1, ToFrontHolds
<1>6. /\ k \in Nat /\ (Pending >= need \/ Pending + k = need \/ k = n)
      /\ Pending < need => Pending + k <= need
      /\ Pending >= need => k = 0
  BY <1>1
<1>7. /\ stream' = t /\ view' = View(at, need, n, k)
      /\ next' = [next EXCEPT !.given = @ + k]
  <2>1. Len(Bytes(next.given + 1, k)) = k
    BY <1>1, <1>6, BytesFacts
  <2> QED BY <2>1 DEF TakeIn, Appended
<1> HIDE DEF k, s
<1>8. StartOf(s) + Pending + k <= s.cap
  <2>1. StartOf(s) \in Nat /\ StartOf(s) + Pending <= s.cap
    BY <1>5, StartFacts DEF Holds
  <2> QED BY <1>1, <1>5, <1>6, <2>1
<1>9. IsStream(t) /\ t.cap = s.cap /\ Holds(t, next.consumed, Pending + k)
  <2>1. next.consumed \in Nat /\ next.consumed + Pending + 1 = next.given + 1 /\ s.cap # 0
    BY <1>1, <1>2, <1>5
  <2>2. LET u == Appended(s, Bytes(next.consumed + Pending + 1, k))
        IN  IsStream(u) /\ u.cap = s.cap /\ Holds(u, next.consumed, Pending + k)
    BY <1>1, <1>5, <1>6, <1>8, <2>1, AppendHolds
  <2> QED BY <2>1, <2>2
<1> HIDE DEF t
<1>10. at = Bytes(next.consumed + 1, Pending + k) /\ Len(at) = Pending + k
  <2>1. t.r % t.cap = StartOf(t)
    BY <1>2, <1>5, <1>9 DEF StartOf
  <2>2. Pending + k \in Nat /\ next.consumed \in Nat
    BY <1>1, <1>6
  <2>3. Region(t.buf, StartOf(t), Pending + k) = Bytes(next.consumed + 1, Pending + k)
    BY <1>9, <2>2, HeldBytes
  <2>4. at = Bytes(next.consumed + 1, Pending + k)
    BY <1>1, <2>1, <2>3
  <2> QED BY <2>2, <2>4, BytesFacts
<1> HIDE DEF at
<1>11. view'.enough /\ view'.at = at
  <2>1. Len(at) >= need \/ k = n
    BY <1>1, <1>6, <1>10
  <2> QED BY <1>7, <2>1, ViewFacts
<1>12. next' = [given |-> next.given + k, consumed |-> next.consumed]
  BY <1>1, <1>7
<1>13. Pending' = Pending + k
  BY <1>1, <1>6, <1>12 DEF Pending
<1>14. next' \in [given : Nat, consumed : Nat] /\ Pending' \in Nat
  BY <1>1, <1>6, <1>12, <1>13
<1> QED BY <1>7, <1>9, <1>10, <1>11, <1>12, <1>13, <1>14 DEF StreamInv

LEMMA ConsumeStep ==
  ASSUME StreamInv, NEW n \in Nat, Consume(n)
  PROVE  StreamInv'
<1>1. /\ Used = Pending /\ Pending \in 0..UIntMax /\ Pending \in Nat /\ next \in [given : Nat, consumed : Nat]
      /\ UIntMax \in Nat /\ IsStream(stream)
  BY UsedIsPending, RangeIsNat DEF StreamInv
<1>2. stream.r \in 0..UIntMax /\ stream.r \in Nat /\ stream.w \in 0..UIntMax /\ stream.cap \in Nat /\ RowOK(stream.cap)
  BY <1>1 DEF IsStream
<1>3. n \in 1..Pending /\ view' = NoView /\ n \in 0..UIntMax /\ Pending - n \in Nat
  BY <1>1 DEF Consume
<1> DEFINE r == Wrap(stream.r + n)
<1>4. stream' = [buf |-> stream.buf, ptr |-> stream.ptr, r |-> r, w |-> stream.w, cap |-> stream.cap]
  BY <1>1 DEF Consume, IsStream
<1>5. next' = [given |-> next.given, consumed |-> next.consumed + n]
  BY <1>1 DEF Consume
<1>6. Pending' = Pending - n
  BY <1>1, <1>3, <1>5 DEF Pending
<1>7. r \in 0..UIntMax /\ r = IF stream.r + n <= UIntMax THEN stream.r + n ELSE stream.r + n - (UIntMax + 1)
  BY <1>2, <1>3, WrapFacts
<1>8. IsStream(stream')
  <2> HIDE DEF r
  <2> QED BY <1>1, <1>4, <1>7 DEF IsStream
<1>9. CASE Looks(stream, next.consumed, Pending)
  <2>1. r = stream.r + n
    BY <1>1, <1>2, <1>3, <1>7, <1>9 DEF Looks
  <2> HIDE DEF r
  <2>2. stream.ptr \in Nat /\ next.consumed \in Nat
    BY <1>1 DEF IsStream
  <2>3. Looks(stream', next.consumed + n, Pending - n)
    BY <1>1, <1>2, <1>3, <1>4, <1>9, <2>1, <2>2 DEF Looks
  <2> QED BY <1>1, <1>3, <1>5, <1>6, <1>8, <2>3 DEF StreamInv
<1>10. CASE Holds(stream, next.consumed, Pending)
  <2>1. StartOf(stream) \in Nat /\ StartOf(stream) + Pending <= stream.cap /\ stream.cap # 0
    <3>1. StartOf(stream) \in Nat /\ StartOf(stream) + Pending <= stream.cap
      BY <1>1, <1>10, StartFacts DEF Holds
    <3> QED BY <1>1, <1>2, <1>3, <3>1
  <2>2. StartOf(stream) = stream.r % stream.cap
    BY <2>1 DEF StartOf
  <2>3. StartOf(stream') = IF StartOf(stream) + n = stream.cap THEN 0 ELSE StartOf(stream) + n
    <3>1. (stream.r % stream.cap) + n <= stream.cap
      BY <1>1, <1>2, <1>3, <2>1, <2>2
    <3>2. r % stream.cap = IF (stream.r % stream.cap) + n = stream.cap THEN 0 ELSE (stream.r % stream.cap) + n
      <4>1. stream.cap \in Nat \ {0} /\ RowOK(stream.cap) /\ stream.r \in Nat
        BY <1>2, <2>1
      <4>2. Wrap(stream.r + n) % stream.cap = IF (stream.r % stream.cap) + n = stream.cap THEN 0
                                               ELSE (stream.r % stream.cap) + n
        BY <3>1, <4>1, CounterInRow
      <4> QED BY <4>2
    <3>3. StartOf(stream') = r % stream.cap
      BY <1>4, <2>1 DEF StartOf
    <3> QED BY <2>2, <3>2, <3>3
  <2>4. stream.w = Wrap(r + (Pending - n))
    <3>1. stream.w = IF stream.r + Pending <= UIntMax THEN stream.r + Pending
                     ELSE stream.r + Pending - (UIntMax + 1)
      BY <1>1, <1>2, <1>10, WrapFacts DEF Holds
    <3>2. Pending - n \in 0..UIntMax
      BY <1>1, <1>3
    <3>3. Wrap(r + (Pending - n)) = IF r + (Pending - n) <= UIntMax THEN r + (Pending - n)
                                   ELSE r + (Pending - n) - (UIntMax + 1)
      BY <1>7, <3>2, WrapFacts
    <3> HIDE DEF r
    <3>4. CASE stream.r + n <= UIntMax
      BY <1>1, <1>2, <1>3, <1>7, <3>1, <3>3, <3>4
    <3>5. CASE stream.r + n > UIntMax
      BY <1>1, <1>2, <1>3, <1>7, <3>1, <3>3, <3>5
    <3> QED BY <1>1, <1>2, <1>3, <3>4, <3>5
  <2> HIDE DEF r
  <2>5. StartOf(stream') + (Pending - n) <= stream.cap
    BY <1>1, <1>2, <1>3, <2>1, <2>3
  <2>6. ASSUME NEW i \in 1..(Pending - n)
        PROVE  stream'.buf[StartOf(stream') + i] = (next.consumed + n) + i
    <3>1. n + i \in 1..Pending /\ StartOf(stream) + n # stream.cap
      BY <1>1, <1>2, <1>3, <2>1
    <3>2. StartOf(stream') + i = StartOf(stream) + (n + i)
      BY <1>3, <2>1, <2>3, <3>1
    <3>3. stream.buf[StartOf(stream) + (n + i)] = next.consumed + (n + i)
      BY <1>10, <3>1 DEF Holds
    <3>4. next.consumed + (n + i) = (next.consumed + n) + i
      BY <1>1
    <3> QED BY <1>4, <3>2, <3>3, <3>4
  <2>7. Holds(stream', next.consumed + n, Pending - n)
    <3>1. stream'.ptr = 0 /\ stream'.w = Wrap(stream'.r + (Pending - n)) /\ stream'.cap = stream.cap
      BY <1>4, <1>10, <2>4 DEF Holds
    <3> QED BY <2>5, <2>6, <3>1 DEF Holds
  <2> QED BY <1>1, <1>3, <1>5, <1>6, <1>8, <2>7 DEF StreamInv
<1> QED BY <1>9, <1>10 DEF StreamInv

LEMMA NextInv ==
  ASSUME StreamInv, [StreamNext]_streamVars
  PROVE  StreamInv'
<1>1. CASE \E c \in StreamCaps : Realloc(c)
  BY <1>1, ReallocStep
<1>2. CASE Reset
  BY <1>2, ResetStep
<1>3. CASE \E n \in 0..StreamPiece : \E need \in 0..Max({n, stream.cap}) : Gather(n, need)
  <2>1. PICK n \in 0..StreamPiece : \E need \in 0..Max({n, stream.cap}) : Gather(n, need)
    BY <1>3
  <2>2. PICK need \in 0..Max({n, stream.cap}) : Gather(n, need)
    BY <2>1
  <2>3. n \in Nat /\ need \in Nat
    OBVIOUS
  <2>4. SetView(n, need) \/ UseView(n, need) \/ TakeIn(n, need)
    BY <2>2 DEF Gather
  <2> QED BY <2>3, <2>4, SetViewStep, UseViewStep, TakeInStep
<1>4. CASE \E n \in 1..StreamLen : Consume(n)
  <2>1. PICK n \in 1..StreamLen : Consume(n)
    BY <1>4
  <2>2. n \in Nat
    OBVIOUS
  <2> QED BY <2>1, <2>2, ConsumeStep
<1>5. CASE UNCHANGED streamVars
  BY <1>5 DEF streamVars, StreamInv, Pending
<1> QED BY <1>1, <1>2, <1>3, <1>4, <1>5 DEF StreamNext

(* The buffer, whatever is looked at, copied, moved to the front or        *)
(* reallocated, and wherever the 32-bit counters wrap, holds the bytes     *)
(* given and not consumed, and every call of ffstream_gather() shows them  *)
(* all and as many as were asked for: for every stream, every length of a  *)
(* piece and every capacity up to half of the counters' range.             *)
THEOREM StreamGathers == StreamSpec => []GatherShowsTheStream
<1>1. StreamInit => StreamInv
  BY InitInv
<1>2. StreamInv /\ [StreamNext]_streamVars => StreamInv'
  BY NextInv
<1>3. StreamInv => GatherShowsTheStream
  BY InvShows
<1> QED BY <1>1, <1>2, <1>3, PTL DEF StreamSpec
=============================================================================
