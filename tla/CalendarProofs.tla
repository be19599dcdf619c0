--------------------------- MODULE CalendarProofs ---------------------------
(***************************************************************************)
(* Proofs about the dates (Calendar): what holds of the days, dates and    *)
(* times that a run asks about holds of all of them.                       *)
(*                                                                         *)
(* Years and months start in March, as in the code.  YearDays is counted   *)
(* leap year by leap year (YearDaysAre); 400 times the days before year y  *)
(* stay within 600 below and 297 above 146097 * y (MeanYear), so that the  *)
(* year guessed from the mean length is right or one too many              *)
(* (YearIsFound).  A day is in one year (OneYear) and in one month         *)
(* (OneMonth), which makes the split and the join each other's inverses    *)
(* (JoinOfSplit, SplitOfJoin); FittingDays relates the month lengths that  *)
(* fftime_valid() looks up to the days of the March year.                  *)
(***************************************************************************)
EXTENDS Calendar, FiniteSetTheorems, WellFoundedInduction, TLAPS

(* A set of numbers has a least element, and so induction *)
LEMMA Least ==
  ASSUME NEW S \in SUBSET Nat, S # {}
  PROVE  \E n \in S : \A m \in S : n <= m
<1> DEFINE R == OpToRel(<, Nat)
<1>1. IsWellFoundedOn(R, Nat)
  BY NatLessThanWellFounded
<1>2. R = {ss \in Nat \X Nat : ss[1] < ss[2]}
  BY DEF OpToRel
<1> HIDE DEF R
<1>3. PICK n \in S : \A m \in S : ~(<<m, n>> \in R)
  BY <1>1, WFMin
<1>4. ASSUME NEW m \in S PROVE n <= m
  <2>1. m \in Nat /\ n \in Nat /\ <<m, n>> \in Nat \X Nat /\ <<m, n>> \notin R
    BY <1>3
  <2>2. ~(m < n)
    BY <1>2, <2>1
  <2> QED BY <2>1, <2>2
<1> QED BY <1>3, <1>4

LEMMA NatSetInduction ==
  ASSUME NEW S, 0 \in S, \A n \in Nat : n \in S => n + 1 \in S
  PROVE  \A n \in Nat : n \in S
<1> SUFFICES ASSUME Nat \ S # {} PROVE FALSE
  OBVIOUS
<1>1. PICK n \in Nat \ S : \A m \in Nat \ S : n <= m
  BY Least
<1>2. n # 0 /\ n - 1 \in Nat
  OBVIOUS
<1>3. n - 1 \in S
  BY <1>1, <1>2
<1>4. (n - 1) + 1 \in S /\ (n - 1) + 1 = n
  BY <1>2, <1>3
<1> QED BY <1>4

----------------------------------------------------------------------------
(* Leap years *)

LeapOne(y) == IF Leap(y) THEN 1 ELSE 0
LeapDays(n) == (n \div 4) - (n \div 100) + (n \div 400)

LEMMA LeapDaysGrow ==
  ASSUME NEW n \in Nat
  PROVE  LeapDays(n) \in Int /\ LeapDays(n) >= 0
<1>1. n \div 4 \in Int /\ n \div 100 \in Int /\ n \div 400 \in Int
  OBVIOUS
<1>2. n \div 4 >= n \div 100 /\ n \div 400 >= 0
  OBVIOUS
<1> QED BY <1>1, <1>2 DEF LeapDays

LEMMA LeapDaysNext ==
  ASSUME NEW n \in Nat
  PROVE  LeapDays(n) \in Int /\ LeapDays(n + 1) = LeapDays(n) + LeapOne(n + 1)
<1>1. n \div 4 \in Int /\ n \div 100 \in Int /\ n \div 400 \in Int
  OBVIOUS
<1>2. (n + 1) \div 4 = (n \div 4) + (IF (n + 1) % 4 = 0 THEN 1 ELSE 0)
  OBVIOUS
<1>3. (n + 1) \div 100 = (n \div 100) + (IF (n + 1) % 100 = 0 THEN 1 ELSE 0)
  OBVIOUS
<1>4. (n + 1) \div 400 = (n \div 400) + (IF (n + 1) % 400 = 0 THEN 1 ELSE 0)
  OBVIOUS
<1>5. (n + 1) % 400 = 0 => (n + 1) % 100 = 0
  OBVIOUS
<1>6. (n + 1) % 100 = 0 => (n + 1) % 4 = 0
  OBVIOUS
<1> QED BY <1>1, <1>2, <1>3, <1>4, <1>5, <1>6 DEF LeapDays, LeapOne, Leap

LEMMA February ==
  ASSUME NEW y \in Nat
  PROVE  DaysIn(y, 2) = 28 + LeapOne(y)
<1>1. y % 400 = 0 => y % 100 = 0
  OBVIOUS
<1>2. MonthDays[2] = 28
  BY DEF MonthDays
<1> QED BY <1>1, <1>2 DEF DaysIn, LeapOne, Leap

LEMMA OtherMonths ==
  ASSUME NEW y \in Nat
  PROVE  /\ DaysIn(y, 1) = 31 /\ DaysIn(y, 3) = 31 /\ DaysIn(y, 4) = 30 /\ DaysIn(y, 5) = 31
         /\ DaysIn(y, 6) = 30 /\ DaysIn(y, 7) = 31 /\ DaysIn(y, 8) = 31 /\ DaysIn(y, 9) = 30
         /\ DaysIn(y, 10) = 31 /\ DaysIn(y, 11) = 30 /\ DaysIn(y, 12) = 31
BY DEF DaysIn, MonthDays

(* The leap years up to n are as many as the three quotients say. *)
LEMMA LeapYearsCount == \A n \in Nat : LeapYears(n) = LeapDays(n)
<1> DEFINE L(n) == {y \in 1..n : DaysIn(y, 2) = 29}
           S == {n \in Nat : IsFiniteSet(L(n)) /\ Cardinality(L(n)) = LeapDays(n)}
<1>1. 0 \in S
  <2>1. L(0) = {}
    OBVIOUS
  <2>2. LeapDays(0) = 0
    BY DEF LeapDays
  <2> QED BY <2>1, <2>2, FS_EmptySet
<1>2. ASSUME NEW n \in Nat, n \in S PROVE n + 1 \in S
  <2>1. IsFiniteSet(L(n)) /\ Cardinality(L(n)) = LeapDays(n) /\ n + 1 \in Nat
    BY <1>2
  <2>2. DaysIn(n + 1, 2) = 28 + LeapOne(n + 1)
    BY February
  <2>3. CASE Leap(n + 1)
    <3>1. DaysIn(n + 1, 2) = 29
      BY <2>2, <2>3 DEF LeapOne
    <3>2. \A y : y \in 1..n + 1 <=> y \in 1..n \/ y = n + 1
      OBVIOUS
    <3>3. L(n + 1) = L(n) \cup {n + 1} /\ n + 1 \notin L(n)
      BY <3>1, <3>2
    <3> DEFINE A == L(n)
    <3>4. IsFiniteSet(A \cup {n + 1}) /\ Cardinality(A \cup {n + 1}) = Cardinality(A) + 1
      <4>1. IsFiniteSet(A) /\ n + 1 \notin A
        BY <2>1, <3>3
      <4> HIDE DEF A
      <4> QED BY <4>1, FS_AddElement
    <3>5. LeapDays(n + 1) = LeapDays(n) + 1
      BY <2>3, LeapDaysNext DEF LeapOne
    <3> QED BY <2>1, <3>3, <3>4, <3>5
  <2>4. CASE ~Leap(n + 1)
    <3>1. DaysIn(n + 1, 2) # 29
      BY <2>2, <2>4 DEF LeapOne
    <3>2. \A y : y \in 1..n + 1 <=> y \in 1..n \/ y = n + 1
      OBVIOUS
    <3>3. L(n + 1) = L(n)
      BY <3>1, <3>2
    <3>4. LeapDays(n + 1) = LeapDays(n)
      BY <2>4, LeapDaysNext DEF LeapOne
    <3> QED BY <2>1, <3>3, <3>4
  <2> QED BY <2>3, <2>4
<1> HIDE DEF S
<1>3. \A n \in Nat : n \in S
  BY <1>1, <1>2, NatSetInduction
<1>4. ASSUME NEW n \in Nat PROVE LeapYears(n) = LeapDays(n)
  <2>1. LeapYears(n) = Cardinality(L(n))
    BY DEF LeapYears, Quantify
  <2> QED BY <1>3, <2>1 DEF S
<1> QED BY <1>4

----------------------------------------------------------------------------
(* Years that start in March *)

LEMMA YearDaysAre ==
  ASSUME NEW y \in Nat
  PROVE  YearDays(y) = 365 * y + LeapDays(y) /\ YearDays(y) \in Int
BY LeapDaysNext DEF YearDays, LeapDays

LEMMA NextYear ==
  ASSUME NEW y \in Nat
  PROVE  YearDays(y + 1) = YearDays(y) + 365 + LeapOne(y + 1) /\ LeapOne(y + 1) \in {0, 1}
<1>1. y + 1 \in Nat /\ LeapOne(y + 1) \in {0, 1} /\ LeapDays(y) \in Int
  BY LeapDaysNext DEF LeapOne
<1>2. YearDays(y) = 365 * y + LeapDays(y) /\ YearDays(y + 1) = 365 * (y + 1) + LeapDays(y + 1)
  BY <1>1, YearDaysAre
<1>3. LeapDays(y + 1) = LeapDays(y) + LeapOne(y + 1)
  BY LeapDaysNext
<1> QED BY <1>1, <1>2, <1>3

(* A year is at most two days away from its mean length times its number. *)
LEMMA MeanYear ==
  ASSUME NEW y \in Nat
  PROVE  /\ 400 * YearDays(y) <= 146097 * y + 297
         /\ 400 * YearDays(y) >= 146097 * y - 600
<1> DEFINE a == y \div 4
           b == y \div 100
           c == y \div 400
<1>1. a \in Nat /\ b \in Nat /\ c \in Nat
  OBVIOUS
<1>2. y - 4 * a \in 0..3
  OBVIOUS
<1>3. y - 100 * b \in 0..99
  OBVIOUS
<1>4. y - 400 * c \in 0..399
  OBVIOUS
<1>5. YearDays(y) = 365 * y + a - b + c
  BY DEF YearDays
<1> HIDE DEF a, b, c
<1>6. b - 4 * c \in 0..3
  BY <1>1, <1>3, <1>4
<1> DEFINE r == y - 4 * a
           s == y - 100 * b
           u == b - 4 * c
<1>7. r \in 0..3 /\ s \in 0..99 /\ u \in 0..3
  BY <1>2, <1>3, <1>6
<1>8. 400 * YearDays(y) = 146097 * y - 100 * r + 4 * s - (100 * u + s)
  BY <1>1, <1>5
<1>9. 4 * (a - 25 * b) = s - r
  BY <1>1
<1> HIDE DEF r, s, u
<1>10. r = 0 => s <= 98
  BY <1>1, <1>7, <1>9
<1> QED BY <1>7, <1>8, <1>10

LEMMA YearsGrow ==
  ASSUME NEW y \in Nat, NEW z \in Nat, y < z
  PROVE  YearDays(y + 1) <= YearDays(z)
<1> DEFINE S == {n \in Nat : YearDays(y + 1) <= YearDays(y + 1 + n)}
<1>1. 0 \in S
  <2>1. y + 1 + 0 = y + 1 /\ YearDays(y + 1) \in Int
    BY YearDaysAre
  <2> QED BY <2>1
<1>2. ASSUME NEW n \in Nat, n \in S PROVE n + 1 \in S
  <2>1. y + 1 + n \in Nat /\ y + 1 \in Nat /\ y + 1 + (n + 1) = (y + 1 + n) + 1
    OBVIOUS
  <2>2. YearDays(y + 1) \in Int /\ YearDays(y + 1 + n) \in Int
    BY <2>1, YearDaysAre
  <2>3. YearDays((y + 1 + n) + 1) = YearDays(y + 1 + n) + 365 + LeapOne((y + 1 + n) + 1)
        /\ LeapOne((y + 1 + n) + 1) \in {0, 1}
    BY <2>1, NextYear
  <2>4. YearDays(y + 1) <= YearDays(y + 1 + n)
    BY <1>2
  <2>5. YearDays(y + 1) <= YearDays((y + 1 + n) + 1)
    BY <2>2, <2>3, <2>4
  <2> QED BY <2>1, <2>5
<1> HIDE DEF S
<1>3. z - y - 1 \in Nat /\ y + 1 + (z - y - 1) = z
  OBVIOUS
<1>4. z - y - 1 \in S
  BY <1>1, <1>2, <1>3, NatSetInduction
<1> QED BY <1>3, <1>4 DEF S

(* The year in which a day is, and the place of the day in it *)
LEMMA OneYear ==
  ASSUME NEW y \in Nat, NEW z \in Nat, NEW n \in Int, YearDays(y) <= n, n < YearDays(y + 1),
         YearDays(z) <= n, n < YearDays(z + 1)
  PROVE  y = z
<1>1. YearDays(y) \in Int /\ YearDays(z) \in Int /\ YearDays(y + 1) \in Int /\ YearDays(z + 1) \in Int
  <2>1. y + 1 \in Nat /\ z + 1 \in Nat
    OBVIOUS
  <2> QED BY <2>1, YearDaysAre
<1>2. ~(y < z)
  BY <1>1, YearsGrow
<1>3. ~(z < y)
  BY <1>1, YearsGrow
<1> QED BY <1>2, <1>3
----------------------------------------------------------------------------
(* Months *)

LEMMA Twelve ==
  ASSUME NEW m \in 1..12
  PROVE  m = 1 \/ m = 2 \/ m = 3 \/ m = 4 \/ m = 5 \/ m = 6 \/ m = 7 \/ m = 8 \/ m = 9 \/ m = 10 \/ m = 11 \/ m = 12
OBVIOUS

LEMMA DaysBeforeAre ==
  /\ DaysBefore(1) = 0 /\ DaysBefore(2) = 31 /\ DaysBefore(3) = 61 /\ DaysBefore(4) = 92
  /\ DaysBefore(5) = 122 /\ DaysBefore(6) = 153 /\ DaysBefore(7) = 184 /\ DaysBefore(8) = 214
  /\ DaysBefore(9) = 245 /\ DaysBefore(10) = 275 /\ DaysBefore(11) = 306 /\ DaysBefore(12) = 337
BY DEF DaysBefore

(* The days of a month of the year that starts in March *)
MarchLength(mon) == IF mon <= 10 THEN MonthDays[mon + 2] ELSE IF mon = 11 THEN 31 ELSE 29

LEMMA MarchLengths ==
  /\ MarchLength(1) = 31 /\ MarchLength(2) = 30 /\ MarchLength(3) = 31 /\ MarchLength(4) = 30
  /\ MarchLength(5) = 31 /\ MarchLength(6) = 31 /\ MarchLength(7) = 30 /\ MarchLength(8) = 31
  /\ MarchLength(9) = 30 /\ MarchLength(10) = 31 /\ MarchLength(11) = 31 /\ MarchLength(12) = 29
<1>1. /\ 1 + 2 = 3 /\ 2 + 2 = 4 /\ 3 + 2 = 5 /\ 4 + 2 = 6 /\ 5 + 2 = 7 /\ 6 + 2 = 8 /\ 7 + 2 = 9
      /\ 8 + 2 = 10 /\ 9 + 2 = 11 /\ 10 + 2 = 12
  OBVIOUS
<1> QED BY <1>1 DEF MarchLength, MonthDays

MonthAt(yday) == ((yday + 31) * 10) \div 306

(* The month that the division finds has the day. *)
LEMMA MonthIsFound ==
  ASSUME NEW yday \in 0..365
  PROVE  /\ MonthAt(yday) \in 1..12
         /\ yday - DaysBefore(MonthAt(yday)) \in 0..MarchLength(MonthAt(yday)) - 1
         /\ yday >= 306 <=> MonthAt(yday) >= 11
<1> DEFINE m == MonthAt(yday)
<1>1. m \in Int /\ 306 * m <= (yday + 31) * 10 /\ (yday + 31) * 10 < 306 * m + 306
  BY DEF MonthAt
<1> HIDE DEF m
<1>2. m \in 1..12
  BY <1>1
<1>3. yday - DaysBefore(m) \in 0..MarchLength(m) - 1
  BY <1>1, <1>2, Twelve, DaysBeforeAre, MarchLengths
<1>4. yday >= 306 <=> m >= 11
  BY <1>1, <1>2
<1> QED BY <1>2, <1>3, <1>4 DEF m

(* And no other has it. *)
LEMMA OneMonth ==
  ASSUME NEW mon \in 1..12, NEW k \in 0..MarchLength(mon) - 1
  PROVE  MonthAt(DaysBefore(mon) + k) = mon /\ DaysBefore(mon) + k \in 0..365
<1>1. DaysBefore(mon) + k \in 0..365
  BY Twelve, DaysBeforeAre, MarchLengths
<1> DEFINE n == DaysBefore(mon) + k
<1>2. 306 * mon <= (n + 31) * 10 /\ (n + 31) * 10 < 306 * mon + 306
  BY Twelve, DaysBeforeAre, MarchLengths
<1> HIDE DEF n
<1>3. ((n + 31) * 10) \div 306 = mon
  BY <1>1, <1>2 DEF n
<1> QED BY <1>1, <1>3 DEF n, MonthAt

LEMMA MonthStartsNext ==
  ASSUME NEW y \in Nat
  PROVE  MonthStarts(y) = [m \in 1..12 |-> IF m = 1 THEN 0 ELSE MonthStarts(y)[m - 1] + DaysIn(y, m - 1)]
<1> DEFINE l == LeapOne(y)
           table == <<0, 31, 59 + l, 90 + l, 120 + l, 151 + l, 181 + l, 212 + l, 243 + l, 273 + l, 304 + l, 334 + l>>
           f == [m \in 1..12 |-> table[m]]
<1>1. l \in {0, 1}
  BY DEF LeapOne
<1>2. ASSUME NEW m \in 1..12 PROVE f[m] = IF m = 1 THEN 0 ELSE f[m - 1] + DaysIn(y, m - 1)
  <2> HIDE DEF l
  <2>1. /\ DaysIn(y, 2) = 28 + l
        /\ DaysIn(y, 1) = 31 /\ DaysIn(y, 3) = 31 /\ DaysIn(y, 4) = 30 /\ DaysIn(y, 5) = 31
        /\ DaysIn(y, 6) = 30 /\ DaysIn(y, 7) = 31 /\ DaysIn(y, 8) = 31 /\ DaysIn(y, 9) = 30
        /\ DaysIn(y, 10) = 31 /\ DaysIn(y, 11) = 30
    BY February, OtherMonths DEF l
  <2>2. /\ f[1] = 0 /\ f[2] = 31 /\ f[3] = 59 + l /\ f[4] = 90 + l /\ f[5] = 120 + l /\ f[6] = 151 + l
        /\ f[7] = 181 + l /\ f[8] = 212 + l /\ f[9] = 243 + l /\ f[10] = 273 + l /\ f[11] = 304 + l
        /\ f[12] = 334 + l
    OBVIOUS
  <2>3. /\ 2 - 1 = 1 /\ 3 - 1 = 2 /\ 4 - 1 = 3 /\ 5 - 1 = 4 /\ 6 - 1 = 5 /\ 7 - 1 = 6 /\ 8 - 1 = 7
        /\ 9 - 1 = 8 /\ 10 - 1 = 9 /\ 11 - 1 = 10 /\ 12 - 1 = 11
    OBVIOUS
  <2> HIDE DEF f
  <2> QED BY <1>1, <2>1, <2>2, <2>3, Twelve
<1> HIDE DEF table
<1>3. f = [m \in 1..12 |-> IF m = 1 THEN 0 ELSE f[m - 1] + DaysIn(y, m - 1)]
  BY <1>2
<1> HIDE DEF f
<1>4. \E g : g = [m \in 1..12 |-> IF m = 1 THEN 0 ELSE g[m - 1] + DaysIn(y, m - 1)]
  BY <1>3
<1> QED BY <1>4 DEF MonthStarts

LEMMA MonthStartsAre ==
  ASSUME NEW y \in Nat
  PROVE  /\ MonthStarts(y)[1] = 0 /\ MonthStarts(y)[2] = 31
         /\ \A mon \in 1..10 : MonthStarts(y)[mon + 2] = 59 + LeapOne(y) + DaysBefore(mon)
<1> DEFINE f == MonthStarts(y)
           l == LeapOne(y)
<1>1. \A m \in 1..12 : f[m] = IF m = 1 THEN 0 ELSE f[m - 1] + DaysIn(y, m - 1)
  <2> HIDE DEF f
  <2>1. f = [m \in 1..12 |-> IF m = 1 THEN 0 ELSE f[m - 1] + DaysIn(y, m - 1)]
    BY MonthStartsNext DEF f
  <2> QED BY <2>1
<1>2. l \in {0, 1}
  BY DEF LeapOne
<1>3. /\ DaysIn(y, 2) = 28 + l
      /\ DaysIn(y, 1) = 31 /\ DaysIn(y, 3) = 31 /\ DaysIn(y, 4) = 30 /\ DaysIn(y, 5) = 31
      /\ DaysIn(y, 6) = 30 /\ DaysIn(y, 7) = 31 /\ DaysIn(y, 8) = 31 /\ DaysIn(y, 9) = 30
      /\ DaysIn(y, 10) = 31 /\ DaysIn(y, 11) = 30
  BY February, OtherMonths
<1> HIDE DEF f, l
<1>4. f[1] = 0 /\ f[2] = f[1] + DaysIn(y, 1) /\ f[3] = f[2] + DaysIn(y, 2) /\ f[4] = f[3] + DaysIn(y, 3)
  BY <1>1
<1>5. f[5] = f[4] + DaysIn(y, 4) /\ f[6] = f[5] + DaysIn(y, 5) /\ f[7] = f[6] + DaysIn(y, 6) /\ f[8] = f[7] + DaysIn(y, 7)
  BY <1>1
<1>6. f[9] = f[8] + DaysIn(y, 8) /\ f[10] = f[9] + DaysIn(y, 9) /\ f[11] = f[10] + DaysIn(y, 10) /\ f[12] = f[11] + DaysIn(y, 11)
  BY <1>1
<1>7. f[1] = 0 /\ f[2] = 31 /\ f[3] = 59 + l /\ f[4] = 90 + l
  BY <1>2, <1>3, <1>4
<1>8. f[5] = 120 + l /\ f[6] = 151 + l /\ f[7] = 181 + l /\ f[8] = 212 + l
  BY <1>2, <1>3, <1>5, <1>7
<1>9. f[9] = 243 + l /\ f[10] = 273 + l /\ f[11] = 304 + l /\ f[12] = 334 + l
  BY <1>2, <1>3, <1>6, <1>8
<1>10. ASSUME NEW mon \in 1..10 PROVE f[mon + 2] = 59 + l + DaysBefore(mon)
  <2>1. mon = 1 \/ mon = 2 \/ mon = 3 \/ mon = 4 \/ mon = 5 \/ mon = 6 \/ mon = 7 \/ mon = 8 \/ mon = 9 \/ mon = 10
    OBVIOUS
  <2>2. /\ 1 + 2 = 3 /\ 2 + 2 = 4 /\ 3 + 2 = 5 /\ 4 + 2 = 6 /\ 5 + 2 = 7 /\ 6 + 2 = 8 /\ 7 + 2 = 9
        /\ 8 + 2 = 10 /\ 9 + 2 = 11 /\ 10 + 2 = 12
    OBVIOUS
  <2> QED BY <1>2, <1>7, <1>8, <1>9, <2>1, <2>2, DaysBeforeAre
<1> QED BY <1>7, <1>10 DEF f, l

LEMMA MonthStartIs ==
  ASSUME NEW y \in Nat, NEW m \in 1..12
  PROVE  MonthStarts(y)[m] \in Int
<1>1. LeapOne(y) \in Int
  BY DEF LeapOne
<1>2. CASE m <= 2
  BY <1>2, MonthStartsAre
<1>3. CASE m >= 3
  <2> DEFINE mon == m - 2
  <2>1. mon \in 1..10 /\ m = mon + 2
    BY <1>3
  <2> HIDE DEF mon
  <2>2. MonthStarts(y)[mon + 2] = 59 + LeapOne(y) + DaysBefore(mon) /\ DaysBefore(mon) \in Int
    BY <2>1, MonthStartsAre DEF DaysBefore
  <2> QED BY <1>1, <2>1, <2>2
<1> QED BY <1>2, <1>3
----------------------------------------------------------------------------
(* The date of month mon of the March year y, and back *)

CivilYear(y, mon) == IF mon >= 11 THEN y + 1 ELSE y
CivilMonth(mon) == IF mon >= 11 THEN mon - 10 ELSE mon + 2
MarchYear(year, month) == IF month <= 2 THEN year - 1 ELSE year
MarchMonth(month) == IF month <= 2 THEN month + 10 ELSE month - 2

LEMMA MarchAndBack ==
  /\ \A year \in Nat \ {0}, month \in 1..12 :
       /\ MarchYear(year, month) \in Nat /\ MarchMonth(month) \in 1..12
       /\ CivilYear(MarchYear(year, month), MarchMonth(month)) = year /\ CivilMonth(MarchMonth(month)) = month
  /\ \A y \in Nat, mon \in 1..12 :
       /\ CivilYear(y, mon) \in Nat /\ CivilMonth(mon) \in 1..12
       /\ MarchYear(CivilYear(y, mon), CivilMonth(mon)) = y /\ MarchMonth(CivilMonth(mon)) = mon
BY DEF MarchYear, MarchMonth, CivilYear, CivilMonth

(* The days before a month, counted, are those of the March calendar. *)
LEMMA CountedDays ==
  ASSUME NEW y \in Nat, NEW mon \in 1..12, CivilYear(y, mon) # 0
  PROVE  LET year == CivilYear(y, mon)
         IN  365 * (year - 1) + LeapYears(year - 1) + MonthStarts(year)[CivilMonth(mon)]
               = YearDays(y) + DaysBefore(mon) - 306
<1> DEFINE year == CivilYear(y, mon)
<1>1. YearDays(y) = 365 * y + LeapDays(y) /\ YearDays(y) \in Int /\ LeapYears(y) = LeapDays(y) /\ LeapDays(y) \in Int
  BY YearDaysAre, LeapYearsCount, LeapDaysNext
<1>2. CASE mon = 11 \/ mon = 12
  <2>1. year = y + 1 /\ year - 1 = y /\ year \in Nat /\ CivilMonth(mon) = mon - 10
    BY <1>2 DEF CivilYear, CivilMonth
  <2> HIDE DEF year
  <2>2. MonthStarts(year)[CivilMonth(mon)] = DaysBefore(mon) - 306
    <3>1. MonthStarts(year)[1] = 0 /\ MonthStarts(year)[2] = 31
      BY <2>1, MonthStartsAre
    <3>2. 11 - 10 = 1 /\ 12 - 10 = 2
      OBVIOUS
    <3> QED BY <1>2, <2>1, <3>1, <3>2, DaysBeforeAre
  <2>3. DaysBefore(mon) \in Int
    BY <1>2, DaysBeforeAre
  <2> QED BY <1>1, <2>1, <2>2, <2>3 DEF year
<1>3. CASE mon \in 1..10
  <2>1. year = y /\ y # 0 /\ y - 1 \in Nat /\ CivilMonth(mon) = mon + 2 /\ y - 1 + 1 = y
    BY <1>3 DEF CivilYear, CivilMonth
  <2> HIDE DEF year
  <2>2. MonthStarts(y)[mon + 2] = 59 + LeapOne(y) + DaysBefore(mon)
    BY <1>3, MonthStartsAre
  <2>3. LeapDays(y) = LeapDays(y - 1) + LeapOne(y) /\ LeapDays(y - 1) \in Int /\ LeapYears(y - 1) = LeapDays(y - 1)
    BY <2>1, LeapDaysNext, LeapYearsCount
  <2>4. DaysBefore(mon) \in Int /\ LeapOne(y) \in Int
    BY DEF DaysBefore, LeapOne
  <2>5. 365 * (y - 1) + LeapYears(y - 1) + MonthStarts(y)[mon + 2] = YearDays(y) + DaysBefore(mon) - 306
    BY <1>1, <2>1, <2>2, <2>3, <2>4
  <2> QED BY <2>1, <2>5 DEF year
<1> QED BY <1>2, <1>3

(* A day number k from the start of a month is a day of that month. *)
DayFits(day, month, year) == day <= MonthDays[month] \/ (day = 29 /\ month = 2 /\ Leap(year))

LEMMA FittingDays ==
  ASSUME NEW y \in Nat, NEW mon \in 1..12, NEW k \in Nat
  PROVE  DayFits(k + 1, CivilMonth(mon), CivilYear(y, mon)) <=>
           k \in 0..MarchLength(mon) - 1 /\ DaysBefore(mon) + k <= 364 + LeapOne(y + 1)
<1>1. CASE mon = 12
  <2>1. CivilMonth(mon) = 2 /\ CivilYear(y, mon) = y + 1 /\ MonthDays[2] = 28 /\ MarchLength(mon) = 29 /\ DaysBefore(mon) = 337
    BY <1>1, MarchLengths, DaysBeforeAre DEF CivilMonth, CivilYear, MonthDays
  <2>2. LeapOne(y + 1) = IF Leap(y + 1) THEN 1 ELSE 0
    BY DEF LeapOne
  <2> QED BY <2>1, <2>2 DEF DayFits
<1>2. CASE mon \in 1..11
  <2>1. CivilMonth(mon) # 2 /\ MonthDays[CivilMonth(mon)] = MarchLength(mon) /\ MarchLength(mon) \in 1..31
    <3>1. CASE mon = 11
      <4>1. MonthDays[1] = 31 /\ 11 - 10 = 1
        BY DEF MonthDays
      <4> QED BY <3>1, <4>1, MarchLengths DEF CivilMonth
    <3>2. CASE mon \in 1..10
      <4>1. CivilMonth(mon) = mon + 2 /\ MarchLength(mon) = MonthDays[mon + 2]
        BY <3>2 DEF CivilMonth, MarchLength
      <4>2. MarchLength(mon) \in 1..31
        BY Twelve, MarchLengths
      <4> QED BY <3>2, <4>1, <4>2
    <3> QED BY <1>2, <3>1, <3>2
  <2>2. DaysBefore(mon) + MarchLength(mon) <= 337 /\ DaysBefore(mon) \in Int
    BY <1>2, Twelve, DaysBeforeAre, MarchLengths
  <2>3. LeapOne(y + 1) \in {0, 1}
    BY DEF LeapOne
  <2> QED BY <2>1, <2>2, <2>3 DEF DayFits
<1> QED BY <1>1, <1>2

----------------------------------------------------------------------------
(* Splitting a time *)

Guess(n) == 1 + (((n + 306) * 400) \div YearDays(400))
Late(n) == n + 306 < YearDays(Guess(n))
YearOf(n) == IF Late(n) THEN Guess(n) - 1 ELSE Guess(n)
InYear(n) == (n + 306) - YearDays(Guess(n)) + IF Late(n) THEN (IF Leap(Guess(n)) THEN 366 ELSE 365) ELSE 0

(* The year guessed from the mean length is right or one too many. *)
LEMMA YearIsFound ==
  ASSUME NEW n \in Nat
  PROVE  /\ YearOf(n) \in Nat /\ InYear(n) \in 0..364 + LeapOne(YearOf(n) + 1)
         /\ LeapOne(YearOf(n) + 1) \in {0, 1}
         /\ n + 306 = YearDays(YearOf(n)) + InYear(n)
<1> DEFINE days == n + 306
           q == (days * 400) \div 146097
<1>1. YearDays(400) = 146097
  BY DEF YearDays
<1>2. Guess(n) = q + 1 /\ q \in Nat
  BY <1>1 DEF Guess
<1>3. 146097 * q <= 400 * days /\ 400 * days < 146097 * q + 146097 /\ days \in Nat
  OBVIOUS
<1> HIDE DEF q, days
<1>4. /\ YearDays(q) \in Int /\ YearDays(q + 1) \in Int /\ YearDays(q + 2) \in Int
      /\ 400 * YearDays(q) <= 146097 * q + 297 /\ 400 * YearDays(q + 1) >= 146097 * (q + 1) - 600
  <2>1. q + 1 \in Nat /\ q + 2 \in Nat
    BY <1>2
  <2>2. YearDays(q) \in Int /\ YearDays(q + 1) \in Int /\ YearDays(q + 2) \in Int
    BY <1>2, <2>1, YearDaysAre
  <2>3. 400 * YearDays(q) <= 146097 * q + 297
    BY <1>2, MeanYear
  <2>4. 400 * YearDays(q + 1) >= 146097 * (q + 1) - 600
    BY <2>1, MeanYear
  <2> QED BY <2>2, <2>3, <2>4
<1>5. YearDays(q + 1) = YearDays(q) + 365 + LeapOne(q + 1) /\ LeapOne(q + 1) \in {0, 1}
  BY <1>2, NextYear
<1>6. YearDays(q + 2) = YearDays(q + 1) + 365 + LeapOne(q + 2) /\ LeapOne(q + 2) \in {0, 1}
  <2>1. q + 1 \in Nat /\ q + 1 + 1 = q + 2
    BY <1>2
  <2> QED BY <2>1, NextYear
<1>7. YearDays(q) <= days
  BY <1>2, <1>3, <1>4
<1>8. days < YearDays(q + 2)
  BY <1>2, <1>3, <1>4, <1>6
<1>0. Late(n) <=> days < YearDays(q + 1)
  BY <1>2 DEF Late, days
<1>9. CASE days < YearDays(q + 1)
  <2>1. YearOf(n) = q
    BY <1>0, <1>2, <1>9 DEF YearOf
  <2>3. InYear(n) = days - YearDays(q + 1) + IF Leap(q + 1) THEN 366 ELSE 365
    <3>1. InYear(n) = (n + 306) - YearDays(Guess(n)) + (IF Late(n) THEN (IF Leap(Guess(n)) THEN 366 ELSE 365) ELSE 0)
      BY DEF InYear
    <3>2. Late(n)
      BY <1>0, <1>9
    <3>3. InYear(n) = (n + 306) - YearDays(Guess(n)) + (IF Leap(Guess(n)) THEN 366 ELSE 365)
      BY <3>1, <3>2
    <3>4. YearDays(Guess(n)) = YearDays(q + 1) /\ (Leap(Guess(n)) <=> Leap(q + 1)) /\ days = n + 306
      BY <1>2 DEF days
    <3> QED BY <1>3, <1>4, <3>3, <3>4
  <2>2. InYear(n) = days - YearDays(q)
    BY <1>3, <1>4, <1>5, <2>3 DEF LeapOne
  <2> QED BY <1>2, <1>3, <1>4, <1>5, <1>7, <1>9, <2>1, <2>2 DEF days
<1>10. CASE ~(days < YearDays(q + 1))
  <2>1. YearOf(n) = q + 1 /\ InYear(n) = days - YearDays(q + 1)
    BY <1>0, <1>2, <1>3, <1>4, <1>10 DEF YearOf, InYear, days
  <2>2. q + 1 + 1 = q + 2
    BY <1>2
  <2> QED BY <1>2, <1>3, <1>4, <1>6, <1>8, <1>10, <2>1, <2>2 DEF days
<1> QED BY <1>9, <1>10

LEMMA SplitIs ==
  ASSUME NEW t \in Times, t.day \in Nat
  PROVE  LET n == t.day
             d == fftime_split1(t)
             mon == MonthAt(InYear(n))
         IN  /\ d.year = CivilYear(YearOf(n), mon) /\ d.month = CivilMonth(mon)
             /\ d.day = InYear(n) - DaysBefore(mon) + 1
             /\ d.hour = t.sod \div 3600 /\ d.minute = (t.sod % 3600) \div 60 /\ d.second = t.sod % 60
             /\ d.nanosecond = t.nsec
             /\ d.yearday = 1 + IF InYear(n) >= 306 THEN InYear(n) - 306 ELSE InYear(n) + 59 + LeapOne(YearOf(n))
             /\ mon \in 1..12 /\ InYear(n) \in 0..365
             /\ InYear(n) - DaysBefore(mon) \in 0..MarchLength(mon) - 1
             /\ InYear(n) >= 306 <=> mon >= 11
<1> DEFINE n == t.day
           yday == InYear(n)
           mon == MonthAt(yday)
           year == YearOf(n)
           winter == yday >= 306
           d == fftime_split1(t)
<1>1. yday \in 0..365
  <2>1. n \in Nat
    OBVIOUS
  <2> HIDE DEF n
  <2>2. InYear(n) \in 0..364 + LeapOne(YearOf(n) + 1) /\ LeapOne(YearOf(n) + 1) \in {0, 1}
    BY <2>1, YearIsFound
  <2> QED BY <2>2
<1>2. mon \in 1..12 /\ yday - DaysBefore(mon) \in 0..MarchLength(mon) - 1 /\ (yday >= 306 <=> mon >= 11)
  <2> HIDE DEF yday
  <2> QED BY <1>1, MonthIsFound
<1>3. d = [year |-> IF winter THEN year + 1 ELSE year,
           month |-> IF winter THEN mon - 10 ELSE mon + 2,
           day |-> yday - DaysBefore(mon) + 1,
           hour |-> t.sod \div 3600, minute |-> (t.sod % 3600) \div 60, second |-> t.sod % 60,
           nanosecond |-> t.nsec,
           weekday |-> (1 + t.day) % 7,
           yearday |-> 1 + IF winter THEN yday - 306 ELSE yday + 31 + 28 + (IF Leap(year) THEN 1 ELSE 0)]
  <2> DEFINE days == t.day + 306
             guess == 1 + ((days * 400) \div YearDays(400))
             late == days < YearDays(guess)
             year0 == IF late THEN guess - 1 ELSE guess
             yday0 == days - YearDays(guess) + IF late THEN (IF Leap(guess) THEN 366 ELSE 365) ELSE 0
             mon0 == ((yday0 + 31) * 10) \div 306
             winter0 == yday0 >= 306
  <2>1. d = [year |-> IF winter0 THEN year0 + 1 ELSE year0,
             month |-> IF winter0 THEN mon0 - 10 ELSE mon0 + 2,
             day |-> yday0 - DaysBefore(mon0) + 1,
             hour |-> t.sod \div 3600, minute |-> (t.sod % 3600) \div 60, second |-> t.sod % 60,
             nanosecond |-> t.nsec,
             weekday |-> (1 + t.day) % 7,
             yearday |-> 1 + IF winter0 THEN yday0 - 306 ELSE yday0 + 31 + 28 + (IF Leap(year0) THEN 1 ELSE 0)]
    BY DEF fftime_split1
  <2>2. guess = Guess(n)
    BY DEF Guess
  <2> HIDE DEF guess
  <2>3. late <=> Late(n)
    BY <2>2 DEF Late
  <2>4. yday0 = yday
    <3> HIDE DEF late
    <3>1. yday = days - YearDays(Guess(n)) + IF Late(n) THEN (IF Leap(Guess(n)) THEN 366 ELSE 365) ELSE 0
      BY DEF InYear
    <3> HIDE DEF yday, days
    <3> QED BY <2>2, <2>3, <3>1
  <2>5. year0 = year
    <3> HIDE DEF late
    <3> QED BY <2>2, <2>3 DEF YearOf
  <2> HIDE DEF yday0, year0, d, late, days
  <2>6. mon0 = mon /\ (winter0 <=> winter)
    <3> HIDE DEF yday
    <3> QED BY <2>4 DEF MonthAt
  <2> HIDE DEF yday, year, mon, mon0, winter, winter0, n
  <2> QED BY <2>1, <2>4, <2>5, <2>6
<1> HIDE DEF d, yday, mon, year, n
<1>4. d.yearday = 1 + IF yday >= 306 THEN yday - 306 ELSE yday + 59 + LeapOne(YearOf(n))
  <2>1. yday \in Int
    BY <1>1
  <2> QED BY <1>3, <2>1 DEF LeapOne, year
<1>5. d.year = CivilYear(year, mon) /\ d.month = CivilMonth(mon)
  BY <1>2, <1>3 DEF CivilYear, CivilMonth
<1> QED BY <1>1, <1>2, <1>3, <1>4, <1>5 DEF d, yday, mon, year, n

----------------------------------------------------------------------------
(* Joining a date *)

(* The provers write out a range with a large end, so the length of a day  *)
(* and of a second stay names wherever a range of them is in sight.        *)
LEMMA SecondIs == Second \in Nat \ {0} /\ SecondsPerDay \in Nat \ {0}
BY SMT DEF Second, SecondsPerDay

LEMMA InDay ==
  ASSUME NEW n
  PROVE  n \in 0..SecondsPerDay - 1 <=> n \in Nat /\ n < SecondsPerDay
BY SecondIs

LEMMA InDayIs ==
  ASSUME NEW n
  PROVE  n \in 0..SecondsPerDay - 1 <=> n \in Nat /\ n < 86400
<1> DEFINE day == 0..SecondsPerDay - 1
<1>1. SecondsPerDay = 86400
  BY SMT DEF SecondsPerDay
<1>2. n \in day <=> n \in Nat /\ n < SecondsPerDay
  BY InDay
<1> HIDE DEF day
<1>3. n \in day <=> n \in Nat /\ n < 86400
  BY <1>1, <1>2, SMT
<1> QED BY <1>3 DEF day

LEMMA TimeIs ==
  ASSUME NEW day \in Int, NEW sod \in 0..SecondsPerDay - 1, NEW nsec
  PROVE  Time(day, sod, nsec) = [day |-> day, sod |-> sod, nsec |-> nsec]
<1>1. sod \div SecondsPerDay = 0 /\ sod % SecondsPerDay = sod
  BY SecondIs
<1> QED BY <1>1 DEF Time

(* A month above 12 is carried to the year. *)
CarriedYear(d) == d.year + ((d.month - 1) \div 12)
CarriedMonth(d) == ((d.month - 1) % 12) + 1
FirstDay(year, month) == YearDays(MarchYear(year, month)) + DaysBefore(MarchMonth(month)) - 306
HourOf(sod) == sod \div 3600
MinuteOf(sod) == (sod % 3600) \div 60
SecondOf(sod) == sod % 60
Clock(h, m, s) == h * 3600 + m * 60 + s
Seconds(d) == Clock(d.hour, d.minute, d.second)

LEMMA CarriedFacts ==
  ASSUME NEW d, d.year \in Nat \ {0}, d.month \in Nat \ {0}
  PROVE  /\ CarriedYear(d) \in Nat \ {0} /\ CarriedMonth(d) \in 1..12
         /\ d.month <= 12 => CarriedYear(d) = d.year /\ CarriedMonth(d) = d.month
<1> DEFINE m == d.month
           y == d.year
<1>1. (m - 1) \div 12 \in Nat /\ (m - 1) % 12 \in 0..11 /\ (m <= 12 => (m - 1) \div 12 = 0 /\ (m - 1) % 12 = m - 1)
  <2>1. m \in Nat \ {0}
    OBVIOUS
  <2> HIDE DEF m
  <2> QED BY <2>1
<1>2. CarriedYear(d) = y + ((m - 1) \div 12) /\ CarriedMonth(d) = ((m - 1) % 12) + 1 /\ y \in Nat \ {0} /\ m \in Nat \ {0}
  BY DEF CarriedYear, CarriedMonth
<1> HIDE DEF m, y
<1>3. CarriedYear(d) \in Nat \ {0} /\ CarriedMonth(d) \in 1..12 /\ (m <= 12 => CarriedYear(d) = y /\ CarriedMonth(d) = m)
  BY <1>1, <1>2
<1> QED BY <1>3 DEF m, y

LEMMA JoinIs ==
  ASSUME NEW d, d.year \in Nat \ {0}, d.month \in Nat \ {0}, d.day \in Nat \ {0},
         d.hour \in Nat, d.minute \in Nat, d.second \in Nat, d.nanosecond \in 0..Second - 1
  PROVE  fftime_join1(d) = Time(FirstDay(CarriedYear(d), CarriedMonth(d)) + (d.day - 1), Seconds(d), d.nanosecond)
<1> DEFINE over == d.nanosecond >= Second
           sod == d.hour * 3600 + d.minute * 60 + d.second + (IF over THEN d.nanosecond % Second ELSE 0)
           nsec == IF over THEN d.nanosecond \div Second ELSE d.nanosecond
           y == IF d.month > 12 THEN d.year + ((d.month - 1) \div 12) ELSE d.year
           m == (IF d.month > 12 THEN ((d.month - 1) % 12) + 1 ELSE d.month) - 2
           year == IF m <= 0 THEN y - 1 ELSE y
           mon == IF m <= 0 THEN m + 12 ELSE m
<1>1. fftime_join1(d) =
        IF d.year <= 0 \/ d.month = 0 \/ d.day = 0 THEN Time(0, sod, nsec)
        ELSE Time(YearDays(year) - 365 + DaysBefore(mon) + 31 + 28 + d.day - 1, sod, nsec)
  BY DEF fftime_join1
<1>2. ~over
  BY SecondIs
<1>3. nsec = d.nanosecond
  BY <1>2
<1>4. sod = Seconds(d)
  BY <1>2 DEF Seconds, Clock
<1> DEFINE Y == CarriedYear(d)
           M == CarriedMonth(d)
<1>5. Y \in Nat \ {0} /\ M \in 1..12 /\ (d.month <= 12 => Y = d.year /\ M = d.month)
  BY CarriedFacts
<1>6. y = Y /\ m = M - 2
  BY <1>5 DEF CarriedYear, CarriedMonth
<1> HIDE DEF Y, M, over, sod, nsec, y, m
<1>7. year = MarchYear(Y, M) /\ mon = MarchMonth(M)
  BY <1>5, <1>6 DEF MarchYear, MarchMonth
<1>8. MarchYear(Y, M) \in Nat /\ MarchMonth(M) \in 1..12
  BY <1>5, MarchAndBack
<1> HIDE DEF year, mon
<1>9. YearDays(year) \in Int /\ DaysBefore(mon) \in Int
  BY <1>7, <1>8, YearDaysAre DEF DaysBefore
<1>10. YearDays(year) - 365 + DaysBefore(mon) + 31 + 28 + d.day - 1 = FirstDay(Y, M) + (d.day - 1)
  BY <1>7, <1>9 DEF FirstDay
<1> QED BY <1>1, <1>3, <1>4, <1>10 DEF Y, M

(* A date without a day is only its clock. *)
LEMMA SkippedIs ==
  ASSUME NEW d, d.year \in Nat, d.year = 0 \/ d.month = 0 \/ d.day = 0,
         d.hour \in Nat, d.minute \in Nat, d.second \in Nat, d.nanosecond \in Nat, d.nanosecond < Second
  PROVE  fftime_join1(d) = Time(0, Seconds(d), d.nanosecond)
<1> DEFINE over == d.nanosecond >= Second
           sod == d.hour * 3600 + d.minute * 60 + d.second + (IF over THEN d.nanosecond % Second ELSE 0)
           nsec == IF over THEN d.nanosecond \div Second ELSE d.nanosecond
<1>1. fftime_join1(d) = Time(0, sod, nsec)
  BY DEF fftime_join1
<1>2. ~over
  BY SecondIs
<1>3. nsec = d.nanosecond
  BY <1>2
<1>4. sod = Seconds(d)
  BY <1>2 DEF Seconds, Clock
<1> QED BY <1>1, <1>3, <1>4

(* The first day of a month, counted *)
Counted(year, month) == 365 * (year - 1) + LeapYears(year - 1) + MonthStarts(year)[month]

LEMMA FirstDayIsCounted ==
  ASSUME NEW year \in Nat \ {0}, NEW month \in 1..12
  PROVE  /\ FirstDay(year, month) \in Nat
         /\ Counted(year, month) = FirstDay(year, month)
<1> DEFINE y == MarchYear(year, month)
           mon == MarchMonth(month)
<1>1. y \in Nat /\ mon \in 1..12 /\ CivilYear(y, mon) = year /\ CivilMonth(mon) = month
  BY MarchAndBack
<1>2. FirstDay(year, month) = YearDays(y) + DaysBefore(mon) - 306
  BY DEF FirstDay
<1>3. y = 0 => mon >= 11
  BY DEF MarchYear, MarchMonth
<1> HIDE DEF y, mon
<1>4. 365 * (year - 1) + LeapYears(year - 1) + MonthStarts(year)[month] = YearDays(y) + DaysBefore(mon) - 306
  BY <1>1, CountedDays
<1>5. YearDays(y) \in Int /\ (y >= 1 => YearDays(y) >= 365)
  <2>1. YearDays(y) = 365 * y + LeapDays(y) /\ LeapDays(y) \in Int /\ LeapDays(y) >= 0
    BY <1>1, YearDaysAre, LeapDaysGrow
  <2> QED BY <1>1, <2>1
<1>6. DaysBefore(mon) \in Nat /\ (mon >= 11 => DaysBefore(mon) >= 306)
  BY <1>1, Twelve, DaysBeforeAre
<1>7. FirstDay(year, month) \in Nat
  <2>1. CASE y = 0
    <3>1. YearDays(0) = 0
      BY DEF YearDays
    <3> QED BY <1>2, <1>3, <1>6, <2>1, <3>1
  <2>2. CASE y >= 1
    BY <1>2, <1>5, <1>6, <2>2
  <2> QED BY <1>1, <2>1, <2>2
<1> QED BY <1>2, <1>4, <1>7 DEF Counted

----------------------------------------------------------------------------
(* The days *)

LEMMA ClockIs ==
  ASSUME NEW s \in Nat, s < 86400
  PROVE  /\ s \div 3600 \in 0..23 /\ (s % 3600) \div 60 \in 0..59 /\ s % 60 \in 0..59
         /\ (s \div 3600) * 3600 + ((s % 3600) \div 60) * 60 + (s % 60) = s
<1> DEFINE h == s \div 3600
           r == s % 3600
           m == r \div 60
<1>1. h \in 0..23 /\ r \in Nat /\ r < 3600 /\ s = 3600 * h + r
  OBVIOUS
<1>2. s % 60 = r % 60
  OBVIOUS
<1> HIDE DEF h, r
<1>3. m \in 0..59 /\ r % 60 \in 0..59 /\ r = 60 * m + (r % 60)
  BY <1>1
<1> HIDE DEF m
<1>4. h * 3600 + m * 60 + (r % 60) = s
  BY <1>1, <1>3
<1> QED BY <1>1, <1>2, <1>3, <1>4 DEF h, m, r

LEMMA SplitIsValid ==
  ASSUME NEW t \in Times, t.day \in Nat, NEW d, d = fftime_split1(t)
  PROVE  /\ fftime_valid(d)
         /\ d.year \in Nat \ {0} /\ d.month \in 1..12 /\ d.day \in Nat \ {0}
         /\ d.hour \in 0..23 /\ d.minute \in 0..59 /\ d.second \in 0..59 /\ d.nanosecond \in 0..Second - 1
         /\ d.nanosecond = t.nsec /\ Seconds(d) = t.sod
         /\ FirstDay(d.year, d.month) + (d.day - 1) = t.day
<1> DEFINE n == t.day
           y == YearOf(n)
           yday == InYear(n)
           mon == MonthAt(yday)
           k == yday - DaysBefore(mon)
<1>1. /\ d.year = CivilYear(y, mon) /\ d.month = CivilMonth(mon) /\ d.day = k + 1
      /\ d.hour = t.sod \div 3600 /\ d.minute = (t.sod % 3600) \div 60 /\ d.second = t.sod % 60
      /\ d.nanosecond = t.nsec
      /\ mon \in 1..12 /\ yday \in 0..365
      /\ k \in 0..MarchLength(mon) - 1
      /\ (yday >= 306 <=> mon >= 11)
  BY SplitIs
<1>2. n \in Nat /\ t.sod \in 0..SecondsPerDay - 1 /\ t.nsec \in 0..Second - 1
  BY DEF Times
<1> HIDE DEF n, y, k, mon
<1>3. y \in Nat /\ yday \in 0..364 + LeapOne(y + 1) /\ n + 306 = YearDays(y) + yday
  BY <1>2, YearIsFound DEF y
<1> HIDE DEF yday
<1>4. d.hour \in 0..23 /\ d.minute \in 0..59 /\ d.second \in 0..59 /\ Seconds(d) = t.sod
  <2>1. t.sod \in Nat /\ t.sod < 86400
    BY <1>2, InDayIs
  <2> HIDE DEF yday
  <2> QED BY <1>1, <2>1, ClockIs DEF Seconds, Clock
<1>5. d.nanosecond \in 0..Second - 1 /\ d.nanosecond = t.nsec
  BY <1>1, <1>2
<1>6. CivilYear(y, mon) \in Nat /\ CivilMonth(mon) \in 1..12
      /\ MarchYear(CivilYear(y, mon), CivilMonth(mon)) = y /\ MarchMonth(CivilMonth(mon)) = mon
  <2>1. y \in Nat /\ mon \in 1..12
    BY <1>1, <1>3
  <2> QED BY <2>1, MarchAndBack
<1>7. d.year # 0
  <2>1. CASE y = 0
    <3>1. YearDays(0) = 0
      BY DEF YearDays
    <3>2. mon >= 11
      BY <1>1, <1>2, <1>3, <2>1, <3>1
    <3> QED BY <1>1, <2>1, <3>2 DEF CivilYear
  <2>2. CASE y # 0
    BY <1>1, <1>3, <2>2 DEF CivilYear
  <2> QED BY <2>1, <2>2
<1>8. DaysBefore(mon) \in Int /\ MarchLength(mon) \in Int /\ LeapOne(y + 1) \in Int
  <2>1. MarchLength(mon) \in Int
    BY <1>1, Twelve, MarchLengths
  <2> QED BY <1>1, <2>1 DEF DaysBefore, LeapOne
<1>9. k \in Nat /\ DaysBefore(mon) + k = yday /\ DaysBefore(mon) + k <= 364 + LeapOne(y + 1)
  <2>1. k = yday - DaysBefore(mon)
    BY DEF k
  <2> QED BY <1>1, <1>3, <1>8, <2>1
<1>10. DayFits(k + 1, CivilMonth(mon), CivilYear(y, mon))
  <2>1. y \in Nat /\ mon \in 1..12 /\ k \in Nat
    BY <1>1, <1>3, <1>9
  <2> QED BY <1>1, <1>9, <2>1, FittingDays
<1>11. fftime_valid(d)
  <2>1. d.hour <= 23 /\ d.minute <= 59 /\ d.second <= 59 /\ d.nanosecond <= Second - 1
    BY <1>4, <1>5, SecondIs
  <2>2. d.year # 0 /\ d.month \in 1..12 /\ d.day > 0
    BY <1>1, <1>6, <1>7, <1>9
  <2>3. d.day <= MonthDays[d.month] \/ (d.day = 29 /\ d.month = 2 /\ Leap(d.year))
    BY <1>1, <1>10 DEF DayFits
  <2> QED BY <2>1, <2>2, <2>3 DEF fftime_valid
<1>12. FirstDay(d.year, d.month) = YearDays(y) + DaysBefore(mon) - 306
  BY <1>1, <1>6 DEF FirstDay
<1>13. FirstDay(d.year, d.month) + (d.day - 1) = n
  <2>1. YearDays(y) \in Int
    BY <1>3, YearDaysAre
  <2> QED BY <1>1, <1>2, <1>3, <1>8, <1>9, <1>12, <2>1
<1>14. d.year \in Nat \ {0} /\ d.month \in 1..12 /\ d.day \in Nat \ {0}
  BY <1>1, <1>6, <1>7, <1>9
<1> QED BY <1>4, <1>5, <1>11, <1>13, <1>14 DEF n

LEMMA TimeRecord ==
  ASSUME NEW t \in Times
  PROVE  t = [day |-> t.day, sod |-> t.sod, nsec |-> t.nsec] /\ t.day \in Int /\ t.sod \in 0..SecondsPerDay - 1
         /\ t.nsec \in 0..Second - 1
BY DEF Times

(* The day of the year *)
LEMMA YearDayIs ==
  ASSUME NEW t \in Times, t.day \in Nat, NEW d, d = fftime_split1(t)
  PROVE  YearDay(d) = d.yearday
<1> DEFINE n == t.day
           y == YearOf(n)
           yday == InYear(n)
           mon == MonthAt(yday)
           before == DaysBefore(mon)
<1>1. /\ d.year = CivilYear(y, mon) /\ d.month = CivilMonth(mon) /\ d.day = yday - before + 1
      /\ d.yearday = 1 + IF yday >= 306 THEN yday - 306 ELSE yday + 59 + LeapOne(y)
      /\ mon \in 1..12 /\ yday \in 0..365
      /\ (yday >= 306 <=> mon >= 11)
  BY SplitIs
<1>2. n \in Nat
  OBVIOUS
<1> HIDE DEF n, y, yday, mon, before
<1>3. y \in Nat /\ LeapOne(y) \in Int /\ yday \in Int /\ before \in Int
  BY <1>1, <1>2, YearIsFound DEF y, LeapOne, before, DaysBefore
<1>4. YearDay(d) = (yday - before + 1) + MonthStarts(CivilYear(y, mon))[CivilMonth(mon)]
  BY <1>1 DEF YearDay
<1>5. CASE mon >= 11
  <2>1. CivilYear(y, mon) = y + 1 /\ y + 1 \in Nat /\ CivilMonth(mon) = mon - 10 /\ (mon = 11 \/ mon = 12)
    BY <1>1, <1>3, <1>5 DEF CivilYear, CivilMonth
  <2>2. MonthStarts(y + 1)[1] = 0 /\ MonthStarts(y + 1)[2] = 31
    BY <2>1, MonthStartsAre
  <2>3. 11 - 10 = 1 /\ 12 - 10 = 2
    OBVIOUS
  <2>4. MonthStarts(y + 1)[CivilMonth(mon)] = before - 306
    BY <2>1, <2>2, <2>3, DaysBeforeAre DEF before
  <2> QED BY <1>1, <1>3, <1>4, <1>5, <2>1, <2>4
<1>6. CASE mon <= 10
  <2>1. CivilYear(y, mon) = y /\ CivilMonth(mon) = mon + 2 /\ mon \in 1..10
    BY <1>1, <1>6 DEF CivilYear, CivilMonth
  <2>2. MonthStarts(y)[mon + 2] = 59 + LeapOne(y) + before
    BY <1>3, <2>1, MonthStartsAre DEF before
  <2>3. d.yearday = 1 + (yday + 59 + LeapOne(y))
    BY <1>1, <1>6
  <2> QED BY <1>3, <1>4, <2>1, <2>2, <2>3
<1> QED BY <1>1, <1>5, <1>6

(* Joining a split time gives the time. *)
LEMMA JoinOfSplit ==
  ASSUME NEW t \in Times, t.day \in Nat, NEW d, d = fftime_split1(t)
  PROVE  fftime_join1(d) = t
<1>1. /\ d.year \in Nat \ {0} /\ d.month \in 1..12 /\ d.day \in Nat \ {0}
      /\ d.hour \in 0..23 /\ d.minute \in 0..59 /\ d.second \in 0..59 /\ d.nanosecond \in 0..Second - 1
      /\ d.nanosecond = t.nsec /\ Seconds(d) = t.sod
      /\ FirstDay(d.year, d.month) + (d.day - 1) = t.day
  BY SplitIsValid
<1>2. d.month \in Nat \ {0} /\ d.hour \in Nat /\ d.minute \in Nat /\ d.second \in Nat
  BY <1>1
<1>3. CarriedYear(d) = d.year /\ CarriedMonth(d) = d.month
  BY <1>1, <1>2, CarriedFacts
<1>4. fftime_join1(d) = Time(t.day, t.sod, t.nsec)
  BY <1>1, <1>2, <1>3, JoinIs
<1> QED BY <1>4, TimeRecord, TimeIs

----------------------------------------------------------------------------
(* The dates *)

LEMMA ValidFields ==
  ASSUME NEW d, fftime_valid(d), d.year \in Nat, d.day \in Nat, d.hour \in Nat, d.minute \in Nat, d.second \in Nat,
         d.nanosecond \in Nat
  PROVE  /\ d.year \in Nat \ {0} /\ d.month \in 1..12 /\ d.day \in Nat \ {0}
         /\ d.hour \in 0..23 /\ d.minute \in 0..59 /\ d.second \in 0..59 /\ d.nanosecond \in 0..Second - 1
         /\ DayFits(d.day, d.month, d.year)
<1>1. d.hour \in 0..23 /\ d.minute \in 0..59 /\ d.second \in 0..59
  BY DEF fftime_valid
<1>2. d.nanosecond \in 0..Second - 1
  BY SecondIs DEF fftime_valid
<1>3. d.year \in Nat \ {0} /\ d.month \in 1..12 /\ d.day \in Nat \ {0}
  BY DEF fftime_valid
<1>4. DayFits(d.day, d.month, d.year)
  BY DEF fftime_valid, DayFits
<1> QED BY <1>1, <1>2, <1>3, <1>4

LEMMA SecondsOfClock ==
  ASSUME NEW h \in 0..23, NEW m \in 0..59, NEW s \in 0..59
  PROVE  /\ Clock(h, m, s) \in 0..SecondsPerDay - 1
         /\ HourOf(Clock(h, m, s)) = h /\ MinuteOf(Clock(h, m, s)) = m /\ SecondOf(Clock(h, m, s)) = s
<1> DEFINE sod == h * 3600 + m * 60 + s
           r == m * 60 + s
<1>0. h \in Nat /\ h <= 23 /\ m \in Nat /\ m <= 59 /\ s \in Nat /\ s <= 59
  OBVIOUS
<1>1. r \in Nat /\ r < 3600
  BY <1>0
<1>2. sod \in Nat /\ sod < 86400 /\ sod = 3600 * h + r /\ sod = 60 * (60 * h + m) + s
  BY <1>0
<1>3. r \div 60 = m
  BY <1>0
<1> HIDE DEF sod, r
<1>4. sod \div 3600 = h /\ sod % 3600 = r
  BY <1>0, <1>1, <1>2
<1>5. sod % 60 = s
  <2> DEFINE u == 60 * h + m
  <2>1. u \in Nat /\ sod = 60 * u + s
    BY <1>0, <1>2
  <2> HIDE DEF u
  <2> QED BY <1>0, <2>1
<1>6. sod \in 0..SecondsPerDay - 1
  BY <1>2, InDayIs
<1> QED BY <1>3, <1>4, <1>5, <1>6 DEF sod, Clock, HourOf, MinuteOf, SecondOf

(* Splitting the time of a valid date gives the date. *)
LEMMA SplitOfJoin ==
  ASSUME NEW d, fftime_valid(d), d.year \in Nat, d.day \in Nat, d.hour \in Nat, d.minute \in Nat, d.second \in Nat,
         d.nanosecond \in Nat
  PROVE  LET e == fftime_split1(fftime_join1(d))
         IN  /\ e.year = d.year /\ e.month = d.month /\ e.day = d.day
             /\ e.hour = d.hour /\ e.minute = d.minute /\ e.second = d.second /\ e.nanosecond = d.nanosecond
<1> DEFINE y == MarchYear(d.year, d.month)
           mon == MarchMonth(d.month)
           k == d.day - 1
           n == FirstDay(d.year, d.month) + k
           t == [day |-> n, sod |-> Seconds(d), nsec |-> d.nanosecond]
           e == fftime_split1(t)
<1>1. /\ d.year \in Nat \ {0} /\ d.month \in 1..12 /\ d.day \in Nat \ {0}
      /\ d.hour \in 0..23 /\ d.minute \in 0..59 /\ d.second \in 0..59 /\ d.nanosecond \in 0..Second - 1
      /\ DayFits(d.day, d.month, d.year)
  BY ValidFields
<1>2. y \in Nat /\ mon \in 1..12 /\ CivilYear(y, mon) = d.year /\ CivilMonth(mon) = d.month
  BY <1>1, MarchAndBack
<1>3. FirstDay(d.year, d.month) \in Nat /\ FirstDay(d.year, d.month) = YearDays(y) + DaysBefore(mon) - 306
  <2>1. d.year \in Nat \ {0} /\ d.month \in 1..12
    BY <1>1
  <2>2. FirstDay(d.year, d.month) \in Nat
    BY <2>1, FirstDayIsCounted
  <2> QED BY <2>2 DEF FirstDay
<1>4. k \in Nat /\ k + 1 = d.day
  BY <1>1
<1> HIDE DEF y, mon, k
<1>5. n \in Nat
  BY <1>3, <1>4
<1>6. Seconds(d) \in 0..SecondsPerDay - 1
      /\ HourOf(Seconds(d)) = d.hour /\ MinuteOf(Seconds(d)) = d.minute /\ SecondOf(Seconds(d)) = d.second
  <2>1. d.hour \in 0..23 /\ d.minute \in 0..59 /\ d.second \in 0..59
    BY <1>1
  <2> QED BY <2>1, SecondsOfClock DEF Seconds
<1>7. fftime_join1(d) = t
  <2>1. d.month \in Nat \ {0} /\ d.month <= 12
    BY <1>1
  <2>2. CarriedYear(d) = d.year /\ CarriedMonth(d) = d.month
    BY <1>1, <2>1, CarriedFacts
  <2>3. fftime_join1(d) = Time(FirstDay(d.year, d.month) + (d.day - 1), Seconds(d), d.nanosecond)
    BY <1>1, <2>1, <2>2, JoinIs
  <2>4. Time(n, Seconds(d), d.nanosecond) = t
    BY <1>5, <1>6, TimeIs
  <2> QED BY <2>3, <2>4 DEF k
<1>8. k \in 0..MarchLength(mon) - 1 /\ DaysBefore(mon) + k <= 364 + LeapOne(y + 1)
  <2>1. DayFits(k + 1, CivilMonth(mon), CivilYear(y, mon))
    BY <1>1, <1>2, <1>4
  <2>2. y \in Nat /\ mon \in 1..12 /\ k \in Nat
    BY <1>2, <1>4
  <2> QED BY <2>1, <2>2, FittingDays
<1>9. MonthAt(DaysBefore(mon) + k) = mon /\ DaysBefore(mon) + k \in 0..365
  BY <1>2, <1>8, OneMonth
<1> HIDE DEF n
<1>10. n + 306 = YearDays(y) + (DaysBefore(mon) + k)
  <2>1. YearDays(y) \in Int /\ DaysBefore(mon) \in Int
    BY <1>2, YearDaysAre DEF DaysBefore
  <2> QED BY <1>3, <1>4, <2>1 DEF n
<1>11. YearOf(n) = y /\ InYear(n) = DaysBefore(mon) + k
  <2> DEFINE z == YearOf(n)
             i == InYear(n)
             j == DaysBefore(mon) + k
  <2>1. z \in Nat /\ i \in 0..364 + LeapOne(z + 1) /\ LeapOne(z + 1) \in {0, 1} /\ n + 306 = YearDays(z) + i
    BY <1>5, YearIsFound
  <2>2. YearDays(z + 1) = YearDays(z) + 365 + LeapOne(z + 1) /\ YearDays(z) \in Int
    BY <2>1, NextYear, YearDaysAre
  <2>3. YearDays(y + 1) = YearDays(y) + 365 + LeapOne(y + 1) /\ YearDays(y) \in Int /\ LeapOne(y + 1) \in {0, 1}
    BY <1>2, NextYear, YearDaysAre
  <2> HIDE DEF z, i, j
  <2>4. n + 306 = YearDays(y) + j /\ j \in 0..364 + LeapOne(y + 1)
    BY <1>8, <1>9, <1>10, <2>3 DEF j
  <2>5. YearDays(z) <= n + 306 /\ n + 306 < YearDays(z + 1) /\ YearDays(y) <= n + 306 /\ n + 306 < YearDays(y + 1)
    BY <2>1, <2>2, <2>3, <2>4
  <2>6. n + 306 \in Int
    BY <1>5
  <2>7. z = y
    BY <1>2, <2>1, <2>5, <2>6, OneYear
  <2>8. i = j
    BY <2>1, <2>3, <2>4, <2>7
  <2> QED BY <2>7, <2>8 DEF z, i, j
<1>12. t \in Times /\ t.day = n /\ t.sod = Seconds(d) /\ t.nsec = d.nanosecond
  BY <1>1, <1>5, <1>6 DEF Times
<1> HIDE DEF t
<1>13. /\ e.year = CivilYear(YearOf(n), MonthAt(InYear(n))) /\ e.month = CivilMonth(MonthAt(InYear(n)))
       /\ e.day = InYear(n) - DaysBefore(MonthAt(InYear(n))) + 1
       /\ e.hour = HourOf(Seconds(d)) /\ e.minute = MinuteOf(Seconds(d)) /\ e.second = SecondOf(Seconds(d))
       /\ e.nanosecond = d.nanosecond
  BY <1>5, <1>12, SplitIs DEF HourOf, MinuteOf, SecondOf
<1> HIDE DEF e
<1>14. e.year = d.year /\ e.month = d.month
  BY <1>2, <1>9, <1>11, <1>13
<1>15. e.day = d.day
  <2>1. e.day = (DaysBefore(mon) + k) - DaysBefore(mon) + 1
    BY <1>9, <1>11, <1>13
  <2>2. DaysBefore(mon) \in Int
    BY <1>2 DEF DaysBefore
  <2> QED BY <1>4, <2>1, <2>2
<1>16. e.hour = d.hour /\ e.minute = d.minute /\ e.second = d.second
  BY <1>6, <1>13
<1> QED BY <1>7, <1>13, <1>14, <1>15, <1>16 DEF e

IsDate(d) ==
  /\ d.year \in Nat /\ d.month \in Nat /\ d.day \in Nat
  /\ d.hour \in Nat /\ d.minute \in Nat /\ d.second \in Nat /\ d.nanosecond \in Nat
Skipped(d) == d.year = 0 \/ d.month = 0 \/ d.day = 0

FirstOf(d) == [NoDate EXCEPT !.year = CarriedYear(d), !.month = CarriedMonth(d), !.day = 1]

(* A date is joined to its days, counted. *)
LEMMA JoinIsCounted ==
  ASSUME NEW d, IsDate(d), d.nanosecond < Second, ~Skipped(d)
  PROVE  /\ fftime_join1(d) = Time(DayNumber(FirstOf(d)) + (d.day - 1), Seconds(d), d.nanosecond)
         /\ DayNumber(FirstOf(d)) \in Nat
<1> DEFINE first == FirstOf(d)
<1>1. d.year \in Nat \ {0} /\ d.month \in Nat \ {0} /\ d.day \in Nat \ {0} /\ d.nanosecond \in 0..Second - 1
      /\ d.hour \in Nat /\ d.minute \in Nat /\ d.second \in Nat
  BY SecondIs DEF IsDate, Skipped
<1> DEFINE Y == CarriedYear(d)
           M == CarriedMonth(d)
<1>2. Y \in Nat \ {0} /\ M \in 1..12
  BY <1>1, CarriedFacts
<1>3. fftime_join1(d) = Time(FirstDay(Y, M) + (d.day - 1), Seconds(d), d.nanosecond)
  BY <1>1, JoinIs
<1> HIDE DEF Y, M
<1>4. FirstDay(Y, M) \in Nat /\ Counted(Y, M) = FirstDay(Y, M)
  BY <1>2, FirstDayIsCounted
<1>5. first.year = Y /\ first.month = M /\ first.day = 1
  BY DEF FirstOf, NoDate, Y, M
<1> HIDE DEF first
<1>6. MonthStarts(Y)[M] \in Int /\ LeapYears(Y - 1) \in Int
  <2>1. Y \in Nat /\ Y - 1 \in Nat
    BY <1>2
  <2>2. MonthStarts(Y)[M] \in Int
    BY <1>2, <2>1, MonthStartIs
  <2> QED BY <2>1, <2>2, LeapYearsCount, LeapDaysNext
<1>7. DayNumber(first) = 365 * (Y - 1) + LeapYears(Y - 1) + (1 + MonthStarts(Y)[M]) - 1
  BY <1>5 DEF DayNumber, YearDay
<1>8. DayNumber(first) = FirstDay(Y, M)
  BY <1>2, <1>4, <1>6, <1>7 DEF Counted
<1> QED BY <1>3, <1>4, <1>8 DEF Y, M, first

(* A date that comes back from its time is valid. *)
LEMMA ComesBackIsValid ==
  ASSUME NEW d, IsDate(d), d.nanosecond < Second, ~Skipped(d),
         NEW e, e = fftime_split1(fftime_join1(d)),
         e.year = d.year, e.month = d.month, e.day = d.day,
         e.hour = d.hour, e.minute = d.minute, e.second = d.second, e.nanosecond = d.nanosecond
  PROVE  fftime_valid(d)
<1> DEFINE sod == Seconds(d)
           day == FirstDay(CarriedYear(d), CarriedMonth(d)) + (d.day - 1)
           t == Time(day, sod, d.nanosecond)
<1>1. d.year \in Nat \ {0} /\ d.month \in Nat \ {0} /\ d.day \in Nat \ {0} /\ d.nanosecond \in 0..Second - 1
      /\ d.hour \in Nat /\ d.minute \in Nat /\ d.second \in Nat
  BY SecondIs DEF IsDate, Skipped
<1>2. fftime_join1(d) = t
  BY <1>1, JoinIs
<1>3. sod \in Nat
  BY <1>1 DEF Seconds, Clock
<1>4. day \in Nat
  <2>1. CarriedYear(d) \in Nat \ {0} /\ CarriedMonth(d) \in 1..12
    BY <1>1, CarriedFacts
  <2>2. FirstDay(CarriedYear(d), CarriedMonth(d)) \in Nat
    BY <2>1, FirstDayIsCounted
  <2> QED BY <1>1, <2>2
<1> HIDE DEF sod, day
<1>5. t = [day |-> day + (sod \div SecondsPerDay), sod |-> sod % SecondsPerDay, nsec |-> d.nanosecond]
  BY DEF Time
<1> HIDE DEF t
<1>6. sod \div SecondsPerDay \in Nat /\ sod % SecondsPerDay \in 0..SecondsPerDay - 1
  BY <1>3, SecondIs
<1>7. t \in Times /\ t.day \in Nat
  BY <1>1, <1>4, <1>5, <1>6 DEF Times
<1>8. fftime_valid(e)
  BY <1>2, <1>7, SplitIsValid
<1> QED BY <1>8 DEF fftime_valid

DateFieldsOf(e) == [year |-> e.year, month |-> e.month, day |-> e.day, hour |-> e.hour, minute |-> e.minute,
                    second |-> e.second, nanosecond |-> e.nanosecond, weekday |-> e.weekday, yearday |-> e.yearday]
SameDate(e, d) == e.year = d.year /\ e.month = d.month /\ e.day = d.day /\ e.hour = d.hour /\ e.minute = d.minute
                  /\ e.second = d.second /\ e.nanosecond = d.nanosecond

LEMMA SplitRecord ==
  ASSUME NEW t, NEW e, e = fftime_split1(t)
  PROVE  e = DateFieldsOf(e)
<1> DEFINE days == t.day + 306
           guess == 1 + ((days * 400) \div YearDays(400))
           late == days < YearDays(guess)
           year == IF late THEN guess - 1 ELSE guess
           yday == days - YearDays(guess) + IF late THEN (IF Leap(guess) THEN 366 ELSE 365) ELSE 0
           mon == ((yday + 31) * 10) \div 306
           winter == yday >= 306
           a == IF winter THEN year + 1 ELSE year
           b == IF winter THEN mon - 10 ELSE mon + 2
           c == yday - DaysBefore(mon) + 1
           h == t.sod \div 3600
           m == (t.sod % 3600) \div 60
           s == t.sod % 60
           w == (1 + t.day) % 7
           n == 1 + IF winter THEN yday - 306 ELSE yday + 31 + 28 + (IF Leap(year) THEN 1 ELSE 0)
<1>1. e = [year |-> a, month |-> b, day |-> c, hour |-> h, minute |-> m, second |-> s,
           nanosecond |-> t.nsec, weekday |-> w, yearday |-> n]
  BY DEF fftime_split1
<1> HIDE DEF a, b, c, h, m, s, w, n
<1> QED BY <1>1 DEF DateFieldsOf

ClearedDate(e) == [e EXCEPT !.weekday = 0, !.yearday = 0]
WholeDate(d) == [f \in DOMAIN NoDate \cup {"yearday"} |-> IF f = "yearday" THEN 0 ELSE d[f]]

LEMMA DateRecord ==
  ASSUME NEW e, e = DateFieldsOf(e), NEW d, d.weekday = 0
  PROVE  ClearedDate(e) = WholeDate(d) <=> SameDate(e, d)
<1> DEFINE r == [e EXCEPT !.weekday = 0, !.yearday = 0]
           names == {"year", "month", "day", "hour", "minute", "second", "nanosecond", "weekday", "yearday"}
           q == [f \in names |-> IF f = "yearday" THEN 0 ELSE d[f]]
<1>1. DOMAIN NoDate \cup {"yearday"} = names
  BY DEF NoDate
<1>2. DOMAIN e = names
  BY DEF DateFieldsOf
<1>3. r = [f \in names |-> IF f \in {"weekday", "yearday"} THEN 0 ELSE e[f]]
  BY <1>2
<1>4. r = q <=> \A f \in names : r[f] = q[f]
  BY <1>3
<1>5. (\A f \in names : r[f] = q[f]) <=> SameDate(e, d)
  BY <1>3 DEF SameDate
<1> QED BY <1>1, <1>4, <1>5 DEF ClearedDate, WholeDate

----------------------------------------------------------------------------
(* The times *)

LEMMA InSecond ==
  ASSUME NEW n
  PROVE  n \in 0..Second - 1 <=> n \in Nat /\ n < Second
BY SecondIs

WholeDays(q) == 86400 * q

(* Seconds that do not fit a day are carried, forth or back. *)
LEMMA TimeCarries ==
  ASSUME NEW day \in Int, NEW sod \in Int, NEW nsec
  PROVE  \E q \in Int :
           /\ Time(day, sod, nsec) = [day |-> day + q, sod |-> sod - WholeDays(q), nsec |-> nsec]
           /\ sod - WholeDays(q) >= 0 /\ sod - WholeDays(q) < SecondsPerDay
<1> DEFINE q == sod \div 86400
<1>1. SecondsPerDay = 86400
  BY SMT DEF SecondsPerDay
<1>2. Time(day, sod, nsec) = [day |-> day + (sod \div 86400), sod |-> sod % 86400, nsec |-> nsec]
  BY <1>1, SMT DEF Time
<1>3. q \in Int /\ sod % 86400 = sod - 86400 * q /\ sod - 86400 * q >= 0 /\ sod - 86400 * q < 86400
  BY SMT
<1>4. Time(day, sod, nsec) = [day |-> day + q, sod |-> sod % 86400, nsec |-> nsec]
  BY <1>2
<1> HIDE DEF q
<1>5. /\ Time(day, sod, nsec) = [day |-> day + q, sod |-> sod - WholeDays(q), nsec |-> nsec]
      /\ sod - WholeDays(q) >= 0 /\ sod - WholeDays(q) < SecondsPerDay
  BY <1>1, <1>3, <1>4, SMT DEF WholeDays
<1> QED BY <1>3, <1>5

LEMMA WholeDaysAre ==
  /\ \A q \in Int : WholeDays(q) \in Int
  /\ WholeDays(0) = 0 /\ WholeDays(-1) = -SecondsPerDay
<1>1. SecondsPerDay = 86400
  BY SMT DEF SecondsPerDay
<1> QED BY <1>1, SMT DEF WholeDays

LEMMA SameDay ==
  ASSUME NEW x \in Nat, x < SecondsPerDay, NEW y \in Nat, y < SecondsPerDay, NEW q \in Int, NEW p \in Int,
         y = x - (WholeDays(q) + WholeDays(p))
  PROVE  q + p = 0 /\ y = x
<1>1. SecondsPerDay = 86400
  BY SMT DEF SecondsPerDay
<1>2. x - y = 86400 * (q + p) /\ x - y < 86400 /\ x - y > -86400
  BY <1>1, SMT DEF WholeDays
<1> QED BY <1>2, SMT

(* A difference of less than a day, and a second, borrows one day at most. *)
LEMMA OneDay ==
  ASSUME NEW x \in Int, x < SecondsPerDay, x >= -SecondsPerDay, NEW q \in Int,
         x - WholeDays(q) >= 0, x - WholeDays(q) < SecondsPerDay
  PROVE  q = 0 \/ q = -1
<1>1. SecondsPerDay = 86400
  BY SMT DEF SecondsPerDay
<1> QED BY <1>1, SMT DEF WholeDays

LEMMA TimesFacts ==
  ASSUME NEW t \in Times
  PROVE  /\ t.day \in Int /\ t.sod \in Nat /\ t.sod < SecondsPerDay /\ t.nsec \in Nat /\ t.nsec < Second
         /\ t = [day |-> t.day, sod |-> t.sod, nsec |-> t.nsec]
BY TimeRecord, InDay, InSecond

LEMMA TimesAre ==
  ASSUME NEW day \in Int, NEW sod \in Nat, sod < SecondsPerDay, NEW nsec \in Nat, nsec < Second
  PROVE  [day |-> day, sod |-> sod, nsec |-> nsec] \in Times
<1>1. sod \in 0..SecondsPerDay - 1 /\ nsec \in 0..Second - 1
  BY InDay, InSecond
<1> QED BY <1>1 DEF Times

Carry(c) == IF c = 1 THEN Second ELSE 0

LEMMA AddIs ==
  ASSUME NEW t \in Times, NEW u \in Times
  PROVE  \E q \in Int, c \in {0, 1} :
           LET sod == (t.sod + u.sod + c) - WholeDays(q)
               nsec == (t.nsec + u.nsec) - Carry(c)
           IN  /\ fftime_add(t, u) = [day |-> t.day + u.day + q, sod |-> sod, nsec |-> nsec]
               /\ sod \in Nat /\ sod < SecondsPerDay /\ nsec \in Nat /\ nsec < Second
<1> DEFINE n == t.nsec + u.nsec
           c == IF n >= Second THEN 1 ELSE 0
           s == t.sod + u.sod + c
           day == t.day + u.day
           nsec == n - Carry(c)
<1>1. t.day \in Int /\ t.sod \in Nat /\ t.nsec \in Nat /\ t.nsec < Second
      /\ u.day \in Int /\ u.sod \in Nat /\ u.nsec \in Nat /\ u.nsec < Second
  BY TimesFacts
<1>2. c \in {0, 1} /\ s \in Int /\ day \in Int
  BY <1>1
<1>3. nsec \in Nat /\ nsec < Second
  BY <1>1, SecondIs DEF Carry
<1>4. fftime_add(t, u) = Time(day, s, nsec)
  BY <1>1, SecondIs DEF fftime_add, Carry
<1> HIDE DEF day, s, nsec, c
<1>5. PICK q \in Int :
        /\ Time(day, s, nsec) = [day |-> day + q, sod |-> s - WholeDays(q), nsec |-> nsec]
        /\ s - WholeDays(q) >= 0 /\ s - WholeDays(q) < SecondsPerDay
  BY <1>2, TimeCarries
<1>6. fftime_add(t, u) = [day |-> day + q, sod |-> s - WholeDays(q), nsec |-> nsec]
  BY <1>4, <1>5
<1>7. s - WholeDays(q) \in Nat /\ s - WholeDays(q) < SecondsPerDay
  BY <1>2, <1>5, WholeDaysAre, SecondIs
<1>8. LET sod == (t.sod + u.sod + c) - WholeDays(q)
          ns == (t.nsec + u.nsec) - Carry(c)
      IN  /\ fftime_add(t, u) = [day |-> t.day + u.day + q, sod |-> sod, nsec |-> ns]
          /\ sod \in Nat /\ sod < SecondsPerDay /\ ns \in Nat /\ ns < Second
  BY <1>3, <1>6, <1>7 DEF nsec, day, s
<1> QED BY <1>2, <1>8

LEMMA SubIs ==
  ASSUME NEW t \in Times, NEW u \in Times
  PROVE  \E q \in Int, c \in {0, 1} :
           LET sod == (t.sod - u.sod - c) - WholeDays(q)
               nsec == (t.nsec - u.nsec) + Carry(c)
           IN  /\ fftime_sub(t, u) = [day |-> t.day - u.day + q, sod |-> sod, nsec |-> nsec]
               /\ sod \in Nat /\ sod < SecondsPerDay /\ nsec \in Nat /\ nsec < Second
<1> DEFINE n == t.nsec - u.nsec
           c == IF n < 0 THEN 1 ELSE 0
           s == t.sod - u.sod - c
           day == t.day - u.day
           nsec == n + Carry(c)
<1>1. t.day \in Int /\ t.sod \in Nat /\ t.nsec \in Nat /\ t.nsec < Second
      /\ u.day \in Int /\ u.sod \in Nat /\ u.nsec \in Nat /\ u.nsec < Second
  BY TimesFacts
<1>2. c \in {0, 1} /\ s \in Int /\ day \in Int
  BY <1>1
<1>3. nsec \in Nat /\ nsec < Second
  BY <1>1, SecondIs DEF Carry
<1>4. fftime_sub(t, u) = Time(day, s, nsec)
  BY <1>1, SecondIs DEF fftime_sub, Carry
<1> HIDE DEF day, s, nsec, c
<1>5. PICK q \in Int :
        /\ Time(day, s, nsec) = [day |-> day + q, sod |-> s - WholeDays(q), nsec |-> nsec]
        /\ s - WholeDays(q) >= 0 /\ s - WholeDays(q) < SecondsPerDay
  BY <1>2, TimeCarries
<1>6. fftime_sub(t, u) = [day |-> day + q, sod |-> s - WholeDays(q), nsec |-> nsec]
  BY <1>4, <1>5
<1>7. s - WholeDays(q) \in Nat /\ s - WholeDays(q) < SecondsPerDay
  BY <1>2, <1>5, WholeDaysAre, SecondIs
<1>8. LET sod == (t.sod - u.sod - c) - WholeDays(q)
          ns == (t.nsec - u.nsec) + Carry(c)
      IN  /\ fftime_sub(t, u) = [day |-> t.day - u.day + q, sod |-> sod, nsec |-> ns]
          /\ sod \in Nat /\ sod < SecondsPerDay /\ ns \in Nat /\ ns < Second
  BY <1>3, <1>6, <1>7 DEF nsec, day, s
<1> QED BY <1>2, <1>8

LEMMA SubOfAdd ==
  ASSUME NEW t \in Times, NEW u \in Times
  PROVE  fftime_sub(fftime_add(t, u), u) = t /\ fftime_add(t, u) \in Times
<1> DEFINE a == fftime_add(t, u)
           b == fftime_sub(a, u)
<1>1. PICK q \in Int, c \in {0, 1} :
        LET sod == (t.sod + u.sod + c) - WholeDays(q)
            nsec == (t.nsec + u.nsec) - Carry(c)
        IN  /\ a = [day |-> t.day + u.day + q, sod |-> sod, nsec |-> nsec]
            /\ sod \in Nat /\ sod < SecondsPerDay /\ nsec \in Nat /\ nsec < Second
  BY AddIs
<1>2. /\ t.day \in Int /\ t.sod \in Nat /\ t.sod < SecondsPerDay /\ t.nsec \in Nat /\ t.nsec < Second
      /\ t = [day |-> t.day, sod |-> t.sod, nsec |-> t.nsec]
      /\ u.day \in Int /\ u.sod \in Nat /\ u.sod < SecondsPerDay /\ u.nsec \in Nat /\ u.nsec < Second
  BY TimesFacts
<1> HIDE DEF a
<1>3. /\ a.day = t.day + u.day + q /\ a.sod = (t.sod + u.sod + c) - WholeDays(q)
      /\ a.nsec = (t.nsec + u.nsec) - Carry(c)
      /\ a.day \in Int /\ a.sod \in Nat /\ a.sod < SecondsPerDay /\ a.nsec \in Nat /\ a.nsec < Second
      /\ a = [day |-> a.day, sod |-> a.sod, nsec |-> a.nsec]
  BY <1>1, <1>2
<1>4. a \in Times
  BY <1>3, TimesAre
<1>5. PICK p \in Int, e \in {0, 1} :
        LET sod == (a.sod - u.sod - e) - WholeDays(p)
            nsec == (a.nsec - u.nsec) + Carry(e)
        IN  /\ b = [day |-> a.day - u.day + p, sod |-> sod, nsec |-> nsec]
            /\ sod \in Nat /\ sod < SecondsPerDay /\ nsec \in Nat /\ nsec < Second
  BY <1>4, SubIs
<1> HIDE DEF b
<1>6. e = c /\ (a.nsec - u.nsec) + Carry(e) = t.nsec
  BY <1>2, <1>3, <1>5, SecondIs DEF Carry
<1>7. q + p = 0 /\ (a.sod - u.sod - e) - WholeDays(p) = t.sod
  <2> DEFINE y == (a.sod - u.sod - e) - WholeDays(p)
  <2>1. WholeDays(q) \in Int /\ WholeDays(p) \in Int /\ SecondsPerDay \in Nat
    BY WholeDaysAre, SecondIs
  <2>2. y = t.sod - (WholeDays(q) + WholeDays(p))
    BY <1>2, <1>3, <1>6, <2>1
  <2>3. y \in Nat /\ y < SecondsPerDay
    BY <1>5
  <2> HIDE DEF y
  <2>4. t.sod \in Nat /\ t.sod < SecondsPerDay
    BY <1>2
  <2>5. q + p = 0 /\ y = t.sod
    BY <2>2, <2>3, <2>4, SameDay
  <2> QED BY <2>5 DEF y
<1>8. a.day - u.day + p = t.day
  <2> DEFINE td == t.day
             ud == u.day
             ad == a.day
  <2>1. td \in Int /\ ud \in Int /\ ad = (td + ud) + q /\ q \in Int /\ p \in Int /\ q + p = 0
    BY <1>2, <1>3, <1>7
  <2> HIDE DEF td, ud, ad
  <2>2. (ad - ud) + p = td
    BY <2>1
  <2> QED BY <2>2 DEF td, ud, ad
<1>9. b = t
  BY <1>2, <1>5, <1>6, <1>7, <1>8
<1> QED BY <1>4, <1>9 DEF a, b

LEMMA AddOfSub ==
  ASSUME NEW t \in Times, NEW u \in Times
  PROVE  fftime_add(fftime_sub(t, u), u) = t /\ fftime_sub(t, u) \in Times
<1> DEFINE a == fftime_sub(t, u)
           b == fftime_add(a, u)
<1>1. PICK q \in Int, c \in {0, 1} :
        LET sod == (t.sod - u.sod - c) - WholeDays(q)
            nsec == (t.nsec - u.nsec) + Carry(c)
        IN  /\ a = [day |-> t.day - u.day + q, sod |-> sod, nsec |-> nsec]
            /\ sod \in Nat /\ sod < SecondsPerDay /\ nsec \in Nat /\ nsec < Second
  BY SubIs
<1>2. /\ t.day \in Int /\ t.sod \in Nat /\ t.sod < SecondsPerDay /\ t.nsec \in Nat /\ t.nsec < Second
      /\ t = [day |-> t.day, sod |-> t.sod, nsec |-> t.nsec]
      /\ u.day \in Int /\ u.sod \in Nat /\ u.sod < SecondsPerDay /\ u.nsec \in Nat /\ u.nsec < Second
  BY TimesFacts
<1> HIDE DEF a
<1>3. /\ a.day = t.day - u.day + q /\ a.sod = (t.sod - u.sod - c) - WholeDays(q)
      /\ a.nsec = (t.nsec - u.nsec) + Carry(c)
      /\ a.day \in Int /\ a.sod \in Nat /\ a.sod < SecondsPerDay /\ a.nsec \in Nat /\ a.nsec < Second
      /\ a = [day |-> a.day, sod |-> a.sod, nsec |-> a.nsec]
  BY <1>1, <1>2
<1>4. a \in Times
  BY <1>3, TimesAre
<1>5. PICK p \in Int, e \in {0, 1} :
        LET sod == (a.sod + u.sod + e) - WholeDays(p)
            nsec == (a.nsec + u.nsec) - Carry(e)
        IN  /\ b = [day |-> a.day + u.day + p, sod |-> sod, nsec |-> nsec]
            /\ sod \in Nat /\ sod < SecondsPerDay /\ nsec \in Nat /\ nsec < Second
  BY <1>4, AddIs
<1> HIDE DEF b
<1>6. e = c /\ (a.nsec + u.nsec) - Carry(e) = t.nsec
  BY <1>2, <1>3, <1>5, SecondIs DEF Carry
<1>7. q + p = 0 /\ (a.sod + u.sod + e) - WholeDays(p) = t.sod
  <2> DEFINE y == (a.sod + u.sod + e) - WholeDays(p)
  <2>1. WholeDays(q) \in Int /\ WholeDays(p) \in Int /\ SecondsPerDay \in Nat
    BY WholeDaysAre, SecondIs
  <2>2. y = t.sod - (WholeDays(q) + WholeDays(p))
    BY <1>2, <1>3, <1>6, <2>1
  <2>3. y \in Nat /\ y < SecondsPerDay
    BY <1>5
  <2> HIDE DEF y
  <2>4. t.sod \in Nat /\ t.sod < SecondsPerDay
    BY <1>2
  <2>5. q + p = 0 /\ y = t.sod
    BY <2>2, <2>3, <2>4, SameDay
  <2> QED BY <2>5 DEF y
<1>8. a.day + u.day + p = t.day
  <2> DEFINE td == t.day
             ud == u.day
             ad == a.day
  <2>1. td \in Int /\ ud \in Int /\ ad = (td - ud) + q /\ q \in Int /\ p \in Int /\ q + p = 0
    BY <1>2, <1>3, <1>7
  <2> HIDE DEF td, ud, ad
  <2>2. (ad + ud) + p = td
    BY <2>1
  <2> QED BY <2>2 DEF td, ud, ad
<1>9. b = t
  BY <1>2, <1>5, <1>6, <1>7, <1>8
<1> QED BY <1>4, <1>9 DEF a, b

(* Comparing two times is comparing their difference with nothing. *)
LEMMA CompareIs ==
  ASSUME NEW t \in Times, NEW u \in Times
  PROVE  fftime_cmp(t, u) = fftime_cmp(fftime_sub(t, u), Time(0, 0, 0))
<1> DEFINE a == fftime_sub(t, u)
           zero == Time(0, 0, 0)
<1>1. zero.day = 0 /\ zero.sod = 0 /\ zero.nsec = 0
  <2>1. 0 \in 0..SecondsPerDay - 1
    BY SecondIs
  <2> QED BY <2>1, TimeIs
<1>2. PICK q \in Int, c \in {0, 1} :
        LET sod == (t.sod - u.sod - c) - WholeDays(q)
            nsec == (t.nsec - u.nsec) + Carry(c)
        IN  /\ a = [day |-> t.day - u.day + q, sod |-> sod, nsec |-> nsec]
            /\ sod \in Nat /\ sod < SecondsPerDay /\ nsec \in Nat /\ nsec < Second
  BY SubIs
<1>3. /\ t.day \in Int /\ t.sod \in Nat /\ t.sod < SecondsPerDay /\ t.nsec \in Nat /\ t.nsec < Second
      /\ u.day \in Int /\ u.sod \in Nat /\ u.sod < SecondsPerDay /\ u.nsec \in Nat /\ u.nsec < Second
  BY TimesFacts
<1> HIDE DEF a, zero
<1>4. /\ a.day = t.day - u.day + q /\ a.sod = (t.sod - u.sod - c) - WholeDays(q)
      /\ a.nsec = (t.nsec - u.nsec) + Carry(c)
      /\ a.day \in Int /\ a.sod \in Nat /\ a.sod < SecondsPerDay /\ a.nsec \in Nat /\ a.nsec < Second
  BY <1>2, <1>3
<1>5. Carry(c) = (IF c = 1 THEN Second ELSE 0) /\ Second \in Nat \ {0} /\ c \in {0, 1}
  BY <1>2, SecondIs DEF Carry
<1>0. (q = 0 \/ q = -1) /\ WholeDays(0) = 0 /\ WholeDays(-1) = -SecondsPerDay /\ SecondsPerDay \in Nat
  <2> DEFINE x == t.sod - u.sod - c
  <2>1. x \in Int /\ x < SecondsPerDay /\ x >= -SecondsPerDay
    BY <1>3, <1>5, SecondIs
  <2>2. x - WholeDays(q) >= 0 /\ x - WholeDays(q) < SecondsPerDay
    BY <1>4
  <2> HIDE DEF x
  <2>3. q = 0 \/ q = -1
    BY <2>1, <2>2, OneDay
  <2> QED BY <2>3, WholeDaysAre, SecondIs
<1>6. SameSecond(t, u) /\ t.nsec = u.nsec <=> SameSecond(a, zero) /\ a.nsec = zero.nsec
  <2>1. CASE c = 1
    <3>1. t.nsec # u.nsec /\ a.nsec # 0
      BY <1>3, <1>4, <1>5, <2>1
    <3> QED BY <1>1, <3>1
  <2>2. CASE c = 0
    <3>1. t.nsec = u.nsec <=> a.nsec = 0
      BY <1>3, <1>4, <1>5, <2>2
    <3>2. CASE q = 0
      <4>1. t.day = u.day <=> a.day = 0
        BY <1>3, <1>4, <3>2
      <4>2. t.sod = u.sod <=> a.sod = 0
        BY <1>0, <1>3, <1>4, <2>2, <3>2
      <4> QED BY <1>1, <3>1, <4>1, <4>2 DEF SameSecond
    <3>3. CASE q = -1
      <4>1. a.sod = (t.sod - u.sod) + SecondsPerDay /\ t.sod - u.sod < 0
        BY <1>0, <1>3, <1>4, <2>2, <3>3
      <4>2. a.sod # 0 /\ t.sod # u.sod
        BY <1>0, <1>3, <4>1
      <4> QED BY <1>1, <4>2 DEF SameSecond
    <3> QED BY <1>0, <3>2, <3>3
  <2> QED BY <1>5, <2>1, <2>2
<1>7. EarlierSecond(t, u) \/ (SameSecond(t, u) /\ t.nsec < u.nsec) <=> EarlierSecond(a, zero)
  BY <1>0, <1>1, <1>3, <1>4, <1>5, SMTT(30) DEF SameSecond, EarlierSecond
<1>8. ~(SameSecond(a, zero) /\ a.nsec < zero.nsec) /\ ~(EarlierSecond(a, zero) /\ SameSecond(a, zero))
      /\ ~(EarlierSecond(t, u) /\ SameSecond(t, u))
  BY <1>1, <1>3, <1>4 DEF SameSecond, EarlierSecond
<1>9. /\ fftime_cmp(t, u) = IF SameSecond(t, u) /\ t.nsec = u.nsec THEN 0
                            ELSE IF EarlierSecond(t, u) \/ (SameSecond(t, u) /\ t.nsec < u.nsec) THEN -1 ELSE 1
      /\ fftime_cmp(a, zero) = IF SameSecond(a, zero) /\ a.nsec = zero.nsec THEN 0
                               ELSE IF EarlierSecond(a, zero) \/ (SameSecond(a, zero) /\ a.nsec < zero.nsec) THEN -1 ELSE 1
  BY <1>8 DEF fftime_cmp
<1>10. fftime_cmp(t, u) = fftime_cmp(a, zero)
  BY <1>6, <1>7, <1>8, <1>9
<1> QED BY <1>10 DEF a, zero

LEMMA FromMsec ==
  ASSUME NEW msec \in Nat
  PROVE  /\ fftime_from_msec(msec) \in Times
         /\ fftime_from_msec(msec) = Time(msec \div 86400000, (msec \div 1000) % SecondsPerDay, 1000000 * (msec % 1000))
<1> DEFINE s == msec \div 1000
           r == msec % 1000
           q == s \div 86400
           p == s % 86400
           n == 1000000 * r
<1>1. s \in Nat /\ r \in Nat /\ r < 1000 /\ msec = 1000 * s + r
  BY SMT
<1> HIDE DEF s, r
<1>2. q \in Nat /\ p \in Nat /\ p < 86400 /\ s = 86400 * q + p
  BY <1>1, SMT
<1> HIDE DEF q, p
<1>3. msec \div 86400000 = q
  <2> DEFINE v == 1000 * p + r
  <2>1. v \in Nat /\ v < 86400000 /\ msec = 86400000 * q + v
    BY <1>1, <1>2, SMT
  <2> HIDE DEF v
  <2> QED BY <1>2, <2>1, SMT
<1>4. n \in Nat /\ n < Second
  BY <1>1, SMT DEF Second
<1>5. SecondsPerDay = 86400
  BY SMT DEF SecondsPerDay
<1>6. s \div SecondsPerDay = q /\ s % SecondsPerDay = p
  BY <1>5, SMT DEF q, p
<1>7. fftime_from_msec(msec) = Time(0, s, r * 1000000)
  BY SMT DEF fftime_from_msec, s, r
<1>8. r * 1000000 = n
  BY <1>1, SMT
<1> HIDE DEF n
<1>9. fftime_from_msec(msec) = [day |-> q, sod |-> p, nsec |-> n]
  BY <1>2, <1>6, <1>7, <1>8, SMT DEF Time
<1>10. [day |-> q, sod |-> p, nsec |-> n] \in Times
  <2>1. p < SecondsPerDay
    BY <1>2, <1>5, SMT
  <2> QED BY <1>2, <1>4, <2>1, TimesAre
<1>11. p \in 0..SecondsPerDay - 1
  BY <1>2, InDayIs
<1>12. Time(q, p, n) = [day |-> q, sod |-> p, nsec |-> n]
  BY <1>2, <1>11, TimeIs
<1>13. Time(msec \div 86400000, s % SecondsPerDay, n) = fftime_from_msec(msec)
  BY <1>3, <1>6, <1>9, <1>12, SMT
<1> QED BY <1>9, <1>10, <1>13, SMT DEF s, r, n

----------------------------------------------------------------------------
(* The answers *)

LEMMA DayAnswer ==
  ASSUME CalendarAssumption, NEW day \in CalDays, NEW sod \in {0, SecondsPerDay - 1},
         AskDay([day |-> day, sod |-> sod, nsec |-> 7])
  PROVE  DayIsRight' /\ cal'.about = "day"
<1> DEFINE t == [day |-> day, sod |-> sod, nsec |-> 7]
           d == fftime_split1(t)
           back == fftime_join1(d)
<1>1. t \in Times /\ t.day \in Nat
  <2>1. sod \in 0..SecondsPerDay - 1
    BY SecondIs
  <2>2. 7 \in 0..Second - 1
    <3>1. 7 < Second
      BY SMT DEF Second
    <3> QED BY <3>1, InSecond
  <2>3. day \in Nat /\ day \in Int
    BY DEF CalendarAssumption
  <2> QED BY <2>1, <2>2, <2>3 DEF Times
<1>2. cal' = [about |-> "day", t |-> t, dt |-> d, back |-> back]
  BY DEF AskDay
<1> HIDE DEF t, d, back
<1>3. cal'.about = "day" /\ cal'.t = t /\ cal'.dt = d /\ cal'.back = back
  BY <1>2
<1>4. back = t
  BY <1>1, JoinOfSplit DEF d, back
<1>5. /\ fftime_valid(d) /\ d.year \in Nat \ {0} /\ d.month \in 1..12 /\ d.day \in Nat \ {0}
      /\ FirstDay(d.year, d.month) + (d.day - 1) = t.day
  BY <1>1, SplitIsValid DEF d
<1> DEFINE Y == d.year
           M == d.month
           k == d.day
<1> HIDE DEF Y, M, k
<1>6. Y \in Nat \ {0} /\ M \in 1..12 /\ k \in Nat \ {0} /\ FirstDay(Y, M) + (k - 1) = t.day
  BY <1>5 DEF Y, M, k
<1>7. FirstDay(Y, M) \in Nat /\ Counted(Y, M) = FirstDay(Y, M)
  <2>1. Y \in Nat \ {0} /\ M \in 1..12
    BY <1>6
  <2> QED BY <2>1, FirstDayIsCounted
<1>8. MonthStarts(Y)[M] \in Int /\ LeapYears(Y - 1) \in Int
  <2>1. Y \in Nat /\ Y - 1 \in Nat
    BY <1>6
  <2>2. MonthStarts(Y)[M] \in Int
    BY <1>6, <2>1, MonthStartIs
  <2> QED BY <2>1, <2>2, LeapYearsCount, LeapDaysNext
<1>9. DayNumber(d) = t.day
  <2>1. DayNumber(d) = 365 * (Y - 1) + LeapYears(Y - 1) + (k + MonthStarts(Y)[M]) - 1
    BY DEF DayNumber, YearDay, Y, M, k
  <2> QED BY <1>6, <1>7, <1>8, <2>1 DEF Counted
<1>10. YearDay(d) = d.yearday
  BY <1>1, YearDayIs DEF d
<1> QED BY <1>3, <1>4, <1>5, <1>9, <1>10 DEF DayIsRight

LEMMA DateAnswer ==
  ASSUME NEW d, IsDate(d), d.weekday = 0, AskDate(d)
  PROVE  DateIsRight' /\ cal'.about = "date"
<1> DEFINE t == fftime_join1(d)
           e == fftime_split1(t)
           m1 == IF d.month = 0 THEN 1 ELSE d.month
           first == [NoDate EXCEPT !.year = d.year + ((m1 - 1) \div 12), !.month = 1 + ((m1 - 1) % 12), !.day = 1]
           back == ClearedDate(e)
           same == WholeDate(d)
           v == fftime_valid(d)
<1>3. cal' = [about |-> "date", dt |-> d, valid |-> v, t |-> t]
  BY DEF AskDate
<1> HIDE DEF t, v
<1>4. cal'.about = "date" /\ cal'.dt = d /\ cal'.valid = v /\ cal'.t = t
  BY <1>3
<1>5. IsDate(d)
  OBVIOUS
<1>6. d.nanosecond < Second =>
        t = Time(IF Skipped(d) THEN 0 ELSE DayNumber(first) + d.day - 1, Seconds(d), d.nanosecond)
  <2> SUFFICES ASSUME d.nanosecond < Second
               PROVE  t = Time(IF Skipped(d) THEN 0 ELSE DayNumber(first) + d.day - 1, Seconds(d), d.nanosecond)
    OBVIOUS
  <2>1. CASE Skipped(d)
    <3>1. t = Time(0, Seconds(d), d.nanosecond)
      BY <1>5, <2>1, SkippedIs DEF t, IsDate, Skipped
    <3> QED BY <2>1, <3>1
  <2>2. CASE ~Skipped(d)
    <3>1. m1 = d.month
      BY <2>2 DEF Skipped
    <3>2. first = FirstOf(d)
      <4>1. d.month \in Nat
        BY <1>5 DEF IsDate
      <4>2. 1 + ((m1 - 1) % 12) = CarriedMonth(d) /\ d.year + ((m1 - 1) \div 12) = CarriedYear(d)
        BY <3>1, <4>1 DEF CarriedMonth, CarriedYear
      <4> QED BY <4>2 DEF FirstOf
    <3> HIDE DEF first
    <3>3. t = Time(DayNumber(first) + (d.day - 1), Seconds(d), d.nanosecond) /\ DayNumber(first) \in Nat
      BY <1>5, <2>2, <3>2, JoinIsCounted DEF t
    <3>4. DayNumber(first) + d.day - 1 = DayNumber(first) + (d.day - 1)
      BY <1>5, <3>3 DEF IsDate
    <3> QED BY <2>2, <3>3, <3>4
  <2> QED BY <2>1, <2>2
<1> HIDE DEF first
<1>7. v <=> ~Skipped(d) /\ d.nanosecond < Second /\ back = same
  <2>1. back = same <=> SameDate(e, d)
    <3>1. e = DateFieldsOf(e)
      BY SplitRecord
    <3> HIDE DEF e
    <3> QED BY <3>1, DateRecord
  <2> HIDE DEF back, same, e
  <2>2. ASSUME v PROVE ~Skipped(d) /\ d.nanosecond < Second /\ SameDate(e, d)
    <3>1. fftime_valid(d)
      BY <2>2 DEF v
    <3>2. d.year \in Nat \ {0} /\ d.month \in 1..12 /\ d.day \in Nat \ {0} /\ d.nanosecond \in 0..Second - 1
      BY <1>5, <3>1, ValidFields DEF IsDate
    <3>3. SameDate(e, d)
      BY <1>5, <3>1, SplitOfJoin DEF IsDate, SameDate, e, t
    <3>4. d.nanosecond < Second
      BY <3>2, InSecond
    <3> QED BY <3>2, <3>3, <3>4 DEF Skipped
  <2>3. ASSUME ~Skipped(d), d.nanosecond < Second, SameDate(e, d) PROVE v
    BY <1>5, <2>3, ComesBackIsValid DEF SameDate, e, t, v
  <2> QED BY <2>1, <2>2, <2>3
<1>8. Seconds(d) = d.hour * 3600 + d.minute * 60 + d.second
  BY DEF Seconds, Clock
<1> QED BY <1>4, <1>6, <1>7, <1>8 DEF DateIsRight, Skipped, first, ClearedDate, WholeDate

LEMMA TimesAnswer ==
  ASSUME CalendarAssumption, NEW t \in CalTimes, NEW u \in CalTimes, NEW msec \in Nat,
         AskTimes(t, u, msec)
  PROVE  TimesAreRight' /\ cal'.about = "times"
<1> DEFINE from == fftime_from_msec(msec)
           add == fftime_add(t, u)
           sub == fftime_sub(t, u)
           cmp == fftime_cmp(t, u)
<1>1. cal' = [about |-> "times", t |-> t, u |-> u, msec |-> msec, from |-> from, add |-> add, sub |-> sub, cmp |-> cmp]
  BY DEF AskTimes
<1>2. t \in Times /\ u \in Times
  BY DEF CalendarAssumption
<1> HIDE DEF from, add, sub, cmp
<1>4. /\ cal'.about = "times" /\ cal'.t = t /\ cal'.u = u /\ cal'.msec = msec
      /\ cal'.from = from /\ cal'.add = add /\ cal'.sub = sub /\ cal'.cmp = cmp
  BY <1>1, Zenon
<1>5. fftime_sub(add, u) = t /\ add \in Times
  BY <1>2, SubOfAdd DEF add
<1>6. fftime_add(sub, u) = t /\ sub \in Times
  BY <1>2, AddOfSub DEF sub
<1>7. add.nsec \in 0..Second - 1 /\ sub.nsec \in 0..Second - 1
  BY <1>5, <1>6, TimeRecord
<1>8. cmp = fftime_cmp(sub, Time(0, 0, 0))
  BY <1>2, CompareIs DEF cmp, sub
<1>9. /\ from \in Times
      /\ from = Time(msec \div 86400000, (msec \div 1000) % SecondsPerDay, 1000000 * (msec % 1000))
  BY FromMsec, SMT DEF from
<1>10. fftime_sub(fftime_add(from, t), t) = from
  BY <1>2, <1>9, SubOfAdd
<1> QED BY <1>4, <1>5, <1>6, <1>7, <1>8, <1>9, <1>10, SMT DEF TimesAreRight

(* What is asked, and how the answers are judged: two of the questions, on *)
(* texts, are the business of a run.                                       *)
Calculated == cal.about \in {"day", "date", "times"}

LEMMA NextAnswers ==
  ASSUME CalendarAssumption, CalNext
  PROVE  (Calculated => DatesInvert)'
<1>1. CASE CalDay
  <2>1. PICK day \in CalDays, sod \in {0, SecondsPerDay - 1} : AskDay([day |-> day, sod |-> sod, nsec |-> 7])
    BY <1>1, Zenon DEF CalDay
  <2>2. DayIsRight' /\ cal'.about = "day"
    BY <2>1, DayAnswer, Zenon
  <2> QED BY <2>2 DEF DatesInvert
<1>2. CASE CalFormat
  <2>1. cal'.about = "format"
    BY <1>2, SMT DEF CalFormat, AskFormat
  <2> QED BY <2>1 DEF Calculated
<1>3. CASE CalDate
  <2>1. PICK y \in CalYears, m \in 0..26, d \in {0, 1, 28, 29, 30, 31, 366}, h \in {0, 24}, mi \in {0, 60},
             s \in {59, 60}, ns \in {0, Second - 1, Second} :
               AskDate([NoDate EXCEPT !.year = y, !.month = m, !.day = d, !.hour = h, !.minute = mi, !.second = s, !.nanosecond = ns])
    BY <1>3, Zenon DEF CalDate
  <2> DEFINE d0 == [NoDate EXCEPT !.year = y, !.month = m, !.day = d, !.hour = h, !.minute = mi, !.second = s, !.nanosecond = ns]
  <2>2. y \in Nat /\ m \in Nat /\ d \in Nat /\ h \in Nat /\ mi \in Nat /\ s \in Nat /\ ns \in Nat
    BY SecondIs DEF CalendarAssumption
  <2>3. IsDate(d0) /\ d0.weekday = 0
    BY <2>2 DEF IsDate, NoDate
  <2>4. AskDate(d0)
    BY <2>1
  <2> HIDE DEF d0
  <2>5. DateIsRight' /\ cal'.about = "date"
    BY <2>3, <2>4, DateAnswer
  <2> QED BY <2>5 DEF DatesInvert
<1>4. CASE CalSum
  <2>1. PICK t \in CalTimes, u \in CalTimes, msec \in Nat : AskTimes(t, u, msec)
    BY <1>4, SMT DEF CalSum
  <2>2. TimesAreRight' /\ cal'.about = "times"
    BY <2>1, TimesAnswer
  <2> QED BY <2>2 DEF DatesInvert
<1>5. CASE CalText
  <2>1. cal'.about = "text"
    BY <1>5 DEF CalText, AskText
  <2> QED BY <2>1 DEF Calculated
<1> QED BY <1>1, <1>2, <1>3, <1>4, <1>5 DEF CalNext

(* For every day, split and joined again; for every date, valid or not,    *)
(* joined and split again; and for all times added, subtracted, compared   *)
(* and made from milliseconds: fftime_split1(), fftime_join1(),            *)
(* fftime_valid(), fftime_add(), fftime_sub(), fftime_cmp() and            *)
(* fftime_from_msec() agree with the counted calendar.                     *)
THEOREM DatesAgree == CalSpec => [](Calculated => DatesInvert)
<1>1. CalInit => (Calculated => DatesInvert)
  BY DEF CalInit, Calculated
<1>2. (Calculated => DatesInvert) /\ [CalNext]_cal => (Calculated => DatesInvert)'
  <2> SUFFICES ASSUME Calculated => DatesInvert, [CalNext]_cal PROVE (Calculated => DatesInvert)'
    OBVIOUS
  <2>1. CASE CalNext
    BY <2>1, CalendarAssumption, NextAnswers
  <2>2. CASE UNCHANGED cal
    BY <2>2 DEF Calculated, DatesInvert, DayIsRight, FormatIsRight, DateIsRight, TimesAreRight, TextIsRight
  <2> QED BY <2>1, <2>2
<1> QED BY <1>1, <1>2, PTL DEF CalSpec
=============================================================================
