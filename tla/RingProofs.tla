----------------------------- MODULE RingProofs -----------------------------
(***************************************************************************)
(* Proofs about Ring for any number of threads, any buffer size, any       *)
(* counter width and any calls: reserved, published and locked bytes stay  *)
(* in order and fit the buffer, no two threads own the same byte, and a    *)
(* reader finds the bytes that were written for the positions it locked.   *)
(*                                                                         *)
(* What needs it has the hypothesis ~FinishEmpty: with several writers or  *)
(* readers a caller gives an empty reservation up instead of finishing it. *)
(* Without it these properties do not hold (run ring_finish_empty).        *)
(***************************************************************************)
EXTENDS Ring, TLAPS

Counter == 0..(M - 1)

----------------------------------------------------------------------------
(* Arithmetic on counters.  The first lemmas replace the remainders by     *)
(* case distinctions; the others are the triangle laws of distances.       *)

LEMMA Sizes == cap \in Nat /\ M \in Nat /\ cap >= 2 /\ M >= 3 * cap
<1>1. cap \in Nat /\ M \in Nat /\ cap >= 2
  BY RingAssumption DEF RingAssumption
<1>2. PICK k \in 3..M : M = k * cap
  BY RingAssumption DEF RingAssumption
<1>3. k * cap >= 3 * cap
  BY <1>1
<1> QED BY <1>1, <1>2, <1>3

LEMMA DistCases ==
  ASSUME NEW a \in Counter, NEW b \in Counter
  PROVE  Dist(a, b) = IF a <= b THEN b - a ELSE b - a + M
BY Sizes DEF Dist, Counter

LEMMA AddCases ==
  ASSUME NEW a \in Counter, NEW k \in Counter
  PROVE  Add(a, k) = IF a + k < M THEN a + k ELSE a + k - M
BY Sizes DEF Add, Counter

LEMMA DistType ==
  ASSUME NEW a \in Counter, NEW b \in Counter
  PROVE  Dist(a, b) \in Counter /\ Dist(a, b) \in Nat /\ Dist(a, b) < M
BY Sizes, DistCases DEF Counter

LEMMA AddType ==
  ASSUME NEW a \in Counter, NEW k \in Counter
  PROVE  Add(a, k) \in Counter
BY Sizes, AddCases DEF Counter

LEMMA DistZero ==
  ASSUME NEW a \in Counter, NEW b \in Counter
  PROVE  Dist(a, b) = 0 <=> a = b
BY Sizes, DistCases DEF Counter

LEMMA DistSame ==
  ASSUME NEW a \in Counter, NEW b \in Counter, NEW c \in Counter
  PROVE  Dist(a, b) = Dist(a, c) => b = c
BY Sizes, DistCases DEF Counter

LEMMA DistAdd ==
  ASSUME NEW a \in Counter, NEW b \in Counter, NEW c \in Counter,
         Dist(a, b) + Dist(b, c) < M
  PROVE  Dist(a, c) = Dist(a, b) + Dist(b, c)
BY Sizes, DistCases DEF Counter

LEMMA DistSub ==
  ASSUME NEW a \in Counter, NEW b \in Counter, NEW c \in Counter,
         Dist(a, b) <= Dist(a, c)
  PROVE  Dist(b, c) = Dist(a, c) - Dist(a, b)
BY Sizes, DistCases DEF Counter

LEMMA DistOfAdd ==
  ASSUME NEW a \in Counter, NEW k \in Counter
  PROVE  Dist(a, Add(a, k)) = k
<1>1. Add(a, k) \in Counter /\ Add(a, k) = IF a + k < M THEN a + k ELSE a + k - M
  BY AddType, AddCases
<1>2. Dist(a, Add(a, k)) = IF a <= Add(a, k) THEN Add(a, k) - a ELSE Add(a, k) - a + M
  BY <1>1, DistCases
<1> QED BY <1>1, <1>2, Sizes DEF Counter

LEMMA AddOfDist ==
  ASSUME NEW a \in Counter, NEW b \in Counter
  PROVE  Add(a, Dist(a, b)) = b
<1>1. Dist(a, b) \in Counter /\ Dist(a, b) = IF a <= b THEN b - a ELSE b - a + M
  BY DistType, DistCases
<1>2. Add(a, Dist(a, b)) = IF a + Dist(a, b) < M THEN a + Dist(a, b) ELSE a + Dist(a, b) - M
  BY <1>1, AddCases
<1> QED BY <1>1, <1>2, Sizes DEF Counter

LEMMA ModShift ==
  ASSUME NEW d \in Counter
  PROVE  d % M = d /\ (d + M) % M = d /\ (d - M) % M = d
BY Sizes DEF Counter

(* cap + rtail - wh.old, when no more than the buffer lies between the two *)
(* and when wh.old is a head that has been overtaken.                      *)
LEMMA FreeSpace ==
  ASSUME NEW a \in Counter, NEW b \in Counter, NEW c \in Counter,
         Dist(a, c) <= cap, Dist(b, c) <= MaxLag
  PROVE  (cap + a - b) % M = cap - Dist(a, c) + Dist(b, c)
<1> DEFINE d == cap - Dist(a, c) + Dist(b, c)
<1>1. /\ Dist(a, c) \in Nat /\ Dist(a, c) = IF a <= c THEN c - a ELSE c - a + M
      /\ Dist(b, c) \in Nat /\ Dist(b, c) = IF b <= c THEN c - b ELSE c - b + M
  BY DistCases, DistType
<1>2. d \in 0..(M - 1)
  BY <1>1, Sizes DEF MaxLag
<1>3. d = cap + a - b \/ d = cap + a - b + M \/ d = cap + a - b - M
  BY <1>1, Sizes DEF Counter
<1>4. cap + a - b = d \/ cap + a - b = d - M \/ cap + a - b = d + M
  BY <1>1, <1>3, Sizes DEF Counter
<1> HIDE DEF d
<1>5. (cap + a - b) % M = d
  BY <1>2, <1>4, ModShift DEF Counter
<1> QED BY <1>5 DEF d

(* Two positions less than a buffer size apart are in different slots:     *)
(* this is where the size has to divide the number of counter values.      *)
LEMMA SlotsDiffer ==
  ASSUME NEW a \in Counter, NEW b \in Counter,
         Dist(a, b) >= 1, Dist(a, b) < cap
  PROVE  Slot(a) # Slot(b)
<1> DEFINE qa == a \div cap
           qb == b \div cap
<1>1. PICK k \in 3..M : M = k * cap
  BY RingAssumption DEF RingAssumption
<1>2. /\ a \in Nat /\ b \in Nat /\ qa \in Int /\ qb \in Int /\ Slot(a) \in Int
      /\ a = cap * qa + Slot(a) /\ b = cap * qb + Slot(b)
  BY Sizes DEF Counter, Slot
<1>3. \/ Dist(a, b) = b - a
      \/ Dist(a, b) = b - a + M
  BY DistCases
<1>4. SUFFICES ASSUME Slot(a) = Slot(b) PROVE FALSE
  OBVIOUS
<1> HIDE DEF qa, qb
<1>5. b - a = cap * (qb - qa)
  <2>1. cap * (qb - qa) = cap * qb - cap * qa
    BY <1>2, Sizes
  <2> QED BY <1>2, <1>4, <2>1, Sizes
<1>6. PICK z \in Int : Dist(a, b) = cap * z
  <2>1. CASE Dist(a, b) = b - a
    BY <1>2, <1>5, <2>1
  <2>2. CASE Dist(a, b) = b - a + M
    <3>1. b - a + M = cap * ((qb - qa) + k)
      BY <1>1, <1>2, <1>5, Sizes
    <3> QED BY <1>1, <1>2, <2>2, <3>1
  <2> QED BY <1>3, <2>1, <2>2
<1>7. CASE z >= 1
  <2>1. cap * z >= cap
    BY <1>7, Sizes
  <2> QED BY <1>6, <2>1, Sizes
<1>8. CASE z <= 0
  <2>1. cap * z <= 0
    BY <1>8, Sizes
  <2> QED BY <1>6, <2>1, Sizes
<1> QED BY <1>6, <1>7, <1>8

(* Two positions within one buffer size of a third are in different slots. *)
LEMMA Apart ==
  ASSUME NEW base \in Counter, NEW a \in Counter, NEW b \in Counter,
         a # b, Dist(base, a) < cap, Dist(base, b) < cap
  PROVE  Slot(a) # Slot(b)
<1>1. Dist(base, a) \in Nat /\ Dist(base, b) \in Nat /\ Dist(base, a) # Dist(base, b)
  BY DistType, DistSame
<1>2. CASE Dist(base, a) < Dist(base, b)
  <2>1. Dist(a, b) = Dist(base, b) - Dist(base, a)
    BY <1>1, <1>2, DistSub
  <2> QED BY <1>1, <1>2, <2>1, Sizes, SlotsDiffer
<1>3. CASE Dist(base, b) < Dist(base, a)
  <2>1. Dist(b, a) = Dist(base, a) - Dist(base, b)
    BY <1>1, <1>3, DistSub
  <2> QED BY <1>1, <1>3, <2>1, Sizes, SlotsDiffer
<1> QED BY <1>1, <1>2, <1>3

LEMMA SlotType == ASSUME NEW x \in Counter PROVE Slot(x) \in 0..(cap - 1)
BY Sizes DEF Slot, Counter

(* The positions of a region, by their distance from its start.            *)
LEMMA RegionPositions ==
  ASSUME NEW t \in Threads, old[t] \in Counter, nu[t] \in Counter
  PROVE  \A x : x \in Region(t) <=> x \in Counter /\ Dist(old[t], x) < Dist(old[t], nu[t])
<1>1. Dist(old[t], nu[t]) \in Counter /\ Dist(old[t], nu[t]) \in Nat
  BY DistType
<1>2. ASSUME NEW x \in Region(t)
      PROVE  x \in Counter /\ Dist(old[t], x) < Dist(old[t], nu[t])
  <2>1. PICK k \in 0..(Dist(old[t], nu[t]) - 1) : x = Add(old[t], k)
    BY <1>2 DEF Region
  <2>2. k \in Counter /\ k < Dist(old[t], nu[t])
    BY <1>1, <2>1, Sizes DEF Counter
  <2> QED BY <2>1, <2>2, AddType, DistOfAdd
<1>3. ASSUME NEW x \in Counter, Dist(old[t], x) < Dist(old[t], nu[t])
      PROVE  x \in Region(t)
  <2>1. Dist(old[t], x) \in 0..(Dist(old[t], nu[t]) - 1)
    BY <1>1, <1>3, DistType
  <2>2. x = Add(old[t], Dist(old[t], x))
    BY AddOfDist
  <2> QED BY <2>1, <2>2 DEF Region
<1> QED BY <1>2, <1>3

----------------------------------------------------------------------------
(* Type correctness *)

(* What the lemmas below take from the type invariant. *)
LEMMA Types ==
  ASSUME TypeOK
  PROVE  /\ whead \in Counter /\ wtail \in Counter
         /\ rhead \in Counter /\ rtail \in Counter
         /\ \A t \in Threads : /\ pc[t] \in Labels
                              /\ n[t] \in Counter /\ old[t] \in Counter /\ nu[t] \in Counter
                              /\ call[t].op \in {"none", "write", "read", "discard"}
                              /\ call[t].how \in ReadModes
                              /\ call[t].size \in Counter
                              /\ MyHead(t) \in Counter /\ MyTail(t) \in Counter
BY DEF TypeOK, Counter, MyHead, MyTail

LEMMA LeastOf ==
  ASSUME NEW S, \E x \in S : \A y \in S : x <= y
  PROVE  Least(S) \in S /\ \A y \in S : Least(S) <= y
BY DEF Least

(* The size a call settles on is one of those it chose from.               *)
LEMMA AdjustedFacts ==
  ASSUME TypeOK, NEW t \in Threads
  PROVE  /\ Room(t) \in Counter /\ Adjusted(t) \in Counter
         /\ call[t].how = "EXACT" => Adjusted(t) = n[t]
         /\ n[t] # 0 /\ call[t].how \in {"MAX", "MAX1"} =>
              Adjusted(t) <= Room(t) /\ (Adjusted(t) = 0 => Room(t) = 0)
<1>1. Room(t) \in Counter
  BY Types, Sizes DEF Room, Counter
<1>2. n[t] \in Counter /\ old[t] \in Counter /\ call[t].how \in ReadModes
  BY Types
<1>3. cap - Slot(old[t]) \in Counter /\ cap - Slot(old[t]) >= 1
  BY <1>2, Sizes, SlotType DEF Counter
<1>4. CASE call[t].how = "EXACT"
  BY <1>1, <1>2, <1>4 DEF Adjusted
<1>5. CASE call[t].how = "MIN"
  BY <1>1, <1>2, <1>5 DEF Adjusted
<1>6. CASE call[t].how = "MAX"
  <2> DEFINE S == {n[t], Room(t)}
  <2>1. Adjusted(t) = Least(S)
    BY <1>6 DEF Adjusted
  <2>2. \E x \in S : \A y \in S : x <= y
    BY <1>1, <1>2 DEF Counter
  <2>3. Least(S) \in S /\ \A y \in S : Least(S) <= y
    BY <2>2, LeastOf
  <2> QED BY <1>1, <1>2, <1>6, <2>1, <2>3 DEF Counter
<1>7. CASE call[t].how = "MAX1"
  <2> DEFINE S == {n[t], Room(t), cap - Slot(old[t])}
  <2>1. Adjusted(t) = Least(S)
    BY <1>7 DEF Adjusted
  <2>2. \E x \in S : \A y \in S : x <= y
    BY <1>1, <1>2, <1>3 DEF Counter
  <2>3. Least(S) \in S /\ \A y \in S : Least(S) <= y
    BY <2>2, LeastOf
  <2> QED BY <1>1, <1>2, <1>3, <1>7, <2>1, <2>3 DEF Counter
<1> QED BY <1>1, <1>2, <1>4, <1>5, <1>6, <1>7 DEF ReadModes

LEMMA TypeInit == Init => TypeOK
BY Sizes DEF Init, TypeOK, Labels, NoCall, ReadModes

LEMMA TypeStep == TypeOK /\ [Next]_vars => TypeOK'
<1> SUFFICES ASSUME TypeOK, [Next]_vars PROVE TypeOK'
  OBVIOUS
<1> USE DEF counters
<1> DEFINE Call == [op : {"none", "write", "read", "discard"}, how : ReadModes,
                    size : 0..(M - 1)]
<1> DEFINE Locals == /\ pc \in [Threads -> Labels]
                     /\ call \in [Threads -> Call]
                     /\ n \in [Threads -> 0..(M - 1)]
                     /\ old \in [Threads -> 0..(M - 1)]
                     /\ nu \in [Threads -> 0..(M - 1)]
<1> DEFINE Shared == /\ flags \subseteq {"1_READER", "1_WRITER"}
                     /\ {whead, wtail, rhead, rtail} \subseteq 0..(M - 1)
                     /\ data \in [0..(cap - 1) -> -1..(M - 1)]
<1>a. /\ Locals /\ Shared
      /\ \A t \in Threads : MyHead(t) \in 0..(M - 1)
      /\ 0 \in 0..(M - 1)
  BY Sizes DEF TypeOK, MyHead
<1>b. \A t \in Threads : \A l \in Labels : Goto(t, l) => pc' \in [Threads -> Labels]
  BY <1>a DEF Goto
<1>c. NoCall \in Call /\ \A t \in Threads : [NoCall EXCEPT !.op = call[t].op] \in Call
  BY <1>a DEF NoCall, ReadModes
<1>d. \A c \in Requests : c \in Call /\ c.size \in 0..(M - 1)
  BY RingAssumption, Sizes DEF RingAssumption, Calls, WriteModes, ReadModes
<1> HIDE DEF Call
<1>e. \A t \in Threads : Return(t) => Locals'
  BY <1>a, <1>b, <1>c DEF Return, Labels
<1>f. Locals' /\ Shared' => TypeOK'
  BY DEF TypeOK, Call
<1> HIDE DEF Locals, Shared
<1>1. ASSUME NEW t \in Threads, ReadHead(t) PROVE TypeOK'
  BY <1>1, <1>a, <1>b, <1>f DEF ReadHead, Locals, Shared, Labels
<1>2. ASSUME NEW t \in Threads, CheckRoom(t) PROVE TypeOK'
  <2>1. Adjusted(t) \in 0..(M - 1) /\ Add(old[t], Adjusted(t)) \in 0..(M - 1)
    BY AdjustedFacts, Types, AddType DEF Counter
  <2> QED BY <1>2, <2>1, <1>a, <1>b, <1>f DEF CheckRoom, Locals, Shared, Labels
<1>3. ASSUME NEW t \in Threads, CheckEmpty(t) PROVE TypeOK'
  <2>1. Shared'
    BY <1>3, <1>a DEF CheckEmpty, Shared
  <2>2. Locals'
    <3>1. CASE Return(t)
      BY <3>1, <1>e
    <3>2. CASE ~Return(t)
      BY <1>3, <3>2, <1>a, <1>b, <1>c DEF CheckEmpty, Locals, Labels
    <3> QED BY <3>1, <3>2
  <2> QED BY <2>1, <2>2, <1>f
<1>4. ASSUME NEW t \in Threads, DiscardAgain(t) PROVE TypeOK'
  <2>1. Shared'
    BY <1>4, <1>a DEF DiscardAgain, Shared
  <2>2. Room(t) \in 0..(M - 1)
    BY AdjustedFacts DEF Counter
  <2>3. Locals'
    <3>1. CASE Return(t)
      BY <3>1, <1>e
    <3>2. CASE ~Return(t)
      BY <1>4, <3>2, <2>2, <1>a, <1>b DEF DiscardAgain, ReadAgain, Locals, Labels
    <3> QED BY <3>1, <3>2
  <2> QED BY <2>1, <2>3, <1>f
<1>5. ASSUME NEW t \in Threads, Claim(t) PROVE TypeOK'
  <2>1. Locals'
    BY <1>5, <1>a, <1>b, <1>c DEF Claim, Locals, Labels
  <2>2. Shared'
    BY <1>5, <1>a DEF Claim, SetHead, Shared, Locals
  <2> QED BY <2>1, <2>2, <1>f
<1>6. ASSUME NEW t \in Threads, Retry(t) PROVE TypeOK'
  BY <1>6, <1>a, <1>b, <1>f DEF Retry, ReadAgain, Locals, Shared, Labels
<1>7. ASSUME NEW t \in Threads, Fill(t) PROVE TypeOK'
  <2>1. \A x \in Region(t) : x \in 0..(M - 1)
    BY RegionPositions, Types DEF Counter
  <2> DEFINE byte(i) == IF \E x \in Region(t) : Slot(x) = i
                        THEN CHOOSE x \in Region(t) : Slot(x) = i
                        ELSE data[i]
  <2>2. data' = [i \in DOMAIN data |-> byte(i)] /\ DOMAIN data = 0..(cap - 1)
    BY <1>7, <1>a DEF Fill, Shared
  <2>3. ASSUME NEW i \in 0..(cap - 1) PROVE byte(i) \in -1..(M - 1)
    <3>1. CASE \E x \in Region(t) : Slot(x) = i
      <4>1. byte(i) \in Region(t)
        BY <3>1
      <4> QED BY <2>1, <4>1, Sizes
    <3>2. CASE ~\E x \in Region(t) : Slot(x) = i
      BY <3>2, <1>a DEF Shared
    <3> QED BY <3>1, <3>2
  <2> HIDE DEF byte
  <2>4. data' \in [0..(cap - 1) -> -1..(M - 1)]
    BY <2>2, <2>3
  <2> QED BY <1>7, <2>4, <1>a, <1>b, <1>f DEF Fill, Locals, Shared, Labels
<1>8. ASSUME NEW t \in Threads, Consume(t) PROVE TypeOK'
  BY <1>8, <1>a, <1>b, <1>f DEF Consume, Locals, Shared, Labels
<1>9. ASSUME NEW t \in Threads, Wait(t) PROVE TypeOK'
  BY <1>9, <1>a, <1>b, <1>f DEF Wait, Locals, Shared, Labels
<1>10. ASSUME NEW t \in Threads, Commit(t) PROVE TypeOK'
  <2>1. Locals'
    BY <1>10, <1>e DEF Commit
  <2>2. Shared'
    BY <1>10, <1>a DEF Commit, SetTail, Return, Shared, Locals
  <2> QED BY <2>1, <2>2, <1>f
<1>11. ASSUME NEW t \in Threads, NEW c \in Requests, Begin(t, c) PROVE TypeOK'
  <2>1. Locals'
    BY <1>11, <1>a, <1>b, <1>d DEF Begin, Locals, Shared, Labels
  <2> QED BY <1>11, <2>1, <1>a, <1>f DEF Begin, Shared
<1>12. CASE Reset
  BY <1>12, <1>a, <1>f, Sizes DEF Reset, Locals, Shared
<1>13. CASE UNCHANGED vars
  BY <1>13 DEF vars, TypeOK
<1> QED
  BY <1>1, <1>2, <1>3, <1>4, <1>5, <1>6, <1>7, <1>8, <1>9, <1>10, <1>11, <1>12, <1>13
     DEF Next, Step

(* Counters, heads, sizes and bytes keep their types, for every number of  *)
(* threads, every buffer size and every set of calls.                      *)
THEOREM TypeCorrect == Spec => []TypeOK
BY TypeInit, TypeStep, PTL DEF Spec

----------------------------------------------------------------------------
(* The inductive invariant *)

(* The two sides of the buffer are alike: a call works on one head and one *)
(* tail, shared with the calls of its side.                                *)
Peer(t, u) == Writing(t) <=> Writing(u)

Trying(t) == pc[t] \in {"check", "claim"}

(* The bound NoLap keeps. *)
LagIsBounded(t) == Trying(t) => Dist(old[t], MyHead(t)) <= MaxLag

(* A thread about to move the head has found what it needs, as long as the *)
(* head is still where it read it.                                         *)
ClaimIsSafe(t) ==
  pc[t] = "claim" =>
    /\ n[t] # 0
    /\ nu[t] = Add(old[t], n[t])
    /\ old[t] = MyHead(t) => n[t] <= AvailableTo(t)

(* With FFRING_1_WRITER (FFRING_1_READER) a writer (reader) is alone on    *)
(* its side, so the head and the tail stay where it found them.            *)
SoloIsAlone(t) ==
  Solo(t) /\ pc[t] # "idle" =>
    /\ \A u \in Threads \ {t} : pc[u] # "idle" => ~Peer(t, u)
    /\ Trying(t) => old[t] = MyHead(t)
    /\ Owning(t) => old[t] = MyTail(t)

(* A reservation lies between the tail and the head of its side, it is not *)
(* empty if there are several, and the one that is committed is the first. *)
OwnerInRange(t) ==
  Owning(t) =>
    /\ Dist(MyTail(t), old[t]) + Dist(old[t], nu[t]) <= Dist(MyTail(t), MyHead(t))
    /\ old[t] = nu[t] => Solo(t)
    /\ pc[t] = "commit" => old[t] = MyTail(t)

ThreadOK(t) == LagIsBounded(t) /\ ClaimIsSafe(t) /\ SoloIsAlone(t) /\ OwnerInRange(t)

(* t's reservation ends before u's starts. *)
Before(t, u) ==
  Dist(MyTail(t), old[t]) + Dist(old[t], nu[t]) <= Dist(MyTail(t), old[u])

OwnersApart ==
  \A t, u \in Threads :
    t # u /\ Owning(t) /\ Owning(u) /\ Peer(t, u) => Before(t, u) \/ Before(u, t)

Holds(t, x) == Owning(t) /\ Dist(old[t], x) < Dist(old[t], nu[t])

(* Every position between a tail and its head is reserved by somebody.     *)
Covered ==
  \A x \in Counter :
    /\ Dist(wtail, x) < Dist(wtail, whead) => \E t \in Threads : Writing(t) /\ Holds(t, x)
    /\ Dist(rtail, x) < Dist(rtail, rhead) => \E t \in Threads : ~Writing(t) /\ Holds(t, x)

IInv ==
  /\ RegionsFit
  /\ \A t \in Threads : ThreadOK(t)
  /\ OwnersApart
  /\ Covered

(* How far the counters are from each other. *)
LEMMA Distances ==
  ASSUME RegionsFit
  PROVE  /\ Dist(rtail, whead) =
              Dist(rtail, rhead) + Dist(rhead, wtail) + Dist(wtail, whead)
         /\ Dist(rtail, wtail) = Dist(rtail, rhead) + Dist(rhead, wtail)
         /\ Dist(rhead, whead) = Dist(rhead, wtail) + Dist(wtail, whead)
         /\ Dist(rtail, rhead) \in Nat /\ Dist(rhead, wtail) \in Nat
         /\ Dist(wtail, whead) \in Nat /\ Dist(rtail, whead) <= cap
         /\ FreeNow \in 0..cap /\ UsedNow \in 0..cap
<1>1. /\ whead \in Counter /\ wtail \in Counter /\ rhead \in Counter /\ rtail \in Counter
      /\ Dist(rtail, rhead) + Dist(rhead, wtail) + Dist(wtail, whead) <= cap
  BY Types DEF RegionsFit
<1>2. /\ Dist(rtail, rhead) \in Nat /\ Dist(rhead, wtail) \in Nat
      /\ Dist(wtail, whead) \in Nat
  BY <1>1, DistType
<1>3. Dist(rtail, wtail) = Dist(rtail, rhead) + Dist(rhead, wtail)
  BY <1>1, <1>2, Sizes, DistAdd
<1>4. Dist(rhead, whead) = Dist(rhead, wtail) + Dist(wtail, whead)
  BY <1>1, <1>2, Sizes, DistAdd
<1>5. Dist(rtail, whead) = Dist(rtail, wtail) + Dist(wtail, whead)
  BY <1>1, <1>2, <1>3, Sizes, DistAdd
<1> QED BY <1>1, <1>2, <1>3, <1>4, <1>5, Sizes DEF FreeNow, UsedNow

(* What a call computes from the head it read is what is available plus    *)
(* what has been reserved since.                                           *)
LEMMA RoomIs ==
  ASSUME RegionsFit, NEW t \in Threads, Dist(old[t], MyHead(t)) <= MaxLag
  PROVE  /\ Room(t) = AvailableTo(t) + Dist(old[t], MyHead(t))
         /\ AvailableTo(t) \in 0..cap /\ Dist(old[t], MyHead(t)) \in Nat
<1>1. /\ whead \in Counter /\ wtail \in Counter /\ rhead \in Counter /\ rtail \in Counter
      /\ old[t] \in Counter /\ MyHead(t) \in Counter
  BY Types DEF RegionsFit
<1>2. Dist(old[t], MyHead(t)) \in Nat
  BY <1>1, DistType
<1>3. CASE Writing(t)
  <2>1. Room(t) = cap - Dist(rtail, whead) + Dist(old[t], whead)
    BY <1>1, <1>3, Distances, FreeSpace DEF Room, MyHead
  <2> QED BY <1>2, <1>3, <2>1, Distances DEF AvailableTo, FreeNow, MyHead
<1>4. CASE ~Writing(t)
  <2>1. Dist(old[t], rhead) + Dist(rhead, wtail) < M
    BY <1>2, <1>4, Distances, Sizes DEF MyHead, MaxLag, UsedNow
  <2>2. Room(t) = Dist(old[t], rhead) + Dist(rhead, wtail)
    BY <1>1, <1>4, <2>1, DistAdd DEF Room, Dist
  <2> QED BY <1>2, <1>4, <2>2, Distances DEF AvailableTo, UsedNow, MyHead
<1> QED BY <1>2, <1>3, <1>4

(* A side without owners has nothing reserved. *)
LEMMA NoOwners ==
  ASSUME IInv, NEW t \in Threads, \A u \in Threads : Owning(u) => ~Peer(t, u)
  PROVE  MyTail(t) = MyHead(t)
<1>1. MyTail(t) \in Counter /\ MyHead(t) \in Counter
  BY Types DEF IInv, RegionsFit
<1>2. ~(Dist(MyTail(t), MyTail(t)) < Dist(MyTail(t), MyHead(t)))
  BY <1>1 DEF IInv, Covered, Holds, Peer, MyTail, MyHead
<1> QED BY <1>1, <1>2, DistZero, DistType

LEMMA InvInit == Init => IInv
<1> SUFFICES ASSUME Init PROVE IInv
  OBVIOUS
<1>1. TypeOK
  BY TypeInit
<1>2. Dist(0, 0) = 0 /\ 0 \in Counter
  BY Sizes, DistZero DEF Counter
<1>3. RegionsFit
  BY <1>1, <1>2, Sizes DEF Init, RegionsFit
<1>4. \A t \in Threads : ThreadOK(t)
  BY DEF Init, ThreadOK, LagIsBounded, ClaimIsSafe, SoloIsAlone, OwnerInRange, Trying, Owning
<1>5. OwnersApart
  BY DEF Init, OwnersApart, Owning
<1>6. Covered
  BY <1>2, DistType DEF Init, Covered
<1> QED BY <1>3, <1>4, <1>5, <1>6 DEF IInv

(* The locals of a thread that does not move. *)
Same(u) ==
  /\ pc'[u] = pc[u] /\ call'[u] = call[u] /\ n'[u] = n[u]
  /\ old'[u] = old[u] /\ nu'[u] = nu[u]

LEMMA Frame ==
  ASSUME TypeOK, NEW t \in Threads, Step(t) \/ \E c \in Requests : Begin(t, c)
  PROVE  flags' = flags /\ \A u \in Threads \ {t} : Same(u)
BY DEF TypeOK, Same, Step, Begin, ReadHead, CheckRoom, CheckEmpty, DiscardAgain, Claim,
       Retry, Fill, Consume, Wait, Commit, Goto, ReadAgain, Return

(* A step of thread t that moves no counter keeps the invariant if it      *)
(* keeps what the invariant says of t and t's reservation, and if t begins *)
(* a call or an empty reservation only where that disturbs nobody.         *)
LEMMA LocalStep ==
  ASSUME IInv, TypeOK', NEW t \in Threads, UNCHANGED counters, UNCHANGED flags,
         \A u \in Threads \ {t} : Same(u),
         pc[t] # "idle" => pc'[t] = "idle" \/ call'[t].op = call[t].op,
         pc[t] = "idle" =>
           \A u \in Threads \ {t} :
             pc[u] # "idle" /\ Solo(u) => ~(Writing(u) <=> Writing(t)'),
         Owning(t) => Owning(t)' /\ old'[t] = old[t] /\ nu'[t] = nu[t],
         ~Owning(t) /\ Owning(t)' =>
           \A u \in Threads \ {t} : Owning(u) => ~(Writing(u) <=> Writing(t)'),
         ThreadOK(t)'
  PROVE  IInv'
<1> USE DEF counters
<1>1. RegionsFit'
  BY DEF IInv, RegionsFit
<1>2. ASSUME NEW u \in Threads \ {t}
      PROVE  /\ Writing(u)' <=> Writing(u)
             /\ Solo(u)' <=> Solo(u)
             /\ MyHead(u)' = MyHead(u) /\ MyTail(u)' = MyTail(u)
             /\ AvailableTo(u)' = AvailableTo(u)
             /\ Trying(u)' <=> Trying(u)
             /\ Owning(u)' <=> Owning(u)
  BY <1>2 DEF Same, Writing, Solo, Alone, MyHead, MyTail, AvailableTo, FreeNow, UsedNow,
              Trying, Owning
<1>3. Owning(t) => (Writing(t)' <=> Writing(t)) /\ MyTail(t)' = MyTail(t)
  BY DEF Owning, Writing, MyTail
<1>4. ASSUME NEW u \in Threads, u # t PROVE ThreadOK(u)'
  <2>1. ThreadOK(u) /\ Same(u)
    BY <1>4 DEF IInv
  <2>2. LagIsBounded(u)' /\ ClaimIsSafe(u)' /\ OwnerInRange(u)'
    BY <1>2, <1>4, <2>1 DEF ThreadOK, Same, LagIsBounded, ClaimIsSafe, OwnerInRange
  <2>3. SoloIsAlone(u)'
    <3>1. SUFFICES ASSUME Solo(u), pc[u] # "idle"
                   PROVE  \A w \in Threads \ {u} : pc'[w] # "idle" => ~Peer(u, w)'
      BY <1>2, <1>4, <2>1 DEF ThreadOK, Same, SoloIsAlone
    <3>2. ASSUME NEW w \in Threads \ {u}, w # t, pc'[w] # "idle" PROVE ~Peer(u, w)'
      BY <1>2, <1>4, <2>1, <3>1, <3>2 DEF ThreadOK, Same, SoloIsAlone, Peer
    <3>3. ASSUME pc'[t] # "idle" PROVE ~Peer(u, t)'
      <4>1. CASE pc[t] = "idle"
        BY <1>2, <1>4, <3>1, <4>1 DEF Peer
      <4>2. CASE pc[t] # "idle"
        <5>1. ~(Writing(u) <=> Writing(t))
          BY <1>4, <2>1, <3>1, <4>2 DEF ThreadOK, SoloIsAlone, Peer
        <5>2. Writing(t)' <=> Writing(t)
          BY <3>3, <4>2 DEF Writing
        <5> QED BY <1>2, <1>4, <5>1, <5>2 DEF Peer
      <4> QED BY <4>1, <4>2
    <3> QED BY <3>2, <3>3
  <2> QED BY <2>2, <2>3 DEF ThreadOK
<1>5. OwnersApart'
  <2>1. SUFFICES ASSUME NEW u \in Threads, NEW w \in Threads, u # w,
                        Owning(u)', Owning(w)', Peer(u, w)'
                 PROVE  Before(u, w)' \/ Before(w, u)'
    BY DEF OwnersApart
  <2>2. Owning(u) /\ Owning(w) /\ Peer(u, w)
    BY <1>2, <1>3, <2>1 DEF Peer
  <2>3. /\ old'[u] = old[u] /\ nu'[u] = nu[u] /\ MyTail(u)' = MyTail(u)
        /\ old'[w] = old[w] /\ nu'[w] = nu[w] /\ MyTail(w)' = MyTail(w)
    BY <1>2, <1>3, <2>2 DEF Same
  <2> QED BY <2>1, <2>2, <2>3 DEF IInv, OwnersApart, Before
<1>6. Covered'
  <2>1. \A u \in Threads : \A x : Holds(u, x) => Holds(u, x)' /\ (Writing(u)' <=> Writing(u))
    BY <1>2, <1>3 DEF Holds, Same
  <2> QED BY <2>1 DEF IInv, Covered
<1> QED BY <1>1, <1>4, <1>5, <1>6 DEF IInv

----------------------------------------------------------------------------
(* The steps that move no counter *)

(* A thread that owns nothing enters a call, or reads the head again.      *)
LEMMA EnterStep ==
  ASSUME IInv, TypeOK', NEW t \in Threads,
         ReadHead(t) \/ \E c \in Requests : Begin(t, c)
  PROVE  IInv'
<1>1. TypeOK /\ ThreadOK(t)
  BY DEF IInv, RegionsFit
<1>2. UNCHANGED flags /\ UNCHANGED counters /\ \A u \in Threads \ {t} : Same(u)
  BY <1>1, Frame DEF Step, ReadHead, Begin
<1>3. pc[t] \in {"idle", "head"} /\ pc'[t] = "check" /\ old'[t] = MyHead(t)'
  BY <1>1 DEF TypeOK, ReadHead, Begin, Goto, MyHead, Writing, counters
<1>4. pc[t] # "idle" => call' = call
  BY <1>3 DEF ReadHead, Begin
<1>5. pc[t] = "idle" =>
        /\ Solo(t)' => \A u \in Threads \ {t} : pc[u] # "idle" => ~(Writing(u) <=> Writing(t)')
        /\ \A u \in Threads \ {t} : pc[u] # "idle" /\ Solo(u) => ~(Writing(u) <=> Writing(t)')
  <2>1. SUFFICES ASSUME NEW c \in Requests, Begin(t, c)
                 PROVE  /\ Solo(t)' => \A u \in Threads \ {t} :
                                          pc[u] # "idle" => ~(Writing(u) <=> Writing(t)')
                        /\ \A u \in Threads \ {t} :
                             pc[u] # "idle" /\ Solo(u) => ~(Writing(u) <=> Writing(t)')
    BY DEF ReadHead
  <2>2. call'[t] = c
    BY <1>1, <2>1 DEF Begin, TypeOK
  <2> QED BY <1>2, <2>1, <2>2 DEF Begin, Solo, Alone, Writing
<1>6. ~Owning(t) /\ ~Owning(t)' /\ Trying(t)'
  BY <1>3 DEF Owning, Trying
<1>7. LagIsBounded(t)'
  <2>1. Dist(MyHead(t)', MyHead(t)') = 0
    <3>1. MyHead(t)' \in Counter
      BY Types DEF MyHead, Counter, TypeOK
    <3> QED BY <3>1, DistZero
  <2> QED BY <1>3, <2>1, Sizes DEF LagIsBounded, MaxLag
<1>8. SoloIsAlone(t)'
  <2>1. SUFFICES ASSUME Solo(t)', NEW u \in Threads \ {t}, pc'[u] # "idle"
                 PROVE  ~Peer(t, u)'
    BY <1>3, <1>6 DEF SoloIsAlone
  <2>2. pc[u] # "idle" /\ (Writing(u)' <=> Writing(u))
    BY <1>2, <2>1 DEF Same, Writing
  <2>3. CASE pc[t] = "idle"
    BY <1>5, <2>1, <2>2, <2>3 DEF Peer
  <2>4. CASE pc[t] # "idle"
    <3>1. Solo(t) /\ (Writing(t)' <=> Writing(t))
      BY <1>2, <1>4, <2>1, <2>4 DEF Solo, Alone, Writing
    <3> QED BY <1>1, <2>1, <2>2, <2>4, <3>1 DEF ThreadOK, SoloIsAlone, Peer
  <2> QED BY <2>3, <2>4
<1>9. ThreadOK(t)'
  BY <1>3, <1>6, <1>7, <1>8 DEF ThreadOK, ClaimIsSafe, OwnerInRange
<1> QED BY <1>2, <1>3, <1>4, <1>5, <1>6, <1>9, LocalStep

(* What the other steps without a counter leave of SoloIsAlone. *)
LEMMA StaysAlone ==
  ASSUME IInv, NEW t \in Threads, UNCHANGED flags,
         \A u \in Threads \ {t} : Same(u),
         pc[t] # "idle", call'[t].op = call[t].op,
         Solo(t)'
  PROVE  \A u \in Threads \ {t} : pc'[u] # "idle" => ~Peer(t, u)'
<1>1. Solo(t) /\ (Writing(t)' <=> Writing(t))
  BY DEF Solo, Alone, Writing
<1>2. \A u \in Threads \ {t} : pc[u] # "idle" => ~Peer(t, u)
  BY <1>1 DEF IInv, ThreadOK, SoloIsAlone
<1> QED BY <1>1, <1>2 DEF Same, Peer, Writing

(* A thread that owns nothing goes back to the start of the loop, or       *)
(* returns.                                                                *)
LEMMA LeaveStep ==
  ASSUME IInv, TypeOK', NEW t \in Threads, UNCHANGED counters, UNCHANGED flags,
         \A u \in Threads \ {t} : Same(u),
         pc[t] \in {"check", "claim"},
         pc'[t] = "idle" \/ (pc'[t] = "head" /\ call'[t].op = call[t].op)
  PROVE  IInv'
<1>1. ~Owning(t) /\ ~Owning(t)' /\ ~Trying(t)'
  BY DEF Owning, Trying
<1>2. SoloIsAlone(t)'
  BY <1>1, StaysAlone DEF SoloIsAlone
<1>3. ThreadOK(t)'
  BY <1>1, <1>2 DEF ThreadOK, LagIsBounded, ClaimIsSafe, OwnerInRange
<1> QED BY <1>1, <1>3, LocalStep

LEMMA CheckRoomStep ==
  ASSUME IInv, TypeOK', NEW t \in Threads, CheckRoom(t)
  PROVE  IInv'
<1>1. TypeOK /\ RegionsFit /\ ThreadOK(t)
  BY DEF IInv, RegionsFit
<1>2. UNCHANGED flags /\ UNCHANGED counters /\ \A u \in Threads \ {t} : Same(u)
  BY <1>1, Frame DEF Step, CheckRoom
<1>3. /\ pc[t] = "check" /\ pc'[t] = "claim" /\ call' = call /\ old' = old
      /\ n'[t] = Adjusted(t) /\ nu'[t] = Add(old[t], Adjusted(t))
  BY <1>1 DEF TypeOK, CheckRoom, Goto
<1>4. ~Owning(t) /\ ~Owning(t)' /\ Trying(t) /\ Trying(t)'
  BY <1>3 DEF Owning, Trying
<1>5. /\ MyHead(t)' = MyHead(t) /\ AvailableTo(t)' = AvailableTo(t)
      /\ Solo(t)' <=> Solo(t)
  BY <1>2, <1>3
     DEF MyHead, AvailableTo, FreeNow, UsedNow, Writing, Solo, Alone, counters
<1>6. LagIsBounded(t)'
  BY <1>1, <1>3, <1>4, <1>5 DEF ThreadOK, LagIsBounded
<1>7. ClaimIsSafe(t)'
  <2>1. Adjusted(t) # 0 /\ Adjusted(t) <= Room(t)
    BY DEF CheckRoom, Fits
  <2>2. old[t] = MyHead(t) => Room(t) = AvailableTo(t)
    <3>1. SUFFICES ASSUME old[t] = MyHead(t) PROVE Room(t) = AvailableTo(t)
      OBVIOUS
    <3>2. old[t] \in Counter /\ Dist(old[t], MyHead(t)) = 0
      BY <1>1, <3>1, Types, DistZero
    <3>3. Dist(old[t], MyHead(t)) <= MaxLag
      BY <3>2, Sizes DEF MaxLag
    <3> QED BY <1>1, <3>2, <3>3, RoomIs
  <2> QED BY <1>3, <1>5, <2>1, <2>2 DEF ClaimIsSafe
<1>8. SoloIsAlone(t)'
  BY <1>1, <1>2, <1>3, <1>4, <1>5, StaysAlone DEF ThreadOK, SoloIsAlone
<1>9. ThreadOK(t)'
  BY <1>4, <1>6, <1>7, <1>8 DEF ThreadOK, OwnerInRange
<1> QED BY <1>2, <1>3, <1>4, <1>9, LocalStep

(* An empty reservation is finished only by a thread alone on its side,    *)
(* where head and tail are the same.                                       *)
LEMMA CheckEmptyStep ==
  ASSUME ~FinishEmpty, IInv, TypeOK', NEW t \in Threads, CheckEmpty(t)
  PROVE  IInv'
<1>1. TypeOK /\ ThreadOK(t)
  BY DEF IInv, RegionsFit
<1>2. UNCHANGED flags /\ UNCHANGED counters /\ \A u \in Threads \ {t} : Same(u)
  BY <1>1, Frame DEF Step, CheckEmpty
<1>3. pc[t] = "check" /\ ~Owning(t) /\ Trying(t)
  BY DEF CheckEmpty, Owning, Trying
<1>4. CASE Return(t)
  <2>1. pc'[t] = "idle"
    BY <1>1, <1>4 DEF Return, Goto, TypeOK
  <2> QED BY <1>2, <1>3, <2>1, LeaveStep
<1>5. CASE ~Return(t)
  <2>1. /\ Solo(t) /\ pc'[t] = "finish" /\ call'[t].op = call[t].op
        /\ nu'[t] = old[t] /\ old' = old
    BY <1>1, <1>5 DEF CheckEmpty, Goto, TypeOK
  <2>2. /\ \A u \in Threads \ {t} : pc[u] # "idle" => ~Peer(t, u)
        /\ old[t] = MyHead(t)
    BY <1>1, <1>3, <2>1 DEF ThreadOK, SoloIsAlone
  <2>3. old[t] = MyTail(t)
    BY <1>3, <2>2, NoOwners DEF Owning, Peer
  <2>4. /\ MyHead(t)' = MyHead(t) /\ MyTail(t)' = MyTail(t)
        /\ Solo(t)' <=> Solo(t)
        /\ Writing(t)' <=> Writing(t)
    BY <1>2, <2>1 DEF MyHead, MyTail, Writing, Solo, Alone, counters
  <2>5. Owning(t)' /\ ~Trying(t)'
    BY <2>1 DEF Owning, Trying
  <2>6. Dist(old[t], old[t]) = 0 /\ old[t] \in Counter
    BY <1>1, Types, DistZero
  <2>7. OwnerInRange(t)'
    <3>1. /\ old'[t] = old[t] /\ nu'[t] = old[t]
          /\ MyTail(t)' = old[t] /\ MyHead(t)' = old[t]
      BY <2>1, <2>2, <2>3, <2>4
    <3>2. pc'[t] # "commit" /\ Solo(t)'
      BY <2>1, <2>4
    <3> QED BY <2>6, <3>1, <3>2 DEF OwnerInRange
  <2>8. SoloIsAlone(t)'
    BY <1>2, <1>3, <2>1, <2>3, <2>4, <2>5, StaysAlone DEF SoloIsAlone
  <2>9. ThreadOK(t)'
    BY <2>1, <2>5, <2>7, <2>8 DEF ThreadOK, LagIsBounded, ClaimIsSafe
  <2> QED BY <1>2, <1>3, <2>1, <2>2, <2>4, <2>9, LocalStep DEF Peer, Owning
<1> QED BY <1>4, <1>5

(* The owner of a reservation goes on, and on to the commit only when its  *)
(* turn has come.                                                          *)
LEMMA OwnerStep ==
  ASSUME IInv, TypeOK', NEW t \in Threads, Fill(t) \/ Consume(t) \/ Wait(t)
  PROVE  IInv'
<1>1. TypeOK /\ ThreadOK(t)
  BY DEF IInv, RegionsFit
<1>2. UNCHANGED flags /\ UNCHANGED counters /\ \A u \in Threads \ {t} : Same(u)
  BY <1>1, Frame DEF Step, Fill, Consume, Wait
<1>3. /\ pc[t] \in {"hold", "finish"} /\ pc'[t] \in {"finish", "commit"}
      /\ call' = call /\ old' = old /\ nu' = nu
      /\ pc'[t] = "commit" => Solo(t) \/ MyTail(t) = old[t]
  BY <1>1 DEF TypeOK, Fill, Consume, Wait, Goto
<1>4. Owning(t) /\ Owning(t)' /\ ~Trying(t)'
  BY <1>3 DEF Owning, Trying
<1>5. MyHead(t)' = MyHead(t) /\ MyTail(t)' = MyTail(t) /\ (Solo(t)' <=> Solo(t))
  BY <1>2, <1>3 DEF MyHead, MyTail, Writing, Solo, Alone, counters
<1>6. SoloIsAlone(t)'
  BY <1>1, <1>2, <1>3, <1>4, <1>5, StaysAlone DEF ThreadOK, SoloIsAlone
<1>7. OwnerInRange(t)'
  BY <1>1, <1>3, <1>4, <1>5 DEF ThreadOK, SoloIsAlone, OwnerInRange
<1>8. ThreadOK(t)'
  BY <1>3, <1>4, <1>6, <1>7 DEF ThreadOK, LagIsBounded, ClaimIsSafe
<1> QED BY <1>2, <1>3, <1>4, <1>8, LocalStep

----------------------------------------------------------------------------
(* The steps that move a counter.  First what they do to the counters of   *)
(* the two sides.                                                          *)

LEMMA ClaimMoves ==
  ASSUME RegionsFit, NEW t \in Threads, NEW k \in 1..AvailableTo(t),
         SetHead(t, Add(MyHead(t), k)), UNCHANGED <<wtail, rtail>>,
         \A u \in Threads : call'[u].op = call[u].op
  PROVE  /\ Dist(rtail, rhead)' + Dist(rhead, wtail)' + Dist(wtail, whead)' <= cap
         /\ MyHead(t)' = Add(MyHead(t), k) /\ MyHead(t)' \in Counter
         /\ Dist(MyHead(t), MyHead(t)') = k
         /\ Dist(MyTail(t), MyHead(t)') = Dist(MyTail(t), MyHead(t)) + k
         /\ \A u \in Threads :
              /\ Writing(u)' <=> Writing(u)
              /\ MyTail(u)' = MyTail(u)
              /\ Peer(t, u) => /\ MyHead(u) = MyHead(t) /\ MyTail(u) = MyTail(t)
                               /\ MyHead(u)' = MyHead(t)'
              /\ ~Peer(t, u) => /\ MyHead(u)' = MyHead(u)
                                /\ AvailableTo(u)' >= AvailableTo(u)
<1> DEFINE h == Add(MyHead(t), k)
<1>1. /\ whead \in Counter /\ wtail \in Counter /\ rhead \in Counter /\ rtail \in Counter
      /\ MyHead(t) \in Counter /\ MyTail(t) \in Counter
      /\ Dist(MyTail(t), MyHead(t)) \in Nat
  BY Types, DistType DEF RegionsFit
<1>2. \A u \in Threads : (Writing(u)' <=> Writing(u)) /\ MyTail(u)' = MyTail(u)
  BY DEF Writing, MyTail
<1>3. k \in Counter /\ k \in Nat /\ k <= AvailableTo(t) /\ AvailableTo(t) \in 0..cap
  BY Distances, Sizes DEF AvailableTo, Counter
<1>4. h \in Counter /\ Dist(MyHead(t), h) = k
  BY <1>1, <1>3, AddType, DistOfAdd
<1>5. Dist(MyTail(t), MyHead(t)) + k < M
  BY <1>3, Distances, Sizes DEF AvailableTo, FreeNow, UsedNow, RegionsFit, MyTail, MyHead
<1>6. Dist(MyTail(t), h) = Dist(MyTail(t), MyHead(t)) + k
  BY <1>1, <1>4, <1>5, DistAdd
<1> HIDE DEF h
<1>7. CASE Writing(t)
  <2>1. whead' = h /\ UNCHANGED <<wtail, rhead, rtail>> /\ MyHead(t) = whead /\ MyTail(t) = wtail
    BY <1>7 DEF SetHead, MyHead, MyTail, h
  <2>2. k <= cap - Dist(rtail, whead)
    BY <1>3, <1>7 DEF AvailableTo, FreeNow
  <2>3. Dist(rtail, rhead)' + Dist(rhead, wtail)' + Dist(wtail, whead)' <= cap
    BY <1>3, <1>6, <2>1, <2>2, Distances, Sizes
  <2>4. \A u \in Threads : Peer(t, u) => /\ MyHead(u) = MyHead(t) /\ MyTail(u) = MyTail(t)
                                          /\ MyHead(u)' = h
    BY <1>2, <1>7, <2>1 DEF Peer, MyHead, MyTail
  <2>5. \A u \in Threads : ~Peer(t, u) => /\ MyHead(u)' = MyHead(u)
                                           /\ AvailableTo(u)' = AvailableTo(u)
                                           /\ AvailableTo(u) \in Nat
    BY <1>2, <1>7, <2>1, Distances DEF Peer, MyHead, AvailableTo, UsedNow
  <2>6. MyHead(t)' = h
    BY <2>4 DEF Peer
  <2> QED BY <1>2, <1>4, <1>6, <2>3, <2>4, <2>5, <2>6 DEF h
<1>8. CASE ~Writing(t)
  <2>1. rhead' = h /\ UNCHANGED <<wtail, whead, rtail>> /\ MyHead(t) = rhead /\ MyTail(t) = rtail
    BY <1>8 DEF SetHead, MyHead, MyTail, h
  <2>2. k <= Dist(rhead, wtail)
    BY <1>3, <1>8 DEF AvailableTo, UsedNow
  <2>3. Dist(h, wtail) = Dist(rhead, wtail) - k
    BY <1>1, <1>4, <2>1, <2>2, DistSub
  <2>4. Dist(rtail, rhead)' + Dist(rhead, wtail)' + Dist(wtail, whead)' <= cap
    BY <1>3, <1>6, <2>1, <2>3, Distances, Sizes DEF RegionsFit
  <2>5. \A u \in Threads : Peer(t, u) => /\ MyHead(u) = MyHead(t) /\ MyTail(u) = MyTail(t)
                                          /\ MyHead(u)' = h
    BY <1>2, <1>8, <2>1 DEF Peer, MyHead, MyTail
  <2>6. \A u \in Threads : ~Peer(t, u) => /\ MyHead(u)' = MyHead(u)
                                           /\ AvailableTo(u)' = AvailableTo(u)
                                           /\ AvailableTo(u) \in Int
    BY <1>2, <1>8, <2>1, Distances, Sizes DEF Peer, MyHead, AvailableTo, FreeNow
  <2>7. MyHead(t)' = h
    BY <2>5 DEF Peer
  <2> QED BY <1>2, <1>4, <1>6, <2>4, <2>5, <2>6, <2>7 DEF h
<1> QED BY <1>7, <1>8

LEMMA ClaimStep ==
  ASSUME IInv, TypeOK', NEW t \in Threads, Claim(t)
  PROVE  IInv'
<1>1. TypeOK /\ RegionsFit /\ ThreadOK(t)
  BY DEF IInv, RegionsFit
<1>2. UNCHANGED flags /\ \A u \in Threads \ {t} : Same(u)
  BY <1>1, Frame DEF Step
<1>3. /\ pc[t] = "claim" /\ pc'[t] \in {"hold", "finish"}
      /\ \A u \in Threads : call'[u].op = call[u].op
      /\ old' = old /\ nu' = nu /\ UNCHANGED <<wtail, rtail>>
  BY <1>1 DEF TypeOK, Claim, Goto
<1>4. Trying(t) /\ ~Owning(t) /\ Owning(t)' /\ ~Trying(t)'
  BY <1>3 DEF Trying, Owning
<1>5. old[t] = MyHead(t)
  BY <1>1, <1>3, <1>4 DEF Claim, ThreadOK, SoloIsAlone
<1> DEFINE k == n[t]
<1>6. k \in 1..AvailableTo(t) /\ nu[t] = Add(old[t], k) /\ k \in Nat
  <2>1. k # 0 /\ k <= AvailableTo(t) /\ nu[t] = Add(old[t], k)
    BY <1>1, <1>3, <1>5 DEF ThreadOK, ClaimIsSafe
  <2>2. k \in Nat /\ AvailableTo(t) \in Nat
    BY <1>1, Types, Distances, Sizes DEF Counter, AvailableTo
  <2> QED BY <2>1, <2>2
<1>7. /\ Dist(rtail, rhead)' + Dist(rhead, wtail)' + Dist(wtail, whead)' <= cap
      /\ MyHead(t)' = nu[t] /\ MyHead(t)' \in Counter
      /\ Dist(MyHead(t), MyHead(t)') = k
      /\ Dist(MyTail(t), MyHead(t)') = Dist(MyTail(t), MyHead(t)) + k
      /\ \A u \in Threads :
           /\ Writing(u)' <=> Writing(u)
           /\ MyTail(u)' = MyTail(u)
           /\ Peer(t, u) => /\ MyHead(u) = MyHead(t) /\ MyTail(u) = MyTail(t)
                            /\ MyHead(u)' = MyHead(t)'
           /\ ~Peer(t, u) => /\ MyHead(u)' = MyHead(u)
                             /\ AvailableTo(u)' >= AvailableTo(u)
  BY <1>1, <1>3, <1>5, <1>6, ClaimMoves DEF Claim
<1> HIDE DEF k
<1>8. /\ MyHead(t) \in Counter /\ MyTail(t) \in Counter
      /\ Dist(MyTail(t), MyHead(t)) \in Nat
      /\ \A u \in Threads : /\ old[u] \in Counter /\ nu[u] \in Counter
                            /\ Dist(MyTail(t), old[u]) \in Nat /\ Dist(old[u], nu[u]) \in Nat
                            /\ Dist(old[u], MyHead(t)) \in Nat
  BY <1>1, Types, DistType
<1>9. \A u \in Threads \ {t} : /\ Owning(u)' <=> Owning(u)
                               /\ Trying(u)' <=> Trying(u)
                               /\ Solo(u)' <=> Solo(u)
  BY <1>2, <1>3 DEF Same, Owning, Trying, Solo, Alone
<1>10. Dist(old[t], nu[t]) = k /\ old[t] # nu[t]
  <2>1. Dist(old[t], nu[t]) = k
    BY <1>5, <1>7
  <2> QED BY <1>6, <1>8, <2>1, DistZero
<1>11. ThreadOK(t)'
  <2>1. OwnerInRange(t)'
    BY <1>3, <1>4, <1>5, <1>7, <1>8, <1>10 DEF OwnerInRange
  <2>2. ASSUME Solo(t)' PROVE /\ \A u \in Threads \ {t} : pc'[u] # "idle" => ~Peer(t, u)'
                              /\ old[t] = MyTail(t)
    <3>1. Solo(t)
      BY <1>2, <1>3, <2>2 DEF Solo, Alone
    <3>2. \A u \in Threads \ {t} : pc[u] # "idle" => ~Peer(t, u)
      BY <1>1, <1>3, <3>1 DEF ThreadOK, SoloIsAlone
    <3>3. MyTail(t) = MyHead(t)
      BY <1>4, <3>2, NoOwners DEF Owning
    <3> QED BY <1>2, <1>5, <1>7, <3>2, <3>3 DEF Same, Peer
  <2>3. SoloIsAlone(t)'
    BY <1>3, <1>4, <1>7, <2>2 DEF SoloIsAlone
  <2> QED BY <1>3, <1>4, <2>1, <2>3 DEF ThreadOK, LagIsBounded, ClaimIsSafe
<1>12. ASSUME NEW u \in Threads, u # t, ~Peer(t, u) PROVE ThreadOK(u)'
  <2>1. ThreadOK(u) /\ Same(u) /\ MyHead(u)' = MyHead(u) /\ MyTail(u)' = MyTail(u)
    BY <1>2, <1>7, <1>12 DEF IInv
  <2>2. LagIsBounded(u)' /\ OwnerInRange(u)'
    BY <1>9, <1>12, <2>1 DEF ThreadOK, Same, LagIsBounded, OwnerInRange
  <2>3. ClaimIsSafe(u)'
    <3>1. n[u] \in Nat /\ AvailableTo(u) \in Nat
      BY <1>1, Types, Distances, Sizes DEF AvailableTo, Counter
    <3>2. AvailableTo(u)' \in Int
      <4>1. whead' \in Counter /\ wtail' \in Counter /\ rhead' \in Counter /\ rtail' \in Counter
        BY DEF TypeOK, Counter
      <4>2. Dist(rtail', whead') \in Nat /\ Dist(rhead', wtail') \in Nat
        BY <4>1, DistType
      <4> QED BY <4>2, Sizes DEF AvailableTo, FreeNow, UsedNow
    <3>3. AvailableTo(u)' >= AvailableTo(u)
      BY <1>7, <1>12
    <3> QED BY <2>1, <3>1, <3>2, <3>3 DEF ThreadOK, Same, ClaimIsSafe
  <2>4. SoloIsAlone(u)'
    <3>1. \A w \in Threads : w # t => (pc'[w] # "idle" => pc[w] # "idle")
      BY <1>2 DEF Same
    <3>2. \A w \in Threads : Peer(u, w)' <=> Peer(u, w)
      BY <1>7 DEF Peer
    <3> QED BY <1>3, <1>9, <1>12, <2>1, <3>1, <3>2 DEF ThreadOK, Same, SoloIsAlone, Peer
  <2> QED BY <2>2, <2>3, <2>4 DEF ThreadOK
<1>13. ASSUME NEW u \in Threads, u # t, Peer(t, u) PROVE ThreadOK(u)'
  <2>1. /\ ThreadOK(u) /\ Same(u)
        /\ MyHead(u) = MyHead(t) /\ MyHead(u)' = MyHead(t)'
        /\ MyTail(u) = MyTail(t) /\ MyTail(u)' = MyTail(t)
    BY <1>2, <1>7, <1>13 DEF IInv
  <2>2. ~Solo(u) \/ pc[u] = "idle"
    BY <1>3, <1>13, <2>1 DEF ThreadOK, SoloIsAlone, Peer
  <2>3. ASSUME Trying(u)
        PROVE  Dist(old[u], MyHead(t)') <= MaxLag /\ old[u] # MyHead(t)'
    <3>1. Dist(old[u], MyHead(t)) + k <= MaxLag
      BY <1>13, <2>3 DEF Claim, NoLap, Trying, Peer, Writing, k
    <3>2. Dist(old[u], MyHead(t)') = Dist(old[u], MyHead(t)) + k
      BY <1>6, <1>7, <1>8, <3>1, DistAdd, Sizes DEF MaxLag
    <3>3. Dist(old[u], MyHead(t)') # 0
      BY <1>6, <1>8, <3>2
    <3> QED BY <1>7, <1>8, <3>1, <3>2, <3>3, DistZero
  <2>4. LagIsBounded(u)' /\ ClaimIsSafe(u)'
    BY <1>9, <1>13, <2>1, <2>3 DEF ThreadOK, Same, LagIsBounded, ClaimIsSafe, Trying
  <2>5. SoloIsAlone(u)'
    BY <1>9, <1>13, <2>1, <2>2 DEF Same, SoloIsAlone
  <2>6. OwnerInRange(u)'
    BY <1>6, <1>7, <1>8, <1>9, <1>13, <2>1 DEF ThreadOK, Same, OwnerInRange
  <2> QED BY <2>4, <2>5, <2>6 DEF ThreadOK
<1>14. OwnersApart'
  <2>1. SUFFICES ASSUME NEW u \in Threads, NEW w \in Threads, u # w,
                        Owning(u)', Owning(w)', Peer(u, w)'
                 PROVE  Before(u, w)' \/ Before(w, u)'
    BY DEF OwnersApart
  <2>2. Peer(u, w)
    BY <1>7, <2>1 DEF Peer
  <2>3. \A x, y \in Threads : Before(x, y)' <=> Before(x, y)
    BY <1>3, <1>7 DEF Before
  <2>4. \A x \in Threads \ {t} : Owning(x) /\ Peer(t, x) => Before(x, t)
    BY <1>5, <1>7 DEF IInv, ThreadOK, OwnerInRange, Before
  <2>5. CASE u = t \/ w = t
    BY <1>9, <2>1, <2>2, <2>3, <2>4, <2>5 DEF Peer
  <2>6. CASE u # t /\ w # t
    BY <1>9, <2>1, <2>2, <2>3, <2>6 DEF IInv, OwnersApart
  <2> QED BY <2>5, <2>6
<1>15. Covered'
  <2>1. \A u \in Threads : \A x \in Counter : Holds(u, x) => Holds(u, x)'
    BY <1>3, <1>4, <1>9 DEF Holds
  <2>2. ASSUME NEW x \in Counter, Dist(MyTail(t), x) < Dist(MyTail(t), MyHead(t)')
        PROVE  \E u \in Threads : Peer(t, u) /\ Holds(u, x)'
    <3>1. CASE Dist(MyTail(t), x) < Dist(MyTail(t), MyHead(t))
      <4>1. PICK u \in Threads : Peer(t, u) /\ Holds(u, x)
        BY <3>1 DEF IInv, Covered, Peer, MyTail, MyHead
      <4> QED BY <2>1, <4>1
    <3>2. CASE ~(Dist(MyTail(t), x) < Dist(MyTail(t), MyHead(t)))
      <4>1. Dist(MyTail(t), x) \in Nat
        BY <1>8, DistType
      <4>2. Dist(old[t], x) = Dist(MyTail(t), x) - Dist(MyTail(t), old[t])
        BY <1>5, <1>8, <3>2, <4>1, DistSub
      <4>3. Dist(old[t], x) < Dist(old[t], nu[t])
        BY <1>5, <1>7, <1>8, <1>10, <2>2, <4>1, <4>2, <1>6
      <4> QED BY <1>3, <1>4, <4>3 DEF Holds, Peer
    <3> QED BY <3>1, <3>2
  <2>3. CASE Writing(t)
    <3>1. MyTail(t) = wtail /\ MyHead(t)' = whead' /\ UNCHANGED <<wtail, rhead, rtail>>
      BY <1>3, <1>7, <2>3 DEF Claim, SetHead, MyTail, MyHead
    <3> QED BY <1>7, <2>1, <2>2, <2>3, <3>1 DEF IInv, Covered, Peer
  <2>4. CASE ~Writing(t)
    <3>1. MyTail(t) = rtail /\ MyHead(t)' = rhead' /\ UNCHANGED <<wtail, whead, rtail>>
      BY <1>3, <1>7, <2>4 DEF Claim, SetHead, MyTail, MyHead
    <3> QED BY <1>7, <2>1, <2>2, <2>4, <3>1 DEF IInv, Covered, Peer
  <2> QED BY <2>3, <2>4
<1>16. RegionsFit'
  BY <1>7 DEF RegionsFit
<1> QED BY <1>11, <1>12, <1>13, <1>14, <1>15, <1>16 DEF IInv

LEMMA CommitMoves ==
  ASSUME RegionsFit, NEW t \in Threads, NEW v \in Counter,
         Dist(MyTail(t), v) <= Dist(MyTail(t), MyHead(t)),
         SetTail(t, v), UNCHANGED <<whead, rhead>>,
         \A u \in Threads \ {t} : call'[u].op = call[u].op
  PROVE  /\ Dist(rtail, rhead)' + Dist(rhead, wtail)' + Dist(wtail, whead)' <= cap
         /\ Dist(v, MyHead(t)) = Dist(MyTail(t), MyHead(t)) - Dist(MyTail(t), v)
         /\ \A u \in Threads \ {t} :
              /\ Writing(u)' <=> Writing(u)
              /\ MyHead(u)' = MyHead(u)
              /\ AvailableTo(u)' >= AvailableTo(u)
              /\ Peer(t, u) => /\ MyHead(u) = MyHead(t) /\ MyTail(u) = MyTail(t)
                               /\ MyTail(u)' = v
              /\ ~Peer(t, u) => MyTail(u)' = MyTail(u)
<1>1. /\ whead \in Counter /\ wtail \in Counter /\ rhead \in Counter /\ rtail \in Counter
      /\ MyHead(t) \in Counter /\ MyTail(t) \in Counter
      /\ Dist(MyTail(t), MyHead(t)) \in Nat /\ Dist(MyTail(t), v) \in Nat
  BY Types, DistType DEF RegionsFit
<1>2. \A u \in Threads \ {t} : (Writing(u)' <=> Writing(u)) /\ MyHead(u)' = MyHead(u)
  BY DEF Writing, MyHead
<1>3. Dist(v, MyHead(t)) = Dist(MyTail(t), MyHead(t)) - Dist(MyTail(t), v)
  BY <1>1, DistSub
<1>4. CASE Writing(t)
  <2>1. wtail' = v /\ UNCHANGED <<whead, rhead, rtail>> /\ MyHead(t) = whead /\ MyTail(t) = wtail
    BY <1>4 DEF SetTail, MyHead, MyTail
  <2>2. Dist(rhead, v) = Dist(rhead, wtail) + Dist(wtail, v)
    BY <1>1, <2>1, Distances, Sizes, DistAdd DEF RegionsFit
  <2>3. Dist(rtail, rhead)' + Dist(rhead, wtail)' + Dist(wtail, whead)' <= cap
    BY <1>1, <1>3, <2>1, <2>2, Distances, Sizes DEF RegionsFit
  <2>4. \A u \in Threads \ {t} : AvailableTo(u)' >= AvailableTo(u)
    BY <1>1, <1>2, <2>1, <2>2, Distances, Sizes DEF AvailableTo, FreeNow, UsedNow
  <2>5. \A u \in Threads \ {t} :
           /\ Peer(t, u) => /\ MyHead(u) = MyHead(t) /\ MyTail(u) = MyTail(t)
                            /\ MyTail(u)' = v
           /\ ~Peer(t, u) => MyTail(u)' = MyTail(u)
    BY <1>2, <1>4, <2>1 DEF Peer, MyHead, MyTail
  <2> QED BY <1>2, <1>3, <2>3, <2>4, <2>5
<1>5. CASE ~Writing(t)
  <2>1. rtail' = v /\ UNCHANGED <<whead, rhead, wtail>> /\ MyHead(t) = rhead /\ MyTail(t) = rtail
    BY <1>5 DEF SetTail, MyHead, MyTail
  <2>2. Dist(v, whead) = Dist(rtail, whead) - Dist(rtail, v)
    BY <1>1, <2>1, Distances, DistSub
  <2>3. Dist(rtail, rhead)' + Dist(rhead, wtail)' + Dist(wtail, whead)' <= cap
    BY <1>1, <1>3, <2>1, Distances, Sizes DEF RegionsFit
  <2>4. \A u \in Threads \ {t} : AvailableTo(u)' >= AvailableTo(u)
    BY <1>1, <1>2, <2>1, <2>2, Distances, Sizes DEF AvailableTo, FreeNow, UsedNow
  <2>5. \A u \in Threads \ {t} :
           /\ Peer(t, u) => /\ MyHead(u) = MyHead(t) /\ MyTail(u) = MyTail(t)
                            /\ MyTail(u)' = v
           /\ ~Peer(t, u) => MyTail(u)' = MyTail(u)
    BY <1>2, <1>5, <2>1 DEF Peer, MyHead, MyTail
  <2> QED BY <1>2, <1>3, <2>3, <2>4, <2>5
<1> QED BY <1>4, <1>5

LEMMA CommitStep ==
  ASSUME IInv, TypeOK', NEW t \in Threads, Commit(t)
  PROVE  IInv'
<1>1. TypeOK /\ RegionsFit /\ ThreadOK(t)
  BY DEF IInv, RegionsFit
<1>2. UNCHANGED flags /\ \A u \in Threads \ {t} : Same(u)
  BY <1>1, Frame DEF Step
<1>3. pc[t] = "commit" /\ pc'[t] = "idle" /\ UNCHANGED <<whead, rhead>>
  BY <1>1 DEF TypeOK, Commit, Return, Goto
<1>4. Owning(t) /\ ~Owning(t)' /\ ~Trying(t)'
  BY <1>3 DEF Trying, Owning
<1> DEFINE len == Dist(old[t], nu[t])
<1>5. /\ old[t] = MyTail(t) /\ len <= Dist(MyTail(t), MyHead(t)) /\ len \in Nat
      /\ len = 0 => Solo(t)
  <2>1. /\ old[t] \in Counter /\ nu[t] \in Counter /\ MyTail(t) \in Counter
        /\ MyHead(t) \in Counter
    BY <1>1, Types
  <2>2. old[t] = MyTail(t) /\ Dist(MyTail(t), old[t]) = 0
    BY <1>1, <1>3, <1>4, <2>1, DistZero DEF ThreadOK, OwnerInRange
  <2>3. len \in Nat /\ Dist(MyTail(t), MyHead(t)) \in Nat
    BY <2>1, DistType
  <2>4. 0 + len <= Dist(MyTail(t), MyHead(t)) /\ (old[t] = nu[t] => Solo(t))
    BY <1>1, <1>4, <2>2 DEF ThreadOK, OwnerInRange
  <2> QED BY <2>1, <2>2, <2>3, <2>4, DistZero
<1>6. /\ MyHead(t) \in Counter /\ MyTail(t) \in Counter /\ nu[t] \in Counter
      /\ Dist(MyTail(t), MyHead(t)) \in Nat /\ Dist(MyTail(t), nu[t]) = len
      /\ \A u \in Threads : /\ old[u] \in Counter /\ nu[u] \in Counter
                            /\ Dist(MyTail(t), old[u]) \in Nat /\ Dist(old[u], nu[u]) \in Nat
  BY <1>1, <1>5, Types, DistType
<1> HIDE DEF len
<1>7. /\ Dist(rtail, rhead)' + Dist(rhead, wtail)' + Dist(wtail, whead)' <= cap
      /\ Dist(nu[t], MyHead(t)) = Dist(MyTail(t), MyHead(t)) - len
      /\ \A u \in Threads \ {t} :
           /\ Writing(u)' <=> Writing(u)
           /\ MyHead(u)' = MyHead(u)
           /\ AvailableTo(u)' >= AvailableTo(u)
           /\ Peer(t, u) => /\ MyHead(u) = MyHead(t) /\ MyTail(u) = MyTail(t)
                            /\ MyTail(u)' = nu[t]
           /\ ~Peer(t, u) => MyTail(u)' = MyTail(u)
  BY <1>1, <1>2, <1>3, <1>5, <1>6, CommitMoves DEF Commit, Same
<1>8. \A u \in Threads \ {t} : /\ Owning(u)' <=> Owning(u)
                               /\ Trying(u)' <=> Trying(u)
                               /\ Solo(u)' <=> Solo(u)
                               /\ pc'[u] = pc[u] /\ n'[u] = n[u]
                               /\ old'[u] = old[u] /\ nu'[u] = nu[u]
  BY <1>2 DEF Same, Owning, Trying, Solo, Alone
(* Whoever else owns something on this side does not own an empty part,    *)
(* and what it owns comes after what t owns.                               *)
<1>9. ASSUME NEW u \in Threads \ {t}, pc[u] # "idle", Peer(t, u)
      PROVE  /\ ~Solo(t) /\ ~Solo(u) /\ len # 0
             /\ Owning(u) => /\ len <= Dist(MyTail(t), old[u])
                             /\ Dist(nu[t], old[u]) = Dist(MyTail(t), old[u]) - len
  <2>1. ~Solo(t) /\ ~Solo(u)
    BY <1>1, <1>3, <1>9 DEF IInv, ThreadOK, SoloIsAlone, Peer
  <2>2. len # 0
    BY <1>5, <2>1
  <2>3. ASSUME Owning(u) PROVE len <= Dist(MyTail(t), old[u])
    <3>1. Before(t, u) \/ Before(u, t)
      BY <1>4, <1>9, <2>3 DEF IInv, OwnersApart
    <3>2. Dist(MyTail(t), old[t]) = 0
      BY <1>5, <1>6, DistZero
    <3>3. CASE Before(t, u)
      BY <1>5, <1>6, <3>2, <3>3 DEF Before, len
    <3>4. CASE Before(u, t)
      <4>1. Dist(MyTail(t), old[u]) + Dist(old[u], nu[u]) <= 0
        BY <1>7, <1>9, <3>2, <3>4 DEF Before
      <4>2. Dist(old[u], nu[u]) = 0
        BY <1>6, <4>1
      <4>3. old[u] = nu[u]
        BY <1>6, <4>2, DistZero
      <4> QED BY <2>1, <2>3, <4>3 DEF IInv, ThreadOK, OwnerInRange
    <3> QED BY <3>1, <3>3, <3>4
  <2>4. ASSUME Owning(u) PROVE Dist(nu[t], old[u]) = Dist(MyTail(t), old[u]) - len
    BY <1>6, <2>3, <2>4, DistSub
  <2> QED BY <2>1, <2>2, <2>3, <2>4
<1>10. ThreadOK(t)'
  BY <1>3, <1>4 DEF ThreadOK, LagIsBounded, ClaimIsSafe, SoloIsAlone, OwnerInRange
<1>11. ASSUME NEW u \in Threads, u # t PROVE ThreadOK(u)'
  <2>1. ThreadOK(u) /\ MyHead(u)' = MyHead(u)
    BY <1>7, <1>11 DEF IInv
  <2>2. LagIsBounded(u)'
    BY <1>8, <1>11, <2>1 DEF ThreadOK, LagIsBounded
  <2>3. ClaimIsSafe(u)'
    <3>1. n[u] \in Nat /\ AvailableTo(u) \in Nat
      BY <1>1, Types, Distances, Sizes DEF AvailableTo, Counter
    <3>2. AvailableTo(u)' \in Int
      <4>1. whead' \in Counter /\ wtail' \in Counter /\ rhead' \in Counter /\ rtail' \in Counter
        BY DEF TypeOK, Counter
      <4>2. Dist(rtail', whead') \in Nat /\ Dist(rhead', wtail') \in Nat
        BY <4>1, DistType
      <4> QED BY <4>2, Sizes DEF AvailableTo, FreeNow, UsedNow
    <3>3. AvailableTo(u)' >= AvailableTo(u)
      BY <1>7, <1>11
    <3> QED BY <1>8, <1>11, <2>1, <3>1, <3>2, <3>3 DEF ThreadOK, ClaimIsSafe
  <2>4. SoloIsAlone(u)'
    <3>1. SUFFICES ASSUME Solo(u), pc[u] # "idle"
                   PROVE  /\ \A w \in Threads \ {u} : pc'[w] # "idle" => ~Peer(u, w)'
                          /\ Owning(u) => old[u] = MyTail(u)'
      BY <1>8, <1>11, <2>1 DEF ThreadOK, SoloIsAlone
    <3>2. \A w \in Threads \ {u} : pc[w] # "idle" => ~Peer(u, w)
      BY <2>1, <3>1 DEF ThreadOK, SoloIsAlone
    <3>3. \A w \in Threads \ {t} : Peer(u, w)' <=> Peer(u, w)
      BY <1>7, <1>11 DEF Peer
    <3>4. ~Peer(t, u)
      BY <1>3, <1>11, <3>2 DEF Peer
    <3>5. Owning(u) => old[u] = MyTail(u)'
      BY <1>7, <1>11, <2>1, <3>1, <3>4 DEF ThreadOK, SoloIsAlone
    <3> QED BY <1>3, <1>8, <3>2, <3>3, <3>5
  <2>5. OwnerInRange(u)'
    <3>1. CASE ~Peer(t, u)
      BY <1>7, <1>8, <1>11, <2>1, <3>1 DEF ThreadOK, OwnerInRange
    <3>2. CASE Peer(t, u)
      <4>1. SUFFICES ASSUME Owning(u) PROVE OwnerInRange(u)'
        BY <1>8, <1>11 DEF OwnerInRange
      <4>2. pc[u] # "idle"
        BY <4>1 DEF Owning
      <4>3. /\ len # 0 /\ len <= Dist(MyTail(t), old[u])
            /\ Dist(nu[t], old[u]) = Dist(MyTail(t), old[u]) - len
        BY <1>9, <1>11, <3>2, <4>1, <4>2
      <4>4. pc[u] # "commit"
        <5>1. Dist(MyTail(t), MyTail(t)) = 0
          BY <1>6, DistZero
        <5> QED BY <1>5, <1>7, <1>11, <2>1, <3>2, <4>1, <4>3, <5>1 DEF ThreadOK, OwnerInRange
      <4>5. /\ Dist(MyTail(t), old[u]) + Dist(old[u], nu[u]) <= Dist(MyTail(t), MyHead(t))
            /\ old[u] = nu[u] => Solo(u)
        BY <1>7, <1>11, <2>1, <3>2, <4>1 DEF ThreadOK, OwnerInRange
      <4>6. Dist(nu[t], old[u]) + Dist(old[u], nu[u]) <= Dist(nu[t], MyHead(t))
        BY <1>5, <1>6, <1>7, <4>3, <4>5
      <4> QED BY <1>7, <1>8, <1>11, <3>2, <4>4, <4>5, <4>6 DEF OwnerInRange
    <3> QED BY <3>1, <3>2
  <2> QED BY <2>2, <2>3, <2>4, <2>5 DEF ThreadOK
<1>12. OwnersApart'
  <2>1. SUFFICES ASSUME NEW u \in Threads \ {t}, NEW w \in Threads \ {t}, u # w,
                        Owning(u), Owning(w), Peer(u, w)'
                 PROVE  Before(u, w)' \/ Before(w, u)'
    BY <1>4, <1>8 DEF OwnersApart
  <2>2. Peer(u, w) /\ (Before(u, w) \/ Before(w, u)) /\ pc[u] # "idle" /\ pc[w] # "idle"
    BY <1>7, <2>1 DEF Peer, IInv, OwnersApart, Owning
  <2>3. CASE ~Peer(t, u)
    <3>1. ~Peer(t, w)
      BY <2>2, <2>3 DEF Peer
    <3> QED BY <1>7, <1>8, <2>1, <2>2, <2>3, <3>1 DEF Before
  <2>4. CASE Peer(t, u)
    <3>1. Peer(t, w)
      BY <2>2, <2>4 DEF Peer
    <3>2. /\ Dist(nu[t], old[u]) = Dist(MyTail(t), old[u]) - len
          /\ Dist(nu[t], old[w]) = Dist(MyTail(t), old[w]) - len
      BY <1>9, <2>1, <2>2, <2>4, <3>1
    <3> QED BY <1>5, <1>6, <1>7, <1>8, <2>1, <2>2, <2>4, <3>1, <3>2 DEF Before
  <2> QED BY <2>3, <2>4
<1>13. Covered'
  <2>1. \A u \in Threads \ {t} : \A x \in Counter : Holds(u, x) => Holds(u, x)'
    BY <1>8 DEF Holds
  <2>2. ASSUME NEW x \in Counter, Dist(nu[t], x) < Dist(nu[t], MyHead(t))
        PROVE  \E u \in Threads \ {t} : Peer(t, u) /\ Holds(u, x)'
    <3>1. Dist(nu[t], x) \in Nat /\ Dist(nu[t], MyHead(t)) \in Nat
          /\ Dist(MyTail(t), MyHead(t)) < M
      BY <1>6, DistType
    <3>2. Dist(MyTail(t), x) = len + Dist(nu[t], x)
      BY <1>5, <1>6, <1>7, <2>2, <3>1, DistAdd, Sizes
    <3>3. Dist(MyTail(t), x) < Dist(MyTail(t), MyHead(t))
      BY <1>5, <1>6, <1>7, <2>2, <3>1, <3>2
    <3>4. PICK u \in Threads : Peer(t, u) /\ Holds(u, x)
      BY <3>3 DEF IInv, Covered, Peer, MyTail, MyHead
    <3>5. u # t
      BY <1>5, <3>1, <3>2, <3>4 DEF Holds, len
    <3> QED BY <2>1, <3>4, <3>5
  <2>3. CASE Writing(t)
    <3>1. wtail' = nu[t] /\ MyHead(t) = whead /\ UNCHANGED <<whead, rhead, rtail>>
      BY <1>3, <2>3 DEF Commit, SetTail, MyHead
    <3> QED BY <1>7, <2>1, <2>2, <2>3, <3>1 DEF IInv, Covered, Peer
  <2>4. CASE ~Writing(t)
    <3>1. rtail' = nu[t] /\ MyHead(t) = rhead /\ UNCHANGED <<whead, rhead, wtail>>
      BY <1>3, <2>4 DEF Commit, SetTail, MyHead
    <3> QED BY <1>7, <2>1, <2>2, <2>4, <3>1 DEF IInv, Covered, Peer
  <2> QED BY <2>3, <2>4
<1>14. RegionsFit'
  BY <1>7 DEF RegionsFit
<1> QED BY <1>10, <1>11, <1>12, <1>13, <1>14 DEF IInv

(* ffring_reset() puts an idle buffer where it started. *)
LEMMA ResetStep == ASSUME IInv, TypeOK', Reset PROVE IInv'
<1>1. Dist(0, 0) = 0 /\ 0 \in Counter
  BY Sizes, DistZero DEF Counter
<1>2. RegionsFit'
  BY <1>1, Sizes DEF Reset, RegionsFit
<1>3. \A t \in Threads : ThreadOK(t)'
  BY DEF Reset, ThreadOK, LagIsBounded, ClaimIsSafe, SoloIsAlone, OwnerInRange, Trying, Owning
<1>4. OwnersApart'
  BY DEF Reset, OwnersApart, Owning
<1>5. Covered'
  BY <1>1, DistType DEF Reset, Covered
<1> QED BY <1>2, <1>3, <1>4, <1>5 DEF IInv

LEMMA InvStep == ~FinishEmpty /\ IInv /\ [Next]_vars => IInv'
<1> SUFFICES ASSUME ~FinishEmpty, IInv, [Next]_vars PROVE IInv'
  OBVIOUS
<1>1. TypeOK /\ TypeOK'
  BY TypeStep DEF IInv, RegionsFit
<1>2. ASSUME NEW t \in Threads, ReadHead(t) \/ \E c \in Requests : Begin(t, c) PROVE IInv'
  BY <1>1, <1>2, EnterStep
<1>3. ASSUME NEW t \in Threads, CheckRoom(t) PROVE IInv'
  BY <1>1, <1>3, CheckRoomStep
<1>4. ASSUME NEW t \in Threads, CheckEmpty(t) PROVE IInv'
  BY <1>1, <1>4, CheckEmptyStep
<1>5. ASSUME NEW t \in Threads, DiscardAgain(t) \/ Retry(t) PROVE IInv'
  <2>1. UNCHANGED flags /\ UNCHANGED counters /\ \A u \in Threads \ {t} : Same(u)
    BY <1>1, <1>5, Frame DEF Step, DiscardAgain, Retry
  <2>2. /\ pc[t] \in {"check", "claim"}
        /\ pc'[t] = "idle" \/ (pc'[t] = "head" /\ call'[t].op = call[t].op)
    BY <1>1, <1>5 DEF TypeOK, DiscardAgain, Retry, ReadAgain, Return, Goto
  <2> QED BY <1>1, <2>1, <2>2, LeaveStep
<1>6. ASSUME NEW t \in Threads, Claim(t) PROVE IInv'
  BY <1>1, <1>6, ClaimStep
<1>7. ASSUME NEW t \in Threads, Fill(t) \/ Consume(t) \/ Wait(t) PROVE IInv'
  BY <1>1, <1>7, OwnerStep
<1>8. ASSUME NEW t \in Threads, Commit(t) PROVE IInv'
  BY <1>1, <1>8, CommitStep
<1>9. CASE Reset
  BY <1>1, <1>9, ResetStep
<1>10. CASE UNCHANGED vars
  BY <1>10
     DEF vars, IInv, RegionsFit, TypeOK, ThreadOK, LagIsBounded, ClaimIsSafe, SoloIsAlone,
         OwnerInRange, OwnersApart, Before, Covered, Holds, Peer, Trying, Owning, Solo, Alone,
         Writing, MyHead, MyTail, AvailableTo, FreeNow, UsedNow
<1> QED BY <1>2, <1>3, <1>4, <1>5, <1>6, <1>7, <1>8, <1>9, <1>10 DEF Next, Step

LEMMA Invariance == ASSUME ~FinishEmpty PROVE Spec => []IInv
BY InvInit, InvStep, PTL DEF Spec

----------------------------------------------------------------------------
(* What follows from it *)

(* However the calls interleave, the bytes reserved by writers, published, *)
(* and locked by readers lie in order and never exceed the buffer, for any *)
(* number of threads, any sizes and any width of the counters.             *)
THEOREM RegionsAlwaysFit == ASSUME ~FinishEmpty PROVE Spec => []RegionsFit
<1>1. IInv => RegionsFit
  BY DEF IInv
<1> QED BY <1>1, Invariance, PTL

(* Where a reserved position is, counted from the oldest byte in use. *)
LEMMA OwnerPlace ==
  ASSUME IInv, NEW t \in Threads, Owning(t), NEW x \in Region(t)
  PROVE  /\ x \in Counter /\ Dist(rtail, x) \in Nat /\ Dist(rtail, x) < cap
         /\ Dist(MyTail(t), x) = Dist(MyTail(t), old[t]) + Dist(old[t], x)
         /\ Writing(t) => Dist(rtail, x) >= Dist(rtail, wtail)
         /\ ~Writing(t) => Dist(rtail, x) < Dist(rtail, rhead)
<1>1. RegionsFit /\ TypeOK
  BY DEF IInv, RegionsFit
<1>2. /\ old[t] \in Counter /\ nu[t] \in Counter /\ rtail \in Counter /\ wtail \in Counter
      /\ MyTail(t) \in Counter /\ MyHead(t) \in Counter
  BY <1>1, Types
<1>3. x \in Counter /\ Dist(old[t], x) < Dist(old[t], nu[t])
  BY <1>2, RegionPositions
<1>4. /\ Dist(MyTail(t), old[t]) \in Nat /\ Dist(old[t], x) \in Nat
      /\ Dist(old[t], nu[t]) \in Nat /\ Dist(MyTail(t), MyHead(t)) \in Nat
      /\ Dist(MyTail(t), MyHead(t)) < M
  BY <1>2, <1>3, DistType
<1>5. Dist(MyTail(t), old[t]) + Dist(old[t], nu[t]) <= Dist(MyTail(t), MyHead(t))
  BY DEF IInv, ThreadOK, OwnerInRange
<1>6. /\ Dist(MyTail(t), x) = Dist(MyTail(t), old[t]) + Dist(old[t], x)
      /\ Dist(MyTail(t), x) < Dist(MyTail(t), MyHead(t))
  <2>1. Dist(MyTail(t), old[t]) + Dist(old[t], x) < Dist(MyTail(t), MyHead(t))
    BY <1>3, <1>4, <1>5
  <2>2. Dist(MyTail(t), old[t]) + Dist(old[t], x) < M
    BY <1>4, <2>1, Sizes
  <2> QED BY <1>2, <1>3, <2>1, <2>2, DistAdd
<1>7. CASE Writing(t)
  <2>1. Dist(wtail, x) \in Nat /\ Dist(wtail, x) < Dist(wtail, whead)
    BY <1>2, <1>3, <1>6, <1>7, DistType DEF MyTail, MyHead
  <2>2. Dist(rtail, x) = Dist(rtail, wtail) + Dist(wtail, x)
    BY <1>1, <1>2, <1>3, <2>1, Distances, Sizes, DistAdd
  <2> QED BY <1>1, <1>3, <1>6, <1>7, <2>1, <2>2, Distances, Sizes
<1>8. CASE ~Writing(t)
  <2>1. Dist(rtail, x) \in Nat /\ Dist(rtail, x) < Dist(rtail, rhead)
    BY <1>2, <1>3, <1>6, <1>8, DistType DEF MyTail, MyHead
  <2> QED BY <1>1, <1>3, <1>6, <1>8, <2>1, Distances, Sizes
<1> QED BY <1>7, <1>8

(* Two threads that own something own different positions. *)
LEMMA OwnersDiffer ==
  ASSUME IInv, NEW t \in Threads, NEW u \in Threads, t # u, Owning(t), Owning(u),
         NEW x \in Region(t), NEW y \in Region(u)
  PROVE  x # y
<1>1. RegionsFit /\ TypeOK
  BY DEF IInv, RegionsFit
<1>2. /\ Dist(rtail, x) \in Nat /\ Dist(rtail, y) \in Nat
      /\ Dist(rtail, wtail) = Dist(rtail, rhead) + Dist(rhead, wtail)
      /\ Dist(rtail, rhead) \in Nat /\ Dist(rhead, wtail) \in Nat
  BY <1>1, OwnerPlace, Distances
<1>3. CASE ~Peer(t, u)
  BY <1>2, <1>3, OwnerPlace DEF Peer
<1>4. ASSUME NEW v \in Threads, NEW w \in Threads, NEW a \in Region(v), NEW b \in Region(w),
             Owning(v), Owning(w), Peer(v, w), Before(v, w)
      PROVE  a # b
  <2>1. /\ MyTail(v) = MyTail(w) /\ MyTail(v) \in Counter
        /\ old[v] \in Counter /\ nu[v] \in Counter /\ old[w] \in Counter /\ nu[w] \in Counter
    BY <1>1, <1>4, Types DEF Peer, MyTail
  <2>2. a \in Counter /\ b \in Counter /\ Dist(old[v], a) < Dist(old[v], nu[v])
    BY <2>1, RegionPositions
  <2>3. /\ Dist(MyTail(v), old[v]) \in Nat /\ Dist(MyTail(v), old[w]) \in Nat
        /\ Dist(old[v], a) \in Nat /\ Dist(old[v], nu[v]) \in Nat /\ Dist(old[w], b) \in Nat
    BY <2>1, <2>2, DistType
  <2>4. /\ Dist(MyTail(v), a) = Dist(MyTail(v), old[v]) + Dist(old[v], a)
        /\ Dist(MyTail(v), b) = Dist(MyTail(v), old[w]) + Dist(old[w], b)
    BY <1>4, <2>1, OwnerPlace
  <2>5. Dist(MyTail(v), a) < Dist(MyTail(v), b)
    BY <1>4, <2>2, <2>3, <2>4 DEF Before
  <2> QED BY <2>3, <2>4, <2>5
<1>5. CASE Peer(t, u)
  <2>1. Before(t, u) \/ Before(u, t)
    BY <1>5 DEF IInv, OwnersApart
  <2>2. Peer(u, t)
    BY <1>5 DEF Peer
  <2> QED BY <1>4, <1>5, <2>1, <2>2
<1> QED BY <1>3, <1>5

LEMMA SlotsApart ==
  ASSUME IInv, NEW t \in Threads, NEW u \in Threads, t # u, Owning(t), Owning(u)
  PROVE  OwnSlots(t) \cap OwnSlots(u) = {}
<1>1. rtail \in Counter
  BY Types DEF IInv, RegionsFit
<1>2. ASSUME NEW x \in Region(t), NEW y \in Region(u) PROVE Slot(x) # Slot(y)
  BY <1>1, <1>2, OwnersDiffer, OwnerPlace, Apart
<1> QED BY <1>2 DEF OwnSlots

(* No byte of the buffer is ever owned by two threads, writers and readers *)
(* taken together: b->data[] is free of data races.                        *)
THEOREM BytesAreExclusive == ASSUME ~FinishEmpty PROVE Spec => []RegionsExclusive
<1>1. IInv => RegionsExclusive
  BY SlotsApart DEF RegionsExclusive
<1> QED BY <1>1, Invariance, PTL

(* Published bytes stay published and released bytes stay released: a tail *)
(* moves only forward, and not past the head of its side.                  *)
THEOREM TailsOnlyAdvance == ASSUME ~FinishEmpty PROVE Spec => TailsNeverMoveBack
<1> DEFINE Advance == \/ Reset
                      \/ /\ Dist(wtail, wtail') <= Dist(wtail, whead)
                         /\ Dist(rtail, rtail') <= Dist(rtail, rhead)
<1>1. ASSUME IInv, [Next]_vars PROVE [Advance]_vars
  <2>1. /\ whead \in Counter /\ wtail \in Counter /\ rhead \in Counter /\ rtail \in Counter
        /\ Dist(wtail, whead) \in Nat /\ Dist(rtail, rhead) \in Nat
        /\ Dist(wtail, wtail) = 0 /\ Dist(rtail, rtail) = 0
    BY <1>1, Types, DistType, DistZero DEF IInv, RegionsFit
  <2>2. CASE UNCHANGED <<wtail, rtail>>
    BY <2>1, <2>2
  <2>3. ASSUME NEW t \in Threads, Commit(t) PROVE Advance
    <3>1. pc[t] = "commit" /\ Owning(t)
      BY <2>3 DEF Commit, Owning
    <3>2. /\ old[t] = MyTail(t)
          /\ Dist(MyTail(t), old[t]) + Dist(old[t], nu[t]) <= Dist(MyTail(t), MyHead(t))
      BY <1>1, <3>1 DEF IInv, ThreadOK, OwnerInRange
    <3>3. /\ MyTail(t) \in Counter /\ Dist(MyTail(t), nu[t]) \in Nat
          /\ Dist(MyTail(t), old[t]) = 0
      BY <1>1, <3>2, Types, DistType, DistZero DEF IInv, RegionsFit
    <3>4. Dist(MyTail(t), nu[t]) <= Dist(MyTail(t), MyHead(t))
      BY <3>2, <3>3
    <3> QED BY <2>1, <2>3, <3>4 DEF Commit, SetTail, MyTail, MyHead
  <2>4. ASSUME NEW t \in Threads, Step(t), ~Commit(t) PROVE UNCHANGED <<wtail, rtail>>
    BY <2>4 DEF Step, ReadHead, CheckRoom, CheckEmpty, DiscardAgain, Claim, Retry, Fill,
                Consume, Wait, counters
  <2>5. ASSUME NEW t \in Threads, NEW c \in Requests, Begin(t, c)
        PROVE  UNCHANGED <<wtail, rtail>>
    BY <2>5 DEF Begin, counters
  <2>6. CASE UNCHANGED vars
    BY <2>6
  <2> QED BY <1>1, <2>2, <2>3, <2>4, <2>5, <2>6 DEF Next
<1>2. [][Next]_vars /\ []IInv => [][Advance]_vars
  BY <1>1, PTL
<1> QED BY <1>2, Invariance, PTL DEF Spec, TailsNeverMoveBack

----------------------------------------------------------------------------
(* Empty answers *)

(* A call for some bytes does not forget that it wants some, nor, in the   *)
(* exact mode, how many.                                                   *)
SizesKept ==
  \A t \in Threads :
    pc[t] \in {"head", "check", "claim"} /\ call[t].size # 0 =>
      /\ n[t] # 0
      /\ call[t].op # "discard" /\ call[t].how = "EXACT" => n[t] = call[t].size

LEMMA SizesKeptAlways == Spec => []SizesKept
<1>1. Init => SizesKept
  BY DEF Init, SizesKept
<1>2. ASSUME TypeOK, SizesKept, [Next]_vars PROVE SizesKept'
  <2>1. ASSUME NEW t \in Threads, Step(t) \/ \E c \in Requests : Begin(t, c)
        PROVE  SizesKept'
    <3>1. \A u \in Threads \ {t} : Same(u)
      BY <1>2, <2>1, Frame
    <3>2. SUFFICES ASSUME pc'[t] \in {"head", "check", "claim"}, call'[t].size # 0
                   PROVE  /\ n'[t] # 0
                          /\ call'[t].op # "discard" /\ call'[t].how = "EXACT" =>
                               n'[t] = call'[t].size
      BY <1>2, <3>1 DEF Same, SizesKept
    <3>3. ASSUME NEW c \in Requests, Begin(t, c) PROVE call'[t] = c /\ n'[t] = c.size
      BY <1>2, <3>3 DEF Begin, TypeOK
    <3>4. CASE ReadHead(t) \/ Retry(t)
      BY <1>2, <3>2, <3>4 DEF ReadHead, Retry, ReadAgain, Goto, TypeOK, SizesKept
    <3>5. CASE CheckRoom(t)
      <4>1. n'[t] = Adjusted(t) /\ Adjusted(t) # 0 /\ call' = call /\ pc[t] = "check"
        BY <1>2, <3>5 DEF CheckRoom, Fits, TypeOK
      <4> QED BY <1>2, <3>2, <4>1, AdjustedFacts DEF SizesKept
    <3>6. CASE DiscardAgain(t)
      <4>1. ~Return(t) /\ call[t].op = "discard"
        BY <1>2, <3>2, <3>6 DEF DiscardAgain, Return, Goto, TypeOK
      <4> QED BY <1>2, <3>6, <4>1 DEF DiscardAgain, TypeOK
    <3>7. ~CheckEmpty(t) /\ ~Claim(t) /\ ~Fill(t) /\ ~Consume(t) /\ ~Wait(t) /\ ~Commit(t)
      BY <1>2, <3>2 DEF CheckEmpty, Claim, Fill, Consume, Wait, Commit, Return, Goto, TypeOK
    <3> QED BY <2>1, <3>2, <3>3, <3>4, <3>5, <3>6, <3>7 DEF Step
  <2>2. CASE Reset
    BY <1>2, <2>2 DEF Reset, SizesKept
  <2>3. CASE UNCHANGED vars
    BY <1>2, <2>3 DEF vars, SizesKept
  <2> QED BY <1>2, <2>1, <2>2, <2>3 DEF Next
<1> QED BY <1>1, <1>2, TypeCorrect, PTL DEF Spec

(* A call is answered with an empty region only if at that moment less is  *)
(* available than an exact call asked for, or nothing at all for the other *)
(* modes, although it compared tails with a head that may have moved since *)
(* (ring.h:98, ring.h:226).                                                *)
THEOREM EmptyAnswersAreJustified == ASSUME ~FinishEmpty PROVE Spec => EmptyIsJustified
<1> DEFINE Justified(t) ==
      EndsEmpty(t) /\ call[t].size # 0 =>
        /\ call[t].op = "discard" => UsedNow = 0
        /\ call[t].op # "discard" /\ call[t].how = "EXACT" =>
             AvailableTo(t) < call[t].size
        /\ call[t].how \in {"MAX", "MAX1"} => AvailableTo(t) = 0
<1>1. ASSUME IInv, SizesKept, [Next]_vars PROVE [\A t \in Threads : Justified(t)]_vars
  <2>1. TypeOK /\ RegionsFit
    BY <1>1 DEF IInv, RegionsFit
  <2>2. SUFFICES ASSUME NEW t \in Threads, pc[t] = "check", pc'[t] \in {"finish", "idle"},
                        call[t].size # 0, Next
                 PROVE  /\ call[t].op = "discard" => UsedNow = 0
                        /\ call[t].op # "discard" /\ call[t].how = "EXACT" =>
                             AvailableTo(t) < call[t].size
                        /\ call[t].how \in {"MAX", "MAX1"} => AvailableTo(t) = 0
    BY <1>1 DEF EndsEmpty
  <2>3. CheckEmpty(t) \/ (DiscardAgain(t) /\ Room(t) = 0)
    <3>1. ~Reset
      BY <2>2 DEF Reset
    <3>2. \A u \in Threads \ {t} : ~Step(u) /\ \A c \in Requests : ~Begin(u, c)
      BY <2>1, <2>2, Frame DEF Same
    <3>3. Step(t)
      BY <2>2, <3>1, <3>2 DEF Next, Begin
    <3>4. CheckEmpty(t) \/ DiscardAgain(t)
      BY <2>1, <2>2, <3>3
         DEF Step, ReadHead, CheckRoom, Claim, Retry, Fill, Consume, Wait, Commit, Goto, TypeOK
    <3>5. DiscardAgain(t) => Room(t) = 0
      BY <2>1, <2>2 DEF DiscardAgain, ReadAgain, Goto, TypeOK
    <3> QED BY <3>4, <3>5
  <2>4. /\ Room(t) = AvailableTo(t) + Dist(old[t], MyHead(t))
        /\ AvailableTo(t) \in 0..cap /\ Dist(old[t], MyHead(t)) \in Nat
    BY <1>1, <2>1, <2>2, RoomIs DEF IInv, ThreadOK, LagIsBounded, Trying
  <2>5. /\ n[t] # 0 /\ n[t] \in Nat /\ Adjusted(t) \in Nat /\ ~Fits(t)
        /\ call[t].op # "discard" /\ call[t].how = "EXACT" => n[t] = call[t].size
    BY <1>1, <2>1, <2>2, <2>3, Types, AdjustedFacts DEF SizesKept, CheckEmpty, DiscardAgain, Counter
  <2>6. CASE call[t].op = "discard"
    <3>1. Room(t) = 0 /\ ~Writing(t)
      BY <2>3, <2>6 DEF CheckEmpty, Writing
    <3>2. AvailableTo(t) = 0
      BY <2>4, <3>1, Sizes
    <3>3. UsedNow = 0
      BY <3>1, <3>2 DEF AvailableTo
    <3> QED BY <2>6, <3>2, <3>3
  <2>7. CASE call[t].op # "discard" /\ call[t].how = "EXACT"
    BY <2>1, <2>4, <2>5, <2>7, AdjustedFacts, Sizes DEF Fits
  <2>8. CASE call[t].op # "discard" /\ call[t].how \in {"MAX", "MAX1"}
    BY <2>1, <2>4, <2>5, <2>8, AdjustedFacts, Sizes DEF Fits
  <2> QED BY <2>6, <2>7, <2>8
<1>2. [][Next]_vars /\ []IInv /\ []SizesKept => [][\A t \in Threads : Justified(t)]_vars
  BY <1>1, PTL
<1> QED BY <1>2, Invariance, SizesKeptAlways, PTL DEF Spec, EmptyIsJustified

----------------------------------------------------------------------------
(* The bytes *)

(* The bytes between the tails are those of their positions, whether a     *)
(* reader has locked them or not.                                          *)
Published ==
  \A x \in Counter : Dist(rtail, x) < Dist(rtail, wtail) => data[Slot(x)] = x

(* So are the bytes of a writer that has filled its reservation. *)
Filled(t) ==
  Writing(t) /\ pc[t] \in {"finish", "commit"} => \A x \in Region(t) : data[Slot(x)] = x

StreamInv == Published /\ \A t \in Threads : Filled(t)

(* A writer that fills its reservation overwrites nobody's byte, and each  *)
(* byte of the reservation once.                                           *)
LEMMA FillStep ==
  ASSUME IInv, StreamInv, NEW t \in Threads, Fill(t)
  PROVE  StreamInv'
<1>1. RegionsFit /\ TypeOK
  BY DEF IInv, RegionsFit
<1>2. /\ pc[t] = "hold" /\ pc' = [pc EXCEPT ![t] = "finish"] /\ Writing(t)
      /\ UNCHANGED <<counters, call, old, nu>> /\ Owning(t)
      /\ rtail \in Counter /\ wtail \in Counter
  BY <1>1, Types DEF Fill, Goto, Owning
<1>3. \A x \in Counter :
         /\ (\A y \in Region(t) : Slot(y) # Slot(x)) => data'[Slot(x)] = data[Slot(x)]
         /\ x \in Region(t) /\ (\A y \in Region(t) : Slot(y) = Slot(x) => y = x) =>
              data'[Slot(x)] = x
  <2>1. \A x \in Counter : Slot(x) \in DOMAIN data
    BY <1>1, SlotType DEF TypeOK
  <2> QED BY <2>1 DEF Fill
<1>4. \A y \in Region(t) : /\ y \in Counter /\ Dist(rtail, y) \in Nat
                          /\ Dist(rtail, y) < cap /\ Dist(rtail, y) >= Dist(rtail, wtail)
  BY <1>2, OwnerPlace
<1>5. Published'
  <2>1. SUFFICES ASSUME NEW x \in Counter, Dist(rtail, x) < Dist(rtail, wtail)
                 PROVE  data'[Slot(x)] = x
    BY <1>2 DEF Published, counters
  <2>2. Dist(rtail, x) \in Nat /\ Dist(rtail, wtail) \in Nat /\ Dist(rtail, wtail) <= cap
    <3>1. /\ Dist(rtail, wtail) = Dist(rtail, rhead) + Dist(rhead, wtail)
          /\ Dist(rtail, rhead) \in Nat /\ Dist(rhead, wtail) \in Nat
          /\ Dist(wtail, whead) \in Nat
          /\ Dist(rtail, rhead) + Dist(rhead, wtail) + Dist(wtail, whead) <= cap
      BY <1>1, Distances DEF RegionsFit
    <3> QED BY <1>2, <3>1, DistType, Sizes
  <2>3. ASSUME NEW y \in Region(t) PROVE Slot(y) # Slot(x)
    <3>1. y \in Counter /\ Dist(rtail, y) < cap /\ y # x /\ Dist(rtail, x) < cap
      BY <1>4, <2>1, <2>2, <2>3, Sizes
    <3> QED BY <1>2, <3>1, Apart
  <2> QED BY <1>3, <2>1, <2>3 DEF StreamInv, Published
<1>6. Filled(t)'
  <2>1. SUFFICES ASSUME NEW x \in Region(t) PROVE data'[Slot(x)] = x
    BY <1>2 DEF Filled, Region
  <2>2. \A y \in Region(t) : Slot(y) = Slot(x) => y = x
    BY <1>2, <1>4, Apart
  <2> QED BY <1>3, <1>4, <2>1, <2>2
<1>7. ASSUME NEW u \in Threads, u # t PROVE Filled(u)'
  <2>1. SUFFICES ASSUME Writing(u), pc[u] \in {"finish", "commit"}, NEW x \in Region(u)
                 PROVE  data'[Slot(x)] = x
    BY <1>1, <1>2, <1>7 DEF Filled, Region, Writing, TypeOK
  <2>2. Owning(u)
    BY <2>1 DEF Owning
  <2>3. x \in Counter
    BY <2>1, <2>2, OwnerPlace
  <2>4. \A y \in Region(t) : Slot(y) # Slot(x)
    BY <1>2, <1>7, <2>1, <2>2, SlotsApart DEF OwnSlots
  <2> QED BY <1>3, <2>1, <2>3, <2>4 DEF StreamInv, Filled
<1> QED BY <1>5, <1>6, <1>7 DEF StreamInv

(* A commit publishes what its writer filled, or releases the oldest bytes. *)
LEMMA PublishStep ==
  ASSUME IInv, StreamInv, NEW t \in Threads, Commit(t)
  PROVE  Published'
<1>1. RegionsFit /\ TypeOK
  BY DEF IInv, RegionsFit
<1>2. pc[t] = "commit" /\ Owning(t) /\ UNCHANGED <<data, whead, rhead>>
  BY DEF Commit, Owning
<1>3. /\ old[t] = MyTail(t)
      /\ Dist(MyTail(t), old[t]) + Dist(old[t], nu[t]) <= Dist(MyTail(t), MyHead(t))
  BY <1>2 DEF IInv, ThreadOK, OwnerInRange
<1>4. /\ rtail \in Counter /\ wtail \in Counter /\ rhead \in Counter /\ whead \in Counter
      /\ old[t] \in Counter /\ nu[t] \in Counter /\ MyTail(t) \in Counter
      /\ Dist(MyTail(t), nu[t]) \in Nat /\ Dist(MyTail(t), old[t]) = 0
  BY <1>1, <1>3, Types, DistType, DistZero
<1>5. Dist(MyTail(t), nu[t]) <= Dist(MyTail(t), MyHead(t))
  BY <1>3, <1>4
<1>6. SUFFICES ASSUME NEW x \in Counter, Dist(rtail', x) < Dist(rtail', wtail')
               PROVE  data[Slot(x)] = x
  BY <1>2 DEF Published
<1>7. CASE Writing(t)
  <2>1. /\ wtail' = nu[t] /\ rtail' = rtail /\ MyTail(t) = wtail /\ MyHead(t) = whead
    BY <1>7 DEF Commit, SetTail, MyTail, MyHead
  <2>2. CASE Dist(rtail, x) < Dist(rtail, wtail)
    BY <2>2 DEF StreamInv, Published
  <2>3. CASE ~(Dist(rtail, x) < Dist(rtail, wtail))
    <3>1. /\ Dist(rtail, wtail) = Dist(rtail, rhead) + Dist(rhead, wtail)
          /\ Dist(rtail, whead) = Dist(rtail, wtail) + Dist(wtail, whead)
          /\ Dist(rtail, wtail) \in Nat /\ Dist(rtail, x) \in Nat /\ Dist(wtail, nu[t]) \in Nat
          /\ Dist(rtail, whead) <= cap
      BY <1>1, <1>4, Distances, DistType
    <3>2. Dist(rtail, nu[t]) = Dist(rtail, wtail) + Dist(wtail, nu[t])
      BY <1>1, <1>4, <1>5, <2>1, <3>1, Distances, DistAdd, Sizes
    <3>3. Dist(wtail, x) = Dist(rtail, x) - Dist(rtail, wtail)
      BY <1>4, <2>3, <3>1, DistSub
    <3>4. Dist(old[t], x) < Dist(old[t], nu[t])
      BY <1>3, <1>6, <2>1, <3>1, <3>2, <3>3
    <3>5. x \in Region(t)
      BY <1>4, <3>4, RegionPositions
    <3> QED BY <1>2, <1>7, <3>5 DEF StreamInv, Filled
  <2> QED BY <2>2, <2>3
<1>8. CASE ~Writing(t)
  <2>1. /\ rtail' = nu[t] /\ wtail' = wtail /\ MyTail(t) = rtail /\ MyHead(t) = rhead
    BY <1>8 DEF Commit, SetTail, MyTail, MyHead
  <2>2. /\ Dist(rtail, wtail) = Dist(rtail, rhead) + Dist(rhead, wtail)
        /\ Dist(rhead, wtail) \in Nat /\ Dist(rtail, rhead) \in Nat
        /\ Dist(rtail, nu[t]) \in Nat /\ Dist(nu[t], x) \in Nat
        /\ Dist(rtail, wtail) < M
    BY <1>1, <1>4, Distances, DistType
  <2>3. Dist(nu[t], wtail) = Dist(rtail, wtail) - Dist(rtail, nu[t])
    BY <1>4, <1>5, <2>1, <2>2, DistSub
  <2>4. Dist(rtail, x) = Dist(rtail, nu[t]) + Dist(nu[t], x)
    BY <1>4, <1>6, <2>1, <2>2, <2>3, DistAdd, Sizes
  <2>5. Dist(rtail, x) < Dist(rtail, wtail)
    BY <1>6, <2>1, <2>2, <2>3, <2>4
  <2> QED BY <2>5 DEF StreamInv, Published
<1> QED BY <1>7, <1>8

LEMMA StreamStep == IInv /\ StreamInv /\ [Next]_vars => StreamInv'
<1> SUFFICES ASSUME IInv, StreamInv, [Next]_vars PROVE StreamInv'
  OBVIOUS
<1>1. TypeOK
  BY DEF IInv, RegionsFit
<1>2. ASSUME NEW t \in Threads, Step(t) \/ \E c \in Requests : Begin(t, c), UNCHANGED data
      PROVE  \A u \in Threads \ {t} : Filled(u)'
  <2>1. \A u \in Threads \ {t} : Same(u)
    BY <1>1, <1>2, Frame
  <2> QED BY <1>2, <2>1 DEF StreamInv, Filled, Same, Region, Writing
<1>3. UNCHANGED <<rtail, wtail, data>> => Published'
  BY DEF StreamInv, Published
<1>4. ASSUME NEW t \in Threads, ReadHead(t) \/ CheckRoom(t) \/ DiscardAgain(t) \/ Retry(t)
      PROVE  StreamInv'
  <2>1. UNCHANGED <<rtail, wtail, data>>
    BY <1>4 DEF ReadHead, CheckRoom, DiscardAgain, Retry, counters
  <2>2. pc'[t] \in {"idle", "head", "check", "claim"}
    BY <1>1, <1>4 DEF ReadHead, CheckRoom, DiscardAgain, Retry, ReadAgain, Return, Goto, TypeOK
  <2> QED BY <1>2, <1>3, <1>4, <2>1, <2>2 DEF Step, StreamInv, Filled
<1>5. ASSUME NEW t \in Threads, NEW c \in Requests, Begin(t, c) PROVE StreamInv'
  <2>1. UNCHANGED <<rtail, wtail, data>> /\ pc'[t] = "check"
    BY <1>1, <1>5 DEF Begin, Goto, TypeOK, counters
  <2> QED BY <1>2, <1>3, <1>5, <2>1 DEF StreamInv, Filled
<1>6. ASSUME NEW t \in Threads, CheckEmpty(t) PROVE StreamInv'
  <2>1. UNCHANGED <<rtail, wtail, data>>
    BY <1>6 DEF CheckEmpty, counters
  <2>2. pc'[t] = "idle" \/ (old'[t] = nu'[t] /\ old'[t] \in Counter)
    BY <1>1, <1>6, Types DEF CheckEmpty, Return, Goto, TypeOK
  <2>3. Filled(t)'
    <3>1. CASE pc'[t] = "idle"
      BY <3>1 DEF Filled
    <3>2. CASE old'[t] = nu'[t] /\ old'[t] \in Counter
      <4>1. Dist(old'[t], nu'[t]) = 0
        BY <3>2, DistZero
      <4>2. Region(t)' = {}
        BY <4>1 DEF Region
      <4> QED BY <4>2 DEF Filled
    <3> QED BY <2>2, <3>1, <3>2
  <2> QED BY <1>2, <1>3, <1>6, <2>1, <2>3 DEF Step, StreamInv
<1>7. ASSUME NEW t \in Threads, Claim(t) PROVE StreamInv'
  <2>1. UNCHANGED <<rtail, wtail, data>>
    BY <1>7 DEF Claim
  <2>2. Filled(t)'
    <3>1. pc'[t] = "finish" => ~Writing(t)'
      BY <1>1, <1>7 DEF Claim, Goto, TypeOK, Writing
    <3>2. pc'[t] # "commit"
      BY <1>1, <1>7 DEF Claim, Goto, TypeOK
    <3> QED BY <3>1, <3>2 DEF Filled
  <2> QED BY <1>2, <1>3, <1>7, <2>1, <2>2 DEF Step, StreamInv
<1>8. ASSUME NEW t \in Threads, Fill(t) PROVE StreamInv'
  BY <1>8, FillStep
<1>9. ASSUME NEW t \in Threads, Consume(t) PROVE StreamInv'
  <2>1. UNCHANGED <<rtail, wtail, data, call>> /\ ~Writing(t)
    BY <1>9 DEF Consume, Reading, Writing, counters
  <2> QED BY <1>2, <1>3, <1>9, <2>1 DEF Step, StreamInv, Filled, Writing
<1>10. ASSUME NEW t \in Threads, Wait(t) PROVE StreamInv'
  <2>1. UNCHANGED <<rtail, wtail, data, call, old, nu>> /\ pc[t] = "finish"
    BY <1>10 DEF Wait, counters
  <2> QED BY <1>2, <1>3, <1>10, <2>1 DEF Step, StreamInv, Filled, Writing, Region
<1>11. ASSUME NEW t \in Threads, Commit(t) PROVE StreamInv'
  <2>1. UNCHANGED data /\ pc'[t] = "idle"
    BY <1>1, <1>11 DEF Commit, Return, Goto, TypeOK
  <2> QED BY <1>2, <1>11, <2>1, PublishStep DEF Step, StreamInv, Filled
<1>12. CASE Reset
  <2>1. Dist(rtail', wtail') = 0 /\ 0 \in Counter /\ rtail' = 0
    BY <1>12, Sizes, DistZero DEF Reset, Counter
  <2>2. Published'
    BY <2>1, DistType DEF Published
  <2> QED BY <1>12, <2>2 DEF Reset, StreamInv, Filled
<1>13. CASE UNCHANGED vars
  BY <1>13 DEF vars, StreamInv, Published, Filled, Region, Writing
<1> QED
  BY <1>4, <1>5, <1>6, <1>7, <1>8, <1>9, <1>10, <1>11, <1>12, <1>13 DEF Next, Step

(* A reader finds in the region it locked the bytes that were written for  *)
(* these positions of the stream, for as long as it holds it: whatever the *)
(* interleaving of any number of writers and readers, the stream arrives   *)
(* in order, without loss, duplication or garbage.                         *)
THEOREM StreamIsDelivered == ASSUME ~FinishEmpty PROVE Spec => []ReadersSeeTheStream
<1>1. Init => StreamInv
  <2>1. Dist(0, 0) = 0 /\ 0 \in Counter
    BY Sizes, DistZero DEF Counter
  <2> QED BY <2>1, DistType DEF Init, StreamInv, Published, Filled
<1>2. ASSUME IInv, StreamInv PROVE ReadersSeeTheStream
  <2>1. SUFFICES ASSUME NEW t \in Threads, pc[t] = "hold", Reading(t), NEW x \in Region(t)
                 PROVE  data[Slot(x)] = x
    BY DEF ReadersSeeTheStream
  <2>2. Owning(t) /\ ~Writing(t)
    BY <2>1 DEF Owning, Reading, Writing
  <2>3. x \in Counter /\ Dist(rtail, x) \in Nat /\ Dist(rtail, x) < Dist(rtail, rhead)
    BY <1>2, <2>1, <2>2, OwnerPlace
  <2>4. /\ Dist(rtail, wtail) = Dist(rtail, rhead) + Dist(rhead, wtail)
        /\ Dist(rtail, rhead) \in Nat /\ Dist(rhead, wtail) \in Nat
    BY <1>2, Distances DEF IInv
  <2> QED BY <1>2, <2>3, <2>4 DEF StreamInv, Published
<1> QED BY <1>1, <1>2, StreamStep, Invariance, PTL DEF Spec
=============================================================================
