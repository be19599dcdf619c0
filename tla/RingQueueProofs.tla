-------------------------- MODULE RingQueueProofs --------------------------
(***************************************************************************)
(* Proofs about RingQueue for any number of threads and items, any queue   *)
(* size and any counter width: the counters stay in order, the threads own *)
(* different slots, and the queue implements BoundedFifo.                  *)
(***************************************************************************)
EXTENDS RingQueue, SequenceTheorems, TLAPS

Counter == 0..(M - 1)

----------------------------------------------------------------------------
(* Arithmetic on counters.  The first two lemmas replace the remainders by *)
(* case distinctions; the others say how the distance from one counter to  *)
(* another changes.                                                        *)

LEMMA Sizes == cap \in Nat /\ M \in Nat /\ cap >= 2 /\ M >= 2 * cap
<1>1. cap \in Nat /\ M \in Nat /\ cap >= 2
  BY RingQueueAssumption DEF RingQueueAssumption
<1>2. PICK k \in 2..M : M = k * cap
  BY RingQueueAssumption DEF RingQueueAssumption
<1>3. k * cap >= 2 * cap
  BY <1>1
<1> QED BY <1>1, <1>2, <1>3

LEMMA DistCases ==
  ASSUME NEW a \in Counter, NEW b \in Counter
  PROVE  Dist(a, b) = IF a <= b THEN b - a ELSE b - a + M
BY Sizes DEF Dist, Counter

LEMMA IncrCases ==
  ASSUME NEW a \in Counter
  PROVE  Incr(a) = IF a = M - 1 THEN 0 ELSE a + 1
BY Sizes DEF Incr, Counter

LEMMA DistType ==
  ASSUME NEW a \in Counter, NEW b \in Counter
  PROVE  Dist(a, b) \in Counter
BY Sizes, DistCases DEF Counter

LEMMA DistNat ==
  ASSUME NEW a \in Counter, NEW b \in Counter
  PROVE  Dist(a, b) \in Nat
BY DistType DEF Counter

LEMMA IncrType == ASSUME NEW a \in Counter PROVE Incr(a) \in Counter
BY Sizes, IncrCases DEF Counter

LEMMA DistZero ==
  ASSUME NEW a \in Counter, NEW b \in Counter
  PROVE  Dist(a, b) = 0 <=> a = b
BY Sizes, DistCases DEF Counter

LEMMA DistSame ==
  ASSUME NEW a \in Counter, NEW b \in Counter, NEW c \in Counter
  PROVE  Dist(a, b) = Dist(a, c) => b = c
BY Sizes, DistCases DEF Counter

LEMMA DistAdd ==
  ASSUME NEW a \in Counter, NEW b \in Counter, NEW c \in Counter,
         Dist(a, b) + Dist(b, c) < M
  PROVE  Dist(a, c) = Dist(a, b) + Dist(b, c)
BY Sizes, DistCases DEF Counter

LEMMA DistToNext ==
  ASSUME NEW a \in Counter, NEW b \in Counter, Dist(a, b) + 1 < M
  PROVE  Dist(a, Incr(b)) = Dist(a, b) + 1
<1>1. Dist(a, b) = IF a <= b THEN b - a ELSE b - a + M
  BY DistCases
<1>2. Incr(b) \in Counter /\ Incr(b) = IF b = M - 1 THEN 0 ELSE b + 1
  BY IncrType, IncrCases
<1>3. Dist(a, Incr(b)) = IF a <= Incr(b) THEN Incr(b) - a ELSE Incr(b) - a + M
  BY <1>2, DistCases
<1> QED BY <1>1, <1>2, <1>3, Sizes DEF Counter

LEMMA DistFromNext ==
  ASSUME NEW a \in Counter, NEW b \in Counter
  PROVE  Dist(Incr(a), b) = IF a = b THEN M - 1 ELSE Dist(a, b) - 1
<1>1. Dist(a, b) = IF a <= b THEN b - a ELSE b - a + M
  BY DistCases
<1>2. Incr(a) \in Counter /\ Incr(a) = IF a = M - 1 THEN 0 ELSE a + 1
  BY IncrType, IncrCases
<1>3. Dist(Incr(a), b) = IF Incr(a) <= b THEN b - Incr(a) ELSE b - Incr(a) + M
  BY <1>2, DistCases
<1> QED BY <1>1, <1>2, <1>3, Sizes DEF Counter

(* The free space a producer computes. *)
LEMMA FreeSpace ==
  ASSUME NEW a \in Counter, NEW b \in Counter, Dist(a, b) <= cap
  PROVE  (cap + a - b) % M = cap - Dist(a, b)
<1>1. Dist(a, b) \in Nat /\ Dist(a, b) = IF a <= b THEN b - a ELSE b - a + M
  BY DistCases, DistType DEF Counter
<1>2. cap - Dist(a, b) \in 0..(M - 1)
  BY <1>1, Sizes
<1>3. CASE a <= b
  <2>1. cap + a - b = cap - Dist(a, b)
    BY <1>1, <1>3, Sizes DEF Counter
  <2> QED BY <1>2, <2>1, Sizes
<1>4. CASE a > b
  <2>1. cap + a - b = (cap - Dist(a, b)) + M
    BY <1>1, <1>4, Sizes DEF Counter
  <2> QED BY <1>2, <2>1, Sizes
<1> QED BY <1>3, <1>4 DEF Counter

(* Two positions less than a queue size apart are in different slots: this *)
(* is where the size has to divide the number of counter values.           *)
LEMMA SlotsDiffer ==
  ASSUME NEW a \in Counter, NEW b \in Counter,
         Dist(a, b) >= 1, Dist(a, b) < cap
  PROVE  Slot(a) # Slot(b)
<1> DEFINE qa == a \div cap
           qb == b \div cap
<1>1. PICK k \in 2..M : M = k * cap
  BY RingQueueAssumption DEF RingQueueAssumption
<1>2. /\ a \in Nat /\ b \in Nat /\ qa \in Int /\ qb \in Int /\ Slot(a) \in Int
      /\ a = cap * qa + Slot(a) /\ b = cap * qb + Slot(b)
  BY Sizes DEF Counter, Slot
<1>3. \/ Dist(a, b) = b - a
      \/ Dist(a, b) = b - a + M
  BY DistCases
<1>4. SUFFICES ASSUME Slot(a) = Slot(b) PROVE FALSE
  OBVIOUS
<1> HIDE DEF qa, qb
<1>5. b - a = cap * (qb - qa)
  <2>1. cap * (qb - qa) = cap * qb - cap * qa
    BY <1>2, Sizes
  <2> QED BY <1>2, <1>4, <2>1, Sizes
<1>6. PICK z \in Int : Dist(a, b) = cap * z
  <2>1. CASE Dist(a, b) = b - a
    BY <1>2, <1>5, <2>1
  <2>2. CASE Dist(a, b) = b - a + M
    <3>1. b - a + M = cap * ((qb - qa) + k)
      BY <1>1, <1>2, <1>5, Sizes
    <3> QED BY <1>1, <1>2, <2>2, <3>1
  <2> QED BY <1>3, <2>1, <2>2
<1>7. CASE z >= 1
  <2>1. cap * z >= cap
    BY <1>7, Sizes
  <2> QED BY <1>6, <2>1, Sizes
<1>8. CASE z <= 0
  <2>1. cap * z <= 0
    BY <1>8, Sizes
  <2> QED BY <1>6, <2>1, Sizes
<1> QED BY <1>6, <1>7, <1>8

----------------------------------------------------------------------------
(* Type correctness *)

LEMMA TypeInit == Init => TypeOK
BY Sizes DEF Init, TypeOK, Labels

LEMMA TypeStep == TypeOK /\ [Next]_vars => TypeOK'
<1> SUFFICES ASSUME TypeOK, [Next]_vars PROVE TypeOK'
  OBVIOUS
<1> USE DEF counters
<1> DEFINE Locals == /\ pc \in [Threads -> Labels]
                     /\ pos \in [Threads -> 0..(M - 1)]
                     /\ item \in [Threads -> Items \cup {NoItem}]
                     /\ solo \in [Threads -> BOOLEAN]
<1>a. Locals
  BY DEF TypeOK
<1>b. \A t \in Threads : \A l \in Labels : Goto(t, l) => pc' \in [Threads -> Labels]
  BY <1>a DEF Goto
<1>c. \A t \in Threads : Return(t) => Locals'
  BY <1>a, Sizes DEF Goto, Return, Labels
<1> HIDE DEF Locals
<1>1. \A x \in 0..(M - 1) : Slot(x) \in 0..(cap - 1)
  BY Sizes DEF Slot
<1>2. \A t \in Threads : pos[t] \in 0..(M - 1) /\ Incr(pos[t]) \in 0..(M - 1)
  BY IncrType DEF Counter, TypeOK
<1>3. ASSUME NEW p \in Producers, AddStep(p) PROVE TypeOK'
  <2> p \in Threads
    BY DEF Threads
  <2>1. CASE AddReadHead(p)
    BY <2>1, <1>b DEF AddReadHead, TypeOK, Labels
  <2>2. CASE AddCheck(p)
    <3>1. Locals'
      BY <2>2, <1>a, <1>b, <1>c DEF AddCheck, Locals, Labels
    <3> QED BY <2>2, <3>1 DEF AddCheck, TypeOK, Locals
  <2>3. CASE AddClaim(p)
    BY <2>3, <1>2, <1>b DEF AddClaim, TypeOK, Labels
  <2>4. CASE AddRetry(p)
    BY <2>4, <1>b, Sizes DEF AddRetry, TypeOK, Labels
  <2>5. CASE AddStore(p)
    BY <2>5, <1>1, <1>2, <1>b DEF AddStore, TypeOK, Labels
  <2>6. CASE AddWait(p)
    BY <2>6, <1>b DEF AddWait, TypeOK, Labels
  <2>7. CASE AddCommit(p)
    <3>1. Locals'
      BY <2>7, <1>a, <1>b, <1>c DEF AddCommit, Locals, Labels
    <3> QED BY <2>7, <1>2, <3>1 DEF AddCommit, TypeOK, Locals
  <2>8. CASE AddReport(p)
    BY <2>8, <1>c DEF AddReport, TypeOK, Locals
  <2> QED BY <1>3, <2>1, <2>2, <2>3, <2>4, <2>5, <2>6, <2>7, <2>8 DEF AddStep
<1>4. ASSUME NEW c \in Consumers, FetchStep(c) PROVE TypeOK'
  <2> c \in Threads
    BY DEF Threads
  <2>1. CASE FetchReadHead(c)
    BY <2>1, <1>b DEF FetchReadHead, TypeOK, Labels
  <2>2. CASE FetchCheck(c)
    <3>1. Locals'
      BY <2>2, <1>a, <1>b, <1>c DEF FetchCheck, Locals, Labels
    <3> QED BY <2>2, <3>1 DEF FetchCheck, TypeOK, Locals
  <2>3. CASE FetchClaim(c)
    BY <2>3, <1>2, <1>b DEF FetchClaim, TypeOK, Labels
  <2>4. CASE FetchRetry(c)
    BY <2>4, <1>b, Sizes DEF FetchRetry, TypeOK, Labels
  <2>5. CASE FetchLoad(c)
    BY <2>5, <1>1, <1>2, <1>b DEF FetchLoad, TypeOK, Labels
  <2>6. CASE FetchWait(c)
    BY <2>6, <1>b DEF FetchWait, TypeOK, Labels
  <2>7. CASE FetchCommit(c)
    <3>1. Locals'
      BY <2>7, <1>a, <1>b, <1>c DEF FetchCommit, Locals, Labels
    <3> QED BY <2>7, <1>2, <3>1 DEF FetchCommit, TypeOK, Locals
  <2>8. CASE FetchReport(c)
    BY <2>8, <1>c DEF FetchReport, TypeOK, Locals
  <2> QED BY <1>4, <2>1, <2>2, <2>3, <2>4, <2>5, <2>6, <2>7, <2>8 DEF FetchStep
<1>5. ASSUME NEW p \in Producers, NEW v \in Items, NEW sw \in BOOLEAN, AddCall(p, v, sw)
      PROVE  TypeOK'
  BY <1>5, <1>b DEF AddCall, TypeOK, Threads, Labels
<1>6. ASSUME NEW c \in Consumers, NEW sr \in BOOLEAN, FetchCall(c, sr) PROVE TypeOK'
  BY <1>6, <1>b DEF FetchCall, TypeOK, Threads, Labels
<1>7. CASE UNCHANGED vars
  BY <1>7 DEF vars, TypeOK
<1> QED BY <1>3, <1>4, <1>5, <1>6, <1>7 DEF Next

(* The counters, positions and slots keep their types, for every number of *)
(* threads and every queue size.                                           *)
THEOREM TypeCorrect == Spec => []TypeOK
BY TypeInit, TypeStep, PTL DEF Spec

----------------------------------------------------------------------------
(* The inductive invariant *)

(* The two sides of the queue are alike: a thread works on one head and    *)
(* one tail, shared with the threads of its role.                          *)
Peers(t) == IF t \in Producers THEN Producers ELSE Consumers
MyHead(t) == IF t \in Producers THEN whead ELSE rhead
MyTail(t) == IF t \in Producers THEN wtail ELSE rtail

Trying(t) == pc[t] \in {"check", "claim"}

(* The bound NoLap keeps. *)
LagIsBounded(t) == Trying(t) => Dist(pos[t], MyHead(t)) <= MaxLag

Taken == Dist(rtail, rhead) + Dist(rhead, wtail) + Dist(wtail, whead)

(* A thread about to move the head found what it needs, as long as the     *)
(* head is still where it read it.                                         *)
ClaimIsSafe(t) ==
  pc[t] = "claim" /\ pos[t] = MyHead(t) =>
    IF t \in Producers THEN Taken < cap ELSE Dist(rhead, wtail) >= 1

(* A thread that runs a solo variant is alone on its side, so the head and *)
(* the tail stay where it found them.                                      *)
SoloIsAlone(t) ==
  solo[t] /\ pc[t] # "idle" =>
    /\ \A u \in Peers(t) \ {t} : pc[u] = "idle"
    /\ Trying(t) => pos[t] = MyHead(t)
    /\ Owning(t) => pos[t] = MyTail(t)

(* An owner is between the tail and the head of its side, and the one that *)
(* commits is at the tail.                                                 *)
OwnerInRange(t) ==
  /\ Owning(t) => Dist(MyTail(t), pos[t]) < Dist(MyTail(t), MyHead(t))
  /\ pc[t] = "commit" => pos[t] = MyTail(t)

ThreadOK(t) == LagIsBounded(t) /\ ClaimIsSafe(t) /\ SoloIsAlone(t) /\ OwnerInRange(t)

(* No two threads of a side own the same position. *)
OwnersDiffer ==
  \A t \in Threads : \A u \in Peers(t) :
    t # u /\ Owning(t) /\ Owning(u) => pos[t] # pos[u]

(* Every position between a tail and its head has an owner. *)
Covered(ts, tail, head) ==
  \A x \in Counter :
    Dist(tail, x) < Dist(tail, head) => \E t \in ts : Owning(t) /\ pos[t] = x

IInv ==
  /\ TypeOK
  /\ Taken <= cap
  /\ \A t \in Threads : ThreadOK(t)
  /\ OwnersDiffer
  /\ Covered(Producers, wtail, whead)
  /\ Covered(Consumers, rtail, rhead)

(* What the lemmas below take from the invariant about types. *)
LEMMA Types ==
  ASSUME TypeOK
  PROVE  /\ whead \in Counter /\ wtail \in Counter
         /\ rhead \in Counter /\ rtail \in Counter
         /\ \A t \in Threads : pos[t] \in Counter /\ pc[t] \in Labels
         /\ Dist(rtail, rhead) \in Nat /\ Dist(rhead, wtail) \in Nat
         /\ Dist(wtail, whead) \in Nat
<1>1. /\ whead \in Counter /\ wtail \in Counter
      /\ rhead \in Counter /\ rtail \in Counter
  BY DEF TypeOK, Counter
<1>2. \A t \in Threads : pos[t] \in Counter /\ pc[t] \in Labels
  BY DEF TypeOK, Counter
<1> QED BY <1>1, <1>2, DistType DEF Counter

LEMMA Roles ==
  /\ \A p \in Producers : p \in Threads /\ Peers(p) = Producers
  /\ \A c \in Consumers : c \in Threads /\ c \notin Producers /\ Peers(c) = Consumers
  /\ \A t \in Threads : Peers(t) \subseteq Threads /\ t \in Peers(t)
  /\ \A t \in Threads : t \notin Producers => t \in Consumers
BY RingQueueAssumption DEF RingQueueAssumption, Threads, Peers

LEMMA InvInit == Init => IInv
<1> SUFFICES ASSUME Init PROVE IInv
  OBVIOUS
<1>1. TypeOK
  BY TypeInit
<1>2. Dist(0, 0) = 0
  BY Sizes, DistZero DEF Counter
<1>3. Taken <= cap
  BY <1>2, Sizes DEF Init, Taken
<1>4. \A t \in Threads : ThreadOK(t)
  BY DEF Init, ThreadOK, LagIsBounded, ClaimIsSafe, SoloIsAlone, OwnerInRange, Trying, Owning
<1>5. OwnersDiffer
  BY Roles DEF Init, OwnersDiffer, Owning
<1>6. Covered(Producers, wtail, whead) /\ Covered(Consumers, rtail, rhead)
  <2>1. \A x \in Counter : ~(Dist(0, x) < Dist(0, 0))
    <3>1. 0 \in Counter
      BY Sizes DEF Counter
    <3>2. \A x \in Counter : Dist(0, x) \in Nat
      BY <3>1, DistType DEF Counter
    <3> QED BY <1>2, <3>2
  <2> QED BY <2>1 DEF Init, Covered
<1> QED BY <1>1, <1>3, <1>4, <1>5, <1>6 DEF IInv

(* A step of thread t that moves no counter keeps the invariant if it      *)
(* keeps what the invariant says of t.                                     *)
LEMMA LocalStep ==
  ASSUME IInv, TypeOK', NEW t \in Threads, UNCHANGED counters,
         \A u \in Threads \ {t} :
            pc'[u] = pc[u] /\ pos'[u] = pos[u] /\ solo'[u] = solo[u],
         Owning(t)' <=> Owning(t),
         Owning(t) => pos'[t] = pos[t],
         pc[t] # "idle" \/ \A u \in Peers(t) \ {t} : pc[u] # "idle" => ~solo[u],
         ThreadOK(t)'
  PROVE  IInv'
<1>1. Taken' <= cap
  BY DEF IInv, Taken, counters
<1>2. \A u \in Threads : (Owning(u)' <=> Owning(u)) /\ (Owning(u) => pos'[u] = pos[u])
  BY DEF Owning
<1>3. ASSUME NEW u \in Threads, u # t PROVE ThreadOK(u)'
  <2>1. ThreadOK(u)
    BY DEF IInv
  <2>2. MyHead(u)' = MyHead(u) /\ MyTail(u)' = MyTail(u) /\ Taken' = Taken
    BY DEF MyHead, MyTail, Taken, counters
  <2>3. /\ pc'[u] = pc[u] /\ pos'[u] = pos[u] /\ solo'[u] = solo[u]
        /\ Trying(u)' = Trying(u) /\ Owning(u)' = Owning(u)
    BY <1>3 DEF Trying, Owning
  <2>4. SoloIsAlone(u)'
    <3>1. SUFFICES ASSUME solo[u], pc[u] # "idle"
                   PROVE  SoloIsAlone(u)'
      BY <2>3 DEF SoloIsAlone
    <3>2. t \in Peers(u) => u \in Peers(t)
      BY Roles DEF Peers
    <3>3. t \in Peers(u) => pc[t] = "idle"
      BY <2>1, <3>1, <1>3 DEF ThreadOK, SoloIsAlone
    <3>4. t \notin Peers(u)
      BY <3>1, <3>2, <3>3, <1>3
    <3>5. \A w \in Peers(u) \ {u} : pc'[w] = "idle"
      BY <2>1, <3>1, <3>4, Roles DEF ThreadOK, SoloIsAlone
    <3> QED BY <2>1, <2>2, <2>3, <3>1, <3>5 DEF ThreadOK, SoloIsAlone
  <2> QED
    BY <2>1, <2>2, <2>3, <2>4
       DEF ThreadOK, LagIsBounded, ClaimIsSafe, OwnerInRange, counters
<1>4. OwnersDiffer'
  BY <1>2, Roles DEF IInv, OwnersDiffer
<1>5. Covered(Producers, wtail, whead)' /\ Covered(Consumers, rtail, rhead)'
  BY <1>2, Roles DEF IInv, Covered, counters
<1> QED BY <1>1, <1>3, <1>4, <1>5 DEF IInv

(* The local steps of both sides, one by one: what is left to show is what *)
(* the invariant says of the thread that moves.                            *)
LEMMA CallStep ==
  ASSUME IInv, TypeOK', NEW t \in Threads, NEW single \in BOOLEAN,
         pc[t] = "idle", pc' = [pc EXCEPT ![t] = "head"],
         MayEnter(Peers(t), t, single),
         solo' = [solo EXCEPT ![t] = single],
         UNCHANGED <<counters, pos>>
  PROVE  IInv'
<1>1. TypeOK
  BY DEF IInv
<1>2. pc'[t] = "head" /\ solo'[t] = single /\ pos' = pos
  BY <1>1 DEF TypeOK
<1>3. \A u \in Threads \ {t} :
         pc'[u] = pc[u] /\ pos'[u] = pos[u] /\ solo'[u] = solo[u]
  BY <1>1, <1>2 DEF TypeOK
<1>4. ~Owning(t) /\ ~Owning(t)' /\ ~Trying(t)'
  BY <1>2 DEF Owning, Trying
<1>5. \A u \in Peers(t) \ {t} : pc[u] # "idle" => ~single /\ ~solo[u]
  BY DEF MayEnter
<1>6. SoloIsAlone(t)'
  BY <1>2, <1>3, <1>4, <1>5, Roles DEF SoloIsAlone, Peers
<1>7. ThreadOK(t)'
  BY <1>2, <1>4, <1>6 DEF ThreadOK, LagIsBounded, ClaimIsSafe, OwnerInRange
<1> QED BY <1>3, <1>4, <1>5, <1>7, LocalStep DEF counters

LEMMA ReadHeadStep ==
  ASSUME IInv, TypeOK', NEW t \in Threads,
         pc[t] = "head", pc' = [pc EXCEPT ![t] = "check"],
         pos' = [pos EXCEPT ![t] = MyHead(t)],
         UNCHANGED <<counters, solo>>
  PROVE  IInv'
<1>1. TypeOK /\ ThreadOK(t)
  BY DEF IInv
<1>2. pc'[t] = "check" /\ pos'[t] = MyHead(t) /\ solo'[t] = solo[t]
  BY <1>1 DEF TypeOK
<1>3. \A u \in Threads \ {t} :
         pc'[u] = pc[u] /\ pos'[u] = pos[u] /\ solo'[u] = solo[u]
  BY <1>1 DEF TypeOK
<1>4. ~Owning(t) /\ ~Owning(t)'
  BY <1>2 DEF Owning
<1>5. MyHead(t)' = MyHead(t) /\ MyHead(t) \in Counter
  BY <1>1, Types DEF MyHead, counters
<1>6. LagIsBounded(t)'
  <2>1. Dist(MyHead(t), MyHead(t)) = 0
    BY <1>5, DistZero
  <2>2. 0 <= MaxLag
    BY Sizes DEF MaxLag
  <2> QED BY <1>2, <1>5, <2>1, <2>2 DEF LagIsBounded
<1>7. SoloIsAlone(t)'
  BY <1>1, <1>2, <1>3, <1>4, <1>5, Roles DEF ThreadOK, SoloIsAlone, Peers
<1>8. ThreadOK(t)'
  BY <1>2, <1>4, <1>6, <1>7 DEF ThreadOK, ClaimIsSafe, OwnerInRange
<1> QED BY <1>3, <1>4, <1>8, LocalStep DEF counters

LEMMA CheckedStep ==
  ASSUME IInv, TypeOK', NEW t \in Threads,
         pc[t] = "check", pc' = [pc EXCEPT ![t] = "claim"],
         pos[t] = MyHead(t) =>
           IF t \in Producers THEN Taken < cap ELSE Dist(rhead, wtail) >= 1,
         UNCHANGED <<counters, pos, solo>>
  PROVE  IInv'
<1>1. TypeOK /\ ThreadOK(t)
  BY DEF IInv
<1>2. pc'[t] = "claim" /\ pos' = pos /\ solo' = solo
  BY <1>1 DEF TypeOK
<1>3. \A u \in Threads \ {t} :
         pc'[u] = pc[u] /\ pos'[u] = pos[u] /\ solo'[u] = solo[u]
  BY <1>1, <1>2 DEF TypeOK
<1>4. ~Owning(t) /\ ~Owning(t)' /\ Trying(t)
  BY <1>2 DEF Owning, Trying
<1>5. MyHead(t)' = MyHead(t) /\ Taken' = Taken
  BY DEF MyHead, Taken, counters
<1>6. SoloIsAlone(t)'
  BY <1>1, <1>2, <1>3, <1>4, <1>5, Roles DEF ThreadOK, SoloIsAlone, Peers
<1>7. LagIsBounded(t)' /\ ClaimIsSafe(t)'
  BY <1>1, <1>2, <1>4, <1>5 DEF ThreadOK, LagIsBounded, ClaimIsSafe, counters
<1>8. ThreadOK(t)'
  BY <1>2, <1>4, <1>6, <1>7 DEF ThreadOK, OwnerInRange
<1> QED BY <1>2, <1>3, <1>4, <1>8, LocalStep DEF counters

(* A thread that owns nothing goes back to the start of the loop or        *)
(* returns.                                                                *)
LEMMA LeaveStep ==
  ASSUME IInv, TypeOK', NEW t \in Threads,
         pc[t] \in {"check", "claim", "report"},
         \/ /\ pc' = [pc EXCEPT ![t] = "head"]
            /\ pos' = [pos EXCEPT ![t] = 0]
            /\ UNCHANGED solo
         \/ Return(t),
         UNCHANGED counters
  PROVE  IInv'
<1>1. TypeOK /\ ThreadOK(t)
  BY DEF IInv
<1>2. /\ pc'[t] \in {"head", "idle"}
      /\ pc'[t] = "idle" \/ solo'[t] = solo[t]
  BY <1>1 DEF TypeOK, Return, Goto
<1>3. \A u \in Threads \ {t} :
         pc'[u] = pc[u] /\ pos'[u] = pos[u] /\ solo'[u] = solo[u]
  BY <1>1 DEF TypeOK, Return, Goto
<1>4. ~Owning(t) /\ ~Owning(t)' /\ ~Trying(t)'
  BY <1>2 DEF Owning, Trying
<1>5. SoloIsAlone(t)'
  BY <1>1, <1>2, <1>3, <1>4, Roles DEF ThreadOK, SoloIsAlone, Peers
<1>6. ThreadOK(t)'
  BY <1>2, <1>4, <1>5 DEF ThreadOK, LagIsBounded, ClaimIsSafe, OwnerInRange
<1> QED BY <1>3, <1>4, <1>6, LocalStep

(* An owner goes on; it goes on to commit only at the tail or alone.       *)
LEMMA OwnerStep ==
  ASSUME IInv, TypeOK', NEW t \in Threads, NEW l \in {"wait", "commit"},
         pc[t] \in {"access", "wait"}, pc' = [pc EXCEPT ![t] = l],
         l = "commit" => solo[t] \/ pos[t] = MyTail(t),
         UNCHANGED <<counters, pos, solo>>
  PROVE  IInv'
<1>1. TypeOK /\ ThreadOK(t)
  BY DEF IInv
<1>2. pc'[t] = l /\ pos' = pos /\ solo' = solo
  BY <1>1 DEF TypeOK
<1>3. \A u \in Threads \ {t} :
         pc'[u] = pc[u] /\ pos'[u] = pos[u] /\ solo'[u] = solo[u]
  BY <1>1, <1>2 DEF TypeOK
<1>4. Owning(t) /\ Owning(t)' /\ ~Trying(t)'
  BY <1>2 DEF Owning, Trying
<1>5. MyHead(t)' = MyHead(t) /\ MyTail(t)' = MyTail(t)
  BY DEF MyHead, MyTail, counters
<1>6. SoloIsAlone(t)'
  BY <1>1, <1>2, <1>3, <1>4, <1>5, Roles DEF ThreadOK, SoloIsAlone, Peers
<1>7. OwnerInRange(t)'
  BY <1>1, <1>2, <1>4, <1>5 DEF ThreadOK, SoloIsAlone, OwnerInRange
<1>8. ThreadOK(t)'
  BY <1>2, <1>4, <1>6, <1>7 DEF ThreadOK, LagIsBounded, ClaimIsSafe
<1> QED BY <1>2, <1>3, <1>4, <1>8, LocalStep DEF counters

(* The steps that move a counter.  First what they do to the distances.    *)
LEMMA Distances ==
  ASSUME TypeOK, Taken <= cap
  PROVE  /\ Dist(rtail, whead) = Taken
         /\ Dist(rtail, wtail) = Dist(rtail, rhead) + Dist(rhead, wtail)
         /\ Dist(rhead, whead) = Dist(rhead, wtail) + Dist(wtail, whead)
BY Types, Sizes, DistAdd DEF Taken

LEMMA AddClaimStep ==
  ASSUME IInv, TypeOK', NEW p \in Producers, AddClaim(p)
  PROVE  IInv'
<1>1. TypeOK /\ ThreadOK(p) /\ Taken <= cap /\ p \in Threads
  BY Roles DEF IInv
<1>2. /\ pc[p] = "claim" /\ pc'[p] = "access" /\ pos' = pos /\ solo' = solo
      /\ whead' = Incr(pos[p]) /\ UNCHANGED <<wtail, rhead, rtail>>
  BY <1>1 DEF AddClaim, Goto, TypeOK
<1>3. \A u \in Threads \ {p} : pc'[u] = pc[u]
  BY <1>1 DEF AddClaim, Goto, TypeOK
<1>4. pos[p] = whead
  BY <1>1, <1>2 DEF AddClaim, ThreadOK, SoloIsAlone, MyHead, Trying
<1>5. Taken < cap
  BY <1>1, <1>2, <1>4 DEF ThreadOK, ClaimIsSafe, MyHead
<1>6. Dist(wtail, whead') = Dist(wtail, whead) + 1
  BY <1>1, <1>2, <1>4, <1>5, Types, Sizes, DistToNext DEF Taken
<1>7. Taken' <= cap
  BY <1>1, <1>2, <1>5, <1>6, Types, Sizes DEF Taken
<1>8. ~Owning(p) /\ Owning(p)' /\ ~Trying(p)'
  BY <1>2 DEF Owning, Trying
<1>9. \A u \in Threads \ {p} : (Owning(u)' <=> Owning(u)) /\ (Trying(u)' <=> Trying(u))
  BY <1>3 DEF Owning, Trying
<1>10. ThreadOK(p)'
  <2>1. OwnerInRange(p)'
    BY <1>1, <1>2, <1>4, <1>6, Types DEF OwnerInRange, MyTail, MyHead
  <2>2. ASSUME solo[p] PROVE pos[p] = wtail
    <3>1. \A u \in Producers : ~Owning(u)
      BY <1>1, <1>2, <1>8, <2>2, Roles DEF ThreadOK, SoloIsAlone, Owning
    <3>2. ~(Dist(wtail, wtail) < Dist(wtail, whead))
      BY <3>1, <1>1, Types DEF IInv, Covered
    <3> QED BY <3>2, <1>1, <1>4, Types, DistZero
  <2>3. SoloIsAlone(p)'
    BY <1>1, <1>2, <1>3, <1>8, <2>2, Roles DEF ThreadOK, SoloIsAlone, MyTail
  <2> QED BY <1>2, <1>8, <2>1, <2>3 DEF ThreadOK, LagIsBounded, ClaimIsSafe
<1>11. ASSUME NEW u \in Producers, u # p PROVE ThreadOK(u)'
  <2>1. /\ ThreadOK(u) /\ u \in Threads /\ pc'[u] = pc[u]
        /\ pos[u] \in Counter /\ Dist(pos[u], whead) \in Counter
    BY <1>1, <1>3, <1>11, Roles, Types, DistType DEF IInv
  <2>2. ~solo[u] \/ pc[u] = "idle"
    BY <1>2, <1>11, <2>1, Roles DEF ThreadOK, SoloIsAlone
  <2>3. ASSUME Trying(u) PROVE /\ Dist(pos[u], whead') <= MaxLag
                               /\ pos[u] # whead'
    <3>1. Dist(pos[u], whead) < MaxLag
      BY <2>3 DEF AddClaim, NoLap, Trying
    <3>2. Dist(pos[u], whead') = Dist(pos[u], whead) + 1
      BY <1>1, <1>2, <1>4, <2>1, <3>1, Types, Sizes, DistToNext DEF MaxLag, Counter
    <3>3. Dist(pos[u], whead') # 0
      BY <2>1, <3>2 DEF Counter
    <3> QED BY <1>1, <2>1, <3>1, <3>2, <3>3, Types, Sizes, DistZero DEF MaxLag, Counter
  <2>4. LagIsBounded(u)' /\ ClaimIsSafe(u)'
    BY <1>2, <1>9, <1>11, <2>1, <2>3, Roles DEF LagIsBounded, ClaimIsSafe, MyHead, Trying
  <2>5. SoloIsAlone(u)'
    BY <1>2, <2>1, <2>2 DEF SoloIsAlone
  <2>6. OwnerInRange(u)'
    <3>1. /\ MyHead(u) = whead /\ MyTail(u) = wtail
          /\ MyHead(u)' = Incr(whead) /\ MyTail(u)' = wtail /\ pos'[u] = pos[u]
      BY <1>2, <1>4 DEF MyHead, MyTail
    <3>2. Dist(wtail, pos[u]) \in Nat /\ Dist(wtail, whead) \in Nat
      <4>1. wtail \in Counter /\ Dist(wtail, whead) \in Nat
        BY <1>1, Types
      <4>2. Dist(wtail, pos[u]) \in Counter
        BY <4>1, <2>1, DistType
      <4> QED BY <4>1, <4>2, Sizes DEF Counter
    <3> QED BY <1>2, <1>4, <1>6, <1>9, <2>1, <3>1, <3>2 DEF ThreadOK, OwnerInRange
  <2> QED BY <2>4, <2>5, <2>6 DEF ThreadOK
<1>12. ASSUME NEW u \in Consumers PROVE ThreadOK(u)'
  <2>1. ThreadOK(u) /\ u # p /\ u \in Threads /\ u \notin Producers
    BY Roles DEF IInv
  <2>2. pc'[u] = pc[u] /\ \A w \in Peers(u) : pc'[w] = pc[w]
    BY <1>3, <2>1, Roles
  <2> QED
    BY <1>2, <1>9, <2>1, <2>2
       DEF ThreadOK, LagIsBounded, ClaimIsSafe, SoloIsAlone, OwnerInRange, MyHead, MyTail
<1>13. OwnersDiffer'
  <2>1. \A u \in Producers : Owning(u) => pos[u] # whead
    BY <1>1, Types, Roles DEF IInv, ThreadOK, OwnerInRange, MyHead, MyTail
  <2> QED BY <1>1, <1>2, <1>4, <1>9, <2>1, Roles DEF IInv, OwnersDiffer
<1>14. Covered(Producers, wtail, whead)'
  <2>1. SUFFICES ASSUME NEW x \in Counter, Dist(wtail, x) < Dist(wtail, whead')
                 PROVE  \E t \in Producers : Owning(t)' /\ pos[t] = x
    BY <1>2 DEF Covered
  <2>2. CASE Dist(wtail, x) < Dist(wtail, whead)
    BY <1>8, <1>9, <2>2, Roles DEF IInv, Covered
  <2>3. CASE Dist(wtail, x) = Dist(wtail, whead)
    BY <1>1, <1>4, <1>8, <2>3, Types, DistSame
  <2> QED BY <1>1, <1>6, <2>1, <2>2, <2>3, Types, DistType DEF Counter
<1>15. Covered(Consumers, rtail, rhead)'
  BY <1>2, <1>9, Roles DEF IInv, Covered
<1> QED BY <1>7, <1>10, <1>11, <1>12, <1>13, <1>14, <1>15, Roles DEF IInv

LEMMA FetchClaimStep ==
  ASSUME IInv, TypeOK', NEW c \in Consumers, FetchClaim(c)
  PROVE  IInv'
<1>1. /\ TypeOK /\ ThreadOK(c) /\ Taken <= cap
      /\ c \in Threads /\ c \notin Producers /\ Peers(c) = Consumers
  BY Roles DEF IInv
<1>2. /\ pc[c] = "claim" /\ pc'[c] = "access" /\ pos' = pos /\ solo' = solo
      /\ rhead' = Incr(pos[c]) /\ UNCHANGED <<whead, wtail, rtail>>
  BY <1>1 DEF FetchClaim, Goto, TypeOK
<1>3. \A u \in Threads \ {c} : pc'[u] = pc[u]
  BY <1>1 DEF FetchClaim, Goto, TypeOK
<1>4. pos[c] = rhead
  BY <1>1, <1>2 DEF FetchClaim, ThreadOK, SoloIsAlone, MyHead, Trying
<1>5. Dist(rhead, wtail) >= 1
  BY <1>1, <1>2, <1>4 DEF ThreadOK, ClaimIsSafe, MyHead
<1>6. Dist(rtail, rhead') = Dist(rtail, rhead) + 1
  BY <1>1, <1>2, <1>4, <1>5, Types, Sizes, DistToNext DEF Taken
<1>7. Dist(rhead', wtail) = Dist(rhead, wtail) - 1
  BY <1>1, <1>2, <1>4, <1>5, Types, DistFromNext, DistZero
<1>8. Taken' = Taken
  BY <1>1, <1>2, <1>6, <1>7, Types DEF Taken
<1>9. ~Owning(c) /\ Owning(c)' /\ ~Trying(c)'
  BY <1>2 DEF Owning, Trying
<1>10. \A u \in Threads \ {c} : (Owning(u)' <=> Owning(u)) /\ (Trying(u)' <=> Trying(u))
  BY <1>3 DEF Owning, Trying
<1>11. ThreadOK(c)'
  <2>1. OwnerInRange(c)'
    BY <1>1, <1>2, <1>4, <1>6, Types DEF OwnerInRange, MyTail, MyHead
  <2>2. ASSUME solo[c] PROVE pos[c] = rtail
    <3>1. \A u \in Consumers : ~Owning(u)
      BY <1>1, <1>2, <1>9, <2>2, Roles DEF ThreadOK, SoloIsAlone, Owning
    <3>2. ~(Dist(rtail, rtail) < Dist(rtail, rhead))
      BY <3>1, <1>1, Types DEF IInv, Covered
    <3> QED BY <3>2, <1>1, <1>4, Types, DistZero
  <2>3. SoloIsAlone(c)'
    BY <1>1, <1>2, <1>3, <1>9, <2>2, Roles DEF ThreadOK, SoloIsAlone, MyTail
  <2> QED BY <1>2, <1>9, <2>1, <2>3 DEF ThreadOK, LagIsBounded, ClaimIsSafe
<1>12. ASSUME NEW u \in Consumers, u # c PROVE ThreadOK(u)'
  <2>1. /\ ThreadOK(u) /\ u \in Threads /\ pc'[u] = pc[u]
        /\ u \notin Producers /\ Peers(u) = Consumers
        /\ pos[u] \in Counter /\ Dist(pos[u], rhead) \in Counter
    BY <1>1, <1>3, <1>12, Roles, Types, DistType DEF IInv
  <2>2. ~solo[u] \/ pc[u] = "idle"
    BY <1>2, <1>12, <2>1, Roles DEF ThreadOK, SoloIsAlone
  <2>3. ASSUME Trying(u) PROVE /\ Dist(pos[u], rhead') <= MaxLag
                               /\ pos[u] # rhead'
    <3>1. Dist(pos[u], rhead) < MaxLag
      BY <2>3 DEF FetchClaim, NoLap, Trying
    <3>2. Dist(pos[u], rhead') = Dist(pos[u], rhead) + 1
      BY <1>1, <1>2, <1>4, <2>1, <3>1, Types, Sizes, DistToNext DEF MaxLag, Counter
    <3>3. Dist(pos[u], rhead') # 0
      BY <2>1, <3>2 DEF Counter
    <3> QED BY <1>1, <2>1, <3>1, <3>2, <3>3, Types, Sizes, DistZero DEF MaxLag, Counter
  <2>4. LagIsBounded(u)' /\ ClaimIsSafe(u)'
    BY <1>2, <1>10, <1>12, <2>1, <2>3, Roles DEF LagIsBounded, ClaimIsSafe, MyHead, Trying
  <2>5. SoloIsAlone(u)'
    BY <1>2, <2>1, <2>2 DEF SoloIsAlone
  <2>6. OwnerInRange(u)'
    <3>1. /\ MyHead(u) = rhead /\ MyTail(u) = rtail
          /\ MyHead(u)' = Incr(rhead) /\ MyTail(u)' = rtail /\ pos'[u] = pos[u]
      BY <1>2, <1>4, <2>1 DEF MyHead, MyTail
    <3>2. Dist(rtail, pos[u]) \in Nat /\ Dist(rtail, rhead) \in Nat
      <4>1. rtail \in Counter /\ Dist(rtail, rhead) \in Nat
        BY <1>1, Types
      <4>2. Dist(rtail, pos[u]) \in Counter
        BY <4>1, <2>1, DistType
      <4> QED BY <4>1, <4>2, Sizes DEF Counter
    <3> QED BY <1>2, <1>4, <1>6, <1>10, <1>12, <2>1, <3>1, <3>2 DEF ThreadOK, OwnerInRange
  <2> QED BY <2>4, <2>5, <2>6 DEF ThreadOK
<1>13. ASSUME NEW u \in Producers PROVE ThreadOK(u)'
  <2>1. ThreadOK(u) /\ u # c /\ u \in Threads
    BY <1>1, Roles DEF IInv
  <2>2. pc'[u] = pc[u] /\ \A w \in Peers(u) : pc'[w] = pc[w]
    BY <1>1, <1>3, <2>1, Roles
  <2> QED
    BY <1>2, <1>8, <1>10, <2>1, <2>2
       DEF ThreadOK, LagIsBounded, ClaimIsSafe, SoloIsAlone, OwnerInRange, MyHead, MyTail
<1>14. OwnersDiffer'
  <2>1. \A u \in Consumers : Owning(u) => pos[u] # rhead
    BY <1>1, Types, Roles DEF IInv, ThreadOK, OwnerInRange, MyHead, MyTail
  <2> QED BY <1>1, <1>2, <1>4, <1>10, <2>1, Roles DEF IInv, OwnersDiffer
<1>15. Covered(Consumers, rtail, rhead)'
  <2>1. SUFFICES ASSUME NEW x \in Counter, Dist(rtail, x) < Dist(rtail, rhead')
                 PROVE  \E t \in Consumers : Owning(t)' /\ pos[t] = x
    BY <1>2 DEF Covered
  <2>2. CASE Dist(rtail, x) < Dist(rtail, rhead)
    BY <1>9, <1>10, <2>2, Roles DEF IInv, Covered
  <2>3. CASE Dist(rtail, x) = Dist(rtail, rhead)
    BY <1>1, <1>4, <1>9, <2>3, Types, DistSame
  <2> QED BY <1>1, <1>6, <2>1, <2>2, <2>3, Types, DistType DEF Counter
<1>16. Covered(Producers, wtail, whead)'
  BY <1>1, <1>2, <1>10, Roles DEF IInv, Covered
<1> QED BY <1>1, <1>8, <1>11, <1>12, <1>13, <1>14, <1>15, <1>16, Roles DEF IInv

LEMMA AddCommitStep ==
  ASSUME IInv, TypeOK', NEW p \in Producers, AddCommit(p)
  PROVE  IInv'
<1>1. TypeOK /\ ThreadOK(p) /\ Taken <= cap /\ p \in Threads
  BY Roles DEF IInv
<1>2. /\ pc[p] = "commit" /\ pc'[p] \in {"report", "idle"}
      /\ pc'[p] = "idle" \/ solo'[p] = solo[p]
      /\ wtail' = Incr(pos[p]) /\ UNCHANGED <<whead, rhead, rtail>>
  BY <1>1 DEF AddCommit, Goto, Return, TypeOK
<1>3. \A u \in Threads \ {p} :
         pc'[u] = pc[u] /\ pos'[u] = pos[u] /\ solo'[u] = solo[u]
  BY <1>1 DEF AddCommit, Goto, Return, TypeOK
<1>4. Owning(p) /\ pos[p] = wtail
  BY <1>1, <1>2 DEF ThreadOK, OwnerInRange, MyTail, Owning
<1>5. Dist(wtail, whead) >= 1
  BY <1>1, <1>4, Types, DistZero DEF ThreadOK, OwnerInRange, MyTail, MyHead
<1>6. Dist(rhead, wtail') = Dist(rhead, wtail) + 1
  BY <1>1, <1>2, <1>4, <1>5, Types, Sizes, DistToNext DEF Taken
<1>7. Dist(wtail', whead) = Dist(wtail, whead) - 1
  BY <1>1, <1>2, <1>4, <1>5, Types, DistFromNext, DistZero
<1>8. Taken' = Taken
  BY <1>1, <1>2, <1>6, <1>7, Types DEF Taken
<1>9. ~Owning(p)' /\ ~Trying(p)'
  BY <1>2 DEF Owning, Trying
<1>10. \A u \in Threads \ {p} : (Owning(u)' <=> Owning(u)) /\ (Trying(u)' <=> Trying(u))
  BY <1>3 DEF Owning, Trying
<1>11. \A u \in Producers \ {p} : Owning(u) => pos[u] # wtail
  BY <1>1, <1>4, Roles DEF IInv, OwnersDiffer
<1>12. ThreadOK(p)'
  <2>1. SoloIsAlone(p)'
    BY <1>1, <1>2, <1>3, <1>9, Roles DEF ThreadOK, SoloIsAlone
  <2> QED BY <1>2, <1>9, <2>1 DEF ThreadOK, LagIsBounded, ClaimIsSafe, OwnerInRange
<1>13. ASSUME NEW u \in Producers, u # p PROVE ThreadOK(u)'
  <2>1. /\ ThreadOK(u) /\ u \in Threads /\ pos[u] \in Counter
        /\ pc'[u] = pc[u] /\ pos'[u] = pos[u] /\ solo'[u] = solo[u]
    BY <1>1, <1>3, <1>13, Roles, Types DEF IInv
  <2>2. ~solo[u] \/ pc[u] = "idle"
    BY <1>2, <1>13, <2>1, Roles DEF ThreadOK, SoloIsAlone
  <2>3. LagIsBounded(u)' /\ ClaimIsSafe(u)' /\ SoloIsAlone(u)'
    BY <1>2, <1>8, <1>10, <1>13, <2>1, <2>2
       DEF ThreadOK, LagIsBounded, ClaimIsSafe, SoloIsAlone, MyHead, Trying
  <2>4. OwnerInRange(u)'
    <3>1. /\ MyHead(u) = whead /\ MyTail(u) = wtail
          /\ MyHead(u)' = whead /\ MyTail(u)' = Incr(wtail)
      BY <1>2, <1>4 DEF MyHead, MyTail
    <3>2. Dist(wtail, pos[u]) \in Nat /\ Dist(wtail, whead) \in Nat
      <4>1. wtail \in Counter /\ Dist(wtail, whead) \in Nat
        BY <1>1, Types
      <4>2. Dist(wtail, pos[u]) \in Counter
        BY <4>1, <2>1, DistType
      <4> QED BY <4>1, <4>2, Sizes DEF Counter
    <3>3. Owning(u) => Dist(Incr(wtail), pos[u]) = Dist(wtail, pos[u]) - 1
      BY <1>1, <1>11, <1>13, <2>1, Types, DistFromNext
    <3>4. pc[u] # "commit"
      BY <1>11, <1>13, <2>1, <3>1 DEF ThreadOK, OwnerInRange, Owning
    <3> QED
      BY <1>2, <1>4, <1>7, <1>10, <1>13, <2>1, <3>1, <3>2, <3>3, <3>4
         DEF ThreadOK, OwnerInRange
  <2> QED BY <2>3, <2>4 DEF ThreadOK
<1>14. ASSUME NEW u \in Consumers PROVE ThreadOK(u)'
  <2>1. ThreadOK(u) /\ u # p /\ u \in Threads /\ u \notin Producers
    BY Roles DEF IInv
  <2>2. /\ pc'[u] = pc[u] /\ pos'[u] = pos[u] /\ solo'[u] = solo[u]
        /\ \A w \in Peers(u) : pc'[w] = pc[w]
    BY <1>3, <2>1, Roles
  <2>3. Dist(rhead, wtail)' >= 1
    BY <1>1, <1>2, <1>6, Types
  <2> QED
    BY <1>2, <1>10, <2>1, <2>2, <2>3
       DEF ThreadOK, LagIsBounded, ClaimIsSafe, SoloIsAlone, OwnerInRange, MyHead, MyTail
<1>15. OwnersDiffer'
  BY <1>3, <1>9, <1>10, Roles DEF IInv, OwnersDiffer
<1>16. Covered(Producers, wtail, whead)'
  <2>1. SUFFICES ASSUME NEW x \in Counter, Dist(wtail', x) < Dist(wtail', whead)
                 PROVE  \E t \in Producers : Owning(t)' /\ pos'[t] = x
    BY <1>2 DEF Covered
  <2>2. x # wtail /\ Dist(wtail, x) < Dist(wtail, whead)
    <3>1. Dist(wtail', x) = IF wtail = x THEN M - 1 ELSE Dist(wtail, x) - 1
      BY <1>1, <1>2, <1>4, Types, DistFromNext
    <3>2. Dist(wtail, x) \in Nat /\ Dist(wtail, whead) \in Counter
      BY <1>1, Types, DistType DEF Counter
    <3> QED BY <1>7, <2>1, <3>1, <3>2, Sizes DEF Counter
  <2>3. PICK t \in Producers : Owning(t) /\ pos[t] = x
    BY <2>2 DEF IInv, Covered
  <2> QED BY <1>3, <1>4, <1>10, <2>2, <2>3, Roles
<1>17. Covered(Consumers, rtail, rhead)'
  BY <1>2, <1>3, <1>10, Roles DEF IInv, Covered
<1> QED BY <1>1, <1>8, <1>12, <1>13, <1>14, <1>15, <1>16, <1>17, Roles DEF IInv

LEMMA FetchCommitStep ==
  ASSUME IInv, TypeOK', NEW c \in Consumers, FetchCommit(c)
  PROVE  IInv'
<1>1. /\ TypeOK /\ ThreadOK(c) /\ Taken <= cap
      /\ c \in Threads /\ c \notin Producers /\ Peers(c) = Consumers
  BY Roles DEF IInv
<1>2. /\ pc[c] = "commit" /\ pc'[c] \in {"report", "idle"}
      /\ pc'[c] = "idle" \/ solo'[c] = solo[c]
      /\ rtail' = Incr(pos[c]) /\ UNCHANGED <<whead, wtail, rhead>>
  BY <1>1 DEF FetchCommit, Goto, Return, TypeOK
<1>3. \A u \in Threads \ {c} :
         pc'[u] = pc[u] /\ pos'[u] = pos[u] /\ solo'[u] = solo[u]
  BY <1>1 DEF FetchCommit, Goto, Return, TypeOK
<1>4. Owning(c) /\ pos[c] = rtail
  BY <1>1, <1>2 DEF ThreadOK, OwnerInRange, MyTail, Owning
<1>5. Dist(rtail, rhead) >= 1
  BY <1>1, <1>4, Types, DistZero DEF ThreadOK, OwnerInRange, MyTail, MyHead
<1>6. Dist(rtail', rhead) = Dist(rtail, rhead) - 1
  BY <1>1, <1>2, <1>4, <1>5, Types, DistFromNext, DistZero
<1>7. Taken' = Taken - 1 /\ Taken \in Nat
  BY <1>1, <1>2, <1>6, Types DEF Taken
<1>8. ~Owning(c)' /\ ~Trying(c)'
  BY <1>2 DEF Owning, Trying
<1>9. \A u \in Threads \ {c} : (Owning(u)' <=> Owning(u)) /\ (Trying(u)' <=> Trying(u))
  BY <1>3 DEF Owning, Trying
<1>10. \A u \in Consumers \ {c} : Owning(u) => pos[u] # rtail
  BY <1>1, <1>4, Roles DEF IInv, OwnersDiffer
<1>11. ThreadOK(c)'
  <2>1. SoloIsAlone(c)'
    BY <1>1, <1>2, <1>3, <1>8, Roles DEF ThreadOK, SoloIsAlone
  <2> QED BY <1>2, <1>8, <2>1 DEF ThreadOK, LagIsBounded, ClaimIsSafe, OwnerInRange
<1>12. ASSUME NEW u \in Consumers, u # c PROVE ThreadOK(u)'
  <2>1. /\ ThreadOK(u) /\ u \in Threads /\ pos[u] \in Counter
        /\ u \notin Producers /\ Peers(u) = Consumers
        /\ pc'[u] = pc[u] /\ pos'[u] = pos[u] /\ solo'[u] = solo[u]
    BY <1>1, <1>3, <1>12, Roles, Types DEF IInv
  <2>2. ~solo[u] \/ pc[u] = "idle"
    BY <1>2, <1>12, <2>1, Roles DEF ThreadOK, SoloIsAlone
  <2>3. LagIsBounded(u)' /\ ClaimIsSafe(u)' /\ SoloIsAlone(u)'
    BY <1>2, <1>9, <1>12, <2>1, <2>2
       DEF ThreadOK, LagIsBounded, ClaimIsSafe, SoloIsAlone, MyHead, Trying
  <2>4. OwnerInRange(u)'
    <3>1. /\ MyHead(u) = rhead /\ MyTail(u) = rtail
          /\ MyHead(u)' = rhead /\ MyTail(u)' = Incr(rtail)
      BY <1>2, <1>4, <2>1 DEF MyHead, MyTail
    <3>2. Dist(rtail, pos[u]) \in Nat /\ Dist(rtail, rhead) \in Nat
      <4>1. rtail \in Counter /\ Dist(rtail, rhead) \in Nat
        BY <1>1, Types
      <4>2. Dist(rtail, pos[u]) \in Counter
        BY <4>1, <2>1, DistType
      <4> QED BY <4>1, <4>2, Sizes DEF Counter
    <3>3. Owning(u) => Dist(Incr(rtail), pos[u]) = Dist(rtail, pos[u]) - 1
      BY <1>1, <1>10, <1>12, <2>1, Types, DistFromNext
    <3>4. pc[u] # "commit"
      BY <1>10, <1>12, <2>1, <3>1 DEF ThreadOK, OwnerInRange, Owning
    <3> QED
      BY <1>2, <1>4, <1>6, <1>9, <1>12, <2>1, <3>1, <3>2, <3>3, <3>4
         DEF ThreadOK, OwnerInRange
  <2> QED BY <2>3, <2>4 DEF ThreadOK
<1>13. ASSUME NEW u \in Producers PROVE ThreadOK(u)'
  <2>1. ThreadOK(u) /\ u # c /\ u \in Threads
    BY <1>1, Roles DEF IInv
  <2>2. /\ pc'[u] = pc[u] /\ pos'[u] = pos[u] /\ solo'[u] = solo[u]
        /\ \A w \in Peers(u) : pc'[w] = pc[w]
    BY <1>1, <1>3, <2>1, Roles
  <2>3. Taken < cap => Taken' < cap
    BY <1>7, Sizes
  <2> QED
    BY <1>2, <1>9, <2>1, <2>2, <2>3
       DEF ThreadOK, LagIsBounded, ClaimIsSafe, SoloIsAlone, OwnerInRange, MyHead, MyTail
<1>14. OwnersDiffer'
  BY <1>3, <1>8, <1>9, Roles DEF IInv, OwnersDiffer
<1>15. Covered(Consumers, rtail, rhead)'
  <2>1. SUFFICES ASSUME NEW x \in Counter, Dist(rtail', x) < Dist(rtail', rhead)
                 PROVE  \E t \in Consumers : Owning(t)' /\ pos'[t] = x
    BY <1>2 DEF Covered
  <2>2. x # rtail /\ Dist(rtail, x) < Dist(rtail, rhead)
    <3>1. Dist(rtail', x) = IF rtail = x THEN M - 1 ELSE Dist(rtail, x) - 1
      BY <1>1, <1>2, <1>4, Types, DistFromNext
    <3>2. Dist(rtail, x) \in Nat /\ Dist(rtail, rhead) \in Counter
      BY <1>1, Types, DistType DEF Counter
    <3> QED BY <1>6, <2>1, <3>1, <3>2, Sizes DEF Counter
  <2>3. PICK t \in Consumers : Owning(t) /\ pos[t] = x
    BY <2>2 DEF IInv, Covered
  <2> QED BY <1>3, <1>4, <1>9, <2>2, <2>3, Roles
<1>16. Covered(Producers, wtail, whead)'
  BY <1>1, <1>2, <1>3, <1>9, Roles DEF IInv, Covered
<1>17. Taken' <= cap
  BY <1>1, <1>7, Sizes
<1> QED BY <1>17, <1>11, <1>12, <1>13, <1>14, <1>15, <1>16, Roles DEF IInv

----------------------------------------------------------------------------
(* What a producer computes from the head it read is the free space if the *)
(* head is still there; a consumer computes the published slots.           *)
LEMMA SpaceFound ==
  ASSUME TypeOK, Taken <= cap, NEW p \in Producers, pos[p] = whead, Unused(p) >= 1
  PROVE  Taken < cap
<1>1. Dist(rtail, whead) = Taken
  BY Distances
<1>2. rtail \in Counter /\ whead \in Counter /\ Taken \in Nat
  BY Types DEF Taken
<1>3. Unused(p) = cap - Taken
  BY <1>1, <1>2, FreeSpace DEF Unused
<1> QED BY <1>2, <1>3, Sizes

LEMMA AddInv ==
  ASSUME IInv, TypeOK', NEW p \in Producers, AddStep(p)
  PROVE  IInv'
<1>1. TypeOK /\ ThreadOK(p) /\ Taken <= cap /\ p \in Threads /\ MyTail(p) = wtail
  BY Roles DEF IInv, MyTail
<1>2. CASE AddReadHead(p)
  BY <1>1, <1>2, ReadHeadStep DEF AddReadHead, Goto, MyHead, counters
<1>3. CASE AddCheck(p)
  <2>1. CASE Unused(p) >= 1 /\ Goto(p, "claim") /\ UNCHANGED <<pos, item, solo>>
    <3>1. pos[p] = MyHead(p) => Taken < cap
      BY <1>1, <2>1, SpaceFound DEF MyHead
    <3> QED BY <1>1, <1>3, <2>1, <3>1, CheckedStep DEF AddCheck, Goto
  <2>2. CASE Return(p)
    BY <1>1, <1>3, <2>2, LeaveStep DEF AddCheck
  <2> QED BY <1>3, <2>1, <2>2 DEF AddCheck
<1>4. CASE AddClaim(p)
  BY <1>4, AddClaimStep
<1>5. CASE AddRetry(p)
  BY <1>1, <1>5, LeaveStep DEF AddRetry, Goto
<1>6. CASE AddStore(p)
  <2>1. CASE solo[p]
    BY <1>1, <1>6, <2>1, OwnerStep DEF AddStore, Goto
  <2>2. CASE ~solo[p]
    BY <1>1, <1>6, <2>2, OwnerStep DEF AddStore, Goto
  <2> QED BY <2>1, <2>2
<1>7. CASE AddWait(p)
  BY <1>1, <1>7, OwnerStep DEF AddWait, Goto
<1>8. CASE AddCommit(p)
  BY <1>8, AddCommitStep
<1>9. CASE AddReport(p)
  BY <1>1, <1>9, LeaveStep DEF AddReport
<1> QED BY <1>2, <1>3, <1>4, <1>5, <1>6, <1>7, <1>8, <1>9 DEF AddStep

LEMMA FetchInv ==
  ASSUME IInv, TypeOK', NEW c \in Consumers, FetchStep(c)
  PROVE  IInv'
<1>1. TypeOK /\ ThreadOK(c) /\ c \in Threads /\ c \notin Producers /\ MyTail(c) = rtail
  BY Roles DEF IInv, MyTail
<1>2. CASE FetchReadHead(c)
  BY <1>1, <1>2, ReadHeadStep DEF FetchReadHead, Goto, MyHead, counters
<1>3. CASE FetchCheck(c)
  <2>1. CASE Used(c) >= 1 /\ Goto(c, "claim") /\ UNCHANGED <<pos, item, solo>>
    <3>1. pos[c] = MyHead(c) => Dist(rhead, wtail) >= 1
      BY <1>1, <2>1 DEF MyHead, Used, Dist
    <3> QED BY <1>1, <1>3, <2>1, <3>1, CheckedStep DEF FetchCheck, Goto
  <2>2. CASE Return(c)
    BY <1>1, <1>3, <2>2, LeaveStep DEF FetchCheck
  <2> QED BY <1>3, <2>1, <2>2 DEF FetchCheck
<1>4. CASE FetchClaim(c)
  BY <1>4, FetchClaimStep
<1>5. CASE FetchRetry(c)
  BY <1>1, <1>5, LeaveStep DEF FetchRetry, Goto
<1>6. CASE FetchLoad(c)
  <2>1. CASE solo[c]
    BY <1>1, <1>6, <2>1, OwnerStep DEF FetchLoad, Goto
  <2>2. CASE ~solo[c]
    BY <1>1, <1>6, <2>2, OwnerStep DEF FetchLoad, Goto
  <2> QED BY <2>1, <2>2
<1>7. CASE FetchWait(c)
  BY <1>1, <1>7, OwnerStep DEF FetchWait, Goto
<1>8. CASE FetchCommit(c)
  BY <1>8, FetchCommitStep
<1>9. CASE FetchReport(c)
  BY <1>1, <1>9, LeaveStep DEF FetchReport
<1> QED BY <1>2, <1>3, <1>4, <1>5, <1>6, <1>7, <1>8, <1>9 DEF FetchStep

LEMMA InvStep == IInv /\ [Next]_vars => IInv'
<1> SUFFICES ASSUME IInv, [Next]_vars PROVE IInv'
  OBVIOUS
<1>1. TypeOK'
  BY TypeStep DEF IInv
<1>2. ASSUME NEW p \in Producers, AddStep(p) PROVE IInv'
  BY <1>1, <1>2, AddInv
<1>3. ASSUME NEW c \in Consumers, FetchStep(c) PROVE IInv'
  BY <1>1, <1>3, FetchInv
<1>4. ASSUME NEW p \in Producers, NEW v \in Items, NEW sw \in BOOLEAN, AddCall(p, v, sw)
      PROVE  IInv'
  BY <1>1, <1>4, Roles, CallStep DEF AddCall, Goto
<1>5. ASSUME NEW c \in Consumers, NEW sr \in BOOLEAN, FetchCall(c, sr) PROVE IInv'
  BY <1>1, <1>5, Roles, CallStep DEF FetchCall, Goto
<1>6. CASE UNCHANGED vars
  BY <1>6
     DEF vars, IInv, TypeOK, Taken, ThreadOK, LagIsBounded, ClaimIsSafe, SoloIsAlone,
         OwnerInRange, OwnersDiffer, Covered, MyHead, MyTail, Trying, Owning
<1> QED BY <1>2, <1>3, <1>4, <1>5, <1>6 DEF Next

LEMMA Invariance == Spec => []IInv
BY InvInit, InvStep, PTL DEF Spec

----------------------------------------------------------------------------
(* What follows from it *)

(* However the calls interleave, the slots claimed by producers, published *)
(* and taken by consumers never exceed the size of the queue.              *)
THEOREM RegionsAlwaysFit == Spec => []RegionsFit
<1>1. IInv => RegionsFit
  BY DEF IInv, Taken, RegionsFit
<1> QED BY <1>1, Invariance, PTL

(* Two positions of one region of the ring are in different slots. *)
LEMMA Apart ==
  ASSUME NEW base \in Counter, NEW a \in Counter, NEW b \in Counter,
         a # b, Dist(base, a) < cap, Dist(base, b) < cap
  PROVE  Slot(a) # Slot(b)
<1>1. Dist(base, a) \in Nat /\ Dist(base, b) \in Nat /\ Dist(base, a) # Dist(base, b)
  BY DistType, DistSame DEF Counter
<1>2. CASE Dist(base, a) < Dist(base, b)
  <2>1. Dist(a, b) = Dist(base, b) - Dist(base, a)
    BY <1>2, Sizes, DistCases DEF Counter
  <2> QED BY <1>1, <1>2, <2>1, Sizes, SlotsDiffer
<1>3. CASE Dist(base, b) < Dist(base, a)
  <2>1. Dist(b, a) = Dist(base, a) - Dist(base, b)
    BY <1>3, Sizes, DistCases DEF Counter
  <2> QED BY <1>1, <1>3, <2>1, Sizes, SlotsDiffer
<1> QED BY <1>1, <1>2, <1>3

(* Where an owner is, counted from the oldest slot in use. *)
LEMMA OwnerPlace ==
  ASSUME IInv, NEW t \in Threads, Owning(t)
  PROVE  /\ pos[t] \in Counter
         /\ Dist(rtail, pos[t]) < cap
         /\ t \in Producers => Dist(rtail, pos[t]) >= Dist(rtail, wtail)
         /\ t \notin Producers => Dist(rtail, pos[t]) < Dist(rtail, rhead)
<1>1. TypeOK /\ Taken <= cap /\ OwnerInRange(t)
  BY DEF IInv, ThreadOK
<1>2. pos[t] \in Counter /\ rtail \in Counter /\ wtail \in Counter
  BY <1>1, Types
<1>3. /\ Dist(rtail, rhead) \in Nat /\ Dist(rhead, wtail) \in Nat
      /\ Dist(wtail, whead) \in Nat
      /\ Dist(rtail, wtail) = Dist(rtail, rhead) + Dist(rhead, wtail)
      /\ Dist(rtail, wtail) + Dist(wtail, whead) <= cap
  BY <1>1, Types, Distances DEF Taken
<1>4. CASE t \in Producers
  <2>1. Dist(wtail, pos[t]) < Dist(wtail, whead) /\ Dist(wtail, pos[t]) \in Nat
    BY <1>1, <1>2, <1>4, DistType DEF OwnerInRange, MyTail, MyHead, Counter
  <2>2. Dist(rtail, pos[t]) = Dist(rtail, wtail) + Dist(wtail, pos[t])
    BY <1>2, <1>3, <2>1, Sizes, DistAdd
  <2> QED BY <1>2, <1>3, <1>4, <2>1, <2>2, Sizes
<1>5. CASE t \notin Producers
  <2>1. Dist(rtail, pos[t]) < Dist(rtail, rhead)
    BY <1>1, <1>5 DEF OwnerInRange, MyTail, MyHead
  <2>2. Dist(rtail, pos[t]) \in Nat
    BY <1>2, DistNat
  <2> QED BY <1>2, <1>3, <1>5, <2>1, <2>2, Sizes
<1> QED BY <1>4, <1>5

LEMMA OwnersApart == IInv => SlotsExclusive
<1>1. SUFFICES ASSUME IInv, NEW t \in Threads, NEW u \in Threads,
                      t # u, Owning(t), Owning(u)
               PROVE  Slot(pos[t]) # Slot(pos[u])
  BY DEF SlotsExclusive
<1>2. pos[t] # pos[u]
  <2>1. CASE u \in Peers(t)
    BY <1>1, <2>1 DEF IInv, OwnersDiffer
  <2>2. CASE u \notin Peers(t)
    <3>1. /\ Dist(rtail, rhead) \in Nat /\ Dist(rhead, wtail) \in Nat
          /\ Dist(rtail, wtail) = Dist(rtail, rhead) + Dist(rhead, wtail)
      BY <1>1, Types, Distances DEF IInv
    <3>2. Dist(rtail, pos[t]) \in Nat /\ Dist(rtail, pos[u]) \in Nat
      <4>1. rtail \in Counter
        BY <1>1, Types DEF IInv
      <4>2. pos[t] \in Counter /\ pos[u] \in Counter
        BY <1>1, OwnerPlace
      <4> QED BY <4>1, <4>2, DistNat
    <3> QED BY <1>1, <2>2, <3>1, <3>2, OwnerPlace, Roles
  <2> QED BY <2>1, <2>2
<1>3. rtail \in Counter
  BY <1>1, Types DEF IInv
<1> QED BY <1>1, <1>2, <1>3, OwnerPlace, Apart

(* No two threads are ever between claiming and committing the same slot,  *)
(* producers and consumers taken together: for any number of threads, any  *)
(* size of the queue and any width of the counters.                        *)
THEOREM SlotsAreExclusive == Spec => []SlotsExclusive
BY OwnersApart, Invariance, PTL

----------------------------------------------------------------------------
(***************************************************************************)
(* RingQueue implements BoundedFifo: the initial state maps to the initial *)
(* state, and each step of a thread is one step of the bounded queue or    *)
(* changes nothing of it.                                                  *)
(*                                                                         *)
(* The refinement mapping chooses the owner of each position.  The         *)
(* invariant above says that there is exactly one; DataInv adds what is in *)
(* the slots and in the locals of the threads.                             *)
(***************************************************************************)

----------------------------------------------------------------------------
(* The positions that follow a counter *)

LEMMA PlaceCases ==
  ASSUME NEW a \in Counter, NEW i \in Nat, i >= 1, i <= M
  PROVE  /\ (a + i - 1) % M = IF a + i - 1 < M THEN a + i - 1 ELSE a + i - 1 - M
         /\ (a + i - 1) % M \in Counter
BY Sizes DEF Counter

LEMMA DistToPlace ==
  ASSUME NEW a \in Counter, NEW i \in Nat, i >= 1, i <= M
  PROVE  Dist(a, (a + i - 1) % M) = i - 1
<1> DEFINE b == (a + i - 1) % M
<1>1. b \in Counter /\ b = IF a + i - 1 < M THEN a + i - 1 ELSE a + i - 1 - M
  BY PlaceCases
<1> HIDE DEF b
<1>2. Dist(a, b) = IF a <= b THEN b - a ELSE b - a + M
  BY <1>1, DistCases
<1>3. Dist(a, b) = i - 1
  BY <1>1, <1>2, Sizes DEF Counter
<1> QED BY <1>3 DEF b

LEMMA PlaceOfDist ==
  ASSUME NEW a \in Counter, NEW b \in Counter
  PROVE  (a + (Dist(a, b) + 1) - 1) % M = b
<1> DEFINE d == Dist(a, b)
<1>1. d \in Counter /\ d = IF a <= b THEN b - a ELSE b - a + M
  BY DistType, DistCases
<1> HIDE DEF d
<1>2. (a + (d + 1) - 1) % M = IF a + (d + 1) - 1 < M THEN a + (d + 1) - 1 ELSE a + (d + 1) - 1 - M
  BY <1>1, Sizes, PlaceCases DEF Counter
<1>3. (a + (d + 1) - 1) % M = b
  BY <1>1, <1>2, Sizes DEF Counter
<1> QED BY <1>3 DEF d

LEMMA PlaceOfNext ==
  ASSUME NEW a \in Counter, NEW i \in Nat, i >= 1, i < M
  PROVE  (Incr(a) + i - 1) % M = (a + (i + 1) - 1) % M
<1>1. Incr(a) \in Counter /\ Incr(a) = IF a = M - 1 THEN 0 ELSE a + 1
  BY IncrType, IncrCases
<1>2. (Incr(a) + i - 1) % M
        = IF Incr(a) + i - 1 < M THEN Incr(a) + i - 1 ELSE Incr(a) + i - 1 - M
  BY <1>1, Sizes, PlaceCases
<1>3. (a + (i + 1) - 1) % M
        = IF a + (i + 1) - 1 < M THEN a + (i + 1) - 1 ELSE a + (i + 1) - 1 - M
  <2> DEFINE j == i + 1
  <2>1. j \in Nat /\ j >= 1 /\ j <= M
    BY Sizes
  <2> HIDE DEF j
  <2>2. (a + j - 1) % M = IF a + j - 1 < M THEN a + j - 1 ELSE a + j - 1 - M
    BY <2>1, PlaceCases
  <2> QED BY <2>2 DEF j
<1> QED BY <1>1, <1>2, <1>3, Sizes DEF Counter

----------------------------------------------------------------------------
(* Sequences given by a function on 1..n *)

LEMMA OneMore ==
  ASSUME NEW n \in Nat, NEW f, NEW g,
         f = [i \in 1..n |-> f[i]], g = [i \in 1..(n + 1) |-> g[i]],
         \A i \in 1..n : g[i] = f[i]
  PROVE  g = Append(f, g[n + 1])
<1> DEFINE e == g[n + 1]
           S == {f[i] : i \in 1..n} \cup {e}
<1>1. f \in [1..n -> S] /\ e \in S
  OBVIOUS
<1> HIDE DEF S, e
<1>2. f \in Seq(S) /\ Len(f) = n
  BY <1>1
<1>3. /\ Append(f, e) \in Seq(S) /\ Len(Append(f, e)) = n + 1
      /\ \A i \in 1..n : Append(f, e)[i] = f[i]
      /\ Append(f, e)[n + 1] = e
  BY <1>1, <1>2, AppendProperties
<1>4. \A i \in 1..(n + 1) : i \in 1..n \/ i = n + 1
  OBVIOUS
<1>5. Append(f, e) = [i \in 1..(n + 1) |-> Append(f, e)[i]]
  BY <1>3
<1>6. \A i \in 1..(n + 1) : g[i] = Append(f, e)[i]
  BY <1>3, <1>4 DEF e
<1>7. g = Append(f, e)
  BY <1>5, <1>6
<1> QED BY <1>7 DEF e

LEMMA OneLess ==
  ASSUME NEW n \in Nat, n >= 1, NEW f, NEW g,
         f = [i \in 1..n |-> f[i]], g = [i \in 1..(n - 1) |-> g[i]],
         \A i \in 1..(n - 1) : g[i] = f[i + 1]
  PROVE  f # <<>> /\ Head(f) = f[1] /\ g = Tail(f)
<1> DEFINE S == {f[i] : i \in 1..n}
<1>1. f \in [1..n -> S]
  OBVIOUS
<1> HIDE DEF S
<1>2. f \in Seq(S) /\ Len(f) = n /\ f # <<>>
  BY <1>1
<1>3. /\ Head(f) = f[1]
      /\ Tail(f) \in Seq(S) /\ Len(Tail(f)) = n - 1
      /\ \A i \in 1..(n - 1) : Tail(f)[i] = f[i + 1]
  BY <1>2, HeadTailProperties
<1>4. Tail(f) = [i \in 1..(n - 1) |-> Tail(f)[i]]
  BY <1>3
<1> QED BY <1>2, <1>3, <1>4

----------------------------------------------------------------------------
(* The owners of the positions on one side: threads ts own n positions     *)
(* from `from` up, one each.                                               *)

Owned(ts, from, n) ==
  /\ \A i \in 1..n : \E t \in ts : Owning(t) /\ pos[t] = (from + i - 1) % M
  /\ \A t, u \in ts : Owning(t) /\ Owning(u) /\ pos[t] = pos[u] => t = u

LEMMA OwnerChosen ==
  ASSUME NEW ts, NEW from, NEW n, Owned(ts, from, n), NEW i \in 1..n,
         NEW t \in ts, Owning(t), pos[t] = (from + i - 1) % M
  PROVE  OwnersFrom(ts, from, n)[i] = t
<1>1. \A u \in ts : Owning(u) /\ pos[u] = (from + i - 1) % M <=> u = t
  BY DEF Owned
<1>2. (CHOOSE u \in ts : Owning(u) /\ pos[u] = (from + i - 1) % M) = t
  BY <1>1
<1> QED BY <1>2 DEF OwnersFrom

(* The same after a step. *)
LEMMA OwnerChosenNext ==
  ASSUME NEW ts, NEW from, NEW n, NEW i \in 1..n,
         NEW t \in ts, Owning(t)', pos'[t] = (from + i - 1) % M,
         \A u \in ts : Owning(u)' /\ pos'[u] = pos'[t] => u = t
  PROVE  OwnersFrom(ts, from, n)'[i] = t
<1>1. \A u \in ts : Owning(u)' /\ pos'[u] = (from + i - 1) % M <=> u = t
  OBVIOUS
<1>2. (CHOOSE u \in ts : Owning(u)' /\ pos'[u] = (from + i - 1) % M) = t
  BY <1>1
<1> QED BY <1>2 DEF OwnersFrom

LEMMA OwnersStay ==
  ASSUME NEW ts, NEW from, NEW n, Owned(ts, from, n),
         \A t \in ts : (Owning(t)' <=> Owning(t)) /\ (Owning(t) => pos'[t] = pos[t])
  PROVE  OwnersFrom(ts, from, n)' = OwnersFrom(ts, from, n)
<1>1. ASSUME NEW i \in 1..n
      PROVE  OwnersFrom(ts, from, n)'[i] = OwnersFrom(ts, from, n)[i]
  <2>1. PICK t \in ts : Owning(t) /\ pos[t] = (from + i - 1) % M
    BY DEF Owned
  <2>2. OwnersFrom(ts, from, n)[i] = t
    BY <2>1, OwnerChosen
  <2>3. \A u \in ts : Owning(u)' /\ pos'[u] = pos'[t] => u = t
    BY <2>1 DEF Owned
  <2>4. OwnersFrom(ts, from, n)'[i] = t
    BY <2>1, <2>3, OwnerChosenNext
  <2> QED BY <2>2, <2>4
<1> QED BY <1>1 DEF OwnersFrom

(* A thread that becomes the owner of the next position is the last one.   *)
LEMMA OwnersGrow ==
  ASSUME NEW ts, NEW from, NEW n \in Nat, Owned(ts, from, n),
         NEW p \in ts, ~Owning(p), Owning(p)', pos'[p] = (from + (n + 1) - 1) % M,
         \A t \in ts : t # p =>
           /\ Owning(t)' <=> Owning(t)
           /\ Owning(t) => pos'[t] = pos[t] /\ pos[t] # pos'[p]
  PROVE  OwnersFrom(ts, from, n + 1)' = Append(OwnersFrom(ts, from, n), p)
<1> DEFINE f == OwnersFrom(ts, from, n)
           g == OwnersFrom(ts, from, n + 1)'
<1>1. ASSUME NEW i \in 1..n PROVE g[i] = f[i]
  <2>1. PICK t \in ts : Owning(t) /\ pos[t] = (from + i - 1) % M
    BY DEF Owned
  <2>2. f[i] = t
    BY <2>1, OwnerChosen
  <2>3. i \in 1..(n + 1) /\ t # p /\ pos'[t] = pos[t] /\ Owning(t)'
    BY <2>1
  <2>4. \A u \in ts : Owning(u)' /\ pos'[u] = pos'[t] => u = t
    BY <2>1, <2>3 DEF Owned
  <2>5. g[i] = t
    BY <2>1, <2>3, <2>4, OwnerChosenNext
  <2> QED BY <2>2, <2>5
<1>2. g[n + 1] = p
  <2>1. \A u \in ts : Owning(u)' /\ pos'[u] = pos'[p] => u = p
    OBVIOUS
  <2>2. n + 1 \in 1..(n + 1)
    OBVIOUS
  <2> QED BY <2>1, <2>2, OwnerChosenNext
<1>3. f = [i \in 1..n |-> f[i]] /\ g = [i \in 1..(n + 1) |-> g[i]]
  BY DEF OwnersFrom
<1> HIDE DEF f, g
<1>4. g = Append(f, p)
  BY <1>1, <1>2, <1>3, OneMore
<1> QED BY <1>4 DEF f, g

(* The owner at the tail is the first one; without it the others are left. *)
LEMMA OwnersShrink ==
  ASSUME NEW ts, NEW from \in Counter, NEW n \in Nat, n >= 1, n < M, Owned(ts, from, n),
         NEW p \in ts, Owning(p), ~Owning(p)', pos[p] = from,
         \A t \in ts : t # p =>
           (Owning(t)' <=> Owning(t)) /\ (Owning(t) => pos'[t] = pos[t])
  PROVE  /\ OwnersFrom(ts, from, n) # <<>>
         /\ Head(OwnersFrom(ts, from, n)) = p
         /\ OwnersFrom(ts, Incr(from), n - 1)' = Tail(OwnersFrom(ts, from, n))
<1> DEFINE f == OwnersFrom(ts, from, n)
           g == OwnersFrom(ts, Incr(from), n - 1)'
<1>1. f[1] = p
  <2>1. (from + 1 - 1) % M = from /\ 1 \in 1..n
    BY Sizes, PlaceCases DEF Counter
  <2> QED BY <2>1, OwnerChosen
<1>2. ASSUME NEW i \in 1..(n - 1) PROVE g[i] = f[i + 1]
  <2>1. i + 1 \in 1..n /\ i \in Nat /\ i >= 1 /\ i < M /\ i + 1 <= M
    BY Sizes
  <2>2. PICK t \in ts : Owning(t) /\ pos[t] = (from + (i + 1) - 1) % M
    BY <2>1 DEF Owned
  <2>3. f[i + 1] = t
    BY <2>1, <2>2, OwnerChosen
  <2>4. pos[t] = (Incr(from) + i - 1) % M
    BY <2>1, <2>2, PlaceOfNext
  <2>5. t # p
    <3>1. Dist(from, pos[t]) = i
      BY <2>1, <2>2, DistToPlace
    <3>2. Dist(from, from) = 0
      BY DistZero
    <3> QED BY <2>1, <3>1, <3>2
  <2>6. Owning(t)' /\ pos'[t] = pos[t]
    BY <2>2, <2>5
  <2>7. \A u \in ts : Owning(u)' /\ pos'[u] = pos'[t] => u = t
    BY <2>2, <2>6 DEF Owned
  <2>8. g[i] = t
    BY <2>4, <2>6, <2>7, OwnerChosenNext
  <2> QED BY <2>3, <2>8
<1>3. f = [i \in 1..n |-> f[i]] /\ g = [i \in 1..(n - 1) |-> g[i]]
  BY DEF OwnersFrom
<1> HIDE DEF f, g
<1>4. f # <<>> /\ Head(f) = f[1] /\ g = Tail(f)
  BY <1>2, <1>3, OneLess
<1> QED BY <1>1, <1>4 DEF f, g

----------------------------------------------------------------------------
(* What is in the slots and in the locals *)

DataInv ==
  /\ \A p \in Producers :
       /\ pc[p] = "idle" => item[p] = NoItem
       /\ pc[p] \notin {"idle", "report"} => item[p] \in Items
       /\ pc[p] \in {"wait", "commit"} => data[Slot(pos[p])] = item[p]
  /\ \A c \in Consumers :
       pc[c] \in {"idle", "head", "check", "claim"} => item[c] = NoItem

(* The locals of the other threads. *)
OthersStay(t) ==
  \A u \in Threads \ {t} : pc'[u] = pc[u] /\ pos'[u] = pos[u] /\ item'[u] = item[u]

(* A producer writes no slot but the one it owns. *)
WritesOwnSlot(p) ==
  \/ data' = data
  \/ Owning(p) /\ \E v : data' = [data EXCEPT ![Slot(pos[p])] = v]

LEMMA AddFrame ==
  ASSUME TypeOK, NEW p \in Producers,
         AddStep(p) \/ \E v \in Items, sw \in BOOLEAN : AddCall(p, v, sw)
  PROVE  OthersStay(p) /\ WritesOwnSlot(p) /\ UNCHANGED <<rhead, rtail>>
<1> USE DEF Goto, Return, OthersStay, WritesOwnSlot, counters, TypeOK
<1>1. CASE AddReadHead(p)
  BY <1>1 DEF AddReadHead
<1>2. CASE AddCheck(p)
  BY <1>2 DEF AddCheck
<1>3. CASE AddClaim(p)
  BY <1>3 DEF AddClaim
<1>4. CASE AddRetry(p)
  BY <1>4 DEF AddRetry
<1>5. CASE AddStore(p)
  <2>1. OthersStay(p) /\ UNCHANGED <<rhead, rtail>>
    BY <1>5 DEF AddStore
  <2>2. WritesOwnSlot(p)
    BY <1>5 DEF AddStore, Owning
  <2> QED BY <2>1, <2>2
<1>6. CASE AddWait(p)
  BY <1>6 DEF AddWait
<1>7. CASE AddCommit(p)
  BY <1>7 DEF AddCommit
<1>8. CASE AddReport(p)
  BY <1>8 DEF AddReport
<1>9. ASSUME NEW v \in Items, NEW sw \in BOOLEAN, AddCall(p, v, sw)
      PROVE  OthersStay(p) /\ WritesOwnSlot(p) /\ UNCHANGED <<rhead, rtail>>
  BY <1>9 DEF AddCall
<1> QED BY <1>1, <1>2, <1>3, <1>4, <1>5, <1>6, <1>7, <1>8, <1>9 DEF AddStep

LEMMA FetchFrame ==
  ASSUME TypeOK, NEW c \in Consumers,
         FetchStep(c) \/ \E sr \in BOOLEAN : FetchCall(c, sr)
  PROVE  OthersStay(c) /\ UNCHANGED <<whead, wtail, data>>
<1> USE DEF Goto, Return, OthersStay, counters, TypeOK
<1>1. CASE FetchReadHead(c)
  BY <1>1 DEF FetchReadHead
<1>2. CASE FetchCheck(c)
  BY <1>2 DEF FetchCheck
<1>3. CASE FetchClaim(c)
  BY <1>3 DEF FetchClaim
<1>4. CASE FetchRetry(c)
  BY <1>4 DEF FetchRetry
<1>5. CASE FetchLoad(c)
  BY <1>5 DEF FetchLoad
<1>6. CASE FetchWait(c)
  BY <1>6 DEF FetchWait
<1>7. CASE FetchCommit(c)
  BY <1>7 DEF FetchCommit
<1>8. CASE FetchReport(c)
  BY <1>8 DEF FetchReport
<1>9. ASSUME NEW sr \in BOOLEAN, FetchCall(c, sr)
      PROVE  OthersStay(c) /\ UNCHANGED <<whead, wtail, data>>
  BY <1>9 DEF FetchCall
<1> QED BY <1>1, <1>2, <1>3, <1>4, <1>5, <1>6, <1>7, <1>8, <1>9 DEF FetchStep

(* What the other owners have in their slots stays there. *)
LEMMA SlotsStay ==
  ASSUME IInv, NEW p \in Producers, WritesOwnSlot(p),
         NEW t \in Threads, t # p, Owning(t)
  PROVE  data'[Slot(pos[t])] = data[Slot(pos[t])]
<1>1. p \in Threads
  BY Roles
<1>2. Owning(p) => Slot(pos[p]) # Slot(pos[t])
  BY <1>1, OwnersApart DEF SlotsExclusive
<1>3. data = [i \in DOMAIN data |-> data[i]] /\ Slot(pos[t]) \in DOMAIN data
  <2>1. pos[t] \in Counter
    BY Types DEF IInv
  <2>2. Slot(pos[t]) \in 0..(cap - 1)
    BY <2>1, Sizes DEF Slot, Counter
  <2> QED BY <2>2 DEF IInv, TypeOK
<1> QED BY <1>2, <1>3 DEF WritesOwnSlot

(* So do the published items. *)
LEMMA PublishedStay ==
  ASSUME IInv, NEW p \in Producers, WritesOwnSlot(p),
         NEW x \in Counter, Dist(rhead, x) < Dist(rhead, wtail)
  PROVE  data'[Slot(x)] = data[Slot(x)]
<1>1. Slot(x) \in DOMAIN data
  <2>1. Slot(x) \in 0..(cap - 1)
    BY Sizes DEF Slot, Counter
  <2> QED BY <2>1 DEF IInv, TypeOK
<1>2. ASSUME Owning(p) PROVE Slot(pos[p]) # Slot(x)
  <2>1. p \in Threads /\ TypeOK /\ Taken <= cap
    BY Roles DEF IInv
  <2>2. /\ pos[p] \in Counter /\ Dist(rtail, pos[p]) < cap
        /\ Dist(rtail, pos[p]) >= Dist(rtail, wtail)
    BY <1>2, <2>1, OwnerPlace
  <2>3. /\ rtail \in Counter /\ rhead \in Counter
        /\ Dist(rtail, rhead) \in Nat /\ Dist(rhead, wtail) \in Nat
        /\ Dist(wtail, whead) \in Nat
        /\ Dist(rtail, wtail) = Dist(rtail, rhead) + Dist(rhead, wtail)
    BY <2>1, Types, Distances
  <2>4. Dist(rhead, x) \in Nat /\ Dist(rtail, pos[p]) \in Nat
    BY <2>2, <2>3, DistNat
  <2>5. Dist(rtail, x) = Dist(rtail, rhead) + Dist(rhead, x)
    <3>1. Dist(rtail, rhead) + Dist(rhead, x) < M
      BY <2>1, <2>3, <2>4, Sizes DEF Taken
    <3> QED BY <3>1, <2>3, DistAdd
  <2>6. Dist(rtail, x) < Dist(rtail, wtail) /\ Dist(rtail, x) < cap
    BY <2>1, <2>3, <2>4, <2>5, Sizes DEF Taken
  <2>7. x # pos[p]
    BY <2>2, <2>3, <2>4, <2>5, <2>6
  <2> QED BY <2>2, <2>3, <2>6, <2>7, Apart
<1> QED BY <1>1, <1>2 DEF WritesOwnSlot, IInv, TypeOK

LEMMA DataInit == Init => DataInv
BY DEF Init, DataInv, Threads

LEMMA DataAdd ==
  ASSUME IInv, DataInv, NEW p \in Producers,
         AddStep(p) \/ \E v \in Items, sw \in BOOLEAN : AddCall(p, v, sw)
  PROVE  DataInv'
<1>1. TypeOK /\ p \in Threads
  BY Roles DEF IInv
<1>2. OthersStay(p) /\ WritesOwnSlot(p)
  BY <1>1, AddFrame
<1>3. ASSUME NEW c \in Consumers, pc'[c] \in {"idle", "head", "check", "claim"}
      PROVE  item'[c] = NoItem
  <2>1. c # p /\ c \in Threads
    BY Roles
  <2> QED BY <1>2, <1>3, <2>1 DEF OthersStay, DataInv
<1>4. ASSUME NEW q \in Producers, q # p
      PROVE  /\ pc'[q] = "idle" => item'[q] = NoItem
             /\ pc'[q] \notin {"idle", "report"} => item'[q] \in Items
             /\ pc'[q] \in {"wait", "commit"} => data'[Slot(pos'[q])] = item'[q]
  <2>1. q \in Threads /\ pc'[q] = pc[q] /\ pos'[q] = pos[q] /\ item'[q] = item[q]
    BY <1>2, <1>4, Roles DEF OthersStay
  <2>2. pc[q] \in {"wait", "commit"} => data'[Slot(pos[q])] = data[Slot(pos[q])]
    BY <1>2, <1>4, <2>1, SlotsStay DEF Owning
  <2> QED BY <2>1, <2>2 DEF DataInv
<1> DEFINE Mine == /\ pc'[p] = "idle" => item'[p] = NoItem
                   /\ pc'[p] \notin {"idle", "report"} => item'[p] \in Items
                   /\ pc'[p] \in {"wait", "commit"} => data'[Slot(pos'[p])] = item'[p]
<1>5. Mine
  <2> USE DEF Goto, Return, counters
  <2>1. CASE AddReadHead(p)
    BY <2>1, <1>1 DEF AddReadHead, DataInv, TypeOK
  <2>2. CASE AddCheck(p)
    BY <2>2, <1>1 DEF AddCheck, DataInv, TypeOK
  <2>3. CASE AddClaim(p)
    BY <2>3, <1>1 DEF AddClaim, DataInv, TypeOK
  <2>4. CASE AddRetry(p)
    BY <2>4, <1>1 DEF AddRetry, DataInv, TypeOK
  <2>5. CASE AddStore(p)
    <3>1. Slot(pos[p]) \in DOMAIN data
      <4>1. Slot(pos[p]) \in 0..(cap - 1)
        BY <1>1, Types, Sizes DEF Slot, Counter
      <4> QED BY <1>1, <4>1 DEF TypeOK
    <3>2. data'[Slot(pos[p])] = item[p] /\ pos' = pos /\ item' = item
      BY <2>5, <3>1 DEF AddStore
    <3>3. pc'[p] \in {"wait", "commit"} /\ item[p] \in Items
      BY <2>5, <1>1 DEF AddStore, DataInv, TypeOK
    <3> QED BY <3>2, <3>3
  <2>6. CASE AddWait(p)
    BY <2>6, <1>1 DEF AddWait, DataInv, TypeOK
  <2>7. CASE AddCommit(p)
    BY <2>7, <1>1 DEF AddCommit, DataInv, TypeOK
  <2>8. CASE AddReport(p)
    BY <2>8, <1>1 DEF AddReport, DataInv, TypeOK
  <2>9. ASSUME NEW v \in Items, NEW sw \in BOOLEAN, AddCall(p, v, sw) PROVE Mine
    BY <2>9, <1>1 DEF AddCall, DataInv, TypeOK
  <2> QED BY <2>1, <2>2, <2>3, <2>4, <2>5, <2>6, <2>7, <2>8, <2>9 DEF AddStep
<1> HIDE DEF Mine
<1> QED BY <1>3, <1>4, <1>5 DEF DataInv, Mine

LEMMA DataFetch ==
  ASSUME IInv, DataInv, NEW c \in Consumers,
         FetchStep(c) \/ \E sr \in BOOLEAN : FetchCall(c, sr)
  PROVE  DataInv'
<1>1. TypeOK /\ c \in Threads /\ c \notin Producers
  BY Roles DEF IInv
<1>2. OthersStay(c) /\ data' = data
  BY <1>1, FetchFrame
<1>3. \A p \in Producers : p # c /\ p \in Threads
  BY <1>1, Roles
<1>4. \A d \in Consumers : d \in Threads
  BY Roles
<1> DEFINE Mine == pc'[c] \in {"idle", "head", "check", "claim"} => item'[c] = NoItem
<1>5. Mine
  <2> USE DEF Goto, Return, counters
  <2>1. CASE FetchReadHead(c)
    BY <2>1, <1>1 DEF FetchReadHead, DataInv, TypeOK
  <2>2. CASE FetchCheck(c)
    BY <2>2, <1>1 DEF FetchCheck, DataInv, TypeOK
  <2>3. CASE FetchClaim(c)
    BY <2>3, <1>1 DEF FetchClaim, DataInv, TypeOK
  <2>4. CASE FetchRetry(c)
    BY <2>4, <1>1 DEF FetchRetry, DataInv, TypeOK
  <2>5. CASE FetchLoad(c)
    BY <2>5, <1>1 DEF FetchLoad, DataInv, TypeOK
  <2>6. CASE FetchWait(c)
    BY <2>6, <1>1 DEF FetchWait, DataInv, TypeOK
  <2>7. CASE FetchCommit(c)
    BY <2>7, <1>1 DEF FetchCommit, DataInv, TypeOK
  <2>8. CASE FetchReport(c)
    BY <2>8, <1>1 DEF FetchReport, DataInv, TypeOK
  <2>9. ASSUME NEW sr \in BOOLEAN, FetchCall(c, sr) PROVE Mine
    BY <2>9, <1>1 DEF FetchCall, DataInv, TypeOK
  <2> QED BY <2>1, <2>2, <2>3, <2>4, <2>5, <2>6, <2>7, <2>8, <2>9 DEF FetchStep
<1> HIDE DEF Mine
<1>6. \A d \in Consumers \ {c} :
        pc'[d] \in {"idle", "head", "check", "claim"} => item'[d] = NoItem
  BY <1>2, <1>4 DEF OthersStay, DataInv
<1>7. \A p \in Producers :
       /\ pc'[p] = "idle" => item'[p] = NoItem
       /\ pc'[p] \notin {"idle", "report"} => item'[p] \in Items
       /\ pc'[p] \in {"wait", "commit"} => data'[Slot(pos'[p])] = item'[p]
  BY <1>2, <1>3 DEF OthersStay, DataInv
<1> QED BY <1>5, <1>6, <1>7 DEF DataInv, Mine

LEMMA DataStep == IInv /\ DataInv /\ [Next]_vars => DataInv'
<1> SUFFICES ASSUME IInv, DataInv, [Next]_vars PROVE DataInv'
  OBVIOUS
<1>1. CASE UNCHANGED vars
  BY <1>1 DEF vars, DataInv
<1> QED BY <1>1, DataAdd, DataFetch DEF Next

----------------------------------------------------------------------------
(* The refinement mapping *)

Claims == OwnersFrom(Producers, wtail, Dist(wtail, whead))
Takers == OwnersFrom(Consumers, rtail, Dist(rtail, rhead))

LEMMA SidesOwned ==
  ASSUME IInv
  PROVE  /\ Owned(Producers, wtail, Dist(wtail, whead))
         /\ Owned(Consumers, rtail, Dist(rtail, rhead))
<1>1. /\ wtail \in Counter /\ whead \in Counter /\ rtail \in Counter /\ rhead \in Counter
      /\ Dist(wtail, whead) \in Counter /\ Dist(rtail, rhead) \in Counter
  BY Types, DistType DEF IInv
<1>2. ASSUME NEW a \in Counter, NEW n \in Counter, NEW i \in 1..n
      PROVE  (a + i - 1) % M \in Counter /\ Dist(a, (a + i - 1) % M) < n
  <2>1. i \in Nat /\ i >= 1 /\ i <= M /\ i - 1 < n
    BY <1>2, Sizes DEF Counter
  <2> QED BY <1>2, <2>1, PlaceCases, DistToPlace
<1>3. /\ \A t, u \in Producers : Owning(t) /\ Owning(u) /\ pos[t] = pos[u] => t = u
      /\ \A t, u \in Consumers : Owning(t) /\ Owning(u) /\ pos[t] = pos[u] => t = u
  BY Roles DEF IInv, OwnersDiffer
<1>4. Covered(Producers, wtail, whead) /\ Covered(Consumers, rtail, rhead)
  BY DEF IInv
<1> QED BY <1>1, <1>2, <1>3, <1>4 DEF Owned, Covered

(* A producer's step as the queue sees it: its own offer changes.          *)
LEMMA ProducerView ==
  ASSUME IInv, DataInv, NEW p \in Producers, OthersStay(p), WritesOwnSlot(p),
         UNCHANGED <<rhead, rtail>>
  PROVE  /\ Fetching' = Fetching /\ Takers' = Takers /\ Held' = Held
         /\ Offered' = [Offered EXCEPT ![p] = IF pc'[p] = "report" THEN NoItem ELSE item'[p]]
<1>1. \A c \in Consumers :
        c \in Threads /\ c # p /\ pc'[c] = pc[c] /\ pos'[c] = pos[c] /\ item'[c] = item[c]
  BY Roles DEF OthersStay
<1>2. Fetching' = Fetching
  BY <1>1 DEF Fetching
<1>3. Takers' = Takers
  <2>1. \A c \in Consumers : (Owning(c)' <=> Owning(c)) /\ (Owning(c) => pos'[c] = pos[c])
    BY <1>1 DEF Owning
  <2>2. \A from, n : Owned(Consumers, from, n) =>
          OwnersFrom(Consumers, from, n)' = OwnersFrom(Consumers, from, n)
    BY <2>1, OwnersStay
  <2>3. OwnersFrom(Consumers, rtail, Dist(rtail, rhead))'
          = OwnersFrom(Consumers, rtail, Dist(rtail, rhead))
    BY <2>2, SidesOwned
  <2> QED BY <2>3 DEF Takers
<1>4. Held' = Held
  <2>1. ASSUME NEW c \in Consumers, pc[c] = "access"
        PROVE  data'[Slot(pos[c])] = data[Slot(pos[c])]
    BY <1>1, <2>1, SlotsStay DEF Owning
  <2> QED BY <1>1, <2>1 DEF Held
<1>5. Offered' = [Offered EXCEPT ![p] = IF pc'[p] = "report" THEN NoItem ELSE item'[p]]
  <2>1. \A q \in Producers \ {p} : pc'[q] = pc[q] /\ item'[q] = item[q]
    BY Roles DEF OthersStay
  <2> QED BY <2>1 DEF Offered
<1> QED BY <1>2, <1>3, <1>4, <1>5

(* A consumer's: its own request and item change.                          *)
LEMMA ConsumerView ==
  ASSUME IInv, NEW c \in Consumers, OthersStay(c), UNCHANGED <<whead, wtail, data>>
  PROVE  /\ Offered' = Offered /\ Claims' = Claims
         /\ Fetching' = [Fetching EXCEPT ![c] = (pc'[c] \notin {"idle", "report"})]
         /\ Held' = [Held EXCEPT ![c] =
                       IF pc'[c] = "access" THEN data[Slot(pos'[c])]
                       ELSE IF pc'[c] = "report" THEN NoItem ELSE item'[c]]
<1>1. \A p \in Producers :
        p \in Threads /\ p # c /\ pc'[p] = pc[p] /\ pos'[p] = pos[p] /\ item'[p] = item[p]
  BY Roles DEF OthersStay
<1>2. \A d \in Consumers \ {c} : pc'[d] = pc[d] /\ pos'[d] = pos[d] /\ item'[d] = item[d]
  BY Roles DEF OthersStay
<1>3. Offered' = Offered
  BY <1>1 DEF Offered
<1>4. Claims' = Claims
  <2>1. \A p \in Producers : (Owning(p)' <=> Owning(p)) /\ (Owning(p) => pos'[p] = pos[p])
    BY <1>1 DEF Owning
  <2>2. \A from, n : Owned(Producers, from, n) =>
          OwnersFrom(Producers, from, n)' = OwnersFrom(Producers, from, n)
    BY <2>1, OwnersStay
  <2>3. OwnersFrom(Producers, wtail, Dist(wtail, whead))'
          = OwnersFrom(Producers, wtail, Dist(wtail, whead))
    BY <2>2, SidesOwned
  <2> QED BY <2>3 DEF Claims
<1>5. Fetching' = [Fetching EXCEPT ![c] = (pc'[c] \notin {"idle", "report"})]
  BY <1>2 DEF Fetching
<1>6. Held' = [Held EXCEPT ![c] =
                 IF pc'[c] = "access" THEN data[Slot(pos'[c])]
                 ELSE IF pc'[c] = "report" THEN NoItem ELSE item'[c]]
  BY <1>2 DEF Held
<1> QED BY <1>3, <1>4, <1>5, <1>6

(* The owners of a side stay when the thread that moves owns as before.    *)
LEMMA ClaimsStay ==
  ASSUME IInv, NEW p \in Producers, OthersStay(p), UNCHANGED <<whead, wtail>>,
         Owning(p)' <=> Owning(p), Owning(p) => pos'[p] = pos[p]
  PROVE  Claims' = Claims
<1>1. \A q \in Producers : (Owning(q)' <=> Owning(q)) /\ (Owning(q) => pos'[q] = pos[q])
  BY Roles DEF Owning, OthersStay
<1>2. \A from, n : Owned(Producers, from, n) =>
        OwnersFrom(Producers, from, n)' = OwnersFrom(Producers, from, n)
  BY <1>1, OwnersStay
<1>3. OwnersFrom(Producers, wtail, Dist(wtail, whead))'
        = OwnersFrom(Producers, wtail, Dist(wtail, whead))
  BY <1>2, SidesOwned
<1> QED BY <1>3 DEF Claims

LEMMA TakersStay ==
  ASSUME IInv, NEW c \in Consumers, OthersStay(c), UNCHANGED <<rhead, rtail>>,
         Owning(c)' <=> Owning(c), Owning(c) => pos'[c] = pos[c]
  PROVE  Takers' = Takers
<1>1. \A d \in Consumers : (Owning(d)' <=> Owning(d)) /\ (Owning(d) => pos'[d] = pos[d])
  BY Roles DEF Owning, OthersStay
<1>2. \A from, n : Owned(Consumers, from, n) =>
        OwnersFrom(Consumers, from, n)' = OwnersFrom(Consumers, from, n)
  BY <1>1, OwnersStay
<1>3. OwnersFrom(Consumers, rtail, Dist(rtail, rhead))'
        = OwnersFrom(Consumers, rtail, Dist(rtail, rhead))
  BY <1>2, SidesOwned
<1> QED BY <1>3 DEF Takers

(* The published items *)
LEMMA PublishedItem ==
  ASSUME IInv, NEW i \in 1..Dist(rhead, wtail)
  PROVE  LET x == (rhead + i - 1) % M
         IN  x \in Counter /\ Dist(rhead, x) < Dist(rhead, wtail)
<1>1. /\ rhead \in Counter /\ wtail \in Counter /\ Dist(rhead, wtail) \in Counter
  BY Types, DistType DEF IInv
<1>2. i \in Nat /\ i >= 1 /\ i <= M /\ i - 1 < Dist(rhead, wtail)
  BY <1>1, Sizes DEF Counter
<1> QED BY <1>1, <1>2, PlaceCases, DistToPlace

LEMMA PublishedSame ==
  ASSUME IInv, UNCHANGED <<rhead, wtail>>,
         data' = data \/ \E p \in Producers : WritesOwnSlot(p)
  PROVE  Published' = Published
<1>1. ASSUME NEW i \in 1..Dist(rhead, wtail)
      PROVE  data'[Slot((rhead + i - 1) % M)] = data[Slot((rhead + i - 1) % M)]
  BY <1>1, PublishedItem, PublishedStay
<1> QED BY <1>1 DEF Published

LEMMA PublishedGrows ==
  ASSUME IInv, UNCHANGED <<rhead, data>>, wtail' = Incr(wtail), Dist(wtail, whead) >= 1
  PROVE  Published' = Append(Published, data[Slot(wtail)])
<1>1. /\ rhead \in Counter /\ wtail \in Counter /\ Dist(rhead, wtail) \in Nat
      /\ Dist(rtail, rhead) \in Nat /\ Dist(wtail, whead) \in Nat /\ Taken <= cap
  BY Types DEF IInv
<1>2. PICK n \in Nat : n = Dist(rhead, wtail)
  BY <1>1
<1> DEFINE f == Published
           g == Published'
<1>3. Dist(rhead, wtail') = n + 1
  <2>1. n + 1 < M
    BY <1>1, <1>2, Sizes DEF Taken
  <2> QED BY <1>1, <1>2, <2>1, DistToNext
<1>4. f = [i \in 1..n |-> f[i]] /\ g = [i \in 1..(n + 1) |-> g[i]]
  BY <1>2, <1>3 DEF Published
<1>5. \A i \in 1..n : g[i] = f[i]
  BY <1>2, <1>3 DEF Published
<1>6. g[n + 1] = data[Slot(wtail)]
  <2>1. (rhead + (n + 1) - 1) % M = wtail
    BY <1>1, <1>2, PlaceOfDist
  <2>2. g[n + 1] = data[Slot((rhead + (n + 1) - 1) % M)]
    BY <1>3 DEF Published
  <2> QED BY <2>1, <2>2
<1> HIDE DEF f, g
<1>7. g = Append(f, g[n + 1])
  BY <1>4, <1>5, OneMore
<1> QED BY <1>6, <1>7 DEF f, g

LEMMA PublishedShrinks ==
  ASSUME IInv, UNCHANGED <<wtail, data>>, rhead' = Incr(rhead), Dist(rhead, wtail) >= 1
  PROVE  /\ Published # <<>> /\ Head(Published) = data[Slot(rhead)]
         /\ Published' = Tail(Published)
<1> DEFINE n == Dist(rhead, wtail)
           f == Published
           g == Published'
<1>1. rhead \in Counter /\ wtail \in Counter /\ n \in Nat /\ n >= 1 /\ n < M
  <2>1. rhead \in Counter /\ wtail \in Counter
    BY Types DEF IInv
  <2>2. n \in Counter
    BY <2>1, DistType
  <2> HIDE DEF n
  <2>3. n \in Nat /\ n < M
    BY <2>2, Sizes DEF Counter
  <2> QED BY <2>1, <2>3 DEF n
<1>2. Dist(rhead', wtail) = n - 1
  BY <1>1, DistFromNext, DistZero
<1>3. f = [i \in 1..n |-> f[i]] /\ g = [i \in 1..(n - 1) |-> g[i]]
  BY <1>2 DEF Published
<1>4. ASSUME NEW i \in 1..(n - 1) PROVE g[i] = f[i + 1]
  <2>1. i + 1 \in 1..n /\ i \in Nat /\ i >= 1 /\ i < M
    <3> HIDE DEF n
    <3> QED BY <1>1, Sizes
  <2>2. (Incr(rhead) + i - 1) % M = (rhead + (i + 1) - 1) % M
    BY <1>1, <2>1, PlaceOfNext
  <2>3. g[i] = data[Slot((Incr(rhead) + i - 1) % M)]
    BY <1>2 DEF Published
  <2>4. f[i + 1] = data[Slot((rhead + (i + 1) - 1) % M)]
    BY <2>1 DEF Published
  <2> QED BY <2>2, <2>3, <2>4
<1>5. f[1] = data[Slot(rhead)]
  <2>1. (rhead + 1 - 1) % M = rhead
    BY <1>1, Sizes, PlaceCases DEF Counter
  <2>2. f[1] = data[Slot((rhead + 1 - 1) % M)]
    BY <1>1 DEF Published
  <2> QED BY <2>1, <2>2
<1> HIDE DEF n, f, g
<1>6. f # <<>> /\ Head(f) = f[1] /\ g = Tail(f)
  BY <1>1, <1>3, <1>4, OneLess
<1> QED BY <1>5, <1>6 DEF f, g

(* The lengths of the three sequences. *)
LEMMA Lengths ==
  ASSUME IInv
  PROVE  /\ Len(Claims) = Dist(wtail, whead) /\ Len(Published) = Dist(rhead, wtail)
         /\ Len(Takers) = Dist(rtail, rhead)
         /\ Fifo!Occupied = Taken /\ Taken \in Nat
         /\ Dist(rhead, wtail) = 0 => Published = <<>>
<1>1. /\ Dist(rtail, rhead) \in Nat /\ Dist(rhead, wtail) \in Nat
      /\ Dist(wtail, whead) \in Nat
  BY Types DEF IInv
<1>2. Len(Claims) = Dist(wtail, whead)
  BY <1>1 DEF Claims, OwnersFrom
<1>3. Len(Takers) = Dist(rtail, rhead)
  BY <1>1 DEF Takers, OwnersFrom
<1>4. Len(Published) = Dist(rhead, wtail)
  BY <1>1 DEF Published
<1>5. Fifo!Occupied = Len(Claims) + Len(Published) + Len(Takers)
  BY DEF Fifo!Occupied, Claims, Takers
<1>6. Fifo!Occupied = Taken /\ Taken \in Nat
  BY <1>1, <1>2, <1>3, <1>4, <1>5 DEF Taken
<1>7. Dist(rhead, wtail) = 0 => Published = <<>>
  BY DEF Published
<1> QED BY <1>2, <1>3, <1>4, <1>6, <1>7

(* Only an owner is among the claims. *)
LEMMA ClaimsOwn ==
  ASSUME IInv, NEW p \in Producers, ~Owning(p)
  PROVE  ~Fifo!Member(p, Claims)
<1> DEFINE n == Dist(wtail, whead)
<1>1. SUFFICES ASSUME NEW i \in DOMAIN Claims, Claims[i] = p PROVE FALSE
  BY DEF Fifo!Member
<1>2. i \in 1..n /\ Owned(Producers, wtail, n)
  BY SidesOwned DEF Claims, OwnersFrom
<1> HIDE DEF n
<1>3. PICK t \in Producers : Owning(t) /\ pos[t] = (wtail + i - 1) % M
  BY <1>2 DEF Owned
<1>4. OwnersFrom(Producers, wtail, n)[i] = t
  BY <1>2, <1>3, OwnerChosen
<1> QED BY <1>1, <1>3, <1>4 DEF Claims, n

----------------------------------------------------------------------------
(* Each step of a producer is a step of the queue, or none. *)

(* The variables of the queue, by the names used here. *)
LEMMA FifoVars ==
  (/\ Offered' = Offered /\ Claims' = Claims /\ Published' = Published
   /\ Fetching' = Fetching /\ Takers' = Takers /\ Held' = Held)
  => UNCHANGED Fifo!vars
BY DEF Fifo!vars, Claims, Takers

LEMMA ItemsAreItems == NoItem \notin Items
BY RingQueueAssumption DEF RingQueueAssumption

LEMMA AddCallOffers ==
  ASSUME IInv, DataInv, NEW p \in Producers, NEW v \in Items, NEW sw \in BOOLEAN,
         AddCall(p, v, sw)
  PROVE  Fifo!Offer(p, v)
<1>1. TypeOK /\ p \in Threads /\ OthersStay(p) /\ WritesOwnSlot(p) /\ UNCHANGED <<rhead, rtail>>
  BY AddFrame, Roles DEF IInv
<1>2. /\ pc[p] = "idle" /\ pc'[p] = "head" /\ item'[p] = v
      /\ UNCHANGED <<whead, wtail, data>>
  BY <1>1 DEF AddCall, Goto, TypeOK, counters
<1>3. /\ Fetching' = Fetching /\ Takers' = Takers /\ Held' = Held
      /\ Offered' = [Offered EXCEPT ![p] = v]
  BY <1>1, <1>2, ProducerView
<1>4. Claims' = Claims /\ Published' = Published
  BY <1>1, <1>2, ClaimsStay, PublishedSame DEF Owning
<1>5. Offered[p] = NoItem
  BY <1>2 DEF Offered, DataInv
<1> QED BY <1>3, <1>4, <1>5 DEF Fifo!Offer, Claims, Takers

(* A call is refused only when every slot is in use: the tail that the     *)
(* producer compared with is at most as new as the head now.               *)
LEMMA NoSpaceMeansFull ==
  ASSUME IInv, NEW p \in Producers, pc[p] = "check", Unused(p) < 1
  PROVE  Taken = cap
<1>1. /\ TypeOK /\ Taken <= cap /\ p \in Threads /\ pos[p] \in Counter
      /\ whead \in Counter /\ rtail \in Counter
      /\ Dist(pos[p], whead) <= MaxLag
  BY Roles, Types DEF IInv, ThreadOK, LagIsBounded, Trying, MyHead
<1>2. Dist(rtail, whead) = Taken /\ Dist(pos[p], whead) \in Nat /\ Taken \in Nat
  BY <1>1, Distances, DistNat
<1> DEFINE a == rtail
           b == pos[p]
           c == whead
           d == cap - Dist(a, c) + Dist(b, c)
<1>3. d \in 0..(M - 1)
  BY <1>1, <1>2, Sizes DEF MaxLag
<1>4. /\ Dist(a, c) = IF a <= c THEN c - a ELSE c - a + M
      /\ Dist(b, c) = IF b <= c THEN c - b ELSE c - b + M
  BY <1>1, DistCases
<1>5. Unused(p) = (cap + a - b) % M
  BY DEF Unused
<1> HIDE DEF a, b, c
<1>6. a \in Counter /\ b \in Counter /\ c \in Counter
  BY <1>1 DEF a, b, c
<1>7. cap + a - b = d \/ cap + a - b = d - M \/ cap + a - b = d + M
  BY <1>4, <1>6, Sizes DEF Counter
<1> HIDE DEF d
<1>8. (cap + a - b) % M = d
  BY <1>3, <1>7, Sizes
<1>9. cap - Dist(a, c) + Dist(b, c) < 1
  BY <1>3, <1>5, <1>8 DEF d
<1> QED BY <1>1, <1>2, <1>9, Sizes DEF a, b, c

LEMMA AddCheckRefuses ==
  ASSUME IInv, DataInv, NEW p \in Producers, AddCheck(p)
  PROVE  Fifo!Refuse(p) \/ UNCHANGED Fifo!vars
<1>1. TypeOK /\ p \in Threads /\ OthersStay(p) /\ WritesOwnSlot(p) /\ UNCHANGED <<rhead, rtail>>
  BY AddFrame, Roles DEF IInv, AddStep
<1>2. pc[p] = "check" /\ UNCHANGED <<whead, wtail, data>> /\ ~Owning(p)
  BY DEF AddCheck, counters, Owning
<1>3. pc'[p] \in {"claim", "idle"} /\ ~Owning(p)'
  BY <1>1 DEF AddCheck, Goto, Return, TypeOK, Owning
<1>4. /\ Fetching' = Fetching /\ Takers' = Takers /\ Held' = Held
      /\ Offered' = [Offered EXCEPT ![p] = item'[p]]
      /\ Claims' = Claims /\ Published' = Published
  BY <1>1, <1>2, <1>3, ProducerView, ClaimsStay, PublishedSame
<1>5. Offered[p] = item[p] /\ item[p] \in Items
  BY <1>2 DEF Offered, DataInv
<1>6. CASE item' = item
  <2>1. Offered' = Offered
    BY <1>4, <1>5, <1>6 DEF Offered
  <2> QED BY <2>1, <1>4, FifoVars
<1>7. CASE Unused(p) < 1 /\ Return(p)
  <2>1. item'[p] = NoItem
    BY <1>1, <1>7 DEF Return, TypeOK
  <2>2. Fifo!Occupied = cap
    BY <1>2, <1>7, NoSpaceMeansFull, Lengths
  <2>3. ~Fifo!Member(p, Claims)
    BY <1>2, ClaimsOwn
  <2> QED BY <2>1, <2>2, <2>3, <1>4, <1>5, ItemsAreItems DEF Fifo!Refuse, Claims, Takers
<1> QED BY <1>6, <1>7 DEF AddCheck

LEMMA AddClaimClaims ==
  ASSUME IInv, DataInv, NEW p \in Producers, AddClaim(p)
  PROVE  Fifo!Claim(p)
<1>1. /\ TypeOK /\ Taken <= cap /\ ThreadOK(p) /\ p \in Threads
      /\ OthersStay(p) /\ WritesOwnSlot(p) /\ UNCHANGED <<rhead, rtail>>
      /\ whead \in Counter /\ wtail \in Counter /\ Dist(wtail, whead) \in Nat
      /\ Dist(rtail, rhead) \in Nat /\ Dist(rhead, wtail) \in Nat
  BY AddFrame, Roles, Types DEF IInv, AddStep
<1>2. /\ pc[p] = "claim" /\ pc'[p] = "access" /\ pos' = pos /\ item' = item
      /\ whead' = Incr(pos[p]) /\ UNCHANGED <<wtail, data>>
  BY <1>1 DEF AddClaim, Goto, TypeOK
<1>3. pos[p] = whead
  BY <1>1, <1>2 DEF AddClaim, ThreadOK, SoloIsAlone, MyHead, Trying
<1>4. Taken < cap
  BY <1>1, <1>2, <1>3 DEF ThreadOK, ClaimIsSafe, MyHead
<1>5. PICK n \in Nat : n = Dist(wtail, whead)
  BY <1>1
<1>6. Dist(wtail, whead') = n + 1
  <2>1. n + 1 < M
    BY <1>1, <1>5, Sizes DEF Taken
  <2> QED BY <1>1, <1>2, <1>3, <1>5, <2>1, DistToNext
<1>7. Claims' = Append(Claims, p)
  <2>1. Owned(Producers, wtail, n)
    BY <1>5, SidesOwned
  <2>2. ~Owning(p) /\ Owning(p)'
    BY <1>2 DEF Owning
  <2>3. pos'[p] = (wtail + (n + 1) - 1) % M
    BY <1>1, <1>2, <1>3, <1>5, PlaceOfDist
  <2>4. ASSUME NEW t \in Producers, t # p
        PROVE  /\ Owning(t)' <=> Owning(t)
               /\ Owning(t) => pos'[t] = pos[t] /\ pos[t] # pos'[p]
    <3>1. t \in Threads /\ pc'[t] = pc[t] /\ pos'[t] = pos[t] /\ pos[t] \in Counter
      BY <1>1, <2>4, Roles, Types DEF OthersStay
    <3>2. Owning(t) => Dist(wtail, pos[t]) < Dist(wtail, whead)
      BY <3>1 DEF IInv, ThreadOK, OwnerInRange, MyTail, MyHead
    <3>3. Owning(t) => pos[t] # whead
      BY <3>2, <1>1
    <3> QED BY <3>1, <3>3, <1>2, <1>3 DEF Owning
  <2>5. \A from : Owned(Producers, from, n) /\ pos'[p] = (from + (n + 1) - 1) % M =>
          OwnersFrom(Producers, from, n + 1)' = Append(OwnersFrom(Producers, from, n), p)
    BY <2>2, <2>4, OwnersGrow
  <2>6. OwnersFrom(Producers, wtail, n + 1)' = Append(OwnersFrom(Producers, wtail, n), p)
    BY <2>1, <2>3, <2>5, <1>2
  <2> QED BY <2>6, <1>2, <1>5, <1>6 DEF Claims
<1>8. /\ Fetching' = Fetching /\ Takers' = Takers /\ Held' = Held
      /\ Offered' = [Offered EXCEPT ![p] = item[p]]
  BY <1>1, <1>2, ProducerView
<1>9. Offered[p] = item[p] /\ item[p] \in Items
  BY <1>2 DEF Offered, DataInv
<1>10. Offered' = Offered
  BY <1>8, <1>9 DEF Offered
<1>11. Published' = Published
  BY <1>1, <1>2, PublishedSame
<1>12. ~Fifo!Member(p, Claims) /\ Fifo!Occupied < cap
  BY <1>2, <1>4, ClaimsOwn, Lengths DEF Owning
<1> QED
  BY <1>7, <1>8, <1>9, <1>10, <1>11, <1>12, ItemsAreItems DEF Fifo!Claim, Claims, Takers

(* Steps that move no counter and keep what the thread offers.             *)
LEMMA ProducerStutters ==
  ASSUME IInv, DataInv, NEW p \in Producers, OthersStay(p), WritesOwnSlot(p),
         UNCHANGED counters, Owning(p)' <=> Owning(p), Owning(p) => pos'[p] = pos[p],
         Offered[p] = IF pc'[p] = "report" THEN NoItem ELSE item'[p]
  PROVE  UNCHANGED Fifo!vars
<1>1. UNCHANGED <<whead, wtail, rhead, rtail>>
  BY DEF counters
<1>2. /\ Fetching' = Fetching /\ Takers' = Takers /\ Held' = Held
      /\ Offered' = [Offered EXCEPT ![p] = IF pc'[p] = "report" THEN NoItem ELSE item'[p]]
  BY <1>1, ProducerView
<1>3. Offered' = Offered
  BY <1>2 DEF Offered
<1>4. Claims' = Claims /\ Published' = Published
  BY <1>1, ClaimsStay, PublishedSame
<1> QED BY <1>2, <1>3, <1>4, FifoVars

LEMMA AddCommitPublishes ==
  ASSUME IInv, DataInv, NEW p \in Producers, AddCommit(p)
  PROVE  Fifo!Publish
<1>1. /\ TypeOK /\ Taken <= cap /\ ThreadOK(p) /\ p \in Threads
      /\ OthersStay(p) /\ WritesOwnSlot(p) /\ UNCHANGED <<rhead, rtail>>
      /\ whead \in Counter /\ wtail \in Counter /\ Dist(wtail, whead) \in Nat
      /\ Dist(rtail, rhead) \in Nat /\ Dist(rhead, wtail) \in Nat
  BY AddFrame, Roles, Types DEF IInv, AddStep
<1>2. /\ pc[p] = "commit" /\ wtail' = Incr(pos[p]) /\ UNCHANGED <<whead, data>>
      /\ pc'[p] = "report" \/ (pc'[p] = "idle" /\ item'[p] = NoItem)
  BY <1>1 DEF AddCommit, Goto, Return, TypeOK
<1>3. Owning(p) /\ ~Owning(p)' /\ pos[p] = wtail
  BY <1>1, <1>2 DEF ThreadOK, OwnerInRange, MyTail, Owning
<1>4. PICK n \in Nat : n = Dist(wtail, whead)
  BY <1>1
<1>5. n >= 1 /\ n < M
  <2>1. Dist(wtail, pos[p]) < n /\ Dist(wtail, pos[p]) = 0
    BY <1>1, <1>3, <1>4, DistZero DEF ThreadOK, OwnerInRange, MyTail, MyHead
  <2> QED BY <2>1, <1>1, <1>4, Sizes DEF Taken
<1>6. Dist(wtail', whead) = n - 1
  BY <1>1, <1>2, <1>3, <1>4, <1>5, DistFromNext, DistZero
<1>7. /\ Claims # <<>> /\ Head(Claims) = p /\ Claims' = Tail(Claims)
  <2>1. Owned(Producers, wtail, n)
    BY <1>4, SidesOwned
  <2>2. \A t \in Producers : t # p =>
          (Owning(t)' <=> Owning(t)) /\ (Owning(t) => pos'[t] = pos[t])
    BY <1>1, Roles DEF OthersStay, Owning
  <2>3. PICK x \in Counter : x = wtail
    BY <1>1
  <2>4. PICK y \in Counter : y = Incr(x)
    BY IncrType
  <2>5. wtail' = y /\ Dist(wtail', whead') = n - 1
    BY <1>2, <1>3, <1>6, <2>3, <2>4
  <2>6. Claims = OwnersFrom(Producers, x, n)
    BY <1>4, <2>3 DEF Claims
  <2>7. Claims' = OwnersFrom(Producers, y, n - 1)'
    BY <2>5 DEF Claims
  <2>8. /\ OwnersFrom(Producers, x, n) # <<>>
        /\ Head(OwnersFrom(Producers, x, n)) = p
        /\ OwnersFrom(Producers, Incr(x), n - 1)' = Tail(OwnersFrom(Producers, x, n))
    <3>1. Owned(Producers, x, n) /\ pos[p] = x
      BY <1>3, <2>1, <2>3
    <3> QED BY <1>3, <1>5, <2>2, <3>1, OwnersShrink
  <2>9. OwnersFrom(Producers, y, n - 1)' = Tail(OwnersFrom(Producers, x, n))
    BY <2>4, <2>8
  <2> QED BY <2>6, <2>7, <2>8, <2>9
<1>8. Published' = Append(Published, data[Slot(wtail)])
  BY <1>1, <1>2, <1>3, <1>4, <1>5, PublishedGrows
<1>9. /\ Fetching' = Fetching /\ Takers' = Takers /\ Held' = Held
      /\ Offered' = [Offered EXCEPT ![p] = NoItem]
  BY <1>1, <1>2, ProducerView
<1>10. data[Slot(wtail)] = Offered[p]
  BY <1>2, <1>3 DEF Offered, DataInv
<1> QED BY <1>7, <1>8, <1>9, <1>10 DEF Fifo!Publish, Claims, Takers

LEMMA AddRefines ==
  ASSUME IInv, DataInv, NEW p \in Producers, AddStep(p)
  PROVE  [Fifo!Next]_(Fifo!vars)
<1>1. /\ TypeOK /\ p \in Threads /\ OthersStay(p) /\ WritesOwnSlot(p)
  BY AddFrame, Roles DEF IInv
<1>2. CASE AddReadHead(p)
  <2>1. /\ pc'[p] = "check" /\ item' = item /\ UNCHANGED counters
        /\ ~Owning(p) /\ ~Owning(p)' /\ Offered[p] = item[p]
    BY <1>1, <1>2 DEF AddReadHead, Goto, TypeOK, Owning, Offered
  <2> QED BY <1>1, <2>1, ProducerStutters
<1>3. CASE AddCheck(p)
  BY <1>3, AddCheckRefuses DEF Fifo!Next
<1>4. CASE AddClaim(p)
  BY <1>4, AddClaimClaims DEF Fifo!Next
<1>5. CASE AddRetry(p)
  <2>1. /\ pc'[p] = "head" /\ item' = item /\ UNCHANGED counters
        /\ ~Owning(p) /\ ~Owning(p)' /\ Offered[p] = item[p]
    BY <1>1, <1>5 DEF AddRetry, Goto, TypeOK, Owning, Offered
  <2> QED BY <1>1, <2>1, ProducerStutters
<1>6. CASE AddStore(p)
  <2>1. /\ pc'[p] \in {"commit", "wait"} /\ item' = item /\ UNCHANGED counters
        /\ Owning(p) /\ Owning(p)' /\ pos' = pos /\ Offered[p] = item[p]
    BY <1>1, <1>6 DEF AddStore, Goto, TypeOK, Owning, Offered
  <2> QED BY <1>1, <2>1, ProducerStutters
<1>7. CASE AddWait(p)
  <2>1. /\ pc'[p] = "commit" /\ item' = item /\ UNCHANGED counters
        /\ Owning(p) /\ Owning(p)' /\ pos' = pos /\ Offered[p] = item[p]
    BY <1>1, <1>7 DEF AddWait, Goto, TypeOK, Owning, Offered
  <2> QED BY <1>1, <2>1, ProducerStutters
<1>8. CASE AddCommit(p)
  BY <1>8, AddCommitPublishes DEF Fifo!Next
<1>9. CASE AddReport(p)
  <2>1. /\ pc'[p] = "idle" /\ item'[p] = NoItem /\ UNCHANGED counters
        /\ ~Owning(p) /\ ~Owning(p)' /\ Offered[p] = NoItem
    BY <1>1, <1>9 DEF AddReport, Return, Goto, TypeOK, Owning, Offered
  <2> QED BY <1>1, <2>1, ProducerStutters
<1> QED BY <1>2, <1>3, <1>4, <1>5, <1>6, <1>7, <1>8, <1>9 DEF AddStep

----------------------------------------------------------------------------
(* Each step of a consumer is a step of the queue, or none. *)

LEMMA FetchCallAsks ==
  ASSUME IInv, DataInv, NEW c \in Consumers, NEW sr \in BOOLEAN, FetchCall(c, sr)
  PROVE  Fifo!Ask(c)
<1>1. TypeOK /\ c \in Threads /\ OthersStay(c) /\ UNCHANGED <<whead, wtail, data>>
  BY FetchFrame, Roles DEF IInv
<1>2. /\ pc[c] = "idle" /\ pc'[c] = "head" /\ item' = item /\ UNCHANGED <<rhead, rtail>>
      /\ ~Owning(c) /\ ~Owning(c)'
  BY <1>1 DEF FetchCall, Goto, TypeOK, counters, Owning
<1>3. /\ Offered' = Offered /\ Claims' = Claims
      /\ Fetching' = [Fetching EXCEPT ![c] = TRUE]
      /\ Held' = [Held EXCEPT ![c] = item[c]]
  BY <1>1, <1>2, ConsumerView
<1>4. Takers' = Takers /\ Published' = Published
  BY <1>1, <1>2, TakersStay, PublishedSame
<1>5. Held' = Held /\ ~Fetching[c]
  BY <1>2, <1>3 DEF Held, Fetching
<1> QED BY <1>3, <1>4, <1>5 DEF Fifo!Ask, Claims, Takers

(* Steps that move no counter and keep what the thread holds.              *)
LEMMA ConsumerStutters ==
  ASSUME IInv, NEW c \in Consumers, OthersStay(c), UNCHANGED counters, UNCHANGED data,
         Owning(c)' <=> Owning(c), Owning(c) => pos'[c] = pos[c],
         Fetching[c] = (pc'[c] \notin {"idle", "report"}),
         Held[c] = IF pc'[c] = "access" THEN data[Slot(pos'[c])]
                   ELSE IF pc'[c] = "report" THEN NoItem ELSE item'[c]
  PROVE  UNCHANGED Fifo!vars
<1>1. UNCHANGED <<whead, wtail, rhead, rtail>>
  BY DEF counters
<1>2. /\ Offered' = Offered /\ Claims' = Claims
      /\ Fetching' = [Fetching EXCEPT ![c] = (pc'[c] \notin {"idle", "report"})]
      /\ Held' = [Held EXCEPT ![c] =
                    IF pc'[c] = "access" THEN data[Slot(pos'[c])]
                    ELSE IF pc'[c] = "report" THEN NoItem ELSE item'[c]]
  BY <1>1, ConsumerView
<1>3. Fetching' = Fetching /\ Held' = Held
  <2>1. Fetching = [Fetching EXCEPT ![c] = Fetching[c]] /\ Held = [Held EXCEPT ![c] = Held[c]]
    BY DEF Fetching, Held
  <2> QED BY <1>2, <2>1
<1>4. Takers' = Takers /\ Published' = Published
  BY <1>1, TakersStay, PublishedSame
<1> QED BY <1>2, <1>3, <1>4, FifoVars

(* A fetch finds nothing only when nothing is published: the head that the *)
(* consumer compared with is at most as new as the tail now.               *)
LEMMA NothingUsedMeansEmpty ==
  ASSUME IInv, NEW c \in Consumers, pc[c] = "check", Used(c) < 1
  PROVE  Dist(rhead, wtail) = 0
<1>1. /\ Taken <= cap /\ c \in Threads /\ pos[c] \in Counter
      /\ wtail \in Counter /\ rhead \in Counter
      /\ Dist(pos[c], rhead) <= MaxLag
  BY Roles, Types DEF IInv, ThreadOK, LagIsBounded, Trying, MyHead
<1>2. /\ Dist(pos[c], rhead) \in Nat /\ Dist(rhead, wtail) \in Nat
      /\ Dist(rtail, rhead) \in Nat /\ Dist(wtail, whead) \in Nat
  BY <1>1, DistNat, Types DEF IInv
<1>3. Dist(pos[c], rhead) + Dist(rhead, wtail) < M
  BY <1>1, <1>2, Sizes DEF MaxLag, Taken
<1>4. Dist(pos[c], wtail) = Dist(pos[c], rhead) + Dist(rhead, wtail)
  BY <1>1, <1>2, <1>3, DistAdd
<1>5. Used(c) = Dist(pos[c], wtail)
  BY DEF Used, Dist
<1> QED BY <1>2, <1>4, <1>5

LEMMA FetchCheckMisses ==
  ASSUME IInv, DataInv, NEW c \in Consumers, FetchCheck(c)
  PROVE  Fifo!Miss(c) \/ UNCHANGED Fifo!vars
<1>1. TypeOK /\ c \in Threads /\ OthersStay(c) /\ UNCHANGED <<whead, wtail, data>>
  BY FetchFrame, Roles DEF IInv, FetchStep
<1>2. /\ pc[c] = "check" /\ UNCHANGED <<rhead, rtail>> /\ ~Owning(c)
      /\ item[c] = NoItem /\ Fetching[c] /\ Held[c] = item[c]
  BY DEF FetchCheck, counters, Owning, DataInv, Fetching, Held
<1>3. CASE Used(c) >= 1 /\ Goto(c, "claim") /\ UNCHANGED <<pos, item, solo>>
  <2>1. pc'[c] = "claim" /\ item' = item /\ ~Owning(c)'
    BY <1>1, <1>3 DEF Goto, TypeOK, Owning
  <2> QED BY <1>1, <1>2, <2>1, ConsumerStutters DEF counters
<1>4. CASE Used(c) < 1 /\ Return(c)
  <2>1. pc'[c] = "idle" /\ item'[c] = NoItem /\ ~Owning(c)'
    BY <1>1, <1>4 DEF Return, Goto, TypeOK, Owning
  <2>2. /\ Offered' = Offered /\ Claims' = Claims
        /\ Fetching' = [Fetching EXCEPT ![c] = FALSE]
        /\ Held' = [Held EXCEPT ![c] = NoItem]
    BY <1>1, <2>1, ConsumerView
  <2>3. Takers' = Takers /\ Published' = Published
    BY <1>1, <1>2, <2>1, TakersStay, PublishedSame
  <2>4. Held' = Held
    BY <1>2, <2>2 DEF Held
  <2>5. Published = <<>>
    BY <1>2, <1>4, NothingUsedMeansEmpty, Lengths
  <2> QED BY <1>2, <2>2, <2>3, <2>4, <2>5 DEF Fifo!Miss, Claims, Takers
<1> QED BY <1>3, <1>4 DEF FetchCheck

LEMMA FetchClaimTakes ==
  ASSUME IInv, DataInv, NEW c \in Consumers, FetchClaim(c)
  PROVE  Fifo!Take(c)
<1>1. /\ TypeOK /\ Taken <= cap /\ ThreadOK(c) /\ c \in Threads
      /\ OthersStay(c) /\ UNCHANGED <<whead, wtail, data>>
      /\ rhead \in Counter /\ rtail \in Counter /\ Dist(rtail, rhead) \in Nat
      /\ Dist(wtail, whead) \in Nat /\ Dist(rhead, wtail) \in Nat
  BY FetchFrame, Roles, Types DEF IInv, FetchStep
<1>2. /\ pc[c] = "claim" /\ pc'[c] = "access" /\ pos' = pos /\ item' = item
      /\ rhead' = Incr(pos[c]) /\ UNCHANGED rtail
  BY <1>1 DEF FetchClaim, Goto, TypeOK
<1>3. pos[c] = rhead
  BY <1>1, <1>2, Roles DEF FetchClaim, ThreadOK, SoloIsAlone, MyHead, Trying
<1>4. Dist(rhead, wtail) >= 1
  BY <1>1, <1>2, <1>3, Roles DEF ThreadOK, ClaimIsSafe, MyHead
<1>5. PICK n \in Nat : n = Dist(rtail, rhead)
  BY <1>1
<1>6. Dist(rtail, rhead') = n + 1
  <2>1. n + 1 < M
    BY <1>1, <1>4, <1>5, Sizes DEF Taken
  <2> QED BY <1>1, <1>2, <1>3, <1>5, <2>1, DistToNext
<1>7. Takers' = Append(Takers, c)
  <2>1. Owned(Consumers, rtail, n)
    BY <1>5, SidesOwned
  <2>2. ~Owning(c) /\ Owning(c)'
    BY <1>2 DEF Owning
  <2>3. pos'[c] = (rtail + (n + 1) - 1) % M
    BY <1>1, <1>2, <1>3, <1>5, PlaceOfDist
  <2>4. ASSUME NEW t \in Consumers, t # c
        PROVE  /\ Owning(t)' <=> Owning(t)
               /\ Owning(t) => pos'[t] = pos[t] /\ pos[t] # pos'[c]
    <3>1. t \in Threads /\ pc'[t] = pc[t] /\ pos'[t] = pos[t] /\ pos[t] \in Counter
      BY <1>1, <2>4, Roles, Types DEF OthersStay
    <3>2. Owning(t) => Dist(rtail, pos[t]) < Dist(rtail, rhead)
      BY <3>1, Roles DEF IInv, ThreadOK, OwnerInRange, MyTail, MyHead
    <3>3. Owning(t) => pos[t] # rhead
      BY <3>2, <1>1
    <3> QED BY <3>1, <3>3, <1>2, <1>3 DEF Owning
  <2>5. \A from : Owned(Consumers, from, n) /\ pos'[c] = (from + (n + 1) - 1) % M =>
          OwnersFrom(Consumers, from, n + 1)' = Append(OwnersFrom(Consumers, from, n), c)
    BY <2>2, <2>4, OwnersGrow
  <2>6. OwnersFrom(Consumers, rtail, n + 1)' = Append(OwnersFrom(Consumers, rtail, n), c)
    BY <2>1, <2>3, <2>5, <1>2
  <2> QED BY <2>6, <1>2, <1>5, <1>6 DEF Takers
<1>8. /\ Offered' = Offered /\ Claims' = Claims
      /\ Fetching' = [Fetching EXCEPT ![c] = TRUE]
      /\ Held' = [Held EXCEPT ![c] = data[Slot(rhead)]]
  BY <1>1, <1>2, <1>3, ConsumerView
<1>9. Fetching[c] /\ Held[c] = NoItem
  BY <1>2 DEF Fetching, Held, DataInv
<1>10. Fetching' = Fetching
  BY <1>8, <1>9 DEF Fetching
<1>11. /\ Published # <<>> /\ Head(Published) = data[Slot(rhead)]
       /\ Published' = Tail(Published)
  BY <1>1, <1>2, <1>3, <1>4, PublishedShrinks
<1> QED BY <1>7, <1>8, <1>9, <1>10, <1>11 DEF Fifo!Take, Claims, Takers

LEMMA FetchCommitReleases ==
  ASSUME IInv, DataInv, NEW c \in Consumers, FetchCommit(c)
  PROVE  Fifo!Release
<1>1. /\ TypeOK /\ Taken <= cap /\ ThreadOK(c) /\ c \in Threads
      /\ OthersStay(c) /\ UNCHANGED <<whead, wtail, data>>
      /\ rhead \in Counter /\ rtail \in Counter /\ Dist(rtail, rhead) \in Nat
      /\ Dist(wtail, whead) \in Nat /\ Dist(rhead, wtail) \in Nat
  BY FetchFrame, Roles, Types DEF IInv, FetchStep
<1>2. /\ pc[c] = "commit" /\ rtail' = Incr(pos[c]) /\ UNCHANGED rhead
      /\ pc'[c] = "report" \/ (pc'[c] = "idle" /\ item'[c] = NoItem)
  BY <1>1 DEF FetchCommit, Goto, Return, TypeOK
<1>3. Owning(c) /\ ~Owning(c)' /\ pos[c] = rtail
  BY <1>1, <1>2, Roles DEF ThreadOK, OwnerInRange, MyTail, Owning
<1>4. PICK n \in Nat : n = Dist(rtail, rhead)
  BY <1>1
<1>5. n >= 1 /\ n < M
  <2>1. Dist(rtail, pos[c]) < n /\ Dist(rtail, pos[c]) = 0
    BY <1>1, <1>3, <1>4, DistZero, Roles DEF ThreadOK, OwnerInRange, MyTail, MyHead
  <2> QED BY <2>1, <1>1, <1>4, Sizes DEF Taken
<1>6. Dist(rtail', rhead) = n - 1
  BY <1>1, <1>2, <1>3, <1>4, <1>5, DistFromNext, DistZero
<1>7. /\ Takers # <<>> /\ Head(Takers) = c /\ Takers' = Tail(Takers)
  <2>1. Owned(Consumers, rtail, n)
    BY <1>4, SidesOwned
  <2>2. \A t \in Consumers : t # c =>
          (Owning(t)' <=> Owning(t)) /\ (Owning(t) => pos'[t] = pos[t])
    BY <1>1, Roles DEF OthersStay, Owning
  <2>3. PICK x \in Counter : x = rtail
    BY <1>1
  <2>4. PICK y \in Counter : y = Incr(x)
    BY IncrType
  <2>5. rtail' = y /\ Dist(rtail', rhead') = n - 1
    BY <1>2, <1>3, <1>6, <2>3, <2>4
  <2>6. Takers = OwnersFrom(Consumers, x, n)
    BY <1>4, <2>3 DEF Takers
  <2>7. Takers' = OwnersFrom(Consumers, y, n - 1)'
    BY <2>5 DEF Takers
  <2>8. /\ OwnersFrom(Consumers, x, n) # <<>>
        /\ Head(OwnersFrom(Consumers, x, n)) = c
        /\ OwnersFrom(Consumers, Incr(x), n - 1)' = Tail(OwnersFrom(Consumers, x, n))
    <3>1. Owned(Consumers, x, n) /\ pos[c] = x
      BY <1>3, <2>1, <2>3
    <3> QED BY <1>3, <1>5, <2>2, <3>1, OwnersShrink
  <2>9. OwnersFrom(Consumers, y, n - 1)' = Tail(OwnersFrom(Consumers, x, n))
    BY <2>4, <2>8
  <2> QED BY <2>6, <2>7, <2>8, <2>9
<1>8. Published' = Published
  BY <1>1, <1>2, PublishedSame
<1>9. /\ Offered' = Offered /\ Claims' = Claims
      /\ Fetching' = [Fetching EXCEPT ![c] = FALSE]
      /\ Held' = [Held EXCEPT ![c] = NoItem]
  BY <1>1, <1>2, ConsumerView
<1> QED BY <1>7, <1>8, <1>9 DEF Fifo!Release, Claims, Takers

LEMMA FetchRefines ==
  ASSUME IInv, DataInv, NEW c \in Consumers, FetchStep(c)
  PROVE  [Fifo!Next]_(Fifo!vars)
<1>1. TypeOK /\ c \in Threads /\ OthersStay(c) /\ UNCHANGED data
  BY FetchFrame, Roles DEF IInv
<1>2. CASE FetchReadHead(c)
  <2>1. /\ pc'[c] = "check" /\ item' = item /\ UNCHANGED counters
        /\ ~Owning(c) /\ ~Owning(c)' /\ Fetching[c] /\ Held[c] = item[c]
    BY <1>1, <1>2 DEF FetchReadHead, Goto, TypeOK, Owning, Fetching, Held
  <2> QED BY <1>1, <2>1, ConsumerStutters
<1>3. CASE FetchCheck(c)
  BY <1>3, FetchCheckMisses DEF Fifo!Next
<1>4. CASE FetchClaim(c)
  BY <1>4, FetchClaimTakes DEF Fifo!Next
<1>5. CASE FetchRetry(c)
  <2>1. /\ pc'[c] = "head" /\ item' = item /\ UNCHANGED counters
        /\ ~Owning(c) /\ ~Owning(c)' /\ Fetching[c] /\ Held[c] = item[c]
    BY <1>1, <1>5 DEF FetchRetry, Goto, TypeOK, Owning, Fetching, Held
  <2> QED BY <1>1, <2>1, ConsumerStutters
<1>6. CASE FetchLoad(c)
  <2>1. /\ pc'[c] \in {"commit", "wait"} /\ item'[c] = data[Slot(pos[c])]
        /\ UNCHANGED counters /\ Owning(c) /\ Owning(c)' /\ pos' = pos
        /\ Fetching[c] /\ Held[c] = data[Slot(pos[c])]
    BY <1>1, <1>6 DEF FetchLoad, Goto, TypeOK, Owning, Fetching, Held
  <2> QED BY <1>1, <2>1, ConsumerStutters
<1>7. CASE FetchWait(c)
  <2>1. /\ pc'[c] = "commit" /\ item' = item /\ UNCHANGED counters
        /\ Owning(c) /\ Owning(c)' /\ pos' = pos /\ Fetching[c] /\ Held[c] = item[c]
    BY <1>1, <1>7 DEF FetchWait, Goto, TypeOK, Owning, Fetching, Held
  <2> QED BY <1>1, <2>1, ConsumerStutters
<1>8. CASE FetchCommit(c)
  BY <1>8, FetchCommitReleases DEF Fifo!Next
<1>9. CASE FetchReport(c)
  <2>1. /\ pc'[c] = "idle" /\ item'[c] = NoItem /\ UNCHANGED counters
        /\ ~Owning(c) /\ ~Owning(c)' /\ Fetching[c] = FALSE /\ Held[c] = NoItem
    BY <1>1, <1>9 DEF FetchReport, Return, Goto, TypeOK, Owning, Fetching, Held
  <2> QED BY <1>1, <2>1, ConsumerStutters
<1> QED BY <1>2, <1>3, <1>4, <1>5, <1>6, <1>7, <1>8, <1>9 DEF FetchStep

----------------------------------------------------------------------------
(* The refinement *)

LEMMA InitRefines == Init => Fifo!Init
<1> SUFFICES ASSUME Init PROVE Fifo!Init
  OBVIOUS
<1>1. /\ whead = 0 /\ wtail = 0 /\ rhead = 0 /\ rtail = 0
      /\ \A p \in Producers : pc[p] = "idle" /\ item[p] = NoItem
      /\ \A c \in Consumers : pc[c] = "idle" /\ item[c] = NoItem
  BY DEF Init, Threads
<1>2. Dist(0, 0) = 0
  BY Sizes, DistZero DEF Counter
<1>3. Offered = [p \in Producers |-> NoItem] /\ Held = [c \in Consumers |-> NoItem]
  BY <1>1 DEF Offered, Held
<1>4. Fetching = [c \in Consumers |-> FALSE]
  BY <1>1 DEF Fetching
<1>5. Claims = <<>> /\ Published = <<>> /\ Takers = <<>>
  BY <1>1, <1>2 DEF Claims, Published, Takers, OwnersFrom
<1> QED BY <1>3, <1>4, <1>5 DEF Fifo!Init, Claims, Takers

LEMMA NextRefines == IInv /\ DataInv /\ [Next]_vars => [Fifo!Next]_(Fifo!vars)
<1> SUFFICES ASSUME IInv, DataInv, [Next]_vars PROVE [Fifo!Next]_(Fifo!vars)
  OBVIOUS
<1>1. ASSUME NEW p \in Producers, NEW v \in Items, NEW sw \in BOOLEAN, AddCall(p, v, sw)
      PROVE  Fifo!Next
  BY <1>1, AddCallOffers DEF Fifo!Next
<1>2. ASSUME NEW c \in Consumers, NEW sr \in BOOLEAN, FetchCall(c, sr)
      PROVE  Fifo!Next
  BY <1>2, FetchCallAsks DEF Fifo!Next
<1>3. CASE UNCHANGED vars
  <2>1. /\ Offered' = Offered /\ Fetching' = Fetching /\ Held' = Held
        /\ Published' = Published /\ Claims' = Claims /\ Takers' = Takers
    BY <1>3 DEF vars, Offered, Fetching, Held, Published, Claims, Takers, OwnersFrom, Owning
  <2> QED BY <2>1, FifoVars
<1> QED BY <1>1, <1>2, <1>3, AddRefines, FetchRefines DEF Next

(* The lockless queue is the bounded queue of BoundedFifo: every item that *)
(* ffrq_add() accepts is fetched exactly once, in the order in which the   *)
(* producers got their places, and a call returns -1 only when the queue   *)
(* is full (add) or has nothing published (fetch), however many threads    *)
(* run, whichever of them are single writers or readers, and also when the *)
(* counters wrap.                                                          *)
THEOREM QueueIsAFifo == Spec => ImplementsFifo
<1>1. Init => IInv
  BY InvInit
<1>2. IInv /\ [Next]_vars => IInv'
  BY InvStep
<1> QED
  BY <1>1, <1>2, DataInit, DataStep, InitRefines, NextRefines, PTL
     DEF Spec, ImplementsFifo, Fifo!Spec
============================================================================
