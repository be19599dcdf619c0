-------------------------- MODULE LockedListProofs --------------------------
(***************************************************************************)
(* Proofs about SpinLock, about LockedList as a user of it, and about the  *)
(* links of the list, for any number of threads and any finite set of      *)
(* items.                                                                  *)
(***************************************************************************)
EXTENDS LockedList, FiniteSetTheorems, SequenceTheorems, TLAPS

(* Mutual exclusion is inductive once it is tied to the lock word. *)
LockInv ==
  /\ LockTypeOK
  /\ MutualExclusion
  /\ lock = 0 => \A t \in Threads : at[t] # "in"

LEMMA LockInvInit == LockInit => LockInv
BY DEF LockInit, LockInv, LockTypeOK, MutualExclusion

(* A swap that finds 0 proves that nobody is inside. *)
LEMMA LockInvEnter ==
  ASSUME LockInv, NEW t \in Threads, Swap, Enter(t)
  PROVE  LockInv'
<1>1. \A u \in Threads : at[u] # "in"
  BY DEF LockInv, Swap
<1>2. at' \in [Threads -> {"out", "lock", "in"}] /\ lock' = 1
  BY DEF LockInv, LockTypeOK, Enter, Swap
<1>3. \A u \in Threads : at'[u] = "in" => u = t
  BY <1>1 DEF LockInv, LockTypeOK, Enter
<1> QED BY <1>2, <1>3 DEF LockInv, LockTypeOK, MutualExclusion

LEMMA LockInvUnlock ==
  ASSUME LockInv, NEW t \in Threads, Unlock(t)
  PROVE  LockInv'
<1>1. at[t] = "in" /\ lock' = 0 /\ at' = [at EXCEPT ![t] = "out"]
  BY DEF Unlock
<1>2. at' \in [Threads -> {"out", "lock", "in"}]
  BY <1>1 DEF LockInv, LockTypeOK
<1>3. \A u \in Threads : at'[u] # "in"
  BY <1>1 DEF LockInv, LockTypeOK, MutualExclusion
<1> QED BY <1>1, <1>2, <1>3 DEF LockInv, LockTypeOK, MutualExclusion

LEMMA LockInvStep == LockInv /\ [LockNext]_lockVars => LockInv'
<1> SUFFICES ASSUME LockInv, [LockNext]_lockVars PROVE LockInv'
  OBVIOUS
<1>1. ASSUME NEW t \in Threads, LockCall(t) PROVE LockInv'
  <2>1. /\ at' \in [Threads -> {"out", "lock", "in"}] /\ lock' = lock
        /\ \A u \in Threads : at'[u] = "in" <=> at[u] = "in"
    BY <1>1 DEF LockInv, LockTypeOK, LockCall
  <2> QED BY <2>1 DEF LockInv, LockTypeOK, MutualExclusion
<1>2. ASSUME NEW t \in Threads, LockTaken(t) \/ TryLock(t) PROVE LockInv'
  BY <1>2, LockInvEnter DEF LockTaken, TryLock
<1>3. ASSUME NEW t \in Threads, Unlock(t) PROVE LockInv'
  BY <1>3, LockInvUnlock
<1>4. CASE UNCHANGED lockVars
  BY <1>4 DEF lockVars, LockInv, LockTypeOK, MutualExclusion
<1> QED BY <1>1, <1>2, <1>3, <1>4 DEF LockNext

(* fflock by itself never lets two threads in.                             *)
THEOREM LockExcludes == LockSpec => []MutualExclusion
<1>1. LockInv => MutualExclusion
  BY DEF LockInv
<1> QED BY <1>1, LockInvInit, LockInvStep, PTL DEF LockSpec

----------------------------------------------------------------------------
(* The list uses the lock by its operations only. *)

LEMMA StepUsesLock == [Next]_vars => [LockNext]_lockVars
<1> SUFFICES ASSUME [Next]_vars PROVE [LockNext]_lockVars
  OBVIOUS
<1>1. ASSUME NEW t \in Threads, GetIn(t) \/ GetOut(t) PROVE LockNext
  BY <1>1 DEF GetIn, GetOut, LockNext
<1>2. ASSUME NEW t \in Threads, OperationStep(t) PROVE UNCHANGED lockVars
  BY <1>2 DEF OperationStep, Unlink, Clear, Join, Close, Count, lockVars
<1>3. ASSUME NEW t \in Threads, NEW op \in Operations, NEW x \in Items, Start(t, op, x)
      PROVE  UNCHANGED lockVars
  BY <1>3 DEF Start, lockVars
<1>4. CASE UNCHANGED vars
  BY <1>4 DEF vars, lockVars
<1> QED BY <1>1, <1>2, <1>3, <1>4 DEF Next

(* The threads that work on a list obey the protocol of the lock. *)
THEOREM ListUsesLock == Spec => LockSpec
<1>1. Init => LockInit
  BY DEF Init
<1> QED BY <1>1, StepUsesLock, PTL DEF Spec, LockSpec

(* Two threads that work on a list never hold its lock at once. *)
THEOREM ListExcludes == Spec => []MutualExclusion
BY ListUsesLock, LockExcludes, PTL

----------------------------------------------------------------------------
(* A thread is in the middle of an operation only while it is in the lock. *)
InsideOnly == \A t \in Threads : step[t] # "none" => at[t] = "in"

StepInv == LockTypeOK /\ step \in [Threads -> Steps] /\ InsideOnly

LEMMA StepInvStep == StepInv /\ [Next]_vars => StepInv'
<1> SUFFICES ASSUME StepInv, [Next]_vars PROVE StepInv'
  OBVIOUS
<1>1. ASSUME NEW t \in Threads, NEW s \in Steps, Goto(t, s), UNCHANGED lockVars, at[t] = "in"
      PROVE  StepInv'
  <2>1. /\ step' \in [Threads -> Steps]
        /\ \A u \in Threads : u # t => step'[u] = step[u]
    BY <1>1 DEF StepInv, Goto
  <2> QED BY <1>1, <2>1 DEF StepInv, InsideOnly, LockTypeOK, lockVars
<1>2. ASSUME NEW t \in Threads, OperationStep(t) PROVE StepInv'
  <2>1. UNCHANGED lockVars /\ at[t] = "in"
    BY <1>2 DEF OperationStep, Unlink, Clear, Join, Close, Count, StepInv, InsideOnly
  <2>2. CASE Unlink(t)
    BY <1>1, <2>1, <2>2 DEF Unlink, Steps
  <2>3. CASE Clear(t)
    BY <1>1, <2>1, <2>3 DEF Clear, Steps
  <2>4. CASE Join(t)
    BY <1>1, <2>1, <2>4 DEF Join, Steps
  <2>5. CASE Close(t)
    BY <1>1, <2>1, <2>5 DEF Close, Done, Steps
  <2>6. CASE Count(t)
    BY <1>1, <2>1, <2>6 DEF Count, Done, Steps
  <2> QED BY <1>2, <2>2, <2>3, <2>4, <2>5, <2>6 DEF OperationStep
<1>3. ASSUME NEW t \in Threads, NEW op \in Operations, NEW x \in Items, Start(t, op, x)
      PROVE  StepInv'
  <2>1. UNCHANGED lockVars /\ at[t] = "in"
    BY <1>3 DEF Start
  <2> QED BY <1>1, <1>3, <2>1 DEF Start, Steps
<1>4. ASSUME NEW t \in Threads, GetIn(t) PROVE StepInv'
  <2>1. /\ step' = step /\ at' \in [Threads -> {"out", "lock", "in"}] /\ lock' \in {0, 1}
        /\ \A u \in Threads : at[u] = "in" => at'[u] = "in"
    BY <1>4 DEF GetIn, LockCall, LockTaken, TryLock, Enter, Swap, StepInv, LockTypeOK
  <2> QED BY <2>1 DEF StepInv, InsideOnly, LockTypeOK
<1>5. ASSUME NEW t \in Threads, GetOut(t) PROVE StepInv'
  BY <1>5 DEF GetOut, Unlock, StepInv, InsideOnly, LockTypeOK
<1>6. CASE UNCHANGED vars
  BY <1>6 DEF vars, StepInv, InsideOnly, LockTypeOK, lockVars
<1> QED BY <1>2, <1>3, <1>4, <1>5, <1>6 DEF Next

(* At most one thread at a time is between two assignments of a list       *)
(* operation: nobody meets a half-linked list.                             *)
OneAtATime ==
  \A t, u \in Threads : step[t] # "none" /\ step[u] # "none" => t = u

THEOREM ListIsNeverShared == Spec => []OneAtATime
<1>1. Init => StepInv
  BY DEF Init, LockInit, StepInv, InsideOnly, LockTypeOK, Steps
<1>2. StepInv /\ MutualExclusion => OneAtATime
  BY DEF StepInv, InsideOnly, MutualExclusion, OneAtATime
<1> QED BY <1>1, <1>2, StepInvStep, ListExcludes, PTL DEF Spec

----------------------------------------------------------------------------
(***************************************************************************)
(* The links: between two operations the links in both directions and the  *)
(* length are those of the sequence of the operations.                     *)
(*                                                                         *)
(* The nodes of the list are a function f on 0..m with f[0] the sentinel;  *)
(* the first lemmas say what the assignments to next and prev make of the  *)
(* circle of links through f[0], ..., f[m] and back.                       *)
(***************************************************************************)

Links == [Nodes -> Nodes \cup {NULL}]

After(m, i) == IF i = m THEN 0 ELSE i + 1

Forth(n, f, m, i) == n[f[i]] = f[After(m, i)]
Back(p, f, m, i) == p[f[After(m, i)]] = f[i]

(* No node is twice in the list. *)
OneEach(f, m) == \A i, j \in 0..m : f[i] = f[j] => i = j

Circle(n, p, f, m) == \A i \in 0..m : Forth(n, f, m, i) /\ Back(p, f, m, i)

(* The circle with x between f[k] and its successor ...                    *)
CircleWith(n, p, f, m, k, x) ==
  /\ \A i \in (0..m) \ {k} : Forth(n, f, m, i) /\ Back(p, f, m, i)
  /\ n[f[k]] = x /\ p[x] = f[k]
  /\ n[x] = f[After(m, k)] /\ p[f[After(m, k)]] = x

(* ... with x behind the last node, known to the sentinel only ...         *)
HalfBehind(n, p, f, m, x, a) ==
  /\ a = f[m]
  /\ n[x] = f[0] /\ p[f[0]] = x
  /\ \A i \in 0..m : Forth(n, f, m, i) /\ (i # m => Back(p, f, m, i))

(* ... and with x before the first one.                                    *)
HalfBefore(n, p, f, m, x, a) ==
  /\ a = f[After(m, 0)]
  /\ n[f[0]] = x /\ p[x] = f[0]
  /\ \A i \in 0..m : Back(p, f, m, i) /\ (i # 0 => Forth(n, f, m, i))

(* _ffchain_link2(prev[x], next[x]) takes x out. *)
LEMMA LinkAround ==
  ASSUME NEW n \in Links, NEW p \in Links,
         NEW m \in Nat, NEW f \in [0..m -> Nodes], OneEach(f, m),
         NEW x \in Nodes, \A i \in 0..m : f[i] # x,
         NEW k \in 0..m, CircleWith(n, p, f, m, k, x)
  PROVE  Circle([n EXCEPT ![p[x]] = n[x]], [p EXCEPT ![n[x]] = p[x]], f, m)
<1>1. p[x] = f[k] /\ n[x] = f[After(m, k)] /\ After(m, k) \in 0..m
  BY DEF CircleWith, After
<1>2. \A i \in 0..m : i # k => After(m, i) \in 0..m /\ After(m, i) # After(m, k)
  BY DEF After
<1> DEFINE nn == [n EXCEPT ![p[x]] = n[x]]
           pp == [p EXCEPT ![n[x]] = p[x]]
<1>3. ASSUME NEW i \in 0..m PROVE Forth(nn, f, m, i) /\ Back(pp, f, m, i)
  <2>1. CASE i = k
    BY <2>1, <1>1 DEF Links, Forth, Back
  <2>2. CASE i # k
    <3>1. Forth(n, f, m, i) /\ Back(p, f, m, i)
      BY <2>2 DEF CircleWith
    <3>2. f[i] # f[k] /\ f[After(m, i)] # f[After(m, k)]
      BY <2>2, <1>1, <1>2 DEF OneEach
    <3> QED BY <3>1, <3>2, <2>2, <1>1, <1>2 DEF Links, Forth, Back
  <2> QED BY <2>1, <2>2
<1> QED BY <1>3 DEF Circle

(* Links of a node outside do not matter. *)
LEMMA LinksOutside ==
  ASSUME NEW n \in Links, NEW p \in Links, NEW m \in Nat, NEW f \in [0..m -> Nodes],
         NEW x \in Nodes, \A i \in 0..m : f[i] # x, Circle(n, p, f, m),
         NEW a, NEW b
  PROVE  Circle([n EXCEPT ![x] = a], [p EXCEPT ![x] = b], f, m)
<1>1. \A i \in 0..m : After(m, i) \in 0..m
  BY DEF After
<1> QED BY <1>1 DEF Circle, Forth, Back, Links

(* The first link of ffchain_item_append() and of ffchain_item_prepend(). *)
LEMMA LinkBehind ==
  ASSUME NEW n \in Links, NEW p \in Links,
         NEW m \in Nat, NEW f \in [0..m -> Nodes], OneEach(f, m),
         NEW x \in Nodes, \A i \in 0..m : f[i] # x, Circle(n, p, f, m)
  PROVE  /\ p[f[0]] = f[m] /\ n[f[m]] = f[0]
         /\ HalfBehind([n EXCEPT ![x] = f[0]], [p EXCEPT ![f[0]] = x], f, m, x, f[m])
<1>1. p[f[0]] = f[m] /\ n[f[m]] = f[0]
  BY DEF Circle, Forth, Back, After
<1>2. \A i \in 0..m : After(m, i) \in 0..m /\ (i # m => After(m, i) # 0)
  BY DEF After
<1>3. \A i \in 0..m : i # m => f[After(m, i)] # f[0]
  BY <1>2 DEF OneEach
<1> QED BY <1>1, <1>2, <1>3 DEF Circle, HalfBehind, Forth, Back, Links

LEMMA LinkBefore ==
  ASSUME NEW n \in Links, NEW p \in Links,
         NEW m \in Nat, NEW f \in [0..m -> Nodes], OneEach(f, m),
         NEW x \in Nodes, \A i \in 0..m : f[i] # x, Circle(n, p, f, m)
  PROVE  /\ n[f[0]] = f[After(m, 0)] /\ p[f[After(m, 0)]] = f[0]
         /\ HalfBefore([n EXCEPT ![f[0]] = x], [p EXCEPT ![x] = f[0]], f, m, x,
                       f[After(m, 0)])
<1>1. n[f[0]] = f[After(m, 0)] /\ p[f[After(m, 0)]] = f[0]
  BY DEF Circle, Forth, Back
<1>2. \A i \in 0..m : After(m, i) \in 0..m
  BY DEF After
<1>3. \A i \in 0..m : i # 0 => f[i] # f[0]
  BY DEF OneEach
<1> QED BY <1>1, <1>2, <1>3 DEF Circle, HalfBefore, Forth, Back, Links

(* The second link closes the circle again. *)
LEMMA CloseBehind ==
  ASSUME NEW n \in Links, NEW p \in Links,
         NEW m \in Nat, NEW f \in [0..m -> Nodes], OneEach(f, m),
         NEW x \in Nodes, \A i \in 0..m : f[i] # x,
         NEW a, HalfBehind(n, p, f, m, x, a),
         NEW g, \A i \in 0..(m + 1) : g[i] = IF i = m + 1 THEN x ELSE f[i]
  PROVE  Circle([n EXCEPT ![a] = x], [p EXCEPT ![x] = a], g, m + 1)
<1> DEFINE nn == [n EXCEPT ![a] = x]
           pp == [p EXCEPT ![x] = a]
<1>1. a = f[m] /\ n[x] = f[0] /\ p[f[0]] = x
  BY DEF HalfBehind
<1>2. ASSUME NEW i \in 0..(m + 1) PROVE Forth(nn, g, m + 1, i) /\ Back(pp, g, m + 1, i)
  <2>1. CASE i = m + 1
    <3>1. After(m + 1, i) = 0 /\ g[i] = x /\ g[0] = f[0] /\ f[0] # x /\ f[m] # x
      BY <2>1 DEF After
    <3> QED BY <3>1, <1>1 DEF Forth, Back, Links
  <2>2. CASE i = m
    <3>1. After(m + 1, i) = m + 1 /\ g[i] = f[m] /\ g[m + 1] = x
      BY <2>2 DEF After
    <3> QED BY <3>1, <1>1 DEF Forth, Back, Links
  <2>3. CASE i < m
    <3>1. /\ i \in 0..m /\ i # m /\ After(m, i) = i + 1 /\ After(m + 1, i) = i + 1
          /\ g[i] = f[i] /\ g[i + 1] = f[i + 1] /\ f[i] # f[m] /\ f[i + 1] # x
      BY <2>3 DEF After, OneEach
    <3>2. n[f[i]] = f[i + 1] /\ p[f[i + 1]] = f[i]
      BY <3>1 DEF HalfBehind, Forth, Back
    <3>3. f[i] \in Nodes /\ f[i + 1] \in Nodes
      BY <2>3
    <3> QED BY <3>1, <3>2, <3>3, <1>1 DEF Forth, Back, Links
  <2> QED BY <2>1, <2>2, <2>3
<1> QED BY <1>2 DEF Circle

LEMMA CloseBefore ==
  ASSUME NEW n \in Links, NEW p \in Links,
         NEW m \in Nat, NEW f \in [0..m -> Nodes], OneEach(f, m),
         NEW x \in Nodes, \A i \in 0..m : f[i] # x,
         NEW a, HalfBefore(n, p, f, m, x, a),
         NEW g, \A i \in 0..(m + 1) :
                  g[i] = IF i = 0 THEN f[0] ELSE IF i = 1 THEN x ELSE f[i - 1]
  PROVE  Circle([n EXCEPT ![x] = a], [p EXCEPT ![a] = x], g, m + 1)
<1> DEFINE nn == [n EXCEPT ![x] = a]
           pp == [p EXCEPT ![a] = x]
<1>1. a = f[After(m, 0)] /\ n[f[0]] = x /\ p[x] = f[0] /\ After(m, 0) \in 0..m
  BY DEF HalfBefore, After
<1>2. g[0] = f[0] /\ g[1] = x
  OBVIOUS
<1>3. ASSUME NEW i \in 0..(m + 1) PROVE Forth(nn, g, m + 1, i) /\ Back(pp, g, m + 1, i)
  <2>1. CASE i = 0
    <3>1. After(m + 1, i) = 1 /\ f[0] # x /\ x # a
      BY <2>1, <1>1 DEF After
    <3> QED BY <3>1, <2>1, <1>1, <1>2 DEF Forth, Back, Links
  <2>2. CASE i = 1
    <3>1. g[After(m + 1, i)] = a
      BY <2>2, <1>1, <1>2 DEF After
    <3> QED BY <3>1, <2>2, <1>1, <1>2 DEF Forth, Back, Links
  <2>3. CASE i > 1
    <3> DEFINE j == i - 1
    <3>1. j \in 0..m /\ j # 0 /\ g[i] = f[j] /\ After(m, j) \in 0..m /\ After(m, j) # After(m, 0)
      BY <2>3 DEF After
    <3>2. g[After(m + 1, i)] = f[After(m, j)]
      <4>1. CASE i = m + 1
        BY <4>1, <1>2 DEF After
      <4>2. CASE i # m + 1
        BY <4>2, <2>3 DEF After
      <4> QED BY <4>1, <4>2
    <3>3. n[f[j]] = f[After(m, j)] /\ p[f[After(m, j)]] = f[j]
      BY <3>1 DEF HalfBefore, Forth, Back
    <3>4. f[j] # x /\ f[After(m, j)] # a /\ f[j] \in Nodes /\ f[After(m, j)] \in Nodes
      BY <3>1, <1>1 DEF OneEach
    <3> QED BY <3>1, <3>2, <3>3, <3>4 DEF Forth, Back, Links
  <2> QED BY <2>1, <2>2, <2>3
<1> QED BY <1>3 DEF Circle

(* Each element of a circle is between two neighbours. *)
LEMMA Neighbours ==
  ASSUME NEW n, NEW p, NEW m \in Nat, NEW g, Circle(n, p, g, m + 1),
         NEW k \in 1..(m + 1),
         NEW f, \A i \in 0..m : f[i] = IF i < k THEN g[i] ELSE g[i + 1]
  PROVE  k - 1 \in 0..m /\ CircleWith(n, p, f, m, k - 1, g[k])
<1>1. \A i \in 0..(m + 1) : n[g[i]] = g[After(m + 1, i)] /\ p[g[After(m + 1, i)]] = g[i]
  BY DEF Circle, Forth, Back
<1>2. f[k - 1] = g[k - 1] /\ After(m + 1, k - 1) = k
  BY DEF After
<1>3. f[After(m, k - 1)] = g[After(m + 1, k)]
  <2>1. CASE k = m + 1
    BY <2>1 DEF After
  <2>2. CASE k # m + 1
    BY <2>2 DEF After
  <2> QED BY <2>1, <2>2
<1>4. n[f[k - 1]] = g[k] /\ p[g[k]] = f[k - 1]
  BY <1>1, <1>2
<1>5. n[g[k]] = f[After(m, k - 1)] /\ p[f[After(m, k - 1)]] = g[k]
  BY <1>1, <1>3
<1>6. ASSUME NEW i \in 0..m, i # k - 1
      PROVE  Forth(n, f, m, i) /\ Back(p, f, m, i)
  <2>1. CASE i < k - 1
    <3>1. f[i] = g[i] /\ f[After(m, i)] = g[After(m + 1, i)]
      BY <2>1 DEF After
    <3> QED BY <3>1, <1>1 DEF Forth, Back
  <2>2. CASE i >= k
    <3>1. f[i] = g[i + 1] /\ i + 1 \in 0..(m + 1)
      BY <2>2
    <3>2. f[After(m, i)] = g[After(m + 1, i + 1)]
      <4>1. CASE i = m
        BY <4>1 DEF After
      <4>2. CASE i # m
        BY <4>2, <2>2 DEF After
      <4> QED BY <4>1, <4>2
    <3> QED BY <3>1, <3>2, <1>1 DEF Forth, Back
  <2> QED BY <1>6, <2>1, <2>2
<1>7. k - 1 \in 0..m
  OBVIOUS
<1> QED BY <1>4, <1>5, <1>6, <1>7 DEF CircleWith

----------------------------------------------------------------------------
(* Where an operation has left the links, the item and the length.         *)

ToFront == {"addfront", "movefront"}
ToBack == {"add", "moveback"}
Adds == {"add", "addfront"}
Moves == {"movefront", "moveback"}

(* The sentinel and the linked items. *)
Whole(s) == [i \in 0..Len(s) |-> IF i = 0 THEN root ELSE s[i]]

(* The same without the item of an operation whose outcome is s. *)
RestLast(op, s) == IF op = "rm" THEN Len(s) ELSE Len(s) - 1

Rest(op, s) ==
  [i \in 0..RestLast(op, s) |->
     IF i = 0 THEN root ELSE IF op \in ToFront THEN s[i + 1] ELSE s[i]]

In(x, s) == \E i \in DOMAIN s : s[i] = x

(* The outcome s has the item where the operation puts it. *)
Placed(op, x, s) ==
  /\ op = "rm" => ~In(x, s)
  /\ op \in ToBack => Len(s) > 0 /\ s[Len(s)] = x
  /\ op \in ToFront => Len(s) > 0 /\ s[1] = x

(* Sequences of items of a list: no item twice. *)
Distinct(s) == s \in Seq(Items) /\ \A i, j \in DOMAIN s : s[i] = s[j] => i = j

Clean(y) == next[y] = NULL /\ prev[y] = NULL

Settled ==
  /\ Circle(next, prev, Whole(seq), Len(seq))
  /\ \A y \in Items : ~In(y, seq) => Clean(y)
  /\ len = Len(seq)

(* What the operation owes to the length. *)
Counted(t) ==
  len = IF job[t].op = "rm" THEN Len(seq) + 1
        ELSE IF job[t].op \in Adds THEN Len(seq) - 1 ELSE Len(seq)

OthersClean(t) ==
  \A y \in Items :
    ~In(y, seq) /\ (step[t] \in {"unlink", "clear"} => y # Item(t)) => Clean(y)

HalfLinked(t) ==
  LET op == job[t].op
      f == Rest(op, seq)
      m == RestLast(op, seq)
  IN  /\ step[t] = "unlink" =>
           op \notin Adds /\ \E k \in 0..m : CircleWith(next, prev, f, m, k, Item(t))
      /\ step[t] = "clear" => op \notin Adds /\ Circle(next, prev, f, m)
      /\ step[t] = "join" => op # "rm" /\ Circle(next, prev, f, m)
      /\ step[t] = "close" /\ op \in ToBack =>
           HalfBehind(next, prev, f, m, Item(t), anchor[t])
      /\ step[t] = "close" /\ op \in ToFront =>
           HalfBefore(next, prev, f, m, Item(t), anchor[t])
      /\ step[t] = "close" => op # "rm"
      /\ step[t] = "count" =>
           op \notin Moves /\ Circle(next, prev, Whole(seq), Len(seq))

UnderWay(t) ==
  /\ job[t].op \in Operations /\ job[t].item \in Items
  /\ Placed(job[t].op, job[t].item, seq)
  /\ Counted(t) /\ OthersClean(t) /\ HalfLinked(t)

LinksType ==
  /\ next \in Links /\ prev \in Links
  /\ DOMAIN job = Threads /\ DOMAIN anchor = Threads
  /\ Distinct(seq)

LinksInv ==
  /\ LinksType
  /\ (\A t \in Threads : step[t] = "none") => Settled
  /\ \A t \in Threads : step[t] # "none" => UnderWay(t)

Inv == LockInv /\ StepInv /\ LinksInv

----------------------------------------------------------------------------
(* Sequences *)

LEMMA WithoutOne ==
  ASSUME Distinct(seq), NEW x \in Items, Linked(x)
  PROVE  \E k \in 1..Len(seq) :
           /\ seq[k] = x
           /\ Without(x) \in Seq(Items) /\ Len(Without(x)) = Len(seq) - 1
           /\ \A i \in 1..(Len(seq) - 1) :
                Without(x)[i] = IF i < k THEN seq[i] ELSE seq[i + 1]
<1> DEFINE k == Place(x)
           u == SubSeq(seq, 1, k - 1)
           v == SubSeq(seq, k + 1, Len(seq))
<1>1. seq \in Seq(Items) /\ Len(seq) \in Nat /\ DOMAIN seq = 1..Len(seq)
  BY DEF Distinct
<1>2. k \in 1..Len(seq) /\ seq[k] = x
  BY <1>1 DEF Linked, Place
<1> HIDE DEF k
<1>3. \A i \in 1..Len(seq) : seq[i] \in Items
  BY <1>1
<1>4. /\ u \in Seq(Items) /\ Len(u) = k - 1
      /\ \A i \in 1..(k - 1) : u[i] = seq[i]
  <2>1. \A i \in 1..(k - 1) : seq[i] \in Items
    BY <1>2, <1>3
  <2>2. /\ u \in Seq(Items) /\ Len(u) = IF 1 <= k - 1 THEN (k - 1) - 1 + 1 ELSE 0
        /\ \A i \in 1..((k - 1) - 1 + 1) : u[i] = seq[1 + i - 1]
    BY <2>1, <1>2, SubSeqProperties
  <2> QED BY <2>2, <1>2
<1>5. /\ v \in Seq(Items) /\ Len(v) = Len(seq) - k
      /\ \A i \in 1..(Len(seq) - k) : v[i] = seq[k + i]
  <2>1. \A i \in (k + 1)..Len(seq) : seq[i] \in Items
    BY <1>2, <1>3
  <2>2. /\ v \in Seq(Items) /\ Len(v) = IF k + 1 <= Len(seq) THEN Len(seq) - (k + 1) + 1 ELSE 0
        /\ \A i \in 1..(Len(seq) - (k + 1) + 1) : v[i] = seq[(k + 1) + i - 1]
    BY <2>1, <1>1, <1>2, SubSeqProperties
  <2> HIDE DEF v
  <2> DEFINE n == Len(seq)
  <2> HIDE DEF n
  <2>3. n \in Nat /\ k \in 1..n
    BY <1>1, <1>2 DEF n
  <2>4. n - (k + 1) + 1 = n - k
    BY <2>3
  <2>5. (IF k + 1 <= n THEN n - (k + 1) + 1 ELSE 0) = n - k
    BY <2>3
  <2>6. Len(v) = Len(seq) - k /\ Len(seq) - (k + 1) + 1 = Len(seq) - k
    BY <2>2, <2>4, <2>5 DEF n
  <2>7. \A i \in 1..(Len(seq) - k) : (k + 1) + i - 1 = k + i
    BY <1>1, <1>2
  <2> QED BY <2>2, <2>6, <2>7
<1>6. Without(x) = u \o v
  BY DEF Without, RemoveAt, k
<1> HIDE DEF u, v
<1>7. /\ u \o v \in Seq(Items) /\ Len(u \o v) = Len(u) + Len(v)
      /\ \A i \in 1..(Len(u) + Len(v)) :
           (u \o v)[i] = IF i <= Len(u) THEN u[i] ELSE v[i - Len(u)]
  BY <1>4, <1>5, ConcatProperties
<1>8. Len(u) + Len(v) = Len(seq) - 1
  BY <1>1, <1>2, <1>4, <1>5
<1>9. ASSUME NEW i \in 1..(Len(seq) - 1)
      PROVE  Without(x)[i] = IF i < k THEN seq[i] ELSE seq[i + 1]
  <2>1. (u \o v)[i] = IF i <= Len(u) THEN u[i] ELSE v[i - Len(u)]
    BY <1>7, <1>8
  <2>2. CASE i < k
    BY <2>1, <2>2, <1>1, <1>2, <1>4, <1>6
  <2>3. CASE i >= k
    <3>1. /\ ~(i <= Len(u)) /\ i - Len(u) \in 1..(Len(seq) - k)
          /\ k + (i - Len(u)) = i + 1 /\ ~(i < k)
      BY <2>3, <1>1, <1>2, <1>4
    <3>2. v[i - Len(u)] = seq[i + 1]
      BY <3>1, <1>5
    <3> QED BY <2>1, <3>1, <3>2, <1>6
  <2> QED BY <2>2, <2>3, <1>1, <1>2
<1> QED BY <1>2, <1>6, <1>7, <1>8, <1>9

(* The sequence an operation starts from, without its item: it is also     *)
(* what is left of its outcome.                                            *)
LEMMA WithoutFacts ==
  ASSUME Distinct(seq), NEW x \in Items
  PROVE  /\ Distinct(Without(x)) /\ ~In(x, Without(x))
         /\ \A y \in Items : In(y, seq) /\ y # x => In(y, Without(x))
<1>1. CASE Linked(x)
  <2>1. PICK k \in 1..Len(seq) :
           /\ seq[k] = x
           /\ Without(x) \in Seq(Items) /\ Len(Without(x)) = Len(seq) - 1
           /\ \A i \in 1..(Len(seq) - 1) :
                Without(x)[i] = IF i < k THEN seq[i] ELSE seq[i + 1]
    BY <1>1, WithoutOne
  <2> DEFINE w == Without(x)
  <2>2. DOMAIN w = 1..(Len(seq) - 1) /\ DOMAIN seq = 1..Len(seq) /\ Len(seq) \in Nat
    BY <2>1 DEF Distinct
  <2> HIDE DEF w
  <2> DEFINE From(i) == IF i < k THEN i ELSE i + 1
  <2>3. \A i \in DOMAIN w : From(i) \in DOMAIN seq /\ From(i) # k /\ w[i] = seq[From(i)]
    BY <2>1, <2>2 DEF w
  <2>4. \A i, j \in DOMAIN w : From(i) = From(j) => i = j
    BY <2>2
  <2> HIDE DEF From
  <2>5. \A i, j \in DOMAIN w : w[i] = w[j] => i = j
    BY <2>3, <2>4 DEF Distinct
  <2>6. \A i \in DOMAIN w : w[i] # x
    BY <2>1, <2>2, <2>3 DEF Distinct
  <2>7. ASSUME NEW i \in DOMAIN seq, seq[i] # x
        PROVE  \E j \in DOMAIN w : w[j] = seq[i]
    <3>1. CASE i < k
      BY <3>1, <2>1, <2>2 DEF w
    <3>2. CASE i > k
      <4>1. i - 1 \in DOMAIN w /\ ~(i - 1 < k) /\ (i - 1) + 1 = i
        BY <3>2, <2>2
      <4> QED BY <4>1, <2>1, <2>2 DEF w
    <3> QED BY <3>1, <3>2, <2>1, <2>2, <2>7
  <2> QED BY <2>1, <2>5, <2>6, <2>7 DEF Distinct, In, w
<1>2. CASE ~Linked(x)
  BY <1>2 DEF Linked, In, Without
<1> QED BY <1>1, <1>2

LEMMA OutcomeIs ==
  ASSUME Distinct(seq), NEW x \in Items, NEW op \in Operations,
         NEW s, s = Effect(op, x), NEW w, w = Without(x)
  PROVE  /\ Distinct(s) /\ Placed(op, x, s)
         /\ RestLast(op, s) = Len(w)
         /\ \A i \in 1..Len(w) : s[IF op \in ToFront THEN i + 1 ELSE i] = w[i]
         /\ \A y \in Items : In(y, s) <=> In(y, w) \/ (y = x /\ op # "rm")
<1>1. Distinct(w) /\ ~In(x, w) /\ w \in Seq(Items) /\ Len(w) \in Nat /\ DOMAIN w = 1..Len(w)
  BY WithoutFacts DEF Distinct
<1>2. CASE op \in ToBack
  <2>1. s = Append(w, x)
    BY <1>2 DEF Effect, ToBack
  <2>2. /\ s \in Seq(Items) /\ Len(s) = Len(w) + 1 /\ s[Len(s)] = x
        /\ \A i \in 1..Len(w) : s[i] = w[i]
    BY <2>1, <1>1
  <2>3. DOMAIN s = 1..(Len(w) + 1) /\ op \notin ToFront /\ op # "rm"
    BY <2>2, <1>2 DEF ToBack, ToFront
  <2>4. \A i, j \in DOMAIN s : s[i] = s[j] => i = j
    BY <2>2, <2>3, <1>1 DEF Distinct, In
  <2>5. \A y \in Items : In(y, s) <=> In(y, w) \/ y = x
    BY <2>2, <2>3, <1>1 DEF In
  <2> QED BY <2>2, <2>3, <2>4, <2>5, <1>1, <1>2 DEF Distinct, Placed, RestLast
<1>3. CASE op \in ToFront
  <2>1. s = <<x>> \o w
    BY <1>3 DEF Effect, ToFront
  <2>2. /\ s \in Seq(Items) /\ Len(s) = Len(w) + 1 /\ s[1] = x
        /\ \A i \in 1..Len(w) : s[i + 1] = w[i]
    <3>1. <<x>> \in Seq(Items) /\ Len(<<x>>) = 1 /\ <<x>>[1] = x
      OBVIOUS
    <3>2. /\ s \in Seq(Items) /\ Len(s) = 1 + Len(w)
          /\ \A i \in 1..(1 + Len(w)) : s[i] = IF i <= 1 THEN <<x>>[i] ELSE w[i - 1]
      BY <3>1, <2>1, <1>1, ConcatProperties
    <3> QED BY <3>1, <3>2, <1>1
  <2>3. DOMAIN s = 1..(Len(w) + 1) /\ op \notin ToBack /\ op # "rm"
    BY <2>2, <1>3 DEF ToBack, ToFront
  <2>4. \A i \in DOMAIN s : s[i] = IF i = 1 THEN x ELSE w[i - 1]
    <3> SUFFICES ASSUME NEW i \in DOMAIN s, i # 1 PROVE s[i] = w[i - 1]
      BY <2>2
    <3>1. i - 1 \in 1..Len(w) /\ (i - 1) + 1 = i
      BY <2>3, <1>1
    <3> QED BY <3>1, <2>2
  <2>5. \A i, j \in DOMAIN s : s[i] = s[j] => i = j
    <3> SUFFICES ASSUME NEW i \in DOMAIN s, NEW j \in DOMAIN s, s[i] = s[j] PROVE i = j
      OBVIOUS
    <3>1. /\ i # 1 => i - 1 \in 1..Len(w) /\ s[i] = w[i - 1] /\ w[i - 1] # x
          /\ j # 1 => j - 1 \in 1..Len(w) /\ s[j] = w[j - 1] /\ w[j - 1] # x
      BY <2>3, <2>4, <1>1 DEF In
    <3>2. i # 1 /\ j # 1 => i - 1 = j - 1
      BY <3>1, <1>1 DEF Distinct
    <3> QED BY <3>1, <3>2, <2>2, <2>3
  <2>6. \A y \in Items : In(y, s) <=> In(y, w) \/ y = x
    <3> SUFFICES ASSUME NEW y \in Items PROVE In(y, s) <=> In(y, w) \/ y = x
      OBVIOUS
    <3>1. In(y, w) => In(y, s)
      <4> SUFFICES ASSUME NEW i \in 1..Len(w), w[i] = y PROVE In(y, s)
        BY <1>1 DEF In
      <4>1. i + 1 \in DOMAIN s /\ s[i + 1] = y
        BY <2>2, <2>3, <1>1
      <4> QED BY <4>1 DEF In
    <3>2. In(x, s)
      BY <2>2, <2>3, <1>1 DEF In
    <3>3. ASSUME NEW i \in DOMAIN s, s[i] = y, y # x PROVE In(y, w)
      <4>1. i # 1 /\ i - 1 \in DOMAIN w /\ w[i - 1] = y
        BY <3>3, <2>2, <2>3, <2>4, <1>1
      <4> QED BY <4>1 DEF In
    <3> QED BY <3>1, <3>2, <3>3 DEF In
  <2> QED BY <2>2, <2>3, <2>5, <2>6, <1>1, <1>3 DEF Distinct, Placed, RestLast
<1>4. CASE op = "rm"
  <2>1. s = w /\ op \notin ToBack /\ op \notin ToFront
    BY <1>4 DEF Effect, ToBack, ToFront
  <2> QED BY <2>1, <1>1, <1>4 DEF Distinct, Placed, RestLast
<1> QED BY <1>2, <1>3, <1>4 DEF Operations, ToBack, ToFront

(* The nodes of the rest are different, and the item is not among them.    *)
LEMMA RestFacts ==
  ASSUME NEW op \in Operations, NEW x \in Items, NEW s, Distinct(s), Placed(op, x, s)
  PROVE  /\ RestLast(op, s) \in Nat
         /\ Rest(op, s) \in [0..RestLast(op, s) -> Nodes]
         /\ OneEach(Rest(op, s), RestLast(op, s))
         /\ \A i \in 0..RestLast(op, s) : Rest(op, s)[i] # x
         /\ Rest(op, s)[0] = root
         /\ x \in Nodes /\ x # root
<1> DEFINE m == RestLast(op, s)
           f == Rest(op, s)
           At(i) == IF op \in ToFront THEN i + 1 ELSE i
<1>1. s \in Seq(Items) /\ Len(s) \in Nat /\ DOMAIN s = 1..Len(s)
  BY DEF Distinct
<1>2. op # "rm" => op \in ToFront \/ op \in ToBack
  BY DEF Operations, ToFront, ToBack
<1>3. m \in Nat /\ (op = "rm" => m = Len(s)) /\ (op # "rm" => m = Len(s) - 1)
  <2>1. op # "rm" => Len(s) > 0
    BY <1>2 DEF Placed
  <2>2. op # "rm" => m = Len(s) - 1
    BY DEF RestLast
  <2>3. op = "rm" => m = Len(s)
    BY DEF RestLast
  <2> HIDE DEF m
  <2> QED BY <1>1, <2>1, <2>2, <2>3
<1>4. op \in ToFront => op # "rm" /\ op \notin ToBack
  BY DEF ToFront, ToBack
<1>5. \A i \in 1..m : At(i) \in DOMAIN s /\ f[i] = s[At(i)]
  BY <1>1, <1>3, <1>4 DEF Rest
<1>8. f[0] = root /\ DOMAIN f = 0..m /\ f = [i \in 0..m |-> f[i]]
  BY <1>3 DEF Rest
<1> HIDE DEF f, m
<1>6. \A i \in 1..m : s[At(i)] # x
  <2>1. CASE op \in ToFront
    <3>1. 1 \in DOMAIN s /\ s[1] = x
      BY <2>1, <1>1 DEF Placed
    <3>2. \A i \in 1..m : At(i) \in DOMAIN s /\ At(i) # 1
      BY <2>1, <1>3, <1>5
    <3> QED BY <3>1, <3>2 DEF Distinct
  <2>2. CASE op \in ToBack
    <3>1. op \notin ToFront /\ op # "rm"
      BY <2>2 DEF ToFront, ToBack
    <3>2. Len(s) \in DOMAIN s /\ s[Len(s)] = x
      BY <2>2, <1>1 DEF Placed
    <3>3. \A i \in 1..m : At(i) \in DOMAIN s /\ At(i) # Len(s)
      <4>1. m = Len(s) - 1 /\ m \in Nat /\ Len(s) \in Nat
        BY <3>1, <1>1, <1>3
      <4>2. \A i \in 1..m : i \in 1..Len(s) /\ i # Len(s)
        BY <4>1
      <4> QED BY <3>1, <4>2, <1>1
    <3> QED BY <3>2, <3>3 DEF Distinct
  <2>3. CASE op = "rm"
    BY <2>3, <1>1, <1>3, <1>4 DEF Placed, In
  <2> QED BY <2>1, <2>2, <2>3, <1>2
<1>7. \A i, j \in 1..m : At(i) = At(j) => i = j
  BY <1>3
<1> HIDE DEF At
<1>9. \A i \in 1..m : f[i] \in Items
  BY <1>1, <1>5
<1>10. root \notin Items /\ x \in Nodes /\ root \in Nodes /\ x # root
  BY LockedListAssumption DEF LockedListAssumption, Nodes
<1>11. \A i \in 0..m : i = 0 \/ i \in 1..m
  BY <1>3
<1>12. f \in [0..m -> Nodes]
  BY <1>8, <1>9, <1>11, <1>10 DEF Nodes
<1>13. OneEach(f, m)
  BY <1>5, <1>7, <1>8, <1>9, <1>10, <1>11 DEF OneEach, Distinct
<1>14. \A i \in 0..m : f[i] # x
  BY <1>5, <1>6, <1>8, <1>10, <1>11
<1> QED BY <1>3, <1>8, <1>10, <1>12, <1>13, <1>14 DEF f, m

(* Nobody else is in the middle of an operation.                           *)
LEMMA Alone ==
  ASSUME LockInv, StepInv, NEW t \in Threads, at[t] = "in" \/ step[t] # "none",
         NEW u \in Threads, u # t
  PROVE  step[u] = "none"
BY DEF LockInv, MutualExclusion, StepInv, InsideOnly

(* What is left to show of a step of t. *)
LEMMA StepKeepsLinks ==
  ASSUME LockInv, StepInv, NEW t \in Threads, at[t] = "in" \/ step[t] # "none",
         NEW s, Goto(t, s), LinksType',
         s = "none" => Settled', s # "none" => UnderWay(t)'
  PROVE  LinksInv'
<1>1. step'[t] = s /\ \A u \in Threads : u # t => step'[u] = "none"
  BY Alone DEF Goto, StepInv
<1> QED BY <1>1 DEF LinksInv

LEMMA UnlinkKeepsLinks ==
  ASSUME Inv, NEW t \in Threads, Unlink(t)
  PROVE  LinksInv'
<1> DEFINE op == job[t].op
           x == Item(t)
           f == Rest(op, seq)
           m == RestLast(op, seq)
<1>1. UnderWay(t) /\ LinksType /\ step[t] = "unlink" /\ LockInv /\ StepInv
  BY DEF Inv, LinksInv, Unlink
<1>2. op \in Operations /\ x \in Items /\ Placed(op, x, seq) /\ Distinct(seq)
  BY <1>1 DEF UnderWay, LinksType, Item
<1>3. /\ m \in Nat /\ f \in [0..m -> Nodes] /\ OneEach(f, m)
      /\ \A i \in 0..m : f[i] # x
      /\ x \in Nodes
  BY <1>2, RestFacts
<1>4. PICK k \in 0..m : CircleWith(next, prev, f, m, k, x)
  BY <1>1 DEF UnderWay, HalfLinked
<1>5. /\ next' = [next EXCEPT ![prev[x]] = next[x]]
      /\ prev' = [prev EXCEPT ![next[x]] = prev[x]]
      /\ UNCHANGED <<len, job, anchor, seq>>
      /\ Goto(t, "clear")
  BY DEF Unlink, Link2
<1>6. prev[x] = f[k] /\ next[x] = f[After(m, k)] /\ After(m, k) \in 0..m
  BY <1>3, <1>4 DEF CircleWith, After
<1>7. prev[x] \in Nodes /\ next[x] \in Nodes
  BY <1>3, <1>6
<1> HIDE DEF f, m
<1>8. Circle(next', prev', f, m)
  BY <1>1, <1>3, <1>4, <1>5, LinkAround DEF LinksType
<1>9. LinksType'
  BY <1>1, <1>5, <1>7 DEF LinksType, Links, Distinct
<1>10. f' = f /\ m' = m /\ x' = x /\ op' = op /\ step'[t] = "clear"
  BY <1>1, <1>5 DEF f, m, Item, Goto, StepInv
<1>11. \A y \in Items : ~In(y, seq) /\ y # x => Clean(y)'
  <2> SUFFICES ASSUME NEW y \in Items, ~In(y, seq), y # x PROVE Clean(y)'
    OBVIOUS
  <2>1. Clean(y)
    BY <1>1 DEF UnderWay, OthersClean
  <2>2. y # f[k] /\ y # f[After(m, k)]
    <3>1. next[f[k]] = x /\ prev[f[After(m, k)]] = x
      BY <1>4 DEF CircleWith
    <3>2. x # NULL
      BY <1>2, LockedListAssumption DEF LockedListAssumption
    <3> QED BY <2>1, <3>1, <3>2 DEF Clean
  <2> QED BY <2>1, <2>2, <1>1, <1>5, <1>6 DEF Clean, LinksType, Links, Nodes
<1>12. UnderWay(t)'
  <2>1. op # "add" /\ op # "addfront"
    BY <1>1 DEF UnderWay, HalfLinked, Adds
  <2>2. HalfLinked(t)'
    BY <1>8, <1>10, <2>1 DEF HalfLinked, Adds, f, m
  <2>3. OthersClean(t)'
    BY <1>5, <1>10, <1>11 DEF OthersClean
  <2> QED BY <2>2, <2>3, <1>1, <1>5, <1>10 DEF UnderWay, Counted
<1> QED BY <1>1, <1>5, <1>9, <1>12, StepKeepsLinks

LEMMA RestOfOutcome ==
  ASSUME NEW op \in Operations, NEW s, NEW w \in Seq(Items), RestLast(op, s) = Len(w),
         \A i \in 1..Len(w) : s[IF op \in ToFront THEN i + 1 ELSE i] = w[i]
  PROVE  Rest(op, s) = Whole(w)
<1>1. Len(w) \in Nat
  OBVIOUS
<1>2. ASSUME NEW i \in 0..Len(w)
      PROVE  (IF i = 0 THEN root ELSE IF op \in ToFront THEN s[i + 1] ELSE s[i])
               = IF i = 0 THEN root ELSE w[i]
  <2>1. i = 0 \/ i \in 1..Len(w)
    BY <1>1
  <2> QED BY <2>1
<1> QED BY <1>2 DEF Rest, Whole

LEMMA StartKeepsLinks ==
  ASSUME Inv, NEW t \in Threads, NEW op \in Operations, NEW x \in Items, Start(t, op, x)
  PROVE  LinksInv'
<1> DEFINE w == Without(x)
           s == Effect(op, x)
           m == RestLast(op, s)
<1>1. /\ LinksType /\ LockInv /\ StepInv /\ at[t] = "in" /\ step[t] = "none"
      /\ Distinct(seq)
      /\ Linked(x) <=> op \notin Adds
      /\ job' = [job EXCEPT ![t] = [op |-> op, item |-> x]]
      /\ Goto(t, IF Linked(x) THEN "unlink" ELSE "join")
      /\ seq' = s /\ UNCHANGED <<next, prev, len, anchor>>
  BY DEF Inv, LinksInv, LinksType, Start, Adds
<1>2. Settled
  BY <1>1, Alone DEF Inv, LinksInv
<1>3. /\ Distinct(w) /\ ~In(x, w) /\ w \in Seq(Items)
      /\ \A y \in Items : In(y, seq) /\ y # x => In(y, w)
  BY <1>1, WithoutFacts DEF Distinct
<1>4. /\ Distinct(s) /\ Placed(op, x, s) /\ m = Len(w)
      /\ \A i \in 1..Len(w) : s[IF op \in ToFront THEN i + 1 ELSE i] = w[i]
      /\ \A y \in Items : In(y, s) <=> In(y, w) \/ (y = x /\ op # "rm")
  BY <1>1, OutcomeIs
<1>5. Rest(op, s) = Whole(w)
  BY <1>3, <1>4, RestOfOutcome
<1> HIDE DEF s, m
<1>6. job'[t].op = op /\ job'[t].item = x
  BY <1>1 DEF LinksType
<1>7. LinksType'
  BY <1>1, <1>4 DEF LinksType, Distinct
<1>8. op = "rm" => m = Len(s)
  BY DEF RestLast, m
<1>9. op # "rm" => m = Len(s) - 1
  BY DEF RestLast, m
<1>10. Len(s) \in Nat /\ Len(seq) \in Nat /\ Len(w) \in Nat
  BY <1>1, <1>3, <1>4 DEF Distinct
<1>11. CASE Linked(x)
  <2>1. PICK k \in 1..Len(seq) :
          /\ seq[k] = x /\ Len(w) = Len(seq) - 1
          /\ \A i \in 1..(Len(seq) - 1) : w[i] = IF i < k THEN seq[i] ELSE seq[i + 1]
    BY <1>1, <1>11, WithoutOne
  <2> HIDE DEF w
  <2> DEFINE n == Len(w)
             g == Whole(seq)
             f == Whole(w)
  <2>2. n \in Nat /\ Len(seq) = n + 1 /\ k \in 1..(n + 1)
    BY <2>1, <1>10
  <2>3. \A i \in 0..n : f[i] = IF i < k THEN g[i] ELSE g[i + 1]
    <3> SUFFICES ASSUME NEW i \in 0..n PROVE f[i] = IF i < k THEN g[i] ELSE g[i + 1]
      OBVIOUS
    <3>1. CASE i = 0
      BY <3>1, <2>2 DEF Whole
    <3>2. CASE i # 0
      <4>1. i \in 1..n /\ i \in 1..(Len(seq) - 1) /\ i \in 0..Len(seq)
            /\ i + 1 \in 0..Len(seq) /\ i + 1 # 0
        BY <3>2, <2>2
      <4>2. f[i] = w[i] /\ g[i] = seq[i] /\ g[i + 1] = seq[i + 1]
        BY <3>2, <4>1 DEF Whole
      <4> QED BY <4>1, <4>2, <2>1
    <3> QED BY <3>1, <3>2
  <2>4. g[k] = x
    BY <2>1, <2>2 DEF Whole
  <2>5. Circle(next, prev, g, n + 1)
    BY <1>2, <2>2 DEF Settled
  <2> HIDE DEF n, f, g
  <2>6. k - 1 \in 0..n /\ CircleWith(next, prev, f, n, k - 1, x)
    BY <2>2, <2>3, <2>4, <2>5, Neighbours
  <2>7. step'[t] = "unlink" /\ op \notin Adds
    BY <1>1, <1>11 DEF Goto, StepInv
  <2>8. HalfLinked(t)'
    BY <2>6, <2>7, <1>1, <1>4, <1>5, <1>6 DEF HalfLinked, Item, n, f, m
  <2>9. OthersClean(t)'
    BY <2>7, <1>1, <1>2, <1>3, <1>4, <1>6 DEF OthersClean, Settled, Clean, Item
  <2>10. Counted(t)'
    <3>1. len = Len(seq)
      BY <1>2 DEF Settled
    <3>2. op = "rm" => Len(seq) = Len(s) + 1
      BY <1>8, <1>4, <2>1, <1>10
    <3>3. op # "rm" => Len(seq) = Len(s)
      BY <1>9, <1>4, <2>1, <1>10
    <3> QED BY <3>1, <3>2, <3>3, <1>1, <1>6, <2>7 DEF Counted
  <2>11. UnderWay(t)'
    BY <2>8, <2>9, <2>10, <1>1, <1>4, <1>6 DEF UnderWay
  <2> QED BY <2>11, <1>1, <1>7, <1>11, StepKeepsLinks
<1>12. CASE ~Linked(x)
  <2>1. w = seq /\ op \in Adds /\ op # "rm"
    BY <1>1, <1>12 DEF Without, Adds
  <2> HIDE DEF w
  <2>2. step'[t] = "join"
    BY <1>1, <1>12 DEF Goto, StepInv
  <2>3. Circle(next, prev, Rest(op, s), m)
    BY <2>1, <1>2, <1>4, <1>5 DEF Settled
  <2>4. HalfLinked(t)'
    BY <2>1, <2>2, <2>3, <1>1, <1>6 DEF HalfLinked, m
  <2>5. OthersClean(t)'
    BY <2>1, <1>1, <1>2, <1>4, <1>6 DEF OthersClean, Settled, Clean
  <2>6. Counted(t)'
    <3>1. len = Len(seq) /\ Len(seq) = Len(s) - 1
      BY <1>2, <1>4, <1>9, <2>1 DEF Settled
    <3> QED BY <3>1, <1>1, <1>6, <2>1 DEF Counted
  <2>7. UnderWay(t)'
    BY <2>4, <2>5, <2>6, <1>1, <1>4, <1>6 DEF UnderWay
  <2> QED BY <2>7, <1>1, <1>7, <1>12, StepKeepsLinks
<1> QED BY <1>11, <1>12

(* After a removal the rest is all there is. *)
LEMMA RestOfRemoval == \A s : Rest("rm", s) = Whole(s) /\ RestLast("rm", s) = Len(s)
BY DEF Rest, RestLast, Whole, ToFront

LEMMA ClearKeepsLinks ==
  ASSUME Inv, NEW t \in Threads, Clear(t)
  PROVE  LinksInv'
<1> DEFINE op == job[t].op
           x == Item(t)
           f == Rest(op, seq)
           m == RestLast(op, seq)
           s == IF op = "rm" THEN "count" ELSE "join"
<1>1. UnderWay(t) /\ LinksType /\ step[t] = "clear" /\ LockInv /\ StepInv
  BY DEF Inv, LinksInv, Clear
<1>2. op \in Operations /\ x \in Items /\ Placed(op, x, seq) /\ Distinct(seq) /\ op \notin Adds
  BY <1>1 DEF UnderWay, LinksType, Item, HalfLinked
<1>3. /\ m \in Nat /\ f \in [0..m -> Nodes]
      /\ \A i \in 0..m : f[i] # x
      /\ x \in Nodes
  BY <1>2, RestFacts
<1>4. Circle(next, prev, f, m)
  BY <1>1 DEF UnderWay, HalfLinked
<1>5. /\ next' = [next EXCEPT ![x] = NULL] /\ prev' = [prev EXCEPT ![x] = NULL]
      /\ UNCHANGED <<len, job, anchor, seq>>
      /\ Goto(t, s)
  BY DEF Clear
<1> HIDE DEF f, m
<1>6. Circle(next', prev', f, m)
  BY <1>1, <1>3, <1>4, <1>5, LinksOutside DEF LinksType
<1>7. LinksType'
  BY <1>1, <1>3, <1>5 DEF LinksType, Links, Distinct
<1>8. step'[t] = s /\ f' = f /\ m' = m /\ x' = x /\ op' = op
  BY <1>1, <1>5 DEF f, m, Item, Goto, StepInv
<1>9. \A y \in Items : ~In(y, seq) => Clean(y)'
  BY <1>1, <1>3, <1>5 DEF UnderWay, OthersClean, Clean, LinksType, Links, Nodes
<1>10. HalfLinked(t)'
  <2>1. CASE op = "rm"
    <3>1. Circle(next', prev', Whole(seq), Len(seq))
      BY <2>1, <1>6, RestOfRemoval DEF f, m
    <3> QED BY <3>1, <2>1, <1>5, <1>8 DEF HalfLinked, Moves
  <2>2. CASE op # "rm"
    BY <2>2, <1>6, <1>8 DEF HalfLinked, f, m
  <2> QED BY <2>1, <2>2
<1>11. UnderWay(t)'
  <2>1. OthersClean(t)'
    BY <1>5, <1>9 DEF OthersClean
  <2> QED BY <2>1, <1>1, <1>5, <1>10 DEF UnderWay, Counted
<1> QED BY <1>1, <1>5, <1>7, <1>11, StepKeepsLinks

LEMMA JoinKeepsLinks ==
  ASSUME Inv, NEW t \in Threads, Join(t)
  PROVE  LinksInv'
<1> DEFINE op == job[t].op
           x == Item(t)
           f == Rest(op, seq)
           m == RestLast(op, seq)
<1>1. UnderWay(t) /\ LinksType /\ step[t] = "join" /\ LockInv /\ StepInv
  BY DEF Inv, LinksInv, Join
<1>2. op \in Operations /\ x \in Items /\ Placed(op, x, seq) /\ Distinct(seq) /\ op # "rm"
  BY <1>1 DEF UnderWay, LinksType, Item, HalfLinked
<1>3. /\ m \in Nat /\ f \in [0..m -> Nodes] /\ OneEach(f, m)
      /\ \A i \in 0..m : f[i] # x
      /\ f[0] = root /\ x \in Nodes /\ x # root
  BY <1>2, RestFacts
<1>4. Circle(next, prev, f, m)
  BY <1>1 DEF UnderWay, HalfLinked
<1>5. UNCHANGED <<len, job, seq>> /\ Goto(t, "close")
  BY DEF Join
<1>6. step'[t] = "close" /\ f' = f /\ m' = m /\ x' = x /\ op' = op
  BY <1>1, <1>5 DEF Item, Goto, StepInv
<1> HIDE DEF f, m
<1>7. In(x, seq)
  <2>1. op \in ToBack \/ op \in ToFront
    BY <1>2 DEF Operations, ToBack, ToFront
  <2>2. DOMAIN seq = 1..Len(seq) /\ Len(seq) \in Nat
    BY <1>2 DEF Distinct
  <2> QED BY <2>1, <2>2, <1>2 DEF Placed, In
<1>8. After(m, 0) \in 0..m /\ f[m] \in Nodes /\ f[After(m, 0)] \in Nodes /\ f[0] \in Nodes
  BY <1>3 DEF After
<1>9. ASSUME LinksType', HalfLinked(t)', \A y \in Items : y # x => (Clean(y) => Clean(y)')
      PROVE  LinksInv'
  <2>1. OthersClean(t)'
    BY <1>1, <1>5, <1>6, <1>7, <1>9 DEF UnderWay, OthersClean
  <2>2. UnderWay(t)'
    BY <2>1, <1>1, <1>5, <1>9 DEF UnderWay, Counted
  <2> QED BY <2>2, <1>1, <1>5, <1>9, StepKeepsLinks
<1>10. CASE AtBack(t)
  <2>1. op \in ToBack /\ op \notin ToFront
    BY <1>10 DEF AtBack, ToBack, ToFront
  <2>2. /\ anchor' = [anchor EXCEPT ![t] = prev[root]]
        /\ next' = [next EXCEPT ![x] = next[prev[root]]]
        /\ prev' = [prev EXCEPT ![next[prev[root]]] = x]
    BY <1>10 DEF Join, Link2
  <2>3. /\ prev[f[0]] = f[m] /\ next[f[m]] = f[0]
        /\ HalfBehind([next EXCEPT ![x] = f[0]], [prev EXCEPT ![f[0]] = x], f, m, x, f[m])
    BY <1>1, <1>3, <1>4, LinkBehind DEF LinksType
  <2>4. /\ next' = [next EXCEPT ![x] = f[0]] /\ prev' = [prev EXCEPT ![f[0]] = x]
        /\ anchor' = [anchor EXCEPT ![t] = f[m]]
    BY <2>2, <2>3, <1>3
  <2>5. anchor'[t] = f[m]
    BY <2>4, <1>1 DEF LinksType
  <2>6. LinksType'
    BY <2>4, <1>1, <1>3, <1>5, <1>8 DEF LinksType, Links, Distinct
  <2>7. HalfLinked(t)'
    BY <2>1, <2>3, <2>4, <2>5, <1>2, <1>6 DEF HalfLinked, f, m
  <2>8. \A y \in Items : y # x => (Clean(y) => Clean(y)')
    BY <2>4, <1>1, <1>3, LockedListAssumption DEF Clean, LinksType, Links, Nodes, LockedListAssumption
  <2> QED BY <2>6, <2>7, <2>8, <1>9
<1>11. CASE ~AtBack(t)
  <2>1. op \in ToFront /\ op \notin ToBack
    BY <1>11, <1>2 DEF AtBack, ToBack, ToFront, Operations
  <2>2. /\ anchor' = [anchor EXCEPT ![t] = next[root]]
        /\ next' = [next EXCEPT ![prev[next[root]]] = x]
        /\ prev' = [prev EXCEPT ![x] = prev[next[root]]]
    BY <1>11 DEF Join, Link2
  <2>3. /\ next[f[0]] = f[After(m, 0)] /\ prev[f[After(m, 0)]] = f[0]
        /\ HalfBefore([next EXCEPT ![f[0]] = x], [prev EXCEPT ![x] = f[0]], f, m, x,
                      f[After(m, 0)])
    BY <1>1, <1>3, <1>4, LinkBefore DEF LinksType
  <2>4. /\ next' = [next EXCEPT ![f[0]] = x] /\ prev' = [prev EXCEPT ![x] = f[0]]
        /\ anchor' = [anchor EXCEPT ![t] = f[After(m, 0)]]
    BY <2>2, <2>3, <1>3
  <2>5. anchor'[t] = f[After(m, 0)]
    BY <2>4, <1>1 DEF LinksType
  <2>6. LinksType'
    BY <2>4, <1>1, <1>3, <1>5, <1>8 DEF LinksType, Links, Distinct
  <2>7. HalfLinked(t)'
    BY <2>1, <2>3, <2>4, <2>5, <1>2, <1>6 DEF HalfLinked, f, m
  <2>8. \A y \in Items : y # x => (Clean(y) => Clean(y)')
    BY <2>4, <1>1, <1>3, LockedListAssumption DEF Clean, LinksType, Links, Nodes, LockedListAssumption
  <2> QED BY <2>6, <2>7, <2>8, <1>9
<1> QED BY <1>10, <1>11

(* The second link makes one circle of the rest and the item. *)
LEMMA CloseMakesWhole ==
  ASSUME NEW n \in Links, NEW p \in Links, NEW op \in Operations, op # "rm",
         NEW x \in Items, NEW s, Distinct(s), Placed(op, x, s), NEW a,
         op \in ToBack => HalfBehind(n, p, Rest(op, s), RestLast(op, s), x, a),
         op \in ToFront => HalfBefore(n, p, Rest(op, s), RestLast(op, s), x, a)
  PROVE  /\ a \in Nodes
         /\ op \in ToBack =>
              /\ n[a] = root
              /\ Circle([n EXCEPT ![a] = x], [p EXCEPT ![x] = a], Whole(s), Len(s))
         /\ op \in ToFront =>
              /\ p[a] = root
              /\ Circle([n EXCEPT ![x] = a], [p EXCEPT ![a] = x], Whole(s), Len(s))
<1> DEFINE f == Rest(op, s)
           m == RestLast(op, s)
           g == Whole(s)
<1>1. /\ m \in Nat /\ f \in [0..m -> Nodes] /\ OneEach(f, m)
      /\ \A i \in 0..m : f[i] # x
      /\ f[0] = root /\ x \in Nodes
  BY RestFacts
<1>2. m = Len(s) - 1
  BY DEF RestLast
<1>3. \A i \in 1..m : f[i] = IF op \in ToFront THEN s[i + 1] ELSE s[i]
  BY <1>1 DEF Rest
<1> HIDE DEF m, f
<1>4. Len(s) = m + 1
  <2>1. Len(s) \in Nat
    BY DEF Distinct
  <2> QED BY <2>1, <1>1, <1>2
<1>5. g[0] = root /\ \A i \in 1..(m + 1) : g[i] = s[i]
  BY <1>1, <1>4 DEF Whole
<1> HIDE DEF g
<1>6. CASE op \in ToBack
  <2>1. HalfBehind(n, p, f, m, x, a) /\ op \notin ToFront
    BY <1>6 DEF f, m, ToBack, ToFront
  <2>2. ASSUME NEW i \in 0..(m + 1) PROVE g[i] = IF i = m + 1 THEN x ELSE f[i]
    <3>1. CASE i = m + 1
      BY <3>1, <1>1, <1>4, <1>5, <1>6 DEF Placed
    <3>2. CASE i = 0
      BY <3>2, <1>1, <1>5
    <3>3. CASE i \in 1..m
      <4>1. i \in 1..(m + 1) /\ i # m + 1
        BY <3>3, <1>1
      <4> QED BY <3>3, <4>1, <1>3, <1>5, <2>1
    <3> QED BY <3>1, <3>2, <3>3, <1>1
  <2>3. Circle([n EXCEPT ![a] = x], [p EXCEPT ![x] = a], g, m + 1)
    BY <2>1, <2>2, <1>1, CloseBehind
  <2>4. a = f[m] /\ n[f[m]] = f[0] /\ m \in 0..m
    BY <2>1, <1>1 DEF HalfBehind, Forth, After
  <2>5. a \in Nodes /\ n[a] = root
    BY <2>4, <1>1
  <2> QED BY <2>1, <2>3, <2>5, <1>4 DEF g
<1>7. CASE op \in ToFront
  <2>1. HalfBefore(n, p, f, m, x, a) /\ op \notin ToBack
    BY <1>7 DEF f, m, ToBack, ToFront
  <2>2. ASSUME NEW i \in 0..(m + 1)
        PROVE  g[i] = IF i = 0 THEN f[0] ELSE IF i = 1 THEN x ELSE f[i - 1]
    <3>1. CASE i = 0
      BY <3>1, <1>1, <1>5
    <3>2. CASE i = 1
      BY <3>2, <1>1, <1>5, <1>7 DEF Placed
    <3>3. CASE i > 1
      <4>1. i - 1 \in 1..m /\ i \in 1..(m + 1) /\ (i - 1) + 1 = i
        BY <3>3, <1>1
      <4>2. f[i - 1] = s[i] /\ g[i] = s[i]
        BY <4>1, <1>3, <1>5, <1>7
      <4> QED BY <3>3, <4>2
    <3> QED BY <3>1, <3>2, <3>3, <1>1
  <2>3. Circle([n EXCEPT ![x] = a], [p EXCEPT ![a] = x], g, m + 1)
    BY <2>1, <2>2, <1>1, CloseBefore
  <2>4. a = f[After(m, 0)] /\ p[f[After(m, 0)]] = f[0] /\ After(m, 0) \in 0..m
    BY <2>1, <1>1 DEF HalfBefore, Back, After
  <2>5. a \in Nodes /\ p[a] = root
    BY <2>4, <1>1
  <2> QED BY <2>1, <2>3, <2>5, <1>4 DEF g
<1> QED BY <1>6, <1>7 DEF Operations, ToBack, ToFront

LEMMA CloseKeepsLinks ==
  ASSUME Inv, NEW t \in Threads, Close(t)
  PROVE  LinksInv'
<1> DEFINE op == job[t].op
           x == Item(t)
           a == anchor[t]
           s == IF op \in Adds THEN "count" ELSE "none"
<1>1. UnderWay(t) /\ LinksType /\ step[t] = "close" /\ LockInv /\ StepInv
  BY DEF Inv, LinksInv, Close
<1>2. op \in Operations /\ x \in Items /\ Placed(op, x, seq) /\ Distinct(seq) /\ op # "rm"
  BY <1>1 DEF UnderWay, LinksType, Item, HalfLinked
<1>3. /\ op \in ToBack => HalfBehind(next, prev, Rest(op, seq), RestLast(op, seq), x, a)
      /\ op \in ToFront => HalfBefore(next, prev, Rest(op, seq), RestLast(op, seq), x, a)
  BY <1>1 DEF UnderWay, HalfLinked
<1>4. /\ a \in Nodes
      /\ op \in ToBack =>
           /\ next[a] = root
           /\ Circle([next EXCEPT ![a] = x], [prev EXCEPT ![x] = a], Whole(seq), Len(seq))
      /\ op \in ToFront =>
           /\ prev[a] = root
           /\ Circle([next EXCEPT ![x] = a], [prev EXCEPT ![a] = x], Whole(seq), Len(seq))
  BY <1>1, <1>2, <1>3, CloseMakesWhole DEF LinksType
<1>5. /\ op \in ToBack => next' = [next EXCEPT ![a] = x] /\ prev' = [prev EXCEPT ![x] = a]
      /\ op \in ToFront => next' = [next EXCEPT ![x] = a] /\ prev' = [prev EXCEPT ![a] = x]
  BY DEF Close, AtBack, Link2, ToBack, ToFront
<1>6. op \in ToBack \/ op \in ToFront
  BY <1>2 DEF Operations, ToBack, ToFront
<1>7. UNCHANGED <<len, seq>> /\ Goto(t, s) /\ (op \in Adds => UNCHANGED <<job, anchor>>)
      /\ DOMAIN job' = Threads /\ DOMAIN anchor' = Threads
  BY <1>1 DEF Close, Done, Adds, LinksType
<1>8. step'[t] = s
  BY <1>1, <1>7 DEF Goto, StepInv
<1>9. Circle(next', prev', Whole(seq), Len(seq))
  BY <1>4, <1>5, <1>6
<1>10. x \in Nodes /\ root # NULL /\ root \in Nodes /\ Items \subseteq Nodes
  BY <1>2, LockedListAssumption DEF Nodes, LockedListAssumption
<1>11. LinksType'
  BY <1>1, <1>4, <1>5, <1>6, <1>7, <1>10 DEF LinksType, Links, Distinct
<1>12. In(x, seq)
  <2>1. DOMAIN seq = 1..Len(seq) /\ Len(seq) \in Nat
    BY <1>2 DEF Distinct
  <2> QED BY <2>1, <1>2, <1>6 DEF Placed, In
<1>13. \A y \in Items : ~In(y, seq) => Clean(y)'
  <2> SUFFICES ASSUME NEW y \in Items, ~In(y, seq) PROVE Clean(y)'
    OBVIOUS
  <2>1. Clean(y) /\ y # x
    BY <1>1, <1>12 DEF UnderWay, OthersClean
  <2>2. y # a
    BY <2>1, <1>4, <1>6, <1>10 DEF Clean
  <2> QED BY <2>1, <2>2, <1>1, <1>5, <1>6, <1>10 DEF Clean, LinksType, Links
<1>14. CASE op \in Adds
  <2>1. HalfLinked(t)'
    BY <1>7, <1>8, <1>9, <1>14 DEF HalfLinked, Adds, Moves
  <2>2. OthersClean(t)'
    BY <1>7, <1>13 DEF OthersClean
  <2>3. UnderWay(t)'
    BY <2>1, <2>2, <1>1, <1>7, <1>14 DEF UnderWay, Counted
  <2> QED BY <2>3, <1>1, <1>7, <1>8, <1>11, <1>14, StepKeepsLinks
<1>15. CASE op \notin Adds
  <2>1. len = Len(seq)
    BY <1>1, <1>2, <1>15 DEF UnderWay, Counted
  <2>2. Settled'
    BY <2>1, <1>7, <1>9, <1>13 DEF Settled
  <2> QED BY <2>2, <1>1, <1>7, <1>8, <1>11, <1>15, StepKeepsLinks
<1> QED BY <1>14, <1>15

LEMMA CountKeepsLinks ==
  ASSUME Inv, NEW t \in Threads, Count(t)
  PROVE  LinksInv'
<1>1. UnderWay(t) /\ LinksType /\ step[t] = "count" /\ LockInv /\ StepInv
  BY DEF Inv, LinksInv, Count
<1>2. /\ UNCHANGED <<next, prev, seq>> /\ Goto(t, "none")
      /\ DOMAIN job' = Threads /\ DOMAIN anchor' = Threads
      /\ len' = IF job[t].op = "rm" THEN len - 1 ELSE len + 1
  BY <1>1 DEF Count, Done, LinksType
<1>3. len' = Len(seq)
  <2>1. Len(seq) \in Nat
    BY <1>1 DEF LinksType, Distinct
  <2>2. job[t].op = "rm" \/ job[t].op \in Adds
    BY <1>1 DEF UnderWay, HalfLinked, Operations, Adds, Moves
  <2> QED BY <2>1, <2>2, <1>1, <1>2 DEF UnderWay, Counted, Adds
<1>4. Settled'
  BY <1>1, <1>2, <1>3 DEF UnderWay, HalfLinked, OthersClean, Settled, Clean
<1>5. LinksType'
  BY <1>1, <1>2 DEF LinksType, Distinct
<1> QED BY <1>1, <1>2, <1>4, <1>5, StepKeepsLinks

(* The lock does not touch the list.                                       *)
LEMMA LockKeepsLinks ==
  ASSUME Inv, UNCHANGED <<next, prev, len, job, anchor, step, seq>>
  PROVE  LinksInv'
BY DEF Inv, LinksInv, LinksType, Distinct, Settled, UnderWay, Counted, OthersClean,
       HalfLinked, Item, Clean

LEMMA LinksInit == Init => Inv
<1> SUFFICES ASSUME Init PROVE Inv
  OBVIOUS
<1>1. LockInv
  BY LockInvInit DEF Init
<1>2. StepInv
  BY DEF Init, LockInit, StepInv, InsideOnly, LockTypeOK, Steps
<1>3. seq \in Seq(Items) /\ Len(seq) = 0 /\ DOMAIN seq = {}
  BY DEF Init
<1>4. root \in Nodes /\ next[root] = root /\ prev[root] = root
  BY DEF Init, Nodes
<1>5. LinksType
  BY <1>3, <1>4 DEF Init, LinksType, Links, Distinct, Nodes
<1>6. \A y \in Items : Clean(y)
  BY LockedListAssumption DEF Init, Clean, Nodes, LockedListAssumption
<1>7. Circle(next, prev, Whole(seq), Len(seq))
  BY <1>3, <1>4 DEF Circle, Forth, Back, After, Whole
<1>8. Settled
  BY <1>3, <1>6, <1>7 DEF Init, Settled
<1>9. \A t \in Threads : step[t] = "none"
  BY DEF Init
<1> QED BY <1>1, <1>2, <1>5, <1>8, <1>9 DEF Inv, LinksInv

LEMMA LinksStep == Inv /\ [Next]_vars => Inv'
<1> SUFFICES ASSUME Inv, [Next]_vars PROVE Inv'
  OBVIOUS
<1>1. LockInv' /\ StepInv'
  BY StepUsesLock, LockInvStep, StepInvStep DEF Inv
<1>2. ASSUME NEW t \in Threads, OperationStep(t) PROVE LinksInv'
  BY <1>2, UnlinkKeepsLinks, ClearKeepsLinks, JoinKeepsLinks, CloseKeepsLinks,
     CountKeepsLinks DEF OperationStep
<1>3. ASSUME NEW t \in Threads, NEW op \in Operations, NEW x \in Items, Start(t, op, x)
      PROVE  LinksInv'
  BY <1>3, StartKeepsLinks
<1>4. ASSUME NEW t \in Threads, GetIn(t) \/ GetOut(t) PROVE LinksInv'
  BY <1>4, LockKeepsLinks DEF GetIn, GetOut
<1>5. ASSUME UNCHANGED vars PROVE LinksInv'
  BY <1>5, LockKeepsLinks DEF vars
<1> QED BY <1>1, <1>2, <1>3, <1>4, <1>5 DEF Next, Inv

----------------------------------------------------------------------------

(* A list has no more items than there are, and one less if some item is   *)
(* outside.                                                                *)
LEMMA ItemsFit ==
  ASSUME NEW s, Distinct(s)
  PROVE  /\ Cardinality(Items) \in Nat
         /\ Len(s) <= Cardinality(Items)
         /\ \A x \in Items : ~In(x, s) => Len(s) + 1 <= Cardinality(Items)
<1> DEFINE n == Len(s)
           D == 1..n
<1>1. IsFiniteSet(Items) /\ Cardinality(Items) \in Nat
  BY LockedListAssumption, FS_CardinalityType DEF LockedListAssumption
<1>2. n \in Nat /\ DOMAIN s = D /\ s \in [D -> Items]
  BY DEF Distinct
<1>3. IsFiniteSet(D) /\ Cardinality(D) = n
  BY <1>2, FS_Interval
<1>4. ASSUME NEW T, IsFiniteSet(T), \A i \in D : s[i] \in T
      PROVE  n <= Cardinality(T)
  <2>1. Cardinality(T) \in Nat
    BY <1>4, FS_CardinalityType
  <2>2. s \in [D -> T]
    BY <1>2, <1>4
  <2>3. ~ \E i, j \in D : i # j /\ s[i] = s[j]
    BY <1>2 DEF Distinct
  <2>4. ~(Cardinality(T) < Cardinality(D))
    BY <2>2, <2>3, <1>3, <1>4, FS_PigeonHole
  <2> QED BY <2>1, <2>4, <1>2, <1>3
<1>5. n <= Cardinality(Items)
  BY <1>1, <1>2, <1>4
<1>6. ASSUME NEW x \in Items, ~In(x, s) PROVE n + 1 <= Cardinality(Items)
  <2>1. IsFiniteSet(Items \ {x}) /\ Cardinality(Items \ {x}) = Cardinality(Items) - 1
    BY <1>1, FS_RemoveElement
  <2>2. n <= Cardinality(Items \ {x})
    BY <2>1, <1>2, <1>4, <1>6 DEF In
  <2> QED BY <2>1, <2>2, <1>1, <1>2
<1> QED BY <1>1, <1>5, <1>6

LEMMA LengthFits == Inv => len \in 0..Cardinality(Items)
<1> SUFFICES ASSUME Inv PROVE len \in 0..Cardinality(Items)
  OBVIOUS
<1>1. Distinct(seq) /\ Len(seq) \in Nat
  BY DEF Inv, LinksInv, LinksType, Distinct
<1>2. /\ Cardinality(Items) \in Nat /\ Len(seq) <= Cardinality(Items)
      /\ \A x \in Items : ~In(x, seq) => Len(seq) + 1 <= Cardinality(Items)
  BY <1>1, ItemsFit
<1>3. CASE \A t \in Threads : step[t] = "none"
  BY <1>1, <1>2, <1>3 DEF Inv, LinksInv, Settled
<1>4. ASSUME NEW t \in Threads, step[t] # "none" PROVE len \in 0..Cardinality(Items)
  <2>1. UnderWay(t)
    BY <1>4 DEF Inv, LinksInv
  <2>2. job[t].op = "rm" => len = Len(seq) + 1 /\ Len(seq) + 1 <= Cardinality(Items)
    BY <2>1, <1>2 DEF UnderWay, Placed, Counted
  <2>3. job[t].op \in Adds => len = Len(seq) - 1 /\ Len(seq) > 0
    BY <2>1 DEF UnderWay, Placed, Counted, Adds, ToBack, ToFront
  <2>4. job[t].op # "rm" /\ job[t].op \notin Adds => len = Len(seq)
    BY <2>1 DEF UnderWay, Counted
  <2> QED BY <2>2, <2>3, <2>4, <1>1, <1>2
<1> QED BY <1>3, <1>4

(* The circle through the sentinel is the ring of the property. *)
LEMMA CircleIsRing ==
  ASSUME seq \in Seq(Items), Circle(next, prev, Whole(seq), Len(seq))
  PROVE  \A i \in DOMAIN Ring :
           LET j == IF i = Len(Ring) THEN 1 ELSE i + 1
           IN  next[Ring[i]] = Ring[j] /\ prev[Ring[j]] = Ring[i]
<1> DEFINE n == Len(seq)
           f == Whole(seq)
<1>1. n \in Nat /\ <<root>> \in Seq(Nodes) /\ seq \in Seq(Nodes)
      /\ Len(<<root>>) = 1 /\ <<root>>[1] = root
  BY DEF Nodes
<1>2. /\ Ring \in Seq(Nodes) /\ Len(Ring) = 1 + n
      /\ \A i \in 1..(1 + n) : Ring[i] = IF i <= 1 THEN <<root>>[i] ELSE seq[i - 1]
  BY <1>1, ConcatProperties DEF Ring
<1>3. DOMAIN Ring = 1..(1 + n)
  BY <1>1, <1>2
<1>4. \A i \in 1..(1 + n) : Ring[i] = f[i - 1]
  <2> SUFFICES ASSUME NEW i \in 1..(1 + n) PROVE Ring[i] = f[i - 1]
    OBVIOUS
  <2>1. i - 1 \in 0..n
    BY <1>1
  <2>2. f[i - 1] = IF i - 1 = 0 THEN root ELSE seq[i - 1]
    BY <2>1 DEF Whole
  <2> QED BY <2>2, <1>1, <1>2
<1> HIDE DEF f, n
<1>5. ASSUME NEW i \in 1..(1 + n), NEW j, j = IF i = 1 + n THEN 1 ELSE i + 1
      PROVE  next[Ring[i]] = Ring[j] /\ prev[Ring[j]] = Ring[i]
  <2>1. i - 1 \in 0..n /\ j \in 1..(1 + n) /\ j - 1 = After(n, i - 1)
    BY <1>1, <1>5 DEF After
  <2>2. next[f[i - 1]] = f[After(n, i - 1)] /\ prev[f[After(n, i - 1)]] = f[i - 1]
    BY <2>1 DEF Circle, Forth, Back, f, n
  <2> QED BY <2>1, <2>2, <1>4
<1> QED BY <1>2, <1>3, <1>5

(* Between two operations the links in both directions, the length and the *)
(* items outside are those of the sequence of the operations.              *)
THEOREM ListStaysTheSequence == Spec => []ListIsTheSequence
<1>1. Inv => ListIsTheSequence
  <2> SUFFICES ASSUME Inv PROVE ListIsTheSequence
    OBVIOUS
  <2>1. TypeOK
    BY LengthFits DEF TypeOK, Inv, LockInv, StepInv, LinksInv, LinksType, Links
  <2>2. CASE \A t \in Threads : step[t] = "none"
    <3>1. Settled /\ seq \in Seq(Items)
      BY <2>2 DEF Inv, LinksInv, LinksType, Distinct
    <3>2. \A i \in DOMAIN Ring :
            LET j == IF i = Len(Ring) THEN 1 ELSE i + 1
            IN  next[Ring[i]] = Ring[j] /\ prev[Ring[j]] = Ring[i]
      BY <3>1, CircleIsRing DEF Settled
    <3>3. \A x \in Items : ~Linked(x) => next[x] = NULL /\ prev[x] = NULL
      BY <3>1 DEF Settled, Clean, In, Linked
    <3> QED BY <2>1, <3>1, <3>2, <3>3 DEF Settled, ListIsTheSequence
  <2> QED BY <2>1, <2>2 DEF ListIsTheSequence
<1> QED BY <1>1, LinksInit, LinksStep, PTL DEF Spec
============================================================================
