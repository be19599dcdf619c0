----------------------------- MODULE RingQueue -----------------------------
(***************************************************************************)
(* ffringqueue (ffbase/ringqueue.h): the fixed-size lockless queue of      *)
(* pointers, at the granularity of its accesses to shared memory.          *)
(*                                                                         *)
(* Four free-running counters of fixed width (ffuint, so modulo            *)
(* M = 2^32 in the program) delimit the slots:                             *)
(*                                                                         *)
(*     rtail .. rhead    taken by consumers that have not released them    *)
(*     rhead .. wtail    published, waiting to be fetched                  *)
(*     wtail .. whead    claimed by producers that have not published      *)
(*                                                                         *)
(* A producer reads whead, reads rtail, moves whead with a compare-and-    *)
(* swap, stores its item, waits for the producers before it, and moves     *)
(* wtail.  A consumer mirrors it with rhead, wtail and rtail.  The _sw and *)
(* _sr variants of the calls ("solo" below) replace the compare-and-swap   *)
(* by a plain store and do not wait.                                       *)
(***************************************************************************)
EXTENDS Integers, Sequences

CONSTANTS
  Producers,  \* threads that call ffrq_add / ffrq_add_sw
  Consumers,  \* threads that call ffrq_fetch / ffrq_fetch_sr
  Items,      \* the pointers that are queued
  NoItem,     \* no pointer: an unset local or a slot never written
  cap,        \* number of slots (q->cap)
  M           \* number of values of a counter (2^32 for ffuint)

(* ffint_align_power2() makes cap a power of two of at least 2, so it      *)
(* divides the modulus of the counters.                                    *)
ASSUME RingQueueAssumption ==
  /\ cap \in Nat /\ cap >= 2
  /\ M \in Nat /\ \E k \in 2..M : M = k * cap
  /\ NoItem \notin Items
  /\ Producers \cap Consumers = {}

VARIABLES
  whead, wtail, rhead, rtail,  \* the counters of the queue
  data,                        \* data[i]: slot i
  pc,                          \* pc[t]: the next access of thread t
  pos,                         \* pos[t]: its local wh (producer) or rh (consumer)
  item,                        \* item[t]: its argument `it`, or what it read into *item
  solo                         \* solo[t]: it runs the single-writer/single-reader variant

vars == <<whead, wtail, rhead, rtail, data, pc, pos, item, solo>>
counters == <<whead, wtail, rhead, rtail>>

Threads == Producers \cup Consumers

(* Definitions "Wrong..." are what a plausible slip would have made of the *)
(* definition below them; no specification uses them.                      *)

(* Wrong: a counter that does not wrap. *)
WrongIncr(x) == x + 1

(* Unsigned arithmetic on the counters. *)
Incr(x) == (x + 1) % M
Dist(a, b) == (b - a) % M        \* from a up to b

(* q->data[x & q->mask] *)
Slot(x) == x % cap

(***************************************************************************)
(* Bound.  A thread that has read a head counter and not yet used it is    *)
(* overtaken by fewer than M - cap moves of that counter.  With 2^32       *)
(* values this is 2^32 - cap calls by other threads between two adjacent   *)
(* instructions of one thread; past it the compare-and-swap can no longer  *)
(* tell the counter from its old value.                                    *)
(***************************************************************************)
MaxLag == M - cap - 1
NoLap(ts, head) ==
  \A t \in ts : pc[t] \in {"check", "claim"} => Dist(pos[t], head) < MaxLag

(***************************************************************************)
(* ffrq_alloc()                                                            *)
(***************************************************************************)
Init ==
  /\ whead = 0 /\ wtail = 0 /\ rhead = 0 /\ rtail = 0
  /\ data = [i \in 0..(cap - 1) |-> NoItem]
  /\ pc = [t \in Threads |-> "idle"]
  /\ pos = [t \in Threads |-> 0]
  /\ item = [t \in Threads |-> NoItem]
  /\ solo = [t \in Threads |-> FALSE]

Goto(t, label) == pc' = [pc EXCEPT ![t] = label]

(* Return to the caller: the locals are dead. *)
Return(t) ==
  /\ Goto(t, "idle")
  /\ pos' = [pos EXCEPT ![t] = 0]
  /\ item' = [item EXCEPT ![t] = NoItem]
  /\ solo' = [solo EXCEPT ![t] = FALSE]

(* "(single writer)", "(single reader)": while one thread runs the solo    *)
(* variant of an operation no other thread runs that operation.            *)
MayEnter(ts, t, single) ==
  \A o \in ts \ {t} : pc[o] # "idle" => ~single /\ ~solo[o]

----------------------------------------------------------------------------
(* _ffrq_add() *)

AddCall(p, v, sw) ==
  /\ pc[p] = "idle"
  /\ MayEnter(Producers, p, sw)
  /\ item' = [item EXCEPT ![p] = v]
  /\ solo' = [solo EXCEPT ![p] = sw]
  /\ Goto(p, "head")
  /\ UNCHANGED <<counters, data, pos>>

AddReadHead(p) ==
  /\ pc[p] = "head"
  /\ pos' = [pos EXCEPT ![p] = whead]
  /\ Goto(p, "check")
  /\ UNCHANGED <<counters, data, item, solo>>

(* Wrong: one slot too many. *)
WrongUnused(p) == (cap + rtail - pos[p] + 1) % M

(* unused = q->cap + q->rtail - wh *)
Unused(p) == (cap + rtail - pos[p]) % M

AddCheck(p) ==
  /\ pc[p] = "check"
  /\ \/ Unused(p) >= 1 /\ Goto(p, "claim") /\ UNCHANGED <<pos, item, solo>>
     \/ Unused(p) < 1 /\ Return(p)
  /\ UNCHANGED <<counters, data>>

AddClaim(p) ==
  /\ pc[p] = "claim"
  /\ solo[p] \/ whead = pos[p]
  /\ NoLap(Producers, whead)
  /\ whead' = Incr(pos[p])
  /\ Goto(p, "access")
  /\ UNCHANGED <<wtail, rhead, rtail, data, pos, item, solo>>

(* Wrong: the head is read once, before the loop. *)
WrongAddRetry(p) ==
  /\ pc[p] = "claim"
  /\ ~solo[p] /\ whead # pos[p]
  /\ Goto(p, "check")
  /\ UNCHANGED <<counters, data, pos, item, solo>>

(* Another thread moved the counter; the local is dead until it is re-read. *)
AddRetry(p) ==
  /\ pc[p] = "claim"
  /\ ~solo[p] /\ whead # pos[p]
  /\ Goto(p, "head")
  /\ pos' = [pos EXCEPT ![p] = 0]
  /\ UNCHANGED <<counters, data, item, solo>>

AddStore(p) ==
  /\ pc[p] = "access"
  /\ data' = [data EXCEPT ![Slot(pos[p])] = item[p]]
  /\ Goto(p, IF solo[p] THEN "commit" ELSE "wait")
  /\ UNCHANGED <<counters, pos, item, solo>>

(* Wrong: a producer publishes without waiting for its turn. *)
WrongAddWait(p) ==
  /\ pc[p] = "wait"
  /\ Goto(p, "commit")
  /\ UNCHANGED <<counters, data, pos, item, solo>>

(* ffint_wait_until_equal(&q->wtail, wh) *)
AddWait(p) ==
  /\ pc[p] = "wait"
  /\ wtail = pos[p]
  /\ Goto(p, "commit")
  /\ UNCHANGED <<counters, data, pos, item, solo>>

(* Wrong: the tail is set to the old head instead of the new one. *)
WrongAddCommit(p) ==
  /\ pc[p] = "commit"
  /\ wtail' = pos[p]
  /\ Return(p)
  /\ UNCHANGED <<whead, rhead, rtail, data>>

(* The caller asks for the used count (`used` is not NULL) or does not. *)
AddCommit(p) ==
  /\ pc[p] = "commit"
  /\ wtail' = Incr(pos[p])
  /\ \/ Goto(p, "report") /\ UNCHANGED <<pos, item, solo>>
     \/ Return(p)
  /\ UNCHANGED <<whead, rhead, rtail, data>>

(* *used = wh - q->rtail *)
UsedAtAdd(p) == Dist(rtail, pos[p])

AddReport(p) ==
  /\ pc[p] = "report"
  /\ Return(p)
  /\ UNCHANGED <<counters, data>>

AddStep(p) ==
  \/ AddReadHead(p) \/ AddCheck(p) \/ AddClaim(p) \/ AddRetry(p)
  \/ AddStore(p) \/ AddWait(p) \/ AddCommit(p) \/ AddReport(p)

----------------------------------------------------------------------------
(* _ffrq_fetch() *)

FetchCall(c, sr) ==
  /\ pc[c] = "idle"
  /\ MayEnter(Consumers, c, sr)
  /\ solo' = [solo EXCEPT ![c] = sr]
  /\ Goto(c, "head")
  /\ UNCHANGED <<counters, data, pos, item>>

FetchReadHead(c) ==
  /\ pc[c] = "head"
  /\ pos' = [pos EXCEPT ![c] = rhead]
  /\ Goto(c, "check")
  /\ UNCHANGED <<counters, data, item, solo>>

(* used = q->wtail - rh *)
Used(c) == (wtail - pos[c]) % M

FetchCheck(c) ==
  /\ pc[c] = "check"
  /\ \/ Used(c) >= 1 /\ Goto(c, "claim") /\ UNCHANGED <<pos, item, solo>>
     \/ Used(c) < 1 /\ Return(c)
  /\ UNCHANGED <<counters, data>>

FetchClaim(c) ==
  /\ pc[c] = "claim"
  /\ solo[c] \/ rhead = pos[c]
  /\ NoLap(Consumers, rhead)
  /\ rhead' = Incr(pos[c])
  /\ Goto(c, "access")
  /\ UNCHANGED <<whead, wtail, rtail, data, pos, item, solo>>

FetchRetry(c) ==
  /\ pc[c] = "claim"
  /\ ~solo[c] /\ rhead # pos[c]
  /\ Goto(c, "head")
  /\ pos' = [pos EXCEPT ![c] = 0]
  /\ UNCHANGED <<counters, data, item, solo>>

FetchLoad(c) ==
  /\ pc[c] = "access"
  /\ item' = [item EXCEPT ![c] = data[Slot(pos[c])]]
  /\ Goto(c, IF solo[c] THEN "commit" ELSE "wait")
  /\ UNCHANGED <<counters, data, pos, solo>>

(* Wrong: a consumer releases without waiting for its turn. *)
WrongFetchWait(c) ==
  /\ pc[c] = "wait"
  /\ Goto(c, "commit")
  /\ UNCHANGED <<counters, data, pos, item, solo>>

(* ffint_wait_until_equal(&q->rtail, rh) *)
FetchWait(c) ==
  /\ pc[c] = "wait"
  /\ rtail = pos[c]
  /\ Goto(c, "commit")
  /\ UNCHANGED <<counters, data, pos, item, solo>>

FetchCommit(c) ==
  /\ pc[c] = "commit"
  /\ rtail' = Incr(pos[c])
  /\ \/ Goto(c, "report") /\ UNCHANGED <<pos, item, solo>>
     \/ Return(c)
  /\ UNCHANGED <<whead, wtail, rhead, data>>

(* *used_ptr = q->wtail - rh *)
UsedAtFetch(c) == Dist(pos[c], wtail)

FetchReport(c) ==
  /\ pc[c] = "report"
  /\ Return(c)
  /\ UNCHANGED <<counters, data>>

FetchStep(c) ==
  \/ FetchReadHead(c) \/ FetchCheck(c) \/ FetchClaim(c) \/ FetchRetry(c)
  \/ FetchLoad(c) \/ FetchWait(c) \/ FetchCommit(c) \/ FetchReport(c)

----------------------------------------------------------------------------

Next ==
  \/ \E p \in Producers : AddStep(p)
  \/ \E p \in Producers, v \in Items, sw \in BOOLEAN : AddCall(p, v, sw)
  \/ \E c \in Consumers : FetchStep(c)
  \/ \E c \in Consumers, sr \in BOOLEAN : FetchCall(c, sr)

Spec == Init /\ [][Next]_vars

(* A thread inside a call is scheduled again: the waits spin and yield     *)
(* (sched_yield), nothing in the queue blocks a thread.  Threads need not  *)
(* ever make a call.                                                       *)
Fairness ==
  /\ \A p \in Producers : WF_vars(AddStep(p))
  /\ \A c \in Consumers : WF_vars(FetchStep(c))

FairSpec == Spec /\ Fairness

----------------------------------------------------------------------------
(* Properties *)

Labels == {"idle", "head", "check", "claim", "access", "wait", "commit", "report"}

(* Every variable keeps its shape: counters and positions are counter      *)
(* values, slots and locals hold an item or nothing.                       *)
TypeOK ==
  /\ {whead, wtail, rhead, rtail} \subseteq 0..(M - 1)
  /\ data \in [0..(cap - 1) -> Items \cup {NoItem}]
  /\ pc \in [Threads -> Labels]
  /\ pos \in [Threads -> 0..(M - 1)]
  /\ item \in [Threads -> Items \cup {NoItem}]
  /\ solo \in [Threads -> BOOLEAN]

(* A thread owns the slot of its position from its claim until it commits. *)
Owning(t) == pc[t] \in {"access", "wait", "commit"}

(* The three regions of the ring lie in order and never take more than cap *)
(* slots together, also when the counters wrap and whatever stale tail a   *)
(* thread compared with (the comparisons of ringqueue.h:66 and :104).      *)
RegionsFit ==
  Dist(rtail, rhead) + Dist(rhead, wtail) + Dist(wtail, whead) <= cap

(* No two threads own the same slot, whatever their roles: nothing is      *)
(* overwritten before it is read, read before it is written, or handed to  *)
(* two consumers.  This is the absence of data races on q->data[].         *)
SlotsExclusive ==
  \A t, u \in Threads :
    t # u /\ Owning(t) /\ Owning(u) => Slot(pos[t]) # Slot(pos[u])

(* A producer or consumer that claimed a slot completes its call: no cycle *)
(* of threads waiting for each other's turn.                               *)
ClaimsComplete ==
  \A t \in Threads : pc[t] = "access" ~> pc[t] = "idle"

(* Lock-freedom: a call that never returns is starved by infinitely many   *)
(* successful claims of other threads of the same role; it never spins on  *)
(* its own compare-and-swap or on a turn that does not come.               *)
LockFree ==
  \A ts \in {Producers, Consumers} : \A t \in ts :
    (<>[](pc[t] # "idle")) => []<>(\E u \in ts \ {t} : pc[u] = "access")

(* "used: (optional) N of used elements before this operation"             *)
(* (ringqueue.h:136): the number of elements in a queue of cap slots.      *)
AddReportsACount ==
  \A p \in Producers : pc[p] = "report" => UsedAtAdd(p) <= cap

----------------------------------------------------------------------------
(* Refinement of BoundedFifo *)

(* The threads of ts that own the n positions from `from` up, in order. *)
OwnersFrom(ts, from, n) ==
  [i \in 1..n |-> CHOOSE t \in ts : Owning(t) /\ pos[t] = (from + i - 1) % M]

Offered == [p \in Producers |-> IF pc[p] = "report" THEN NoItem ELSE item[p]]

Published ==
  [i \in 1..Dist(rhead, wtail) |-> data[Slot((rhead + i - 1) % M)]]

Held ==
  [c \in Consumers |->
     IF pc[c] = "access" THEN data[Slot(pos[c])]
     ELSE IF pc[c] = "report" THEN NoItem ELSE item[c]]

Fetching == [c \in Consumers |-> pc[c] \notin {"idle", "report"}]

Fifo == INSTANCE BoundedFifo WITH
  Capacity <- cap,
  offer  <- Offered,
  claims <- OwnersFrom(Producers, wtail, Dist(wtail, whead)),
  queue  <- Published,
  wants  <- Fetching,
  takers <- OwnersFrom(Consumers, rtail, Dist(rtail, rhead)),
  got    <- Held

(* The ring implements the bounded queue: every item is delivered exactly  *)
(* once, in the order of the claims, and -1 is returned only when the      *)
(* queue is full (add) or has nothing published (fetch).                   *)
ImplementsFifo == Fifo!Spec
============================================================================
