-------------------------------- MODULE Ring --------------------------------
(***************************************************************************)
(* ffring (ffbase/ring.h): the fixed-size lockless ring buffer of bytes,   *)
(* at the granularity of its accesses to shared memory.                    *)
(*                                                                         *)
(* A call reserves a region of the stream of bytes (ffring_*_begin), the   *)
(* caller fills or reads the region, and a second call publishes it or     *)
(* gives it back (ffring_*_finish), in the order of the reservations.  Any *)
(* thread may write or read.                                               *)
(*                                                                         *)
(* The bytes themselves are abstracted to the position of the stream they  *)
(* were written for: a writer that fills position i stores i, so a reader  *)
(* that locks position i must find i there.                                *)
(***************************************************************************)
EXTENDS Integers

CONSTANTS
  Threads,     \* the threads that use the buffer
  cap,         \* its size in bytes (b->cap)
  M,           \* number of values of a counter (2^64 for ffsize)
  Requests,    \* the calls that are made: operation, mode and size
  FinishEmpty  \* callers also finish an empty reservation, whatever the flags

WriteModes == {"MAX1", "EXACT"}
ReadModes == {"MIN", "EXACT", "MAX", "MAX1"}

NoCall == [op |-> "none", how |-> "EXACT", size |-> 0]
Calls ==
  [op : {"write"}, how : WriteModes, size : 0..(M - 1)]
    \cup [op : {"read"}, how : ReadModes, size : 0..(M - 1)]
    \cup {[op |-> "discard", how |-> "EXACT", size |-> cap]}

ASSUME RingAssumption ==
  /\ cap \in Nat /\ cap >= 2
  /\ M \in Nat /\ \E k \in 3..M : M = k * cap
  /\ Requests \subseteq Calls
  /\ FinishEmpty \in BOOLEAN

VARIABLES
  flags,                       \* b->flags
  whead, wtail, rhead, rtail,  \* the counters of the buffer
  data,                        \* data[i]: byte i
  pc,                          \* pc[t]: the next step of thread t
  call,                        \* call[t]: the operation it runs, its mode, its size
  n,                           \* n[t]: the size the call is after, adjusted on each try
  old, nu                      \* the thread's ffring_head

vars == <<flags, whead, wtail, rhead, rtail, data, pc, call, n, old, nu>>
counters == <<whead, wtail, rhead, rtail>>

Add(x, k) == (x + k) % M
Dist(a, b) == (b - a) % M
Slot(x) == x % cap

Writing(t) == call[t].op = "write"
Reading(t) == call[t].op \in {"read", "discard"}

(* b->flags & FFRING_1_WRITER, FFRING_1_READER *)
Alone(op) == IF op = "write" THEN "1_WRITER" \in flags ELSE "1_READER" \in flags
Solo(t) == Alone(call[t].op)

(* The counters a call works on: its own head and tail, and the tail it    *)
(* compares with.                                                          *)
MyHead(t) == IF Writing(t) THEN whead ELSE rhead
MyTail(t) == IF Writing(t) THEN wtail ELSE rtail

SetHead(t, v) ==
  IF Writing(t) THEN whead' = v /\ UNCHANGED rhead ELSE rhead' = v /\ UNCHANGED whead
SetTail(t, v) ==
  IF Writing(t) THEN wtail' = v /\ UNCHANGED rtail ELSE rtail' = v /\ UNCHANGED wtail

(***************************************************************************)
(* Bound.  A thread that has read a head counter and not yet used it is    *)
(* overtaken by at most M - cap - 1 bytes (2^64 - cap - 1 in the program). *)
(***************************************************************************)
MaxLag == M - cap - 1
NoLap(t, k) ==
  \A u \in Threads \ {t} :
    pc[u] \in {"check", "claim"} /\ Writing(u) = Writing(t) =>
      Dist(old[u], MyHead(t)) + k <= MaxLag

(***************************************************************************)
(* ffring_alloc(): the memory of the buffer is not initialised; -1 stands  *)
(* for whatever is there.                                                  *)
(***************************************************************************)
Init ==
  /\ flags \in SUBSET {"1_READER", "1_WRITER"}
  /\ whead = 0 /\ wtail = 0 /\ rhead = 0 /\ rtail = 0
  /\ data = [i \in 0..(cap - 1) |-> -1]
  /\ pc = [t \in Threads |-> "idle"]
  /\ call = [t \in Threads |-> NoCall]
  /\ n = [t \in Threads |-> 0]
  /\ old = [t \in Threads |-> 0]
  /\ nu = [t \in Threads |-> 0]

Goto(t, label) == pc' = [pc EXCEPT ![t] = label]

(* Another turn of the loop: only n survives. *)
ReadAgain(t) ==
  /\ Goto(t, "head")
  /\ old' = [old EXCEPT ![t] = 0]
  /\ nu' = [nu EXCEPT ![t] = 0]

Return(t) ==
  /\ Goto(t, "idle")
  /\ call' = [call EXCEPT ![t] = NoCall]
  /\ n' = [n EXCEPT ![t] = 0]
  /\ old' = [old EXCEPT ![t] = 0]
  /\ nu' = [nu EXCEPT ![t] = 0]

----------------------------------------------------------------------------
(* _ffring_write_x_begin(), _ffring_read_x_begin() *)

(* With FFRING_1_WRITER (FFRING_1_READER) the caller lets one thread write *)
(* (read) at a time.  A call touches nothing shared before its first read  *)
(* of the head, so the two are one step.                                   *)
Begin(t, c) ==
  /\ pc[t] = "idle"
  /\ Alone(c.op) =>
       \A u \in Threads : pc[u] # "idle" => (call[u].op = "write") # (c.op = "write")
  /\ call' = [call EXCEPT ![t] = c]
  /\ n' = [n EXCEPT ![t] = c.size]
  /\ old' = [old EXCEPT ![t] = IF c.op = "write" THEN whead ELSE rhead]
  /\ Goto(t, "check")
  /\ UNCHANGED <<flags, counters, data, nu>>

ReadHead(t) ==
  /\ pc[t] = "head"
  /\ old' = [old EXCEPT ![t] = MyHead(t)]
  /\ Goto(t, "check")
  /\ UNCHANGED <<flags, counters, data, call, n, nu>>

(* Definitions "Wrong..." are what a plausible slip would have made of the *)
(* definition below them; no specification uses them.                      *)

(* Wrong: bytes that are still being read count as free. *)
WrongRoom(t) ==
  IF Writing(t) THEN (cap + rhead - old[t]) % M ELSE (wtail - old[t]) % M

(* _free = b->cap + b->rtail - wh.old    _used = b->wtail - rh.old *)
Room(t) == IF Writing(t) THEN (cap + rtail - old[t]) % M ELSE (wtail - old[t]) % M

Least(S) == CHOOSE x \in S : \A y \in S : x <= y

(* switch (how) *)
Adjusted(t) ==
  CASE call[t].how = "EXACT" -> n[t]
    [] call[t].how = "MIN"   -> IF n[t] < Room(t) THEN Room(t) ELSE n[t]
    [] call[t].how = "MAX"   -> Least({n[t], Room(t)})
    [] call[t].how = "MAX1"  -> Least({n[t], Room(t), cap - Slot(old[t])})

(* Wrong: the last byte is never used. *)
WrongFits(t) == Adjusted(t) < Room(t) /\ Adjusted(t) # 0

Fits(t) == Adjusted(t) <= Room(t) /\ Adjusted(t) # 0

CheckRoom(t) ==
  /\ pc[t] = "check"
  /\ Fits(t)
  /\ n' = [n EXCEPT ![t] = Adjusted(t)]
  /\ nu' = [nu EXCEPT ![t] = Add(old[t], Adjusted(t))]
  /\ Goto(t, "claim")
  /\ UNCHANGED <<flags, counters, data, call, old>>

(* The call returns an empty region whose head is wh.nu = wh.old.  Its     *)
(* caller gives up, as ffring_write() does, or finishes the empty region,  *)
(* as test/ring.c:221 does; with several writers or readers only if        *)
(* FinishEmpty.                                                            *)
CheckEmpty(t) ==
  /\ pc[t] = "check"
  /\ ~Fits(t)
  /\ call[t].op # "discard"
  /\ \/ Return(t)
     \/ /\ FinishEmpty \/ Solo(t)
        /\ Goto(t, "finish")
        /\ call' = [call EXCEPT ![t] = [NoCall EXCEPT !.op = call[t].op]]
        /\ n' = [n EXCEPT ![t] = 0]
        /\ nu' = [nu EXCEPT ![t] = old[t]]
        /\ UNCHANGED old
  /\ UNCHANGED <<flags, counters, data>>

(* ffring_read_discard() tries again with the size it was told, unless     *)
(* that is 0.                                                              *)
DiscardAgain(t) ==
  /\ pc[t] = "check"
  /\ ~Fits(t)
  /\ call[t].op = "discard"
  /\ \/ /\ Room(t) # 0
        /\ ReadAgain(t)
        /\ n' = [n EXCEPT ![t] = Room(t)]
        /\ UNCHANGED call
     \/ Room(t) = 0 /\ Return(t)
  /\ UNCHANGED <<flags, counters, data>>

(* From here on the mode and the size are dead: the region is in wh. *)
Claim(t) ==
  /\ pc[t] = "claim"
  /\ Solo(t) \/ MyHead(t) = old[t]
  /\ NoLap(t, n[t])
  /\ SetHead(t, nu[t])
  /\ Goto(t, IF call[t].op = "discard" THEN "finish" ELSE "hold")
  /\ call' = [call EXCEPT ![t] = [NoCall EXCEPT !.op = call[t].op]]
  /\ n' = [n EXCEPT ![t] = 0]
  /\ UNCHANGED <<flags, wtail, rtail, data, old, nu>>

Retry(t) ==
  /\ pc[t] = "claim"
  /\ ~Solo(t) /\ MyHead(t) # old[t]
  /\ ReadAgain(t)
  /\ UNCHANGED <<flags, counters, data, call, n>>

----------------------------------------------------------------------------
(* The caller, then ffring_write_finish(), ffring_read_finish_status() *)

(* The positions thread t has reserved. *)
Region(t) == {Add(old[t], k) : k \in 0..(Dist(old[t], nu[t]) - 1)}

(* Wrong: only the part before the end of the buffer is copied. *)
WrongFill(t) ==
  /\ pc[t] = "hold" /\ Writing(t)
  /\ data' = [i \in DOMAIN data |->
                IF i >= Slot(old[t]) /\ \E x \in Region(t) : Slot(x) = i
                THEN CHOOSE x \in Region(t) : Slot(x) = i
                ELSE data[i]]
  /\ Goto(t, "finish")
  /\ UNCHANGED <<flags, counters, call, n, old, nu>>

(* ffmem_copy() of the caller's bytes into d1 and d2 *)
Fill(t) ==
  /\ pc[t] = "hold" /\ Writing(t)
  /\ data' = [i \in DOMAIN data |->
                IF \E x \in Region(t) : Slot(x) = i
                THEN CHOOSE x \in Region(t) : Slot(x) = i
                ELSE data[i]]
  /\ Goto(t, "finish")
  /\ UNCHANGED <<flags, counters, call, n, old, nu>>

(* The caller is done with the bytes it locked. *)
Consume(t) ==
  /\ pc[t] = "hold" /\ Reading(t)
  /\ Goto(t, "finish")
  /\ UNCHANGED <<flags, counters, data, call, n, old, nu>>

(* Wrong: a region is finished without waiting for its turn. *)
WrongWait(t) ==
  /\ pc[t] = "finish"
  /\ Goto(t, "commit")
  /\ UNCHANGED <<flags, counters, data, call, n, old, nu>>

(* ffintz_wait_until_equal() unless the flag says there is nobody else *)
Wait(t) ==
  /\ pc[t] = "finish"
  /\ Solo(t) \/ MyTail(t) = old[t]
  /\ Goto(t, "commit")
  /\ UNCHANGED <<flags, counters, data, call, n, old, nu>>

(* The optional read of the other side's tail that follows changes nothing. *)
Commit(t) ==
  /\ pc[t] = "commit"
  /\ SetTail(t, nu[t])
  /\ Return(t)
  /\ UNCHANGED <<flags, whead, rhead, data>>

(* ffring_reset(), by a caller that knows nobody uses the buffer.  The     *)
(* bytes stay, but they are of no position of the stream that starts.      *)
Reset ==
  /\ \A t \in Threads : pc[t] = "idle"
  /\ whead # 0
  /\ whead' = 0 /\ wtail' = 0 /\ rhead' = 0 /\ rtail' = 0
  /\ data' = [i \in 0..(cap - 1) |-> -1]
  /\ UNCHANGED <<flags, pc, call, n, old, nu>>

----------------------------------------------------------------------------

Step(t) ==
  \/ ReadHead(t) \/ CheckRoom(t) \/ CheckEmpty(t) \/ DiscardAgain(t)
  \/ Claim(t) \/ Retry(t)
  \/ Fill(t) \/ Consume(t) \/ Wait(t) \/ Commit(t)

Next ==
  \/ \E t \in Threads : Step(t)
  \/ \E t \in Threads : \E c \in Requests : Begin(t, c)
  \/ Reset

Spec == Init /\ [][Next]_vars

----------------------------------------------------------------------------
(* Properties *)

Labels == {"idle", "head", "check", "claim", "hold", "finish", "commit"}

(* Counters, heads and sizes are values of one width, bytes are positions  *)
(* or garbage.                                                             *)
TypeOK ==
  /\ flags \subseteq {"1_READER", "1_WRITER"}
  /\ {whead, wtail, rhead, rtail} \subseteq 0..(M - 1)
  /\ data \in [0..(cap - 1) -> -1..(M - 1)]
  /\ pc \in [Threads -> Labels]
  /\ call \in [Threads -> [op : {"none", "write", "read", "discard"}, how : ReadModes,
                           size : 0..(M - 1)]]
  /\ n \in [Threads -> 0..(M - 1)]
  /\ old \in [Threads -> 0..(M - 1)]
  /\ nu \in [Threads -> 0..(M - 1)]

(* Reserved, published and locked bytes lie in order and fit the buffer,   *)
(* whatever stale tail a reservation was computed from (ring.h:98, :227).  *)
RegionsFit ==
  /\ TypeOK
  /\ Dist(rtail, rhead) + Dist(rhead, wtail) + Dist(wtail, whead) <= cap

Owning(t) == pc[t] \in {"hold", "finish", "commit"}
OwnSlots(t) == {Slot(x) : x \in Region(t)}

(* Two threads never own the same byte of the buffer, writers and readers  *)
(* taken together: no data race on b->data[].                              *)
RegionsExclusive ==
  \A t, u \in Threads :
    t # u /\ Owning(t) /\ Owning(u) => OwnSlots(t) \cap OwnSlots(u) = {}

(* A reader finds in the region it locked the bytes that were written for  *)
(* these positions of the stream, for as long as it holds the region: the  *)
(* stream is delivered in order, without loss, duplication or garbage.     *)
ReadersSeeTheStream ==
  \A t \in Threads :
    pc[t] = "hold" /\ Reading(t) => \A x \in Region(t) : data[Slot(x)] = x

(* What is really free and really there. *)
FreeNow == cap - Dist(rtail, whead)
UsedNow == Dist(rhead, wtail)
AvailableTo(t) == IF Writing(t) THEN FreeNow ELSE UsedNow

EndsEmpty(t) ==
  /\ pc[t] = "check"
  /\ pc'[t] \in {"finish", "idle"}

(* An empty region is returned only if at that moment less is available    *)
(* than an exact call asked for, or nothing at all for the other modes,    *)
(* although the call compares with a head it read earlier.  A call for no  *)
(* byte is always empty; the minimum mode is the subject of                *)
(* MinReadsAreServed.                                                      *)
EmptyIsJustified ==
  [][\A t \in Threads :
       EndsEmpty(t) /\ call[t].size # 0 =>
         /\ call[t].op = "discard" => UsedNow = 0
         /\ call[t].op # "discard" /\ call[t].how = "EXACT" =>
              AvailableTo(t) < call[t].size
         /\ call[t].how \in {"MAX", "MAX1"} => AvailableTo(t) = 0]_vars

(* "Lock data region of minimum 'n' bytes" (ring.h:292), "Not enough data" *)
(* (ring.h:249): a minimum read is refused only when fewer bytes are there *)
(* than its caller asked for.                                              *)
MinReadsAreServed ==
  [][\A t \in Threads :
       EndsEmpty(t) /\ call[t].how = "MIN" => UsedNow < call[t].size]_vars

(* Published bytes stay published until a reader takes them, and released  *)
(* ones stay released: the tails never move back, also when an empty       *)
(* reservation is finished ("allow ffring_write_finish()", ring.h:113).    *)
TailsNeverMoveBack ==
  [][\/ Reset
     \/ /\ Dist(wtail, wtail') <= Dist(wtail, whead)
        /\ Dist(rtail, rtail') <= Dist(rtail, rhead)]_vars
============================================================================
