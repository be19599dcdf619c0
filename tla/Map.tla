-------------------------------- MODULE Map --------------------------------
(***************************************************************************)
(* ffmap (ffbase/map.h): the hash table with open addressing, linear       *)
(* probing and removal by backward shifts.                                 *)
(*                                                                         *)
(* A slot holds a value or is free.  The hash an item carries is the hash  *)
(* of the key of its value.  One call runs at a time; only the loop of     *)
(* _ffmap_normalize() is modelled turn by turn.                            *)
(***************************************************************************)
EXTENDS Integers, FiniteSets

CONSTANTS
  Vals,        \* the user's values
  Keys,
  KeyOf,       \* KeyOf[v]: the key of value v
  Hashes,      \* the hash functions considered
  AllocSizes,  \* arguments of ffmap_alloc() and ffmap_grow()
  MaxCap,      \* bound: the largest table
  NULL         \* no value, a free slot

ASSUME MapAssumption ==
  /\ KeyOf \in [Vals -> Keys]
  /\ \A h \in Hashes : h \in [Keys -> Nat]
  /\ AllocSizes \subseteq Nat
  /\ NULL \notin Vals

VARIABLES
  hash,    \* the hash function of this table
  cap,     \* m->cap, 0 without a buffer
  data,    \* m->data
  len,     \* m->len
  rm,      \* the locals of a running _ffmap_normalize()
  answer   \* what the last call returned

vars == <<hash, cap, data, len, rm, answer>>

FFMAP_RESIZE_THRESHOLD == 75

(* The reply to a call; the argument is kept where the reply depends on it. *)
To(x, r) == [arg |-> x, ret |-> r]

Idle ==
  [running |-> FALSE, i |-> 0, end |-> 0, irm |-> 0, val |-> NULL, arg |-> NULL]

Init ==
  /\ hash \in Hashes
  /\ cap = 0 /\ data = <<>> /\ len = 0
  /\ rm = Idle
  /\ answer = To(NULL, "done")

----------------------------------------------------------------------------
(* Tables *)

TwoTo[k \in Nat] == IF k = 0 THEN 1 ELSE 2 * TwoTo[k - 1]

(* ffint_align_power2() *)
AlignPower2(n) ==
  CHOOSE p \in {TwoTo[k] : k \in 1..(n + 1)} : p >= n /\ (p = 2 \/ p < 2 * n)

EmptyTable(n) == [i \in 0..(n - 1) |-> NULL]

(* IDX_HASH() *)
Home(k, n) == hash[k] % n

(* The slot d places after slot i. *)
After(i, d, n) == (i + d) % n

(* The first free slot from slot i on: where a probe ends. *)
FirstFree(t, i, n) ==
  After(i, CHOOSE d \in 0..(n - 1) :
             /\ t[After(i, d, n)] = NULL
             /\ \A e \in 0..(d - 1) : t[After(i, e, n)] # NULL, n)

(* The occupied slots a probe for key k visits, in order. *)
Probe(k) ==
  LET i == Home(k, cap)
  IN  [d \in 1..((FirstFree(data, i, cap) - i) % cap) |-> After(i, d - 1, cap)]

(* _ffmap_add() *)
Place(t, n, v) == [t EXCEPT ![FirstFree(t, Home(KeyOf[v], n), n)] = v]

Occupied(t) == {i \in DOMAIN t : t[i] # NULL}

(* _ffmap_resize(): the elements are placed again, in the order of their   *)
(* slots; placed[i] is the new table after the first i slots.              *)
Rehashed(n) ==
  LET placed[i \in 0..cap] ==
        IF i = 0 THEN EmptyTable(n)
        ELSE IF data[i - 1] = NULL THEN placed[i - 1]
        ELSE Place(placed[i - 1], n, data[i - 1])
  IN  placed[cap]

----------------------------------------------------------------------------
(* Allocation.  Any of them may fail. *)

Reply(a) == answer' = a

SetTable(n, t, l) == cap' = n /\ data' = t /\ len' = l

(* ffmap_free() *)
Free ==
  /\ ~rm.running
  /\ SetTable(0, <<>>, 0)
  /\ Reply(To(NULL, "done"))
  /\ UNCHANGED <<hash, rm>>

(* ffmap_alloc(): the old elements are dropped first. *)
Alloc(n) ==
  /\ ~rm.running
  /\ \/ SetTable(AlignPower2(n), EmptyTable(AlignPower2(n)), 0) /\ Reply(To(NULL, "done"))
     \/ SetTable(0, <<>>, 0) /\ Reply(To(NULL, "no memory"))
  /\ UNCHANGED <<hash, rm>>

NoMemory == Reply(To(NULL, "no memory")) /\ UNCHANGED <<cap, data, len>>

(* ffmap_grow() *)
Grow(by) ==
  LET want == ((len + by) * 100) \div FFMAP_RESIZE_THRESHOLD + 1
      n == AlignPower2(want)
  IN  /\ ~rm.running
      /\ n <= MaxCap
      /\ \/ want > cap /\ SetTable(n, Rehashed(n), len) /\ Reply(To(NULL, "done"))
         \/ want > cap /\ NoMemory
         \/ want <= cap /\ Reply(To(NULL, "done")) /\ UNCHANGED <<cap, data, len>>
      /\ UNCHANGED <<hash, rm>>

(* Definitions "Wrong..." are what a plausible slip would have made of the *)
(* definition below them; no specification uses them.                      *)

(* Wrong: the element to add is not counted, and the table may fill up. *)
WrongCrowded == (len * 100) \div cap > FFMAP_RESIZE_THRESHOLD

Crowded == ((len + 1) * 100) \div cap > FFMAP_RESIZE_THRESHOLD

(* ffmap_add(), ffmap_add_hash() *)
Add(v) ==
  /\ ~rm.running
  /\ \A i \in DOMAIN data : data[i] # v
  /\ \/ /\ cap = 0
        /\ \/ SetTable(16, Place(EmptyTable(16), 16, v), 1) /\ Reply(To(NULL, "added"))
           \/ NoMemory
     \/ /\ cap # 0 /\ Crowded /\ cap * 2 <= MaxCap
        /\ \/ SetTable(cap * 2, Place(Rehashed(cap * 2), cap * 2, v), len + 1)
              /\ Reply(To(NULL, "added"))
           \/ NoMemory
     \/ /\ cap # 0 /\ ~Crowded
        /\ SetTable(cap, Place(data, cap, v), len + 1) /\ Reply(To(NULL, "added"))
  /\ UNCHANGED <<hash, rm>>

----------------------------------------------------------------------------
(* Removal *)

(* Wrong: the hash is compared and the key is not. *)
WrongHaving(k) == {v \in Vals : hash[KeyOf[v]] = hash[k]}

Having(k) == {v \in Vals : KeyOf[v] = k}

(* The slots of a probe for key k that hold a value of vs, by distance.    *)
(* Nothing is probed in an empty map.                                      *)
Matches(k, vs) ==
  IF len = 0 THEN {} ELSE {d \in DOMAIN Probe(k) : data[Probe(k)[d]] \in vs}

FirstMatch(k, vs) ==
  Probe(k)[CHOOSE d \in Matches(k, vs) : \A e \in Matches(k, vs) : d <= e]

(* The search goes on to the end of the chunk after it met the match. *)
RemoveOneOf(x, k, vs) ==
  /\ ~rm.running
  /\ \/ /\ Matches(k, vs) = {}
        /\ Reply(To(x, "not found"))
        /\ UNCHANGED rm
     \/ /\ Matches(k, vs) # {}
        /\ LET end == FirstFree(data, Home(k, cap), cap)
           IN  rm' = [running |-> TRUE, i |-> end, end |-> end,
                      irm |-> FirstMatch(k, vs), val |-> data[FirstMatch(k, vs)],
                      arg |-> x]
        /\ UNCHANGED answer
  /\ UNCHANGED <<hash, cap, data, len>>

(* ffmap_rm(), by key; ffmap_rm_hash(), by value *)
RemoveKey(k) == RemoveOneOf(k, k, Having(k))
RemoveVal(v) == RemoveOneOf(v, KeyOf[v], {v})

(* Wrong: an element at home in the slot of the hole stays behind. *)
WrongMayMove(i) ==
  LET begin == (rm.end + 1) % cap
  IN  (Home(KeyOf[data[i]], cap) - begin) % cap < (rm.irm - begin) % cap

(* The element of slot i may fill the hole: its home, counted from the end *)
(* of the chunk, is not after the hole.                                    *)
MayMove(i) ==
  LET begin == (rm.end + 1) % cap
  IN  (Home(KeyOf[data[i]], cap) - begin) % cap <= (rm.irm - begin) % cap

Previous == (rm.i - 1) % cap

(* _ffmap_normalize(), one turn of its loop *)
NormalizeSkip ==
  /\ rm.running
  /\ Previous # rm.irm /\ ~MayMove(Previous)
  /\ rm' = [rm EXCEPT !.i = Previous]
  /\ UNCHANGED <<hash, cap, data, len, answer>>

(* Wrong: the hole stays where it was. *)
WrongNormalizeMove ==
  /\ rm.running
  /\ Previous # rm.irm /\ MayMove(Previous)
  /\ data' = [data EXCEPT ![rm.irm] = data[Previous]]
  /\ rm' = [rm EXCEPT !.i = rm.end]
  /\ UNCHANGED <<hash, cap, len, answer>>

NormalizeMove ==
  /\ rm.running
  /\ Previous # rm.irm /\ MayMove(Previous)
  /\ data' = [data EXCEPT ![rm.irm] = data[Previous]]
  /\ rm' = [rm EXCEPT !.irm = Previous, !.i = rm.end]
  /\ UNCHANGED <<hash, cap, len, answer>>

(* Wrong: the element is not counted out. *)
WrongNormalizeEnd ==
  /\ rm.running
  /\ Previous = rm.irm
  /\ data' = [data EXCEPT ![rm.irm] = NULL]
  /\ rm' = Idle
  /\ Reply(To(rm.arg, "removed"))
  /\ UNCHANGED <<hash, cap, len>>

NormalizeEnd ==
  /\ rm.running
  /\ Previous = rm.irm
  /\ data' = [data EXCEPT ![rm.irm] = NULL]
  /\ len' = len - 1
  /\ rm' = Idle
  /\ Reply(To(rm.arg, "removed"))
  /\ UNCHANGED <<hash, cap>>

----------------------------------------------------------------------------

(* ffmap_find() *)
Find(k) ==
  /\ ~rm.running
  /\ \/ Matches(k, Having(k)) = {} /\ Reply(To(k, NULL))
     \/ Matches(k, Having(k)) # {} /\ Reply(To(k, data[FirstMatch(k, Having(k))]))
  /\ UNCHANGED <<hash, cap, data, len, rm>>

Normalize == NormalizeSkip \/ NormalizeMove \/ NormalizeEnd

Next ==
  \/ Free
  \/ \E n \in AllocSizes : Alloc(n) \/ Grow(n)
  \/ \E v \in Vals : Add(v) \/ RemoveVal(v)
  \/ \E k \in Keys : RemoveKey(k) \/ Find(k)
  \/ Normalize

Spec == Init /\ [][Next]_vars

FairSpec == Spec /\ WF_vars(Normalize)
----------------------------------------------------------------------------
(* Properties *)

(* The table has the size the map says and holds values or nothing. *)
TypeOK ==
  /\ hash \in Hashes
  /\ cap = 0 \/ cap = AlignPower2(cap)
  /\ data \in [0..(cap - 1) -> Vals \cup {NULL}]
  /\ len \in 0..cap
  /\ answer.arg \in Keys \cup Vals \cup {NULL}

(* An element is found from its home: no slot between the two is free,     *)
(* whatever was added, moved by a resize or shifted by a removal before.   *)
NoHoles ==
  ~rm.running =>
    \A i \in Occupied(data) :
      LET home == Home(KeyOf[data[i]], cap)
      IN  \A d \in 0..((i - home) % cap) : data[After(home, d, cap)] # NULL

(* There is always a free slot, so every probe ends, the search of a       *)
(* removal never gives up on a full circle (map.h:255) and the assertion   *)
(* of map.h:122 holds.                                                     *)
ProbesEnd == cap # 0 => Cardinality(Occupied(data)) < cap

(* m->len counts the elements, each of them in one slot of the table.     *)
LenCounts ==
  /\ TypeOK
  /\ ~rm.running =>
       /\ len = Cardinality(Occupied(data))
       /\ \A i, j \in Occupied(data) : data[i] = data[j] => i = j

(* A removal ends: the loop that restarts at the end of the chunk after    *)
(* every move does not go round for ever.                                  *)
RemovalsEnd == rm.running ~> ~rm.running

Bag == INSTANCE KeyedBag WITH
  members <- {data[i] : i \in Occupied(data)} \cup (IF rm.running THEN {rm.val} ELSE {})

(* The table implements the collection: a search finds an element with the *)
(* key if and only if there is one, a removal takes out one such element   *)
(* and no other, and a call that runs out of memory loses nothing, except  *)
(* in ffmap_alloc(), which drops the elements first.                       *)
ImplementsBag == Bag!Spec
============================================================================
