-------------------------------- MODULE Vec --------------------------------
(***************************************************************************)
(* ffvec (ffbase/vector.h) and ffslice (ffbase/slice.h): a growable array  *)
(* that owns its buffer (cap # 0), refers to data it does not own (cap =   *)
(* 0), or has none.  An ffslice is the same without cap: its caller keeps  *)
(* the capacity, here in the same field.                                   *)
(*                                                                         *)
(* Any allocation may fail.  The caller writes an element it has pushed,   *)
(* removes and moves only in a buffer that is its own, and may take the    *)
(* buffer over (ffvec_null) and give it back (ffvec_set3).                 *)
(***************************************************************************)
EXTENDS Naturals, Sequences

CONSTANTS
  VecValues,  \* elements
  VecStatic,  \* the data that a vector may refer to
  VecMaxLen,  \* bound: elements added to a vector
  VecMaxCap   \* bound: elements asked for

ASSUME VecAssumption == VecStatic \in Seq(VecValues)

VARIABLES
  vec,     \* struct ffvec; ptr is <<block, offset>>
  mem,     \* blocks of memory that are not free
  taken,   \* a vector whose buffer the caller has taken over
  stored    \* what has been stored, by the contract of the operations

vecVars == <<vec, mem, taken, stored>>

Null == <<"null", 0>>
Empty == [ptr |-> Null, len |-> 0, cap |-> 0]

VecInit ==
  /\ vec = Empty /\ taken = Empty
  /\ mem = [b \in {"static"} |-> VecStatic]
  /\ stored = <<>>

----------------------------------------------------------------------------
(* A call computes on s, the vector and the memory.                        *)

S == [v |-> vec, m |-> mem, ok |-> TRUE]

MemBlocks == {"a", "b", "c"}
Unset == 0

(* ffmem_alloc(), ffmem_realloc(): a fresh block that begins with data. *)
Fresh(m, n, data) ==
  LET b == CHOOSE b \in MemBlocks : b \notin DOMAIN m
      cells == [i \in 1..n |-> IF i \in DOMAIN data THEN data[i] ELSE Unset]
  IN  [ptr |-> <<b, 0>>, m |-> [c \in DOMAIN m \cup {b} |-> IF c = b THEN cells ELSE m[c]]]

Release(m, b) == [c \in DOMAIN m \ {b} |-> m[c]]
Block(s) == s.v.ptr[1]
Cells(s) == IF s.v.ptr = Null THEN <<>> ELSE SubSeq(s.m[Block(s)], s.v.ptr[2] + 1, s.v.ptr[2] + s.v.len)
AtLeast1(n) == IF n = 0 THEN 1 ELSE n
Smaller(a, b) == IF a < b THEN a ELSE b
Larger(a, b) == IF a > b THEN a ELSE b

(* memmove(dst, data) in the buffer of the vector. *)
Store(s, dst, data) ==
  [s EXCEPT !.m[Block(s)] = [i \in DOMAIN @ |->
     IF i - s.v.ptr[2] - dst \in DOMAIN data THEN data[i - s.v.ptr[2] - dst] ELSE @[i]]]

(* ffvec_free(), ffslice_free() *)
FreeBuffer(s) ==
  [s EXCEPT !.v = Empty, !.m = IF s.v.cap # 0 THEN Release(@, Block(s)) ELSE @]

(* ffvec_alloc(), ffvec_zalloc() *)
Alloc(s, n, memory) ==
  LET e == FreeBuffer(s)
      f == Fresh(e.m, AtLeast1(n), <<>>)
  IN  IF ~memory THEN [e EXCEPT !.ok = FALSE]
      ELSE [e EXCEPT !.v = [ptr |-> f.ptr, len |-> 0, cap |-> AtLeast1(n)], !.m = f.m]

(* Definitions "Wrong..." are what a plausible slip would have made of the *)
(* definition below them; no specification uses them.                      *)

(* Wrong: an empty vector's buffer is not freed before a larger one is     *)
(* allocated.                                                              *)
WrongVecRealloc(s, n, memory) ==
  LET e == IF s.v.cap # 0 /\ s.v.len = 0 THEN [s EXCEPT !.v = Empty] ELSE s
      f == Fresh(e.m, AtLeast1(n), IF e.v.cap # 0 THEN e.m[Block(e)] ELSE Cells(e))
  IN  IF s.v.cap # 0 /\ n <= s.v.cap THEN [s EXCEPT !.v.len = Smaller(@, n)]
      ELSE IF ~memory THEN [e EXCEPT !.ok = FALSE]
      ELSE [e EXCEPT !.v = [ptr |-> f.ptr, len |-> Smaller(@.len, n), cap |-> AtLeast1(n)],
                     !.m = IF e.v.cap # 0 THEN Release(f.m, Block(e)) ELSE f.m]

(* ffvec_realloc(): shrinks the length, never the buffer; an empty buffer  *)
(* goes before a larger one is allocated; data of others is copied.        *)
VecRealloc(s, n, memory) ==
  LET e == IF s.v.cap # 0 /\ s.v.len = 0 THEN FreeBuffer(s) ELSE s
      f == Fresh(e.m, AtLeast1(n), IF e.v.cap # 0 THEN e.m[Block(e)] ELSE Cells(e))
  IN  IF s.v.cap # 0 /\ n <= s.v.cap THEN [s EXCEPT !.v.len = Smaller(@, n)]
      ELSE IF ~memory THEN [e EXCEPT !.ok = FALSE]
      ELSE [e EXCEPT !.v = [ptr |-> f.ptr, len |-> Smaller(@.len, n), cap |-> AtLeast1(n)],
                     !.m = IF e.v.cap # 0 THEN Release(f.m, Block(e)) ELSE f.m]

(* ffvec_growhalf(), ffvec_growtwice(): by at least a half, or the whole. *)
Grow(s, by, part, memory) ==
  IF s.v.len + by <= s.v.cap THEN [s EXCEPT !.ok = s.v.ptr # Null]
  ELSE VecRealloc(s, s.v.len + Larger(by, s.v.len \div part), memory)

(* ffvec_push(), ffvec_add(), ffvec_insert() *)
Insert(s, off, data, memory) ==
  LET g == Grow(s, Len(data), 2, memory)
      rest == SubSeq(Cells(g), off + 1, g.v.len)
  IN  IF ~g.ok THEN g
      ELSE [Store(Store(g, off + Len(data), rest), off, data) EXCEPT !.v.len = @ + Len(data)]

(* ffvec_catchar(), ffslice_push(), ffslice_add(): what there is room for. *)
CatFast(s, data) ==
  LET fits == SubSeq(data, 1, Smaller(Len(data), s.v.cap - s.v.len))
  IN  [Store(s, s.v.len, fits) EXCEPT !.v.len = @ + Len(fits)]

(* ffslice_rm() *)
Rm(s, i, n) ==
  [Store(s, i, SubSeq(Cells(s), i + n + 1, s.v.len)) EXCEPT !.v.len = @ - n]

(* ffslice_rmswap() *)
RmSwap(s, i, n) ==
  LET off == Larger(s.v.len - n, i + n)
  IN  [Store(s, i, SubSeq(Cells(s), off + 1, s.v.len)) EXCEPT !.v.len = @ - n]

(* ffslice_move() *)
Move(s, from, to, n) == Store(s, to, SubSeq(Cells(s), from + 1, from + n))

(* ffslice_alloc(), ffslice_dup() *)
Dup(s, n, data, memory) ==
  LET f == Fresh(s.m, n, data)
  IN  IF ~memory THEN [s EXCEPT !.ok = FALSE]
      ELSE [s EXCEPT !.v = [ptr |-> f.ptr, len |-> Len(data), cap |-> n], !.m = f.m]

(* ffslice_realloc() *)
Resize(s, n, memory) ==
  LET old == IF s.v.cap # 0 THEN s.m[Block(s)] ELSE <<>>
      f == Fresh(s.m, n, old)
  IN  IF ~memory THEN [s EXCEPT !.ok = FALSE]
      ELSE [s EXCEPT !.v = [ptr |-> f.ptr, len |-> Smaller(@.len, n), cap |-> n],
                     !.m = IF s.v.cap # 0 THEN Release(f.m, Block(s)) ELSE f.m]

----------------------------------------------------------------------------
(* The calls.  its is what the contract says of the contents after a call  *)
(* that succeeds; one that fails leaves them.                              *)

Return(t, its) ==
  /\ vec' = t.v /\ mem' = t.m
  /\ stored' = IF t.ok THEN its ELSE stored
  /\ UNCHANGED taken

CutTo(n) == SubSeq(stored, 1, Smaller(n, Len(stored)))
Datas == {<<>>} \cup {<<a>> : a \in VecValues} \cup {<<a, b>> : a, b \in VecValues}
Owned == vec.cap # 0

(* ffvec_alloc() frees first: the contents go even when it fails. *)
Allocate(n) == \E memory \in BOOLEAN :
  LET t == Alloc(S, n, memory) IN
  /\ vec' = t.v /\ mem' = t.m /\ stored' = <<>>
  /\ UNCHANGED taken

Clear == Return(FreeBuffer(S), <<>>)

SetStatic(off, n) ==
  Return([FreeBuffer(S) EXCEPT !.v = [ptr |-> <<"static", off>>, len |-> n, cap |-> 0]],
         SubSeq(VecStatic, off + 1, off + n))

(* ffvec_shift(): asserts that the data is not the vector's. *)
Shift(by) ==
  /\ ~Owned /\ by <= vec.len /\ vec.len # 0
  /\ Return([S EXCEPT !.v = [ptr |-> <<@.ptr[1], @.ptr[2] + by>>, len |-> @.len - by, cap |-> 0]], SubSeq(stored, by + 1, Len(stored)))

(* ffvec_null() by a caller that has kept the buffer. *)
TakeOver ==
  /\ Owned /\ taken = Empty
  /\ vec' = Empty /\ taken' = vec /\ stored' = <<>>
  /\ UNCHANGED mem

(* ffvec_set3() with a buffer that the caller gives. *)
GiveBack ==
  /\ taken # Empty
  /\ LET t == FreeBuffer(S) IN
       /\ mem' = t.m
       /\ stored' = SubSeq(mem[taken.ptr[1]], 1, taken.len)
  /\ vec' = taken /\ taken' = Empty

Reallocate(n) == \E memory \in BOOLEAN : Return(VecRealloc(S, n, memory), CutTo(n))
GrowBy(by, part) == \E memory \in BOOLEAN :
  vec.len + Larger(by, vec.len \div part) <= VecMaxCap /\ Return(Grow(S, by, part, memory), stored)

InsertAll(off, data) == \E memory \in BOOLEAN :
  /\ off <= vec.len /\ vec.len + Len(data) <= VecMaxLen
  /\ Return(Insert(S, off, data, memory), SubSeq(stored, 1, off) \o data \o SubSeq(stored, off + 1, Len(stored)))

AppendFast(data) ==
  /\ Owned
  /\ Return(CatFast(S, data), CutTo(Len(stored)) \o SubSeq(data, 1, Smaller(Len(data), vec.cap - vec.len)))

Holes == {h \in (0..VecMaxCap) \X (1..VecMaxCap) : h[1] + h[2] <= vec.len}

RmAll(i, n) ==
  Owned /\ Return(Rm(S, i, n), SubSeq(stored, 1, i) \o SubSeq(stored, i + n + 1, Len(stored)))

(* The last elements fill the hole, or the few that come after it. *)
RmSwapAll(i, n) ==
  LET tail == SubSeq(stored, i + n + 1, Len(stored))
      k == Smaller(n, Len(tail))
  IN  /\ Owned
      /\ Return(RmSwap(S, i, n),
                SubSeq(stored, 1, i) \o SubSeq(tail, Len(tail) - k + 1, Len(tail)) \o SubSeq(tail, 1, Len(tail) - k))

MoveAll(from, to, n) ==
  /\ Owned /\ to + n <= vec.len
  /\ Return(Move(S, from, to, n),
            [i \in DOMAIN stored |-> IF i \in to + 1..to + n THEN stored[i - to + from] ELSE stored[i]])

SliceDup(n, data) == \E memory \in BOOLEAN :
  vec.ptr = Null /\ Len(data) <= n /\ Return(Dup(S, n, data, memory), data)

SliceRealloc(n) == \E memory \in BOOLEAN :
  (Owned \/ vec.ptr = Null) /\ Return(Resize(S, n, memory), CutTo(n))

VecNext ==
  \/ \E n \in 0..VecMaxCap : Allocate(n) \/ Reallocate(n)
  \/ \E n \in 1..VecMaxCap : SliceRealloc(n) \/ \E data \in Datas : SliceDup(n, data)
  \/ Clear \/ TakeOver \/ GiveBack
  \/ \E off, n \in 0..Len(VecStatic) : off + n <= Len(VecStatic) /\ n # 0 /\ SetStatic(off, n)
  \/ \E by \in 0..VecMaxCap : Shift(by) \/ GrowBy(by, 1) \/ GrowBy(by, 2)
  \/ \E data \in Datas : AppendFast(data) \/ \E off \in 0..vec.len : InsertAll(off, data)
  \/ \E h \in Holes : RmAll(h[1], h[2]) \/ RmSwapAll(h[1], h[2])
                      \/ \E to \in 0..vec.len : MoveAll(h[1], to, h[2])

VecSpec == VecInit /\ [][VecNext]_vecVars

----------------------------------------------------------------------------
(* Properties *)

(* After any sequence of calls, failed ones included, the vector holds     *)
(* what was stored in it; the memory in use is its buffer and the one the  *)
(* caller took, each as large as its cap says; data of others is never     *)
(* written to.                                                             *)
VecMemory ==
  /\ Cells(S) = stored
  /\ DOMAIN mem = {"static"} \cup {v.ptr[1] : v \in {w \in {vec, taken} : w.cap # 0}}
  /\ \A v \in {vec, taken} : v.cap # 0 => v.len <= v.cap /\ Len(mem[v.ptr[1]]) = v.cap /\ v.ptr[2] = 0
  /\ mem["static"] = VecStatic
=============================================================================
