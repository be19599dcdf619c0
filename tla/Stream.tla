------------------------------- MODULE Stream -------------------------------
(***************************************************************************)
(* ffstream (ffbase/stream.h): gathers contiguous regions of a stream of   *)
(* bytes that comes in pieces.  It looks at the caller's piece as long as  *)
(* that is enough, and copies to a buffer of its own when it is not.       *)
(*                                                                         *)
(* A byte is its position in the stream.  The caller keeps a piece in      *)
(* place until the stream has no use for it, and gives again the bytes of  *)
(* a piece that were not taken.                                            *)
(***************************************************************************)
EXTENDS Naturals, SequencesExt, FiniteSetsExt

CONSTANTS
  StreamLen,   \* bytes in the stream
  StreamCaps,  \* capacities asked for
  StreamPiece, \* bound: bytes of a piece
  UIntMax      \* the counters wrap after this

ASSUME StreamAssumption ==
  /\ StreamLen \in Nat /\ StreamPiece \in 0..UIntMax /\ StreamCaps \subseteq Nat \ {0}
  /\ \E k \in 2..32 : UIntMax = 2^k - 1 /\ \A c \in StreamCaps : c <= 2^(k - 1)

VARIABLES
  stream,  \* struct ffstream: ptr is the position of the piece looked at
  next,    \* what the caller has to give next, what it has consumed
  view     \* the region the last call gave, and what was asked for

streamVars == <<stream, next, view>>

NoView == [at |-> <<>>, enough |-> FALSE]

(* The region the caller gets, and whether it is as large as it can be: as *)
(* it needs, or with all of the input.                                     *)
View(at, need, n, taken) == [at |-> at, enough |-> Len(at) >= need \/ taken = n]

StreamInit ==
  /\ stream = [buf |-> <<>>, ptr |-> 0, r |-> 0, w |-> 0, cap |-> 0]
  /\ next = [given |-> 0, consumed |-> 0]
  /\ view = NoView

----------------------------------------------------------------------------

Wrap(n) == n % (UIntMax + 1)
Used == Wrap(stream.w + UIntMax + 1 - stream.r)
At(i) == IF stream.cap = 0 THEN 0 ELSE i % stream.cap

Bytes(from, n) == [i \in 1..n |-> from + i - 1]

(* memmove(buf + to, data): bytes beyond the end are not in the buffer.    *)
Put(buf, to, data) ==
  [i \in DOMAIN buf |-> IF i - to \in DOMAIN data THEN data[i - to] ELSE buf[i]]

(* n bytes of the buffer; 0 is a byte beyond its end.                      *)
Region(buf, from, n) == [i \in 1..n |-> IF from + i \in DOMAIN buf THEN buf[from + i] ELSE 0]

Buffered == Region(stream.buf, At(stream.r), Used)
Viewed == Bytes(stream.ptr + stream.r, Used)

(* ffint_align_power2(): the next power of two, but not 1. *)
AlignPower2(n) ==
  IF n <= 2 THEN 2 ELSE CHOOSE c \in {2^k : k \in 0..n} : c >= n /\ c \div 2 < n

(* ffstream_realloc(); when memory is short all stays as it was. *)
Realloc(c) ==
  LET cap == AlignPower2(c)
      new == [i \in 1..cap |-> 0]
  IN  /\ cap > stream.cap
      /\ stream' = IF stream.ptr # 0 THEN [stream EXCEPT !.buf = new, !.cap = cap]
                   ELSE [stream EXCEPT !.buf = Put(new, 0, Buffered), !.cap = cap, !.r = 0, !.w = Used]
      /\ view' = NoView
      /\ UNCHANGED next

(* ffstream_reset(): what was pending is given up. *)
Reset ==
  /\ stream' = [stream EXCEPT !.r = 0, !.w = 0, !.ptr = 0]
  /\ next' = [next EXCEPT !.consumed = next.given]
  /\ view' = NoView

(* Set input view *)
SetView(n, need) ==
  /\ need < n /\ Used = 0
  /\ stream' = [stream EXCEPT !.ptr = next.given + 1, !.r = 0, !.w = n]
  /\ view' = View(Bytes(next.given + 1, n), need, n, n)
  /\ next' = [next EXCEPT !.given = @ + n]

(* Use existing input view *)
UseView(n, need) ==
  /\ stream.ptr # 0 /\ need < Used
  /\ view' = View(Viewed, need, n, 0)
  /\ UNCHANGED <<stream, next>>

(* Copy input data to the buffer *)
Own == IF stream.ptr = 0 THEN stream
       ELSE [stream EXCEPT !.buf = Put(@, 0, Viewed), !.ptr = 0, !.r = 0, !.w = Used]

(* Definitions "Wrong..." are what a plausible slip would have made of the *)
(* definition below them; no specification uses them.                      *)

(* Wrong: the tail is moved only when what is there does not fit. *)
WrongToFront(s, need) ==
  LET i == s.r % s.cap
      data == Region(s.buf, i, Used)
  IN  IF Used < need /\ i + Used > s.cap
      THEN [s EXCEPT !.buf = Put(@, 0, data), !.r = Wrap(@ + UIntMax + 1 - i), !.w = Wrap(@ + UIntMax + 1 - i)]
      ELSE s

(* Not enough space in tail: move tail to front *)
ToFront(s, need) ==
  LET i == s.r % s.cap
      data == Region(s.buf, i, Used)
  IN  IF Used < need /\ i + need > s.cap
      THEN [s EXCEPT !.buf = Put(@, 0, data), !.r = Wrap(@ + UIntMax + 1 - i), !.w = Wrap(@ + UIntMax + 1 - i)]
      ELSE s

(* Append input data to tail *)
TakeIn(n, need) ==
  LET s == ToFront(Own, need)
      k == IF Used >= need THEN 0 ELSE IF need - Used < n THEN need - Used ELSE n
      t == [s EXCEPT !.buf = Put(@, s.w % s.cap, Bytes(next.given + 1, k)), !.w = Wrap(@ + k)]
  IN  /\ ~(need < n /\ Used = 0) /\ ~(stream.ptr # 0 /\ need < Used)
      /\ need <= stream.cap /\ stream.cap # 0
      /\ stream' = t
      /\ view' = View(Region(t.buf, t.r % t.cap, Used + k), need, n, k)
      /\ next' = [next EXCEPT !.given = @ + k]

(* ffstream_gather(): the caller has n bytes ready.  It must not need more *)
(* than there is room for.                                                 *)
Gather(n, need) ==
  /\ next.given + n <= StreamLen
  /\ SetView(n, need) \/ UseView(n, need) \/ TakeIn(n, need)

(* ffstream_consume() *)
Consume(n) ==
  /\ n \in 1..Used
  /\ stream' = [stream EXCEPT !.r = Wrap(@ + n)]
  /\ next' = [next EXCEPT !.consumed = @ + n]
  /\ view' = NoView

StreamNext ==
  \/ \E c \in StreamCaps : Realloc(c)
  \/ Reset
  \/ \E n \in 0..StreamPiece : \E need \in 0..Max({n, stream.cap}) : Gather(n, need)
  \/ \E n \in 1..StreamLen : Consume(n)

StreamSpec == StreamInit /\ [][StreamNext]_streamVars

----------------------------------------------------------------------------
(* Properties *)

(* Whatever is looked at, copied, moved to the front or reallocated, the   *)
(* pending bytes are the ones given and not consumed, ffstream_view()      *)
(* shows them, and a call gives them all: as many as were asked for, or    *)
(* with the whole input.                                                   *)
GatherShowsTheStream ==
  /\ Bytes(next.consumed + 1, next.given - next.consumed) =
       IF stream.ptr # 0 THEN Viewed ELSE Buffered
  /\ view # NoView => view.enough /\ view.at = Bytes(next.consumed + 1, next.given - next.consumed)
=============================================================================
