----------------------------- MODULE VecProofs -----------------------------
(***************************************************************************)
(* Proofs about the vectors (Vec): whatever calls are made, and whichever  *)
(* of them fail, a vector holds what was stored in it and the memory in    *)
(* use is its own buffer and the one its caller took over.                 *)
(*                                                                         *)
(* A call is a function of the vector and the memory; each has a lemma     *)
(* that says what it leaves there.                                         *)
(***************************************************************************)
EXTENDS Vec, SequenceTheorems, TLAPS

Contents == VecValues \cup {Unset}

OwnBlock(v) == IF v.cap = 0 THEN {} ELSE {v.ptr[1]}

IsVec(v, m) ==
  /\ v \in [ptr : (MemBlocks \cup {"static", "null"}) \X Nat, len : Nat, cap : Nat]
  /\ v.cap # 0 => v.ptr[1] \in MemBlocks /\ v.ptr[2] = 0 /\ v.len <= v.cap /\ Len(m[v.ptr[1]]) = v.cap
  /\ v.cap = 0 => (v.ptr = Null /\ v.len = 0) \/ (v.ptr[1] = "static" /\ v.ptr[2] + v.len <= Len(VecStatic))

(* The blocks in use are the vector's and the one taken over. *)
Memory(m, v) ==
  /\ m \in [DOMAIN m -> Seq(Contents)] /\ m["static"] = VecStatic
  /\ DOMAIN m = {"static"} \cup OwnBlock(v) \cup OwnBlock(taken)
  /\ OwnBlock(v) \cap OwnBlock(taken) = {}

Sound(s) ==
  /\ s \in [v : {s.v}, m : {s.m}, ok : BOOLEAN]
  /\ IsVec(s.v, s.m) /\ IsVec(taken, s.m) /\ Memory(s.m, s.v)

VecInv ==
  /\ Sound(S) /\ Cells(S) = stored
  /\ taken.cap = 0 => taken = Empty

----------------------------------------------------------------------------

LEMMA Names ==
  /\ "static" \notin MemBlocks /\ "null" \notin MemBlocks /\ "static" # "null"
  /\ Null[1] = "null" /\ Null[2] = 0 /\ Null \in (MemBlocks \cup {"static", "null"}) \X Nat
BY DEF MemBlocks, Null

LEMMA EmptyFacts ==
  /\ Empty.ptr = Null /\ Empty.len = 0 /\ Empty.cap = 0 /\ OwnBlock(Empty) = {}
  /\ \A m : IsVec(Empty, m)
BY Names DEF Empty, OwnBlock, IsVec

LEMMA NullFacts ==
  ASSUME NEW v, NEW m, IsVec(v, m)
  PROVE  /\ v.ptr = Null <=> v.ptr[1] = "null"
         /\ v.ptr = Null => v.cap = 0 /\ v.len = 0
BY Names DEF IsVec, Null

LEMMA InitInv == VecInit => VecInv
<1> SUFFICES ASSUME VecInit PROVE VecInv
  OBVIOUS
<1>1. vec = Empty /\ taken = Empty /\ stored = <<>> /\ mem = [b \in {"static"} |-> VecStatic]
  BY DEF VecInit
<1>2. S = [v |-> Empty, m |-> mem, ok |-> TRUE]
  BY <1>1 DEF S
<1>3. VecStatic \in Seq(Contents)
  BY VecAssumption DEF VecAssumption, Contents
<1>4. Memory(mem, Empty)
  BY <1>1, <1>3, EmptyFacts DEF Memory
<1>5. Cells(S) = stored
  BY <1>1, <1>2, EmptyFacts DEF Cells
<1> QED BY <1>1, <1>2, <1>4, <1>5, EmptyFacts DEF VecInv, Sound

----------------------------------------------------------------------------
(* What is in the memory *)

LEMMA SoundFacts ==
  ASSUME NEW s, Sound(s)
  PROVE  /\ s.v.len \in Nat /\ s.v.cap \in Nat /\ s.v.ptr[2] \in Nat
         /\ s.v \in [ptr : (MemBlocks \cup {"static", "null"}) \X Nat, len : Nat, cap : Nat]
         /\ "static" \in DOMAIN s.m /\ VecStatic \in Seq(Contents)
         /\ \A b \in DOMAIN s.m : s.m[b] \in Seq(Contents)
         /\ s.v.cap # 0 => /\ Block(s) \in DOMAIN s.m /\ Block(s) \in MemBlocks /\ Block(s) # "static"
                           /\ s.v.ptr # Null /\ s.v.ptr[2] = 0 /\ s.v.len <= s.v.cap
                           /\ Len(s.m[Block(s)]) = s.v.cap
         /\ s.v.ptr # Null => /\ Block(s) \in DOMAIN s.m
                              /\ s.v.ptr[2] + s.v.len <= Len(s.m[Block(s)])
         /\ s.v.ptr = Null => s.v.cap = 0 /\ s.v.len = 0
<1>1. IsVec(s.v, s.m) /\ Memory(s.m, s.v)
  BY DEF Sound
<1>2. s.v \in [ptr : (MemBlocks \cup {"static", "null"}) \X Nat, len : Nat, cap : Nat]
  BY <1>1 DEF IsVec
<1>3. s.v.len \in Nat /\ s.v.cap \in Nat /\ s.v.ptr[2] \in Nat
  BY <1>2
<1>4. "static" \in DOMAIN s.m /\ VecStatic \in Seq(Contents)
  BY <1>1, VecAssumption DEF Memory, VecAssumption, Contents
<1>5. \A b \in DOMAIN s.m : s.m[b] \in Seq(Contents)
  BY <1>1 DEF Memory
<1>6. s.v.cap # 0 => /\ Block(s) \in DOMAIN s.m /\ Block(s) \in MemBlocks /\ Block(s) # "static"
                     /\ s.v.ptr # Null /\ s.v.ptr[2] = 0 /\ s.v.len <= s.v.cap
                     /\ Len(s.m[Block(s)]) = s.v.cap
  <2> SUFFICES ASSUME s.v.cap # 0
               PROVE  /\ Block(s) \in DOMAIN s.m /\ Block(s) \in MemBlocks /\ Block(s) # "static"
                      /\ s.v.ptr # Null /\ s.v.ptr[2] = 0 /\ s.v.len <= s.v.cap
                      /\ Len(s.m[Block(s)]) = s.v.cap
    OBVIOUS
  <2>1. /\ Block(s) \in MemBlocks /\ s.v.ptr[2] = 0 /\ s.v.len <= s.v.cap
        /\ Len(s.m[Block(s)]) = s.v.cap
    BY <1>1 DEF IsVec, Block
  <2>2. Block(s) \in DOMAIN s.m
    BY <1>1 DEF Memory, OwnBlock, Block
  <2>3. Block(s) # "static" /\ s.v.ptr # Null
    BY <2>1, Names DEF Block
  <2> QED BY <2>1, <2>2, <2>3
<1>7. s.v.ptr # Null => Block(s) \in DOMAIN s.m /\ s.v.ptr[2] + s.v.len <= Len(s.m[Block(s)])
  <2>1. CASE s.v.cap # 0
    BY <1>3, <1>6, <2>1
  <2>2. CASE s.v.cap = 0 /\ s.v.ptr # Null
    <3>1. Block(s) = "static" /\ s.v.ptr[2] + s.v.len <= Len(VecStatic)
      BY <1>1, <2>2 DEF IsVec, Block
    <3> QED BY <1>1, <1>4, <3>1 DEF Memory
  <2> QED BY <2>1, <2>2
<1>8. s.v.ptr = Null => s.v.cap = 0 /\ s.v.len = 0
  BY <1>1, NullFacts
<1> QED BY <1>2, <1>3, <1>4, <1>5, <1>6, <1>7, <1>8

LEMMA CellsFacts ==
  ASSUME NEW s, Sound(s)
  PROVE  /\ Cells(s) \in Seq(Contents) /\ Len(Cells(s)) = s.v.len
         /\ s.v.ptr # Null => \A i \in 1..s.v.len : Cells(s)[i] = s.m[Block(s)][s.v.ptr[2] + i]
<1>1. CASE s.v.ptr = Null
  <2>1. s.v.len = 0 /\ Cells(s) = <<>>
    BY <1>1, SoundFacts DEF Cells
  <2>2. <<>> \in Seq(Contents) /\ Len(<<>>) = 0
    OBVIOUS
  <2> QED BY <1>1, <2>1, <2>2
<1>2. CASE s.v.ptr # Null
  <2> DEFINE b == s.m[Block(s)]
             o == s.v.ptr[2]
             n == s.v.len
  <2>1. b \in Seq(Contents) /\ o \in Nat /\ n \in Nat /\ o + n <= Len(b) /\ Len(b) \in Nat
    <3>1. Block(s) \in DOMAIN s.m /\ \A c \in DOMAIN s.m : s.m[c] \in Seq(Contents)
      BY <1>2, SoundFacts
    <3>2. o + n <= Len(b) /\ o \in Nat /\ n \in Nat
      BY <1>2, SoundFacts
    <3>3. b \in Seq(Contents)
      BY <3>1
    <3> HIDE DEF b
    <3> QED BY <3>2, <3>3
  <2>2. Cells(s) = SubSeq(b, o + 1, o + n)
    BY <1>2 DEF Cells
  <2> HIDE DEF b, o, n
  <2>3. \A i \in o + 1..o + n : b[i] \in Contents
    BY <2>1
  <2> DEFINE m1 == o + 1
             n1 == o + n
  <2>4. m1 = o + 1 /\ n1 = o + n /\ m1 \in Int /\ n1 \in Int /\ \A i \in m1..n1 : b[i] \in Contents
    BY <2>1, <2>3
  <2>5. Cells(s) = SubSeq(b, m1, n1)
    BY <2>2
  <2> HIDE DEF m1, n1
  <2>6. /\ Cells(s) \in Seq(Contents)
        /\ Len(Cells(s)) = IF m1 <= n1 THEN n1 - m1 + 1 ELSE 0
        /\ \A i \in 1..n1 - m1 + 1 : Cells(s)[i] = b[m1 + i - 1]
    BY <2>4, <2>5, SubSeqProperties
  <2>7. Len(Cells(s)) = n
    BY <2>1, <2>4, <2>6
  <2>8. ASSUME NEW i \in 1..n PROVE Cells(s)[i] = b[o + i]
    <3>1. i \in 1..n1 - m1 + 1 /\ m1 + i - 1 = o + i
      BY <2>1, <2>4
    <3> QED BY <2>6, <3>1
  <2> QED BY <2>6, <2>7, <2>8 DEF b, o, n
<1> QED BY <1>1, <1>2

LEMMA CellsAre ==
  ASSUME NEW s, Sound(s), NEW its \in Seq(Contents), Len(its) = s.v.len,
         s.v.ptr # Null => \A i \in 1..s.v.len : its[i] = s.m[Block(s)][s.v.ptr[2] + i]
  PROVE  Cells(s) = its
<1>1. CASE s.v.ptr # Null
  BY <1>1, CellsFacts, SeqEqual
<1>2. CASE s.v.ptr = Null
  <2>1. Len(its) = 0 /\ Cells(s) = <<>>
    BY <1>2, SoundFacts DEF Cells
  <2>2. its = <<>>
    BY <2>1, EmptySeq
  <2> QED BY <2>1, <2>2
<1> QED BY <1>1, <1>2

(* The first n of a sequence *)
LEMMA FirstOf ==
  ASSUME NEW D, NEW q \in Seq(D), NEW n \in Nat, n <= Len(q)
  PROVE  /\ SubSeq(q, 1, n) \in Seq(D) /\ Len(SubSeq(q, 1, n)) = n
         /\ \A i \in 1..n : SubSeq(q, 1, n)[i] = q[i]
<1>1. \A i \in 1..n : q[i] \in D
  OBVIOUS
<1>2. /\ SubSeq(q, 1, n) \in Seq(D)
      /\ Len(SubSeq(q, 1, n)) = IF 1 <= n THEN n - 1 + 1 ELSE 0
      /\ \A i \in 1..n - 1 + 1 : SubSeq(q, 1, n)[i] = q[1 + i - 1]
  BY <1>1, SubSeqProperties
<1> QED BY <1>2

(* The elements after a up to b *)
LEMMA PartOf ==
  ASSUME NEW D, NEW q \in Seq(D), NEW a \in Nat, NEW b \in Nat, a <= b, b <= Len(q)
  PROVE  /\ SubSeq(q, a + 1, b) \in Seq(D) /\ Len(SubSeq(q, a + 1, b)) = b - a
         /\ \A i \in 1..b - a : SubSeq(q, a + 1, b)[i] = q[a + i]
<1>1. \A i \in a + 1..b : q[i] \in D
  OBVIOUS
<1>2. /\ SubSeq(q, a + 1, b) \in Seq(D)
      /\ Len(SubSeq(q, a + 1, b)) = IF a + 1 <= b THEN b - (a + 1) + 1 ELSE 0
      /\ \A i \in 1..b - (a + 1) + 1 : SubSeq(q, a + 1, b)[i] = q[a + 1 + i - 1]
  BY <1>1, SubSeqProperties
<1>3. Len(SubSeq(q, a + 1, b)) = b - a
  BY <1>2
<1>4. ASSUME NEW i \in 1..b - a PROVE SubSeq(q, a + 1, b)[i] = q[a + i]
  <2>1. i \in 1..b - (a + 1) + 1 /\ a + 1 + i - 1 = a + i
    OBVIOUS
  <2> QED BY <1>2, <2>1
<1> QED BY <1>2, <1>3, <1>4

LEMMA JoinThree ==
  ASSUME NEW D, NEW a \in Seq(D), NEW b \in Seq(D), NEW c \in Seq(D)
  PROVE  /\ a \o b \o c \in Seq(D) /\ Len(a \o b \o c) = Len(a) + Len(b) + Len(c)
         /\ \A i \in 1..Len(a) + Len(b) + Len(c) :
              (a \o b \o c)[i] = IF i <= Len(a) THEN a[i]
                                 ELSE IF i <= Len(a) + Len(b) THEN b[i - Len(a)]
                                 ELSE c[i - (Len(a) + Len(b))]
<1> DEFINE ab == a \o b
<1>1. Len(a) \in Nat /\ Len(b) \in Nat /\ Len(c) \in Nat
  OBVIOUS
<1>2. /\ ab \in Seq(D) /\ Len(ab) = Len(a) + Len(b)
      /\ \A i \in 1..Len(a) + Len(b) : ab[i] = IF i <= Len(a) THEN a[i] ELSE b[i - Len(a)]
  BY ConcatProperties
<1> HIDE DEF ab
<1>3. /\ ab \o c \in Seq(D) /\ Len(ab \o c) = Len(ab) + Len(c)
      /\ \A i \in 1..Len(ab) + Len(c) : (ab \o c)[i] = IF i <= Len(ab) THEN ab[i] ELSE c[i - Len(ab)]
  <2>1. ab \in Seq(D)
    BY <1>2
  <2> QED BY <2>1, ConcatProperties
<1>4. \A i \in 1..Len(a) + Len(b) + Len(c) :
        (ab \o c)[i] = IF i <= Len(a) THEN a[i]
                       ELSE IF i <= Len(a) + Len(b) THEN b[i - Len(a)]
                       ELSE c[i - (Len(a) + Len(b))]
  BY <1>1, <1>2, <1>3
<1> QED BY <1>2, <1>3, <1>4 DEF ab

----------------------------------------------------------------------------
(* Memory that comes and goes *)

LEMMA FreeFacts ==
  ASSUME NEW s, Sound(s)
  PROVE  /\ Sound(FreeBuffer(s)) /\ FreeBuffer(s).v = Empty /\ FreeBuffer(s).ok = s.ok
         /\ Cells(FreeBuffer(s)) = <<>>
<1> DEFINE m == IF s.v.cap # 0 THEN Release(s.m, Block(s)) ELSE s.m
           t == FreeBuffer(s)
<1>1. t = [v |-> Empty, m |-> m, ok |-> s.ok]
  <2>1. t = [s EXCEPT !.v = Empty, !.m = m]
    BY DEF FreeBuffer
  <2> HIDE DEF m, t
  <2> QED BY <2>1 DEF Sound
<1>2. Memory(s.m, s.v) /\ IsVec(taken, s.m)
  BY DEF Sound
<1>3. Memory(m, Empty) /\ IsVec(taken, m)
  <2>1. CASE s.v.cap = 0
    BY <1>2, <2>1, EmptyFacts DEF Memory, OwnBlock
  <2>2. CASE s.v.cap # 0
    <3>1. m = [c \in DOMAIN s.m \ {Block(s)} |-> s.m[c]] /\ Block(s) # "static"
      BY <2>2, SoundFacts DEF Release
    <3>2. OwnBlock(s.v) = {Block(s)} /\ Block(s) \notin OwnBlock(taken)
      BY <1>2, <2>2 DEF OwnBlock, Block, Memory
    <3> HIDE DEF m
    <3>3. DOMAIN m = {"static"} \cup OwnBlock(taken) /\ \A c \in DOMAIN m : m[c] = s.m[c] /\ c \in DOMAIN s.m
      BY <1>2, <3>1, <3>2 DEF Memory
    <3>4. m \in [DOMAIN m -> Seq(Contents)]
      BY <1>2, <3>1 DEF Memory
    <3>5. Memory(m, Empty)
      BY <1>2, <3>3, <3>4, EmptyFacts DEF Memory
    <3>6. taken.cap # 0 => m[taken.ptr[1]] = s.m[taken.ptr[1]]
      BY <3>3 DEF OwnBlock
    <3>7. IsVec(taken, m)
      BY <1>2, <3>6 DEF IsVec
    <3> QED BY <3>5, <3>7
  <2> QED BY <2>1, <2>2
<1> HIDE DEF m, t
<1>4. Sound(t)
  BY <1>1, <1>3, EmptyFacts DEF Sound
<1>5. Cells(t) = <<>>
  BY <1>1, EmptyFacts DEF Cells
<1> QED BY <1>1, <1>4, <1>5 DEF t

(* A new buffer of n elements whose first k are those of data; the buffer  *)
(* there was is gone.                                                      *)
Renewed(s, n, data, k) ==
  LET f == Fresh(s.m, n, data)
  IN  [v |-> [ptr |-> f.ptr, len |-> k, cap |-> n],
       m |-> IF s.v.cap # 0 THEN Release(f.m, Block(s)) ELSE f.m, ok |-> s.ok]

LEMMA RenewedFacts ==
  ASSUME NEW s, Sound(s), NEW n \in Nat \ {0}, NEW data \in Seq(Contents),
         NEW k \in Nat, k <= n, k <= Len(data)
  PROVE  /\ Sound(Renewed(s, n, data, k)) /\ Cells(Renewed(s, n, data, k)) = SubSeq(data, 1, k)
         /\ Renewed(s, n, data, k).ok = s.ok
         /\ Renewed(s, n, data, k).v.cap = n /\ Renewed(s, n, data, k).v.len = k
<1> DEFINE t == Renewed(s, n, data, k)
           b == CHOOSE b \in MemBlocks : b \notin DOMAIN s.m
           cells == [i \in 1..n |-> IF i \in DOMAIN data THEN data[i] ELSE Unset]
           fm == [c \in DOMAIN s.m \cup {b} |-> IF c = b THEN cells ELSE s.m[c]]
           v == [ptr |-> <<b, 0>>, len |-> k, cap |-> n]
           m == IF s.v.cap # 0 THEN Release(fm, Block(s)) ELSE fm
<1>1. Fresh(s.m, n, data) = [ptr |-> <<b, 0>>, m |-> fm]
  BY DEF Fresh
<1>2. t = [v |-> v, m |-> m, ok |-> s.ok]
  BY <1>1 DEF Renewed
<1>3. Memory(s.m, s.v) /\ IsVec(taken, s.m) /\ IsVec(s.v, s.m)
  BY DEF Sound
<1>4. b \in MemBlocks /\ b \notin DOMAIN s.m
  <2>1. \E c \in MemBlocks : c \notin DOMAIN s.m
    <3> SUFFICES ASSUME \A c \in MemBlocks : c \in DOMAIN s.m PROVE FALSE
      OBVIOUS
    <3>1. \A c \in MemBlocks : c \in OwnBlock(s.v) \/ c \in OwnBlock(taken)
      BY <1>3, Names DEF Memory
    <3>2. \A c, d \in OwnBlock(s.v) : c = d
      BY DEF OwnBlock
    <3>3. \A c, d \in OwnBlock(taken) : c = d
      BY DEF OwnBlock
    <3> QED BY <3>1, <3>2, <3>3 DEF MemBlocks
  <2> QED BY <2>1
<1>5. cells \in Seq(Contents) /\ Len(cells) = n /\ \A i \in 1..k : cells[i] = data[i]
  <2>1. DOMAIN data = 1..Len(data) /\ Len(data) \in Nat /\ \A i \in DOMAIN data : data[i] \in Contents
    OBVIOUS
  <2>2. Unset \in Contents
    BY DEF Contents
  <2>3. cells \in [1..n -> Contents]
    BY <2>1, <2>2
  <2>4. \A i \in 1..k : i \in DOMAIN data /\ i \in 1..n
    BY <2>1
  <2> QED BY <2>3, <2>4
<1> HIDE DEF cells, b
<1>6. /\ m \in [DOMAIN m -> Seq(Contents)] /\ DOMAIN m = {"static"} \cup {b} \cup OwnBlock(taken)
      /\ m[b] = cells /\ \A c \in {"static"} \cup OwnBlock(taken) : m[c] = s.m[c]
  <2>1. b # "static" /\ b \notin OwnBlock(taken) /\ b \notin OwnBlock(s.v)
    BY <1>3, <1>4, Names DEF Memory
  <2>2. \A c \in DOMAIN s.m : s.m[c] \in Seq(Contents)
    BY SoundFacts
  <2>3. CASE s.v.cap = 0
    <3>1. m = fm /\ DOMAIN s.m = {"static"} \cup OwnBlock(taken)
      BY <1>3, <2>3 DEF Memory, OwnBlock
    <3> QED BY <1>5, <2>1, <2>2, <3>1
  <2>4. CASE s.v.cap # 0
    <3>1. OwnBlock(s.v) = {Block(s)}
      BY <2>4 DEF OwnBlock, Block
    <3>2. DOMAIN s.m = {"static"} \cup {Block(s)} \cup OwnBlock(taken) /\ Block(s) \notin OwnBlock(taken)
      BY <1>3, <3>1 DEF Memory
    <3>3. Block(s) # "static" /\ Block(s) # b
      BY <2>1, <2>4, <3>1, SoundFacts
    <3>4. m = [c \in ({"static"} \cup {b} \cup OwnBlock(taken)) |-> IF c = b THEN cells ELSE s.m[c]]
      <4>1. DOMAIN fm = DOMAIN s.m \cup {b}
        OBVIOUS
      <4>2. m = [c \in DOMAIN fm \ {Block(s)} |-> fm[c]]
        BY <2>4 DEF Release
      <4>3. DOMAIN fm \ {Block(s)} = {"static"} \cup {b} \cup OwnBlock(taken)
        BY <3>2, <3>3, <4>1
      <4>4. \A c \in DOMAIN fm : fm[c] = IF c = b THEN cells ELSE s.m[c]
        OBVIOUS
      <4> HIDE DEF fm, m
      <4> QED BY <4>2, <4>3, <4>4
    <3> HIDE DEF m
    <3> QED BY <1>5, <2>1, <2>2, <3>2, <3>4
  <2> QED BY <2>3, <2>4
<1> HIDE DEF m, fm, t
<1>7. OwnBlock(v) = {b} /\ v.ptr[1] = b /\ v.ptr[2] = 0 /\ v.len = k /\ v.cap = n
  BY DEF OwnBlock
<1>8. IsVec(v, m)
  <2>1. v \in [ptr : (MemBlocks \cup {"static", "null"}) \X Nat, len : Nat, cap : Nat]
    BY <1>4
  <2> HIDE DEF v
  <2> QED BY <1>4, <1>5, <1>6, <1>7, <2>1 DEF IsVec
<1> HIDE DEF v
<1>9. Memory(m, v)
  <2>1. b \notin OwnBlock(taken)
    BY <1>3, <1>4 DEF Memory
  <2>2. m["static"] = VecStatic
    BY <1>3, <1>6 DEF Memory
  <2> QED BY <1>6, <1>7, <2>1, <2>2 DEF Memory
<1>10. IsVec(taken, m)
  <2>1. taken.cap # 0 => m[taken.ptr[1]] = s.m[taken.ptr[1]]
    BY <1>6 DEF OwnBlock
  <2> QED BY <1>3, <2>1 DEF IsVec
<1>11. Sound(t)
  BY <1>2, <1>8, <1>9, <1>10 DEF Sound
<1>12. Cells(t) = SubSeq(data, 1, k)
  <2>1. SubSeq(data, 1, k) \in Seq(Contents) /\ Len(SubSeq(data, 1, k)) = k
        /\ \A i \in 1..k : SubSeq(data, 1, k)[i] = data[i]
    BY FirstOf
  <2>2. t.v.len = k /\ Block(t) = b /\ t.m[b] = cells /\ t.v.ptr[2] = 0
    BY <1>2, <1>6, <1>7 DEF Block
  <2>3. \A i \in 1..k : SubSeq(data, 1, k)[i] = t.m[Block(t)][t.v.ptr[2] + i]
    <3>1. \A i \in 1..k : 0 + i = i
      OBVIOUS
    <3> QED BY <1>5, <2>1, <2>2, <3>1
  <2> QED BY <1>11, <2>1, <2>2, <2>3, CellsAre
<1> QED BY <1>2, <1>7, <1>11, <1>12 DEF t

(* A vector cut to k elements, or grown to k within its buffer *)
LEMMA LengthFacts ==
  ASSUME NEW s, Sound(s), NEW k \in Nat, k <= s.v.len \/ (s.v.cap # 0 /\ k <= s.v.cap)
  PROVE  LET t == [s EXCEPT !.v.len = k]
         IN  /\ Sound(t) /\ t.m = s.m /\ t.ok = s.ok /\ Block(t) = Block(s)
             /\ t.v.len = k /\ t.v.cap = s.v.cap /\ t.v.ptr = s.v.ptr
             /\ k <= s.v.len => Cells(t) = SubSeq(Cells(s), 1, k)
<1> DEFINE t == [s EXCEPT !.v.len = k]
           v == [s.v EXCEPT !.len = k]
<1>1. v = [ptr |-> s.v.ptr, len |-> k, cap |-> s.v.cap]
  BY SoundFacts
<1>2. t = [s EXCEPT !.v = v]
  OBVIOUS
<1> HIDE DEF v, t
<1>3. t = [v |-> v, m |-> s.m, ok |-> s.ok] /\ s.ok \in BOOLEAN
  BY <1>2 DEF Sound
<1>4. IsVec(v, s.m)
  <2>1. IsVec(s.v, s.m)
    BY DEF Sound
  <2>2. s.v.len \in Nat /\ s.v.cap \in Nat /\ s.v.ptr[2] \in Nat /\ Len(VecStatic) \in Nat
    <3>1. s.v.len \in Nat /\ s.v.cap \in Nat /\ s.v.ptr[2] \in Nat /\ VecStatic \in Seq(Contents)
      BY SoundFacts
    <3> QED BY <3>1
  <2>3. s.v.cap # 0 => k <= s.v.cap
    <3>1. s.v.cap # 0 => s.v.len <= s.v.cap
      BY SoundFacts
    <3> QED BY <2>2, <3>1
  <2>4. s.v.cap = 0 => k <= s.v.len
    OBVIOUS
  <2>5. v.ptr = s.v.ptr /\ v.len = k /\ v.cap = s.v.cap
    BY <1>1
  <2>6. v \in [ptr : (MemBlocks \cup {"static", "null"}) \X Nat, len : Nat, cap : Nat]
    BY <1>1, <2>1, <2>2 DEF IsVec
  <2>7. s.v.cap = 0 => (v.ptr = Null /\ v.len = 0) \/ (v.ptr[1] = "static" /\ v.ptr[2] + v.len <= Len(VecStatic))
    BY <2>1, <2>2, <2>4, <2>5 DEF IsVec
  <2> QED BY <2>1, <2>3, <2>5, <2>6, <2>7 DEF IsVec
<1>5. Memory(s.m, v)
  BY <1>1 DEF Sound, Memory, OwnBlock
<1>6. Sound(t) /\ Block(t) = Block(s)
  BY <1>1, <1>3, <1>4, <1>5 DEF Sound, Block
<1>7. k <= s.v.len => Cells(t) = SubSeq(Cells(s), 1, k)
  <2> SUFFICES ASSUME k <= s.v.len PROVE Cells(t) = SubSeq(Cells(s), 1, k)
    OBVIOUS
  <2> DEFINE c == Cells(s)
             its == SubSeq(c, 1, k)
  <2>1. c \in Seq(Contents) /\ k <= Len(c)
    BY CellsFacts
  <2>2. its \in Seq(Contents) /\ Len(its) = k /\ \A i \in 1..k : its[i] = c[i]
    BY <2>1, FirstOf
  <2>3. s.v.ptr # Null => \A i \in 1..s.v.len : c[i] = s.m[Block(s)][s.v.ptr[2] + i]
    BY CellsFacts
  <2>4. \A i \in 1..k : i \in 1..s.v.len
    <3>1. s.v.len \in Nat
      BY SoundFacts
    <3> QED BY <3>1
  <2> HIDE DEF its, c
  <2>5. t.v.ptr # Null => \A i \in 1..t.v.len : its[i] = t.m[Block(t)][t.v.ptr[2] + i]
    BY <1>1, <1>3, <1>6, <2>2, <2>3, <2>4
  <2>6. Len(its) = t.v.len
    BY <1>1, <1>3, <2>2
  <2> QED BY <1>6, <2>2, <2>5, <2>6, CellsAre DEF its, c
<1> QED BY <1>1, <1>3, <1>6, <1>7 DEF t

(* What a new buffer is filled from *)
LEMMA SourceFacts ==
  ASSUME NEW s, Sound(s), NEW k \in Nat, k <= s.v.len,
         NEW data, data = IF s.v.cap # 0 THEN s.m[Block(s)] ELSE Cells(s)
  PROVE  data \in Seq(Contents) /\ k <= Len(data) /\ SubSeq(data, 1, k) = SubSeq(Cells(s), 1, k)
<1>1. CASE s.v.cap = 0
  BY <1>1, CellsFacts
<1>2. CASE s.v.cap # 0
  <2> DEFINE c == Cells(s)
  <2>1. /\ Block(s) \in DOMAIN s.m /\ Len(s.m[Block(s)]) = s.v.cap /\ s.v.len <= s.v.cap
        /\ s.v.ptr # Null /\ s.v.ptr[2] = 0 /\ s.v.len \in Nat /\ s.v.cap \in Nat
    BY <1>2, SoundFacts
  <2>2. data \in Seq(Contents) /\ Len(data) = s.v.cap
    BY <1>2, <2>1, SoundFacts
  <2>3. c \in Seq(Contents) /\ Len(c) = s.v.len /\ \A i \in 1..s.v.len : c[i] = data[0 + i]
    BY <1>2, <2>1, CellsFacts
  <2>4. k <= Len(data) /\ k <= Len(c)
    BY <2>1, <2>2, <2>3
  <2> HIDE DEF c
  <2>5. /\ SubSeq(data, 1, k) \in Seq(Contents) /\ Len(SubSeq(data, 1, k)) = k
        /\ \A i \in 1..k : SubSeq(data, 1, k)[i] = data[i]
    BY <2>2, <2>4, FirstOf
  <2>6. /\ SubSeq(c, 1, k) \in Seq(Contents) /\ Len(SubSeq(c, 1, k)) = k
        /\ \A i \in 1..k : SubSeq(c, 1, k)[i] = c[i]
    BY <2>3, <2>4, FirstOf
  <2>7. \A i \in 1..k : i \in 1..s.v.len /\ 0 + i = i
    BY <2>1
  <2>8. \A i \in 1..k : SubSeq(data, 1, k)[i] = SubSeq(c, 1, k)[i]
    BY <2>3, <2>5, <2>6, <2>7
  <2>9. SubSeq(data, 1, k) = SubSeq(c, 1, k)
    BY <2>5, <2>6, <2>8, SeqEqual
  <2> QED BY <2>2, <2>4, <2>9 DEF c
<1> QED BY <1>1, <1>2

LEMMA SmallerFacts ==
  ASSUME NEW a \in Nat, NEW b \in Nat
  PROVE  /\ Smaller(a, b) \in Nat /\ Smaller(a, b) <= a /\ Smaller(a, b) <= b
         /\ Smaller(a, b) = Smaller(b, a) /\ (Smaller(a, b) = a \/ Smaller(a, b) = b)
         /\ Larger(a, b) \in Nat /\ a <= Larger(a, b) /\ b <= Larger(a, b)
         /\ AtLeast1(a) \in Nat \ {0} /\ a <= AtLeast1(a)
BY DEF Smaller, Larger, AtLeast1

(* ffvec_realloc() keeps what there is room for, or everything. *)
LEMMA ReallocFacts ==
  ASSUME NEW s, Sound(s), s.ok = TRUE, NEW n \in Nat, NEW memory \in BOOLEAN
  PROVE  LET t == VecRealloc(s, n, memory)
         IN  /\ Sound(t)
             /\ t.ok => /\ Cells(t) = SubSeq(Cells(s), 1, Smaller(s.v.len, n))
                        /\ t.v.cap # 0 /\ n <= t.v.cap /\ t.v.len = Smaller(s.v.len, n)
             /\ ~t.ok => Cells(t) = Cells(s)
<1> DEFINE t == VecRealloc(s, n, memory)
           e == IF s.v.cap # 0 /\ s.v.len = 0 THEN FreeBuffer(s) ELSE s
           data == IF e.v.cap # 0 THEN e.m[Block(e)] ELSE Cells(e)
           k == Smaller(s.v.len, n)
<1>1. s.v.len \in Nat /\ s.v.cap \in Nat
  BY SoundFacts
<1>2. k \in Nat /\ k <= s.v.len /\ k <= n /\ AtLeast1(n) \in Nat \ {0} /\ n <= AtLeast1(n)
  BY <1>1, SmallerFacts
<1>3. Sound(e) /\ Cells(e) = Cells(s) /\ e.v.len = s.v.len /\ e.ok = TRUE
  <2>1. CASE s.v.cap # 0 /\ s.v.len = 0
    <3>1. e = FreeBuffer(s)
      BY <2>1
    <3>2. Cells(s) = <<>>
      BY <2>1, CellsFacts, EmptySeq
    <3> QED BY <2>1, <3>1, <3>2, FreeFacts, EmptyFacts
  <2>2. CASE ~(s.v.cap # 0 /\ s.v.len = 0)
    BY <2>2
  <2> QED BY <2>1, <2>2
<1>4. CASE s.v.cap # 0 /\ n <= s.v.cap
  <2>1. t = [s EXCEPT !.v.len = k]
    BY <1>4 DEF VecRealloc
  <2>2. LET u == [s EXCEPT !.v.len = k]
        IN  /\ Sound(u) /\ u.m = s.m /\ u.ok = s.ok /\ Block(u) = Block(s)
            /\ u.v.len = k /\ u.v.cap = s.v.cap /\ u.v.ptr = s.v.ptr
            /\ k <= s.v.len => Cells(u) = SubSeq(Cells(s), 1, k)
    BY <1>2, LengthFacts
  <2> HIDE DEF t, k
  <2> QED BY <1>2, <1>4, <2>1, <2>2 DEF t, k
<1>5. CASE ~(s.v.cap # 0 /\ n <= s.v.cap) /\ ~memory
  <2>1. t = [e EXCEPT !.ok = FALSE]
    BY <1>5 DEF VecRealloc
  <2> HIDE DEF t, e
  <2>2. t = [v |-> e.v, m |-> e.m, ok |-> FALSE]
    BY <1>3, <2>1 DEF Sound
  <2>3. Sound(t) /\ Cells(t) = Cells(e)
    BY <1>3, <2>2 DEF Sound, Cells, Block
  <2> QED BY <1>3, <2>2, <2>3 DEF t
<1>6. CASE ~(s.v.cap # 0 /\ n <= s.v.cap) /\ memory
  <2> DEFINE f == Fresh(e.m, AtLeast1(n), data)
  <2>1. t = [e EXCEPT !.v = [ptr |-> f.ptr, len |-> Smaller(@.len, n), cap |-> AtLeast1(n)],
                      !.m = IF e.v.cap # 0 THEN Release(f.m, Block(e)) ELSE f.m]
    BY <1>6 DEF VecRealloc
  <2>2. data \in Seq(Contents) /\ k <= Len(data) /\ SubSeq(data, 1, k) = SubSeq(Cells(e), 1, k)
    <3> HIDE DEF e, k
    <3> QED BY <1>2, <1>3, SourceFacts
  <2>3. t = Renewed(e, AtLeast1(n), data, k)
    <3> HIDE DEF e, data
    <3>1. t = [e EXCEPT !.v = [ptr |-> f.ptr, len |-> k, cap |-> AtLeast1(n)],
                        !.m = IF e.v.cap # 0 THEN Release(f.m, Block(e)) ELSE f.m]
      BY <1>3, <2>1 DEF Sound
    <3> DEFINE m == IF e.v.cap # 0 THEN Release(f.m, Block(e)) ELSE f.m
               v == [ptr |-> f.ptr, len |-> k, cap |-> AtLeast1(n)]
    <3>2. t = [e EXCEPT !.v = v, !.m = m]
      BY <3>1
    <3>3. Renewed(e, AtLeast1(n), data, k) = [v |-> v, m |-> m, ok |-> e.ok]
      BY DEF Renewed
    <3> HIDE DEF m, v, t, f
    <3>4. t = [v |-> v, m |-> m, ok |-> e.ok]
      BY <1>3, <3>2 DEF Sound
    <3> QED BY <3>3, <3>4
  <2> HIDE DEF t, e, data, k
  <2>4. k <= AtLeast1(n)
    BY <1>2
  <2>5. /\ Sound(t) /\ Cells(t) = SubSeq(data, 1, k) /\ t.ok = e.ok
        /\ t.v.cap = AtLeast1(n) /\ t.v.len = k
    <3> DEFINE a == AtLeast1(n)
    <3>1. a \in Nat \ {0} /\ k \in Nat /\ k <= a /\ k <= Len(data) /\ data \in Seq(Contents) /\ Sound(e)
      BY <1>2, <1>3, <2>2, <2>4
    <3> HIDE DEF a
    <3>2. /\ Sound(Renewed(e, a, data, k)) /\ Cells(Renewed(e, a, data, k)) = SubSeq(data, 1, k)
          /\ Renewed(e, a, data, k).ok = e.ok
          /\ Renewed(e, a, data, k).v.cap = a /\ Renewed(e, a, data, k).v.len = k
      BY <3>1, RenewedFacts
    <3> QED BY <2>3, <3>2 DEF a
  <2> QED BY <1>2, <1>3, <2>2, <2>5 DEF t, k
<1> QED BY <1>4, <1>5, <1>6

(* ffvec_growhalf(), ffvec_growtwice() make room, or leave all as it was. *)
LEMMA GrowFacts ==
  ASSUME NEW s, Sound(s), s.ok = TRUE, NEW by \in Nat, NEW part \in {1, 2}, NEW memory \in BOOLEAN
  PROVE  LET t == Grow(s, by, part, memory)
         IN  /\ Sound(t) /\ Cells(t) = Cells(s)
             /\ t.ok => t.v.ptr # Null /\ t.v.len = s.v.len /\ t.v.len + by <= t.v.cap
<1> DEFINE t == Grow(s, by, part, memory)
           n == s.v.len + Larger(by, s.v.len \div part)
<1>1. s.v.len \in Nat /\ s.v.cap \in Nat
  BY SoundFacts
<1>2. CASE s.v.len + by <= s.v.cap
  <2>1. t = [s EXCEPT !.ok = s.v.ptr # Null]
    BY <1>2 DEF Grow
  <2> DEFINE b == s.v.ptr # Null
  <2>2. t = [s EXCEPT !.ok = b] /\ b \in BOOLEAN
    BY <2>1
  <2> HIDE DEF b, t
  <2>3. t = [v |-> s.v, m |-> s.m, ok |-> b]
    BY <2>2 DEF Sound
  <2>4. Sound(t) /\ Cells(t) = Cells(s)
    BY <2>2, <2>3 DEF Sound, Cells, Block
  <2>5. t.ok = b /\ t.v = s.v
    BY <2>3
  <2>6. t.ok => t.v.ptr # Null /\ t.v.len = s.v.len /\ t.v.len + by <= t.v.cap
    BY <1>2, <2>5 DEF b
  <2> QED BY <2>4, <2>6 DEF t
<1>3. CASE ~(s.v.len + by <= s.v.cap)
  <2>1. t = VecRealloc(s, n, memory)
    BY <1>3 DEF Grow
  <2>2. n \in Nat /\ s.v.len + by <= n
    <3>1. s.v.len \div part \in Nat
      BY <1>1
    <3>2. Larger(by, s.v.len \div part) \in Nat /\ by <= Larger(by, s.v.len \div part)
      BY <3>1, SmallerFacts
    <3> QED BY <1>1, <3>2
  <2> HIDE DEF t, n
  <2>3. /\ Sound(t)
        /\ t.ok => /\ Cells(t) = SubSeq(Cells(s), 1, Smaller(s.v.len, n))
                   /\ t.v.cap # 0 /\ n <= t.v.cap /\ t.v.len = Smaller(s.v.len, n)
        /\ ~t.ok => Cells(t) = Cells(s)
    BY <2>1, <2>2, ReallocFacts
  <2>4. Smaller(s.v.len, n) = s.v.len
    BY <1>1, <2>2 DEF Smaller
  <2>5. SubSeq(Cells(s), 1, s.v.len) = Cells(s)
    BY CellsFacts, SubSeqFull
  <2>6. Cells(t) = Cells(s) /\ t.ok \in BOOLEAN
    BY <2>3, <2>4, <2>5 DEF Sound
  <2>7. t.ok => t.v.ptr # Null /\ t.v.len = s.v.len /\ t.v.len + by <= t.v.cap
    <3> SUFFICES ASSUME t.ok PROVE t.v.ptr # Null /\ t.v.len = s.v.len /\ t.v.len + by <= t.v.cap
      OBVIOUS
    <3>1. t.v.cap # 0 /\ n <= t.v.cap /\ t.v.len = s.v.len
      BY <2>3, <2>4
    <3>2. t.v.ptr # Null /\ t.v.cap \in Nat
      BY <2>3, <3>1, SoundFacts
    <3> QED BY <1>1, <2>2, <3>1, <3>2
  <2> QED BY <2>3, <2>6, <2>7 DEF t
<1> QED BY <1>2, <1>3

----------------------------------------------------------------------------
(* Writing to the buffer *)

LEMMA StoreFacts ==
  ASSUME NEW s, Sound(s), s.v.ptr # Null, NEW dst \in Nat, NEW data \in Seq(Contents),
         s.v.cap # 0 \/ data = <<>>
  PROVE  LET t == Store(s, dst, data)
             b == Block(s)
             o == s.v.ptr[2]
         IN  /\ Sound(t) /\ t.v = s.v /\ t.ok = s.ok /\ Block(t) = b /\ Len(t.m[b]) = Len(s.m[b])
             /\ \A i \in 1..Len(s.m[b]) :
                  t.m[b][i] = IF i - o - dst \in 1..Len(data) THEN data[i - o - dst] ELSE s.m[b][i]
<1> DEFINE t == Store(s, dst, data)
           b == Block(s)
           o == s.v.ptr[2]
           old == s.m[b]
           new == [i \in DOMAIN old |-> IF i - o - dst \in DOMAIN data THEN data[i - o - dst] ELSE old[i]]
           m == [s.m EXCEPT ![b] = new]
<1>1. Memory(s.m, s.v) /\ IsVec(s.v, s.m) /\ IsVec(taken, s.m) /\ s.ok \in BOOLEAN
  BY DEF Sound
<1>2. b \in DOMAIN s.m /\ o \in Nat
  BY SoundFacts
<1>3. old \in Seq(Contents) /\ DOMAIN old = 1..Len(old) /\ Len(old) \in Nat
  <2>1. old \in Seq(Contents)
    BY <1>2, SoundFacts
  <2> HIDE DEF old
  <2> QED BY <2>1
<1>4. t = [s EXCEPT !.m = m]
  <2>1. t = [s EXCEPT !.m[b] = new]
    BY DEF Store
  <2> QED BY <2>1
<1>5. DOMAIN data = 1..Len(data) /\ \A i \in 1..Len(data) : data[i] \in Contents
  OBVIOUS
<1>6. /\ new \in Seq(Contents) /\ Len(new) = Len(old)
      /\ \A i \in 1..Len(old) : new[i] = IF i - o - dst \in 1..Len(data) THEN data[i - o - dst] ELSE old[i]
  <2> HIDE DEF old, o
  <2>1. \A i \in 1..Len(old) : old[i] \in Contents
    BY <1>3
  <2>2. new = [i \in 1..Len(old) |-> IF i - o - dst \in 1..Len(data) THEN data[i - o - dst] ELSE old[i]]
    BY <1>3, <1>5
  <2> HIDE DEF new
  <2>3. new \in [1..Len(old) -> Contents]
    BY <1>5, <2>1, <2>2
  <2> QED BY <1>3, <2>2, <2>3
<1>7. b = "static" => new = old
  <2> SUFFICES ASSUME b = "static" PROVE new = old
    OBVIOUS
  <2>1. s.v.cap = 0
    BY SoundFacts
  <2>2. Len(data) = 0
    BY <2>1
  <2> HIDE DEF new, old, o
  <2>3. \A i \in 1..Len(old) : new[i] = old[i]
    BY <1>6, <2>2
  <2> QED BY <1>3, <1>6, <2>3, SeqEqual
<1> HIDE DEF new, t
<1>8. DOMAIN m = DOMAIN s.m /\ m[b] = new /\ \A c \in DOMAIN s.m : c # b => m[c] = s.m[c]
  BY <1>2
<1>9. m \in [DOMAIN m -> Seq(Contents)]
  BY <1>1, <1>2, <1>6 DEF Memory
<1> HIDE DEF m
<1>10. \A c \in DOMAIN s.m : Len(m[c]) = Len(s.m[c])
  BY <1>6, <1>8
<1>11. Memory(m, s.v)
  <2>1. "static" \in DOMAIN s.m
    BY SoundFacts
  <2>2. m["static"] = VecStatic
    BY <1>1, <1>7, <1>8, <2>1 DEF Memory
  <2> QED BY <1>1, <1>8, <1>9, <2>2 DEF Memory
<1>12. IsVec(s.v, m)
  <2>1. s.v.cap # 0 => s.v.ptr[1] \in DOMAIN s.m
    BY <1>1 DEF Memory, OwnBlock
  <2> QED BY <1>1, <1>10, <2>1 DEF IsVec
<1>13. IsVec(taken, m)
  <2>1. taken.cap # 0 => taken.ptr[1] \in DOMAIN s.m
    BY <1>1 DEF Memory, OwnBlock
  <2> QED BY <1>1, <1>10, <2>1 DEF IsVec
<1>14. t = [v |-> s.v, m |-> m, ok |-> s.ok]
  BY <1>4 DEF Sound
<1>15. Sound(t)
  BY <1>1, <1>11, <1>12, <1>13, <1>14 DEF Sound
<1>16. Block(t) = b
  BY <1>14 DEF Block
<1> HIDE DEF b, o, old
<1>17. Len(t.m[b]) = Len(s.m[b])
       /\ \A i \in 1..Len(s.m[b]) :
             t.m[b][i] = IF i - o - dst \in 1..Len(data) THEN data[i - o - dst] ELSE s.m[b][i]
  BY <1>6, <1>8, <1>14 DEF old
<1>18. Sound(t) /\ t.v = s.v /\ t.ok = s.ok /\ Block(t) = b
  BY <1>14, <1>15, <1>16
<1> QED BY <1>17, <1>18 DEF t, b, o

(* In a buffer of its own *)
LEMMA OwnStoreFacts ==
  ASSUME NEW s, Sound(s), s.v.cap # 0, NEW dst \in Nat, NEW data \in Seq(Contents)
  PROVE  LET t == Store(s, dst, data)
             b == Block(s)
         IN  /\ Sound(t) /\ t.v = s.v /\ t.ok = s.ok /\ Block(t) = b
             /\ \A i \in 1..s.v.cap :
                  t.m[b][i] = IF i - dst \in 1..Len(data) THEN data[i - dst] ELSE s.m[b][i]
<1> DEFINE t == Store(s, dst, data)
           b == Block(s)
           o == s.v.ptr[2]
<1>1. o = 0 /\ s.v.ptr # Null /\ Len(s.m[b]) = s.v.cap /\ s.v.cap \in Nat
  BY SoundFacts
<1>2. /\ Sound(t) /\ t.v = s.v /\ t.ok = s.ok /\ Block(t) = b
      /\ \A i \in 1..Len(s.m[b]) :
           t.m[b][i] = IF i - o - dst \in 1..Len(data) THEN data[i - o - dst] ELSE s.m[b][i]
  BY <1>1, StoreFacts
<1> HIDE DEF t, b, o
<1>3. ASSUME NEW i \in 1..s.v.cap
      PROVE  t.m[b][i] = IF i - dst \in 1..Len(data) THEN data[i - dst] ELSE s.m[b][i]
  <2>1. i - o - dst = i - dst /\ i \in 1..Len(s.m[b])
    BY <1>1
  <2> QED BY <1>2, <2>1
<1> QED BY <1>2, <1>3 DEF t, b

(* "its" is the buffer with data at dst. *)
Overlaid(s, dst, data, its, n) ==
  its \in Seq(Contents) /\ Len(its) = n /\
  \A i \in 1..n : its[i] = IF i - dst \in 1..Len(data) THEN data[i - dst] ELSE s.m[Block(s)][i]

(* A change and a new length give those elements. *)
LEMMA ChangeFacts ==
  ASSUME NEW s, Sound(s), s.v.cap # 0, NEW dst \in Nat, NEW data \in Seq(Contents),
         NEW n \in Nat, n <= s.v.cap, NEW its, Overlaid(s, dst, data, its, n)
  PROVE  LET t == [Store(s, dst, data) EXCEPT !.v.len = n]
         IN  Sound(t) /\ t.ok = s.ok /\ Cells(t) = its
<1> DEFINE u == Store(s, dst, data)
           t == [u EXCEPT !.v.len = n]
<1>1. /\ Sound(u) /\ u.v = s.v /\ u.ok = s.ok /\ Block(u) = Block(s)
      /\ \A i \in 1..s.v.cap :
           u.m[Block(s)][i] = IF i - dst \in 1..Len(data) THEN data[i - dst] ELSE s.m[Block(s)][i]
  BY OwnStoreFacts
<1>2. s.v.cap \in Nat /\ s.v.ptr[2] = 0
  BY SoundFacts
<1> HIDE DEF u
<1>3. /\ Sound(t) /\ t.m = u.m /\ t.ok = u.ok /\ Block(t) = Block(u)
      /\ t.v.len = n /\ t.v.cap = u.v.cap /\ t.v.ptr = u.v.ptr
  <2>1. n <= u.v.len \/ (u.v.cap # 0 /\ n <= u.v.cap)
    BY <1>1
  <2> QED BY <1>1, <2>1, LengthFacts
<1> HIDE DEF t
<1>4. \A i \in 1..n : its[i] = t.m[Block(t)][t.v.ptr[2] + i]
  <2>1. \A i \in 1..n : i \in 1..s.v.cap /\ 0 + i = i
    BY <1>2
  <2> QED BY SMTT(30), <1>1, <1>2, <1>3, <2>1 DEF Overlaid
<1>5. Cells(t) = its
  BY <1>3, <1>4, CellsAre DEF Overlaid
<1> QED BY <1>1, <1>3, <1>5 DEF t, u

----------------------------------------------------------------------------
(* The calls *)

LEMMA InvFacts ==
  ASSUME VecInv
  PROVE  /\ Sound(S) /\ S.v = vec /\ S.m = mem /\ S.ok = TRUE /\ Cells(S) = stored
         /\ stored \in Seq(Contents) /\ Len(stored) = vec.len
         /\ vec.len \in Nat /\ vec.cap \in Nat
<1>1. Sound(S) /\ S.v = vec /\ S.m = mem /\ S.ok = TRUE /\ Cells(S) = stored
  BY DEF VecInv, S
<1>2. stored \in Seq(Contents) /\ Len(stored) = vec.len
  BY <1>1, CellsFacts
<1>3. vec.len \in Nat /\ vec.cap \in Nat
  BY <1>1, SoundFacts
<1> QED BY <1>1, <1>2, <1>3

LEMMA ReturnInv ==
  ASSUME VecInv, NEW t, NEW its, Return(t, its), Sound(t), Cells(t) = IF t.ok THEN its ELSE stored
  PROVE  VecInv'
<1>1. vec' = t.v /\ mem' = t.m /\ stored' = Cells(t) /\ taken' = taken
  BY DEF Return
<1>2. S' = [v |-> t.v, m |-> t.m, ok |-> TRUE]
  BY <1>1 DEF S
<1>3. Sound(S)'
  BY <1>1, <1>2 DEF Sound, Memory, IsVec, OwnBlock
<1>4. Cells(S)' = Cells(t)
  BY <1>2 DEF Cells, Block
<1> QED BY <1>1, <1>3, <1>4 DEF VecInv

LEMMA FieldFacts ==
  ASSUME NEW s, Sound(s), NEW v, NEW m
  PROVE  /\ [s EXCEPT !.v = v] = [v |-> v, m |-> s.m, ok |-> s.ok]
         /\ [s EXCEPT !.v = v, !.m = m] = [v |-> v, m |-> m, ok |-> s.ok]
         /\ [s EXCEPT !.ok = FALSE] = [v |-> s.v, m |-> s.m, ok |-> FALSE]
<1> DEFINE t1 == [s EXCEPT !.v = v]
           t2 == [s EXCEPT !.v = v, !.m = m]
           t3 == [s EXCEPT !.ok = FALSE]
<1>1. t1 = [s EXCEPT !.v = v] /\ t2 = [s EXCEPT !.v = v, !.m = m] /\ t3 = [s EXCEPT !.ok = FALSE]
  OBVIOUS
<1> HIDE DEF t1, t2, t3
<1>2. t1 = [v |-> v, m |-> s.m, ok |-> s.ok]
  BY <1>1 DEF Sound
<1>3. t2 = [v |-> v, m |-> m, ok |-> s.ok]
  BY <1>1 DEF Sound
<1>4. t3 = [v |-> s.v, m |-> s.m, ok |-> FALSE]
  BY <1>1 DEF Sound
<1> QED BY <1>2, <1>3, <1>4 DEF t1, t2, t3

LEMMA RenewedEmpty ==
  ASSUME NEW s, Sound(s), NEW n \in Nat \ {0}
  PROVE  Sound(Renewed(s, n, <<>>, 0)) /\ Cells(Renewed(s, n, <<>>, 0)) = <<>>
<1> DEFINE none == <<>>
           k == 0
<1>1. none \in Seq(Contents) /\ k \in Nat /\ k <= Len(none) /\ k <= n
  OBVIOUS
<1> HIDE DEF none, k
<1>2. Sound(Renewed(s, n, none, k)) /\ Cells(Renewed(s, n, none, k)) = SubSeq(none, 1, k)
  BY <1>1, RenewedFacts
<1> QED BY <1>2, SubSeqEmpty DEF none, k

LEMMA AllocateStep ==
  ASSUME VecInv, NEW n \in Nat, Allocate(n)
  PROVE  VecInv'
<1> DEFINE e == FreeBuffer(S)
<1>1. Sound(e) /\ e.v = Empty /\ e.ok = TRUE /\ Cells(e) = <<>>
  BY InvFacts, FreeFacts
<1>2. PICK memory \in BOOLEAN : /\ vec' = Alloc(S, n, memory).v /\ mem' = Alloc(S, n, memory).m
                                /\ stored' = <<>> /\ taken' = taken
  BY DEF Allocate
<1> DEFINE t == Alloc(S, n, memory)
           a == AtLeast1(n)
<1>3. Sound(t) /\ Cells(t) = <<>>
  <2>1. CASE ~memory
    <3>1. t = [e EXCEPT !.ok = FALSE]
      BY <2>1 DEF Alloc
    <3> HIDE DEF t, e
    <3>2. t = [v |-> e.v, m |-> e.m, ok |-> FALSE]
      BY <1>1, <3>1 DEF Sound
    <3> QED BY <1>1, <3>2 DEF Sound, Cells, Block
  <2>2. CASE memory
    <3> DEFINE f == Fresh(e.m, a, <<>>)
    <3>1. t = [e EXCEPT !.v = [ptr |-> f.ptr, len |-> 0, cap |-> a], !.m = f.m]
      BY <2>2 DEF Alloc
    <3>2. a \in Nat \ {0}
      BY SmallerFacts
    <3> HIDE DEF t, e, a
    <3>3. t = Renewed(e, a, <<>>, 0)
      <4>1. e.v.cap = 0
        BY <1>1, EmptyFacts
      <4>2. Renewed(e, a, <<>>, 0) = [v |-> [ptr |-> f.ptr, len |-> 0, cap |-> a], m |-> f.m, ok |-> e.ok]
        BY <4>1 DEF Renewed
      <4> DEFINE v == [ptr |-> f.ptr, len |-> 0, cap |-> a]
      <4>3. t = [e EXCEPT !.v = v, !.m = f.m]
        BY <3>1
      <4> HIDE DEF v
      <4>4. t = [v |-> v, m |-> f.m, ok |-> e.ok]
        BY <1>1, <4>3, FieldFacts
      <4> QED BY <4>2, <4>4 DEF v
    <3>5. Sound(Renewed(e, a, <<>>, 0)) /\ Cells(Renewed(e, a, <<>>, 0)) = <<>>
      <4>1. Sound(e)
        BY <1>1
      <4> QED BY <3>2, <4>1, RenewedEmpty
    <3> QED BY <3>3, <3>5
  <2> QED BY <2>1, <2>2
<1> HIDE DEF t
<1>4. S' = [v |-> t.v, m |-> t.m, ok |-> TRUE]
  BY <1>2 DEF S, t
<1>5. Sound(S)'
  BY <1>2, <1>3, <1>4 DEF Sound, Memory, IsVec, OwnBlock
<1>6. Cells(S)' = Cells(t)
  BY <1>4 DEF Cells, Block
<1> QED BY <1>2, <1>3, <1>5, <1>6 DEF VecInv

LEMMA ClearStep ==
  ASSUME VecInv, Clear
  PROVE  VecInv'
<1>1. Sound(FreeBuffer(S)) /\ FreeBuffer(S).ok = TRUE /\ Cells(FreeBuffer(S)) = <<>>
  BY InvFacts, FreeFacts
<1> QED BY <1>1, ReturnInv DEF Clear

LEMMA SetStaticStep ==
  ASSUME VecInv, NEW off \in Nat, NEW n \in Nat, off + n <= Len(VecStatic), SetStatic(off, n)
  PROVE  VecInv'
<1> DEFINE e == FreeBuffer(S)
           v == [ptr |-> <<"static", off>>, len |-> n, cap |-> 0]
           t == [e EXCEPT !.v = v]
           its == SubSeq(VecStatic, off + 1, off + n)
<1>1. Sound(e) /\ e.v = Empty /\ e.ok = TRUE
  BY InvFacts, FreeFacts
<1>2. Return(t, its)
  BY DEF SetStatic
<1> HIDE DEF e
<1>3. t = [v |-> v, m |-> e.m, ok |-> TRUE]
  <2> HIDE DEF v
  <2> QED BY <1>1, FieldFacts
<1>4. IsVec(v, e.m)
  BY DEF IsVec
<1>5. OwnBlock(v) = {} /\ OwnBlock(e.v) = {}
  BY <1>1, EmptyFacts DEF OwnBlock
<1>6. v.ptr # Null /\ v.ptr[1] = "static" /\ v.ptr[2] = off /\ v.len = n
  BY Names DEF Null
<1> HIDE DEF v, t
<1>7. Sound(t)
  BY <1>1, <1>3, <1>4, <1>5 DEF Sound, Memory
<1>8. Cells(t) = its
  <2>1. e.m["static"] = VecStatic
    BY <1>1 DEF Sound, Memory
  <2> QED BY <1>3, <1>6, <2>1 DEF Cells, Block
<1> QED BY <1>2, <1>3, <1>7, <1>8, ReturnInv

LEMMA ShiftStep ==
  ASSUME VecInv, NEW by \in Nat, Shift(by)
  PROVE  VecInv'
<1> DEFINE p == <<vec.ptr[1], vec.ptr[2] + by>>
           v == [ptr |-> p, len |-> vec.len - by, cap |-> vec.cap]
           t == [S EXCEPT !.v = [ptr |-> <<@.ptr[1], @.ptr[2] + by>>, len |-> @.len - by, cap |-> 0]]
           its == SubSeq(stored, by + 1, Len(stored))
<1>1. /\ Sound(S) /\ S.v = vec /\ S.m = mem /\ S.ok = TRUE /\ Cells(S) = stored
      /\ stored \in Seq(Contents) /\ Len(stored) = vec.len /\ vec.len \in Nat /\ vec.cap \in Nat
  BY InvFacts
<1>2. vec.cap = 0 /\ by <= vec.len /\ vec.len # 0 /\ Return(t, its)
  BY DEF Shift, Owned
<1>3. /\ vec \in [ptr : (MemBlocks \cup {"static", "null"}) \X Nat, len : Nat, cap : Nat]
      /\ vec.ptr[1] = "static" /\ vec.ptr[2] + vec.len <= Len(VecStatic) /\ vec.ptr[2] \in Nat
      /\ VecStatic \in Seq(Contents)
  <2>1. IsVec(vec, mem)
    BY <1>1 DEF Sound
  <2>2. VecStatic \in Seq(Contents) /\ vec.ptr[2] \in Nat
    BY <1>1, SoundFacts
  <2> QED BY <1>1, <1>2, <2>1, <2>2 DEF IsVec
<1>4. t = [v |-> v, m |-> mem, ok |-> TRUE]
  <2>1. t = [S EXCEPT !.v = v]
    BY <1>1, <1>2
  <2> HIDE DEF v, t
  <2> QED BY <1>1, <2>1, FieldFacts
<1>5. v.ptr[1] = "static" /\ v.ptr[2] = vec.ptr[2] + by /\ v.ptr # Null /\ v.len = vec.len - by /\ v.cap = 0
  BY <1>2, <1>3, Names DEF Null
<1>6. v \in [ptr : (MemBlocks \cup {"static", "null"}) \X Nat, len : Nat, cap : Nat]
  BY <1>1, <1>2, <1>3
<1> HIDE DEF v, t
<1>7. IsVec(v, mem)
  <2>1. Len(VecStatic) \in Nat
    BY <1>3
  <2>2. v.ptr[2] + v.len <= Len(VecStatic)
    BY <1>1, <1>2, <1>3, <1>5, <2>1
  <2> QED BY <1>5, <1>6, <2>2 DEF IsVec
<1>8. Sound(t)
  <2>1. OwnBlock(v) = {} /\ OwnBlock(vec) = {}
    BY <1>2, <1>5 DEF OwnBlock
  <2> QED BY <1>1, <1>4, <1>7, <2>1 DEF Sound, Memory
<1>9. Cells(t) = its
  <2>1. /\ its \in Seq(Contents) /\ Len(its) = vec.len - by
        /\ \A i \in 1..vec.len - by : its[i] = stored[by + i]
    BY <1>1, <1>2, PartOf
  <2> HIDE DEF its
  <2>2. \A i \in 1..vec.len : stored[i] = mem[Block(S)][vec.ptr[2] + i]
    <3>1. vec.ptr # Null
      BY <1>3, Names DEF Null
    <3> QED BY <1>1, <3>1, CellsFacts
  <2>3. t.v = v /\ t.m = mem /\ Block(t) = Block(S)
    BY <1>1, <1>3, <1>4, <1>5 DEF Block
  <2>4. ASSUME NEW i \in 1..t.v.len PROVE its[i] = t.m[Block(t)][t.v.ptr[2] + i]
    <3>1. i \in 1..vec.len - by /\ by + i \in 1..vec.len /\ v.ptr[2] + i = vec.ptr[2] + (by + i)
      BY <1>1, <1>2, <1>3, <1>5, <2>3
    <3> QED BY <2>1, <2>2, <2>3, <3>1
  <2>5. Len(its) = t.v.len
    BY <1>5, <2>1, <2>3
  <2> QED BY <1>8, <2>1, <2>4, <2>5, CellsAre
<1>10. t.ok = TRUE
  BY <1>4
<1> QED BY <1>2, <1>8, <1>9, <1>10, ReturnInv

LEMMA TakeOverStep ==
  ASSUME VecInv, TakeOver
  PROVE  VecInv'
<1>1. Sound(S) /\ S.v = vec /\ S.m = mem
  BY InvFacts
<1>2. vec' = Empty /\ taken' = vec /\ stored' = <<>> /\ mem' = mem /\ taken = Empty /\ vec.cap # 0
  BY DEF TakeOver, Owned
<1>3. IsVec(vec, mem) /\ Memory(mem, vec)
  BY <1>1 DEF Sound
<1>4. S' = [v |-> Empty, m |-> mem, ok |-> TRUE]
  BY <1>2 DEF S
<1>5. Memory(mem, Empty)'
  <2>1. OwnBlock(taken) = {} /\ OwnBlock(Empty) = {}
    BY <1>2, EmptyFacts
  <2> QED BY <1>2, <1>3, <2>1 DEF Memory, OwnBlock, Empty, Null
<1>6. Sound(S)'
  <2>1. IsVec(Empty, mem)'
    BY <1>2, EmptyFacts
  <2> QED BY <1>2, <1>3, <1>4, <1>5, <2>1 DEF Sound, Memory, IsVec, OwnBlock, Empty, Null
<1>7. Cells(S)' = <<>>
  BY <1>4, EmptyFacts DEF Cells
<1> QED BY <1>2, <1>6, <1>7 DEF VecInv

LEMMA GiveBackStep ==
  ASSUME VecInv, GiveBack
  PROVE  VecInv'
<1> DEFINE t == FreeBuffer(S)
           b == taken.ptr[1]
<1>1. Sound(S) /\ S.v = vec /\ S.m = mem /\ Sound(t) /\ t.v = Empty
  BY InvFacts, FreeFacts
<1>2. mem' = t.m /\ stored' = SubSeq(mem[b], 1, taken.len) /\ vec' = taken /\ taken' = Empty /\ taken.cap # 0
  BY DEF GiveBack, VecInv
<1>3. t.m[b] = mem[b]
  <2>1. Memory(mem, vec) /\ b \in OwnBlock(taken)
    BY <1>1, <1>2 DEF Sound, OwnBlock
  <2>2. b \in DOMAIN mem /\ (vec.cap # 0 => b # vec.ptr[1])
    BY <2>1 DEF Memory, OwnBlock
  <2>3. t.m = IF vec.cap # 0 THEN Release(mem, vec.ptr[1]) ELSE mem
    BY DEF FreeBuffer, S, Block
  <2> HIDE DEF t, b
  <2> QED BY <2>2, <2>3 DEF Release
<1> HIDE DEF t
<1>4. IsVec(taken, t.m) /\ Memory(t.m, Empty)
  BY <1>1 DEF Sound
<1>5. S' = [v |-> taken, m |-> t.m, ok |-> TRUE]
  BY <1>2 DEF S
<1>6. VecInv'
  <2>1. OwnBlock(Empty) = {}
    BY EmptyFacts
  <2>2. /\ t.m \in [DOMAIN t.m -> Seq(Contents)] /\ t.m["static"] = VecStatic
        /\ DOMAIN t.m = {"static"} \cup OwnBlock(taken)
    BY <1>4, <2>1 DEF Memory
  <2>3. vec' = taken /\ mem' = t.m /\ OwnBlock(taken)' = {} /\ OwnBlock(vec)' = OwnBlock(taken)
    BY <1>2, <2>1 DEF OwnBlock
  <2>4. Memory(mem, vec)'
    BY <2>2, <2>3 DEF Memory
  <2>5. Sound(S)'
    <3>1. IsVec(vec, mem)'
      BY <1>2, <1>4 DEF IsVec
    <3>2. IsVec(taken, mem)'
      BY <1>2, EmptyFacts
    <3>3. S' = [v |-> vec', m |-> mem', ok |-> TRUE]
      BY DEF S
    <3> QED BY <2>4, <3>1, <3>2, <3>3 DEF Sound
  <2>6. Cells(S)' = stored'
    <3>1. vec'.ptr # Null /\ vec'.ptr[2] = 0 /\ vec'.ptr[1] = b
      BY <1>2, <1>4, Names DEF IsVec, Null
    <3>2. Cells(S)' = SubSeq(mem'[b], 0 + 1, 0 + taken.len)
      BY <1>2, <1>5, <3>1 DEF Cells, Block
    <3>3. 0 + taken.len = taken.len /\ 0 + 1 = 1
      BY <1>4 DEF IsVec
    <3> QED BY <1>2, <1>3, <3>2, <3>3
  <2> QED BY <1>2, <2>5, <2>6, EmptyFacts DEF VecInv
<1> QED BY <1>6

LEMMA ReallocateStep ==
  ASSUME VecInv, NEW n \in Nat, Reallocate(n)
  PROVE  VecInv'
<1>1. PICK memory \in BOOLEAN : Return(VecRealloc(S, n, memory), CutTo(n))
  BY DEF Reallocate
<1> DEFINE t == VecRealloc(S, n, memory)
<1>2. Sound(S) /\ S.v = vec /\ S.ok = TRUE /\ Cells(S) = stored /\ Len(stored) = vec.len /\ vec.len \in Nat
  BY InvFacts
<1>3. /\ Sound(t)
      /\ t.ok => Cells(t) = SubSeq(Cells(S), 1, Smaller(S.v.len, n))
      /\ ~t.ok => Cells(t) = Cells(S)
  BY <1>2, ReallocFacts
<1>4. CutTo(n) = SubSeq(stored, 1, Smaller(vec.len, n))
  BY <1>2, SmallerFacts DEF CutTo
<1> HIDE DEF t
<1>5. Cells(t) = IF t.ok THEN CutTo(n) ELSE stored
  BY <1>2, <1>3, <1>4
<1>6. Return(t, CutTo(n))
  BY <1>1 DEF t
<1> QED BY <1>3, <1>5, <1>6, ReturnInv

LEMMA GrowByStep ==
  ASSUME VecInv, NEW by \in Nat, NEW part \in {1, 2}, GrowBy(by, part)
  PROVE  VecInv'
<1>1. PICK memory \in BOOLEAN : Return(Grow(S, by, part, memory), stored)
  BY DEF GrowBy
<1>2. Sound(S) /\ S.ok = TRUE /\ Cells(S) = stored
  BY InvFacts
<1> DEFINE t == Grow(S, by, part, memory)
<1>3. Sound(t) /\ Cells(t) = Cells(S)
  BY <1>2, GrowFacts
<1>4. Return(t, stored)
  BY <1>1
<1> HIDE DEF t
<1> QED BY <1>2, <1>3, <1>4, ReturnInv

LEMMA DatasFacts ==
  ASSUME NEW data \in Datas
  PROVE  data \in Seq(Contents) /\ Len(data) \in Nat
<1>1. CASE data = <<>>
  BY <1>1
<1>2. CASE \E a \in VecValues : data = <<a>>
  <2>1. PICK a \in VecValues : data = <<a>>
    BY <1>2
  <2>2. a \in Contents
    BY DEF Contents
  <2> QED BY <2>1, <2>2
<1>3. CASE \E a, b \in VecValues : data = <<a, b>>
  <2>1. PICK a \in VecValues, b \in VecValues : data = <<a, b>>
    BY <1>3
  <2>2. a \in Contents /\ b \in Contents
    BY DEF Contents
  <2> QED BY <2>1, <2>2
<1> QED BY <1>1, <1>2, <1>3 DEF Datas

LEMMA InsertAllStep ==
  ASSUME VecInv, NEW data \in Datas, NEW off \in Nat, InsertAll(off, data)
  PROVE  VecInv'
<1> DEFINE its == SubSeq(stored, 1, off) \o data \o SubSeq(stored, off + 1, Len(stored))
           len == vec.len
           l == Len(data)
<1>1. PICK memory \in BOOLEAN : Return(Insert(S, off, data, memory), its)
  BY DEF InsertAll
<1> DEFINE g == Grow(S, l, 2, memory)
           t == Insert(S, off, data, memory)
           rest == SubSeq(Cells(g), off + 1, g.v.len)
<1>2. /\ Sound(S) /\ S.v = vec /\ S.ok = TRUE /\ Cells(S) = stored
      /\ stored \in Seq(Contents) /\ Len(stored) = len /\ len \in Nat
  BY InvFacts
<1>3. data \in Seq(Contents) /\ l \in Nat /\ off <= len
  BY DatasFacts DEF InsertAll
<1>4. /\ Sound(g) /\ Cells(g) = stored /\ g.ok \in BOOLEAN
      /\ g.ok => g.v.ptr # Null /\ g.v.len = len /\ len + l <= g.v.cap
  <2>1. /\ Sound(g) /\ Cells(g) = Cells(S)
        /\ g.ok => g.v.ptr # Null /\ g.v.len = S.v.len /\ g.v.len + l <= g.v.cap
    BY <1>2, <1>3, GrowFacts
  <2> HIDE DEF g
  <2>2. g.ok \in BOOLEAN
    BY <2>1 DEF Sound
  <2> QED BY <1>2, <2>1, <2>2
<1>5. CASE ~g.ok
  <2>1. t = g
    BY <1>5 DEF Insert
  <2> HIDE DEF g
  <2>2. Return(g, its)
    BY <1>1, <2>1
  <2> QED BY <1>4, <1>5, <2>2, ReturnInv
<1>6. CASE g.ok
  <2> DEFINE u == Store(g, off + l, rest)
  <2>1. t = [Store(u, off, data) EXCEPT !.v.len = @ + l]
    BY <1>6 DEF Insert
  <2>2. rest = SubSeq(stored, off + 1, len)
    BY <1>4, <1>6
  <2>3. /\ rest \in Seq(Contents) /\ Len(rest) = len - off
        /\ \A i \in 1..len - off : rest[i] = stored[off + i]
    <3> HIDE DEF rest
    <3> QED BY <1>2, <1>3, <2>2, PartOf
  <2>4. /\ its \in Seq(Contents) /\ Len(its) = len + l
        /\ \A i \in 1..len + l : its[i] = IF i <= off THEN stored[i] ELSE IF i <= off + l THEN data[i - off]
                                          ELSE rest[i - (off + l)]
    <3> DEFINE a == SubSeq(stored, 1, off)
    <3>1. a \in Seq(Contents) /\ Len(a) = off /\ \A i \in 1..off : a[i] = stored[i]
      BY <1>2, <1>3, FirstOf
    <3>2. its = a \o data \o rest
      BY <1>2, <2>2
    <3> HIDE DEF a, rest, its
    <3>3. /\ its \in Seq(Contents) /\ Len(its) = Len(a) + Len(data) + Len(rest)
          /\ \A i \in 1..Len(a) + Len(data) + Len(rest) :
                its[i] = IF i <= Len(a) THEN a[i]
                         ELSE IF i <= Len(a) + Len(data) THEN data[i - Len(a)]
                         ELSE rest[i - (Len(a) + Len(data))]
      <4>1. a \in Seq(Contents) /\ data \in Seq(Contents) /\ rest \in Seq(Contents)
        BY <1>3, <2>3, <3>1
      <4> DEFINE j == a \o data \o rest
      <4>2. /\ j \in Seq(Contents) /\ Len(j) = Len(a) + Len(data) + Len(rest)
            /\ \A i \in 1..Len(a) + Len(data) + Len(rest) :
                  j[i] = IF i <= Len(a) THEN a[i]
                         ELSE IF i <= Len(a) + Len(data) THEN data[i - Len(a)]
                         ELSE rest[i - (Len(a) + Len(data))]
        BY <4>1, JoinThree
      <4>3. its = j
        BY <3>2
      <4> HIDE DEF j
      <4> QED BY <4>2, <4>3
    <3>4. off + l + (len - off) = len + l
      BY <1>2, <1>3
    <3> QED BY SMTT(30), <1>2, <1>3, <2>3, <3>1, <3>3, <3>4
  <2> HIDE DEF rest, its, g
  <2>5. CASE g.v.cap # 0
    <3> DEFINE b == Block(g)
    <3>1. /\ Sound(u) /\ u.v = g.v /\ u.ok = g.ok /\ Block(u) = b
          /\ \A i \in 1..g.v.cap :
               u.m[b][i] = IF i - (off + l) \in 1..Len(rest) THEN rest[i - (off + l)] ELSE g.m[b][i]
      <4>1. off + l \in Nat
        BY <1>3
      <4> QED BY <1>4, <2>3, <2>5, <4>1, OwnStoreFacts
    <3>2. \A i \in 1..len : g.m[b][i] = stored[i]
      <4>1. g.v.ptr # Null /\ g.v.ptr[2] = 0
        BY <1>4, <2>5, SoundFacts
      <4>2. \A i \in 1..g.v.len : Cells(g)[i] = g.m[b][g.v.ptr[2] + i]
        BY <1>4, <4>1, CellsFacts
      <4>3. \A i \in 1..len : 0 + i = i
        OBVIOUS
      <4> HIDE DEF b
      <4> QED BY <1>4, <1>6, <4>1, <4>2, <4>3
    <3>3. g.v.cap \in Nat
      BY <1>4, SoundFacts
    <3> HIDE DEF u, b
    <3>4. \A i \in 1..len + l : its[i] = IF i - off \in 1..Len(data) THEN data[i - off] ELSE u.m[b][i]
      <4> TAKE i \in 1..len + l
      <4>1. i \in 1..g.v.cap
        BY <1>2, <1>3, <1>4, <1>6, <3>3
      <4>2. CASE i <= off
        <5>1. ~(i - off \in 1..Len(data)) /\ ~(i - (off + l) \in 1..Len(rest)) /\ i \in 1..len
          BY <1>2, <1>3, <2>3, <4>2
        <5> QED BY <2>4, <3>1, <3>2, <4>1, <4>2, <5>1
      <4>3. CASE off < i /\ i <= off + l
        <5>1. i - off \in 1..Len(data) /\ ~(i <= off)
          BY <1>3, <4>3
        <5> QED BY <2>4, <4>3, <5>1
      <4>4. CASE off + l < i
        <5>1. ~(i - off \in 1..Len(data)) /\ ~(i <= off) /\ ~(i <= off + l)
              /\ i - (off + l) \in 1..Len(rest)
          BY <1>2, <1>3, <2>3, <4>4
        <5> QED BY <2>4, <3>1, <4>1, <5>1
      <4> QED BY <1>3, <4>2, <4>3, <4>4
    <3>5. t = [Store(u, off, data) EXCEPT !.v.len = len + l]
      <4>1. Store(u, off, data).v.len = len
        <5>1. Store(u, off, data).v = u.v
          BY <1>3, <2>5, <3>1, OwnStoreFacts
        <5> QED BY <1>4, <1>6, <3>1, <5>1
      <4> HIDE DEF t
      <4> QED BY <2>1, <4>1
    <3> HIDE DEF t
    <3>6. Sound(t) /\ t.ok = u.ok /\ Cells(t) = its
      <4> DEFINE n == len + l
      <4>1. n \in Nat /\ n <= u.v.cap /\ u.v.cap # 0
        BY <1>2, <1>3, <1>4, <1>6, <2>5, <3>1
      <4> HIDE DEF n
      <4>2. Overlaid(u, off, data, its, n) /\ t = [Store(u, off, data) EXCEPT !.v.len = n]
        BY <2>4, <3>1, <3>4, <3>5 DEF n, Overlaid
      <4>3. Sound(u) /\ data \in Seq(Contents)
        BY <1>3, <3>1
      <4>4. LET x == [Store(u, off, data) EXCEPT !.v.len = n]
            IN  Sound(x) /\ x.ok = u.ok /\ Cells(x) = its
        BY <4>1, <4>2, <4>3, ChangeFacts
      <4> QED BY <4>2, <4>4
    <3>7. t.ok = TRUE /\ Return(t, its)
      BY <1>1, <1>6, <3>1, <3>6 DEF t, its
    <3> QED BY <3>6, <3>7, ReturnInv
  <2>6. CASE g.v.cap = 0
    <3>1. len = 0 /\ l = 0 /\ off = 0
      BY <1>2, <1>3, <1>4, <1>6, <2>6
    <3>2. rest = <<>> /\ data = <<>>
      BY <1>3, <2>3, <3>1, EmptySeq
    <3>3. /\ Sound(u) /\ u.v = g.v /\ u.ok = g.ok
      <4>1. off + l \in Nat
        BY <1>3
      <4> DEFINE d == off + l
      <4>2. d \in Nat /\ Sound(g) /\ g.v.ptr # Null /\ rest \in Seq(Contents) /\ rest = <<>>
        BY <1>4, <1>6, <2>3, <3>2, <4>1
      <4> HIDE DEF d
      <4>3. LET x == Store(g, d, rest) IN Sound(x) /\ x.v = g.v /\ x.ok = g.ok
        BY <4>2, StoreFacts
      <4> QED BY <4>3 DEF d
    <3> DEFINE w == Store(u, off, data)
    <3> HIDE DEF u
    <3>4. Sound(w) /\ w.v = g.v /\ w.ok = g.ok
      BY ZenonT(40), <1>3, <1>4, <1>6, <3>2, <3>3, StoreFacts
    <3> HIDE DEF w
    <3>5. t = [w EXCEPT !.v.len = 0]
      <4>1. w.v.len + l = 0
        BY <1>4, <1>6, <3>1, <3>4
      <4> HIDE DEF t
      <4> QED BY <2>1, <4>1 DEF w
    <3> DEFINE n == 0
    <3>6. n \in Nat /\ n <= w.v.len /\ t = [w EXCEPT !.v.len = n]
      BY <1>4, <1>6, <3>1, <3>4, <3>5
    <3> HIDE DEF t, n
    <3>7. Sound(t) /\ t.ok = w.ok /\ t.v.len = n
      BY <3>4, <3>6, LengthFacts
    <3>8. Cells(t) = <<>>
      BY <3>7, CellsFacts, EmptySeq DEF n
    <3>9. its = <<>>
      BY <2>4, <3>1, EmptySeq
    <3>10. t.ok = TRUE /\ Return(t, its)
      BY <1>1, <1>6, <3>4, <3>7 DEF t, its
    <3> QED BY <3>7, <3>8, <3>9, <3>10, ReturnInv
  <2> QED BY <2>5, <2>6
<1> QED BY <1>4, <1>5, <1>6
(* A buffer of its own holds what is stored. *)
LEMMA OwnFacts ==
  ASSUME VecInv, vec.cap # 0
  PROVE  /\ vec.len <= vec.cap
         /\ \A i \in 1..vec.len : S.m[Block(S)][i] = stored[i]
<1>1. Sound(S) /\ S.v = vec /\ Cells(S) = stored
  BY InvFacts
<1>2. vec.len <= vec.cap /\ vec.ptr # Null /\ vec.ptr[2] = 0
  BY <1>1, SoundFacts
<1>3. \A i \in 1..vec.len : stored[i] = S.m[Block(S)][0 + i]
  BY <1>1, <1>2, CellsFacts
<1>4. \A i \in 1..vec.len : 0 + i = i
  OBVIOUS
<1> QED BY <1>2, <1>3, <1>4

(* A change of the buffer that leaves "its" there *)
LEMMA ChangeInv ==
  ASSUME VecInv, vec.cap # 0, NEW dst \in Nat, NEW data \in Seq(Contents), NEW n \in Nat, n <= vec.cap,
         NEW its, Overlaid(S, dst, data, its, n),
         NEW t, t = [Store(S, dst, data) EXCEPT !.v.len = n], Return(t, its)
  PROVE  VecInv'
<1>1. Sound(S) /\ S.v = vec /\ S.ok = TRUE
  BY InvFacts
<1>2. LET x == [Store(S, dst, data) EXCEPT !.v.len = n]
      IN  Sound(x) /\ x.ok = S.ok /\ Cells(x) = its
  BY <1>1, ChangeFacts
<1>3. Sound(t) /\ t.ok = TRUE /\ Cells(t) = its
  BY <1>1, <1>2
<1> QED BY <1>3, ReturnInv

LEMMA AppendFastStep ==
  ASSUME VecInv, NEW data \in Datas, AppendFast(data)
  PROVE  VecInv'
<1> DEFINE k == Smaller(Len(data), vec.cap - vec.len)
           fits == SubSeq(data, 1, k)
           t == CatFast(S, data)
           its == stored \o fits
           n == vec.len + k
<1>1. /\ Sound(S) /\ S.v = vec /\ S.ok = TRUE /\ Cells(S) = stored
      /\ stored \in Seq(Contents) /\ Len(stored) = vec.len /\ vec.len \in Nat /\ vec.cap \in Nat
  BY InvFacts
<1>2. vec.cap # 0 /\ vec.len <= vec.cap /\ \A i \in 1..vec.len : S.m[Block(S)][i] = stored[i]
  BY OwnFacts DEF AppendFast, Owned
<1>3. k \in Nat /\ k <= Len(data) /\ k <= vec.cap - vec.len /\ data \in Seq(Contents)
  <2>1. Len(data) \in Nat /\ vec.cap - vec.len \in Nat /\ data \in Seq(Contents)
    BY <1>1, <1>2, DatasFacts
  <2> QED BY <2>1, SmallerFacts
<1>4. n \in Nat /\ n <= vec.cap
  BY <1>1, <1>2, <1>3
<1>5. fits \in Seq(Contents) /\ Len(fits) = k
  <2> HIDE DEF k
  <2> QED BY <1>3, FirstOf
<1>6. t = [Store(S, vec.len, fits) EXCEPT !.v.len = n]
  <2>1. t = [Store(S, vec.len, fits) EXCEPT !.v.len = @ + Len(fits)]
    BY <1>1 DEF CatFast
  <2> DEFINE w == Store(S, vec.len, fits)
  <2> HIDE DEF fits, k, t
  <2>2. w.v = S.v
    BY <1>1, <1>2, <1>5, OwnStoreFacts
  <2>3. w.v.len + Len(fits) = n
    BY <1>1, <1>5, <2>2
  <2> HIDE DEF w, n
  <2>4. t = [w EXCEPT !.v.len = @ + Len(fits)]
    BY <2>1 DEF w
  <2>5. t = [w EXCEPT !.v.len = n]
    BY <2>3, <2>4
  <2> QED BY <2>5 DEF w
<1>7. Return(t, its)
  <2>1. CutTo(Len(stored)) = stored
    <3>1. Smaller(Len(stored), Len(stored)) = Len(stored)
      BY DEF Smaller
    <3> QED BY <1>1, <3>1, SubSeqFull DEF CutTo
  <2> QED BY <2>1 DEF AppendFast
<1> HIDE DEF fits, t, k
<1>8. /\ its \in Seq(Contents) /\ Len(its) = n
      /\ \A i \in 1..n : its[i] = IF i <= vec.len THEN stored[i] ELSE fits[i - vec.len]
  <2>1. /\ its \in Seq(Contents) /\ Len(its) = Len(stored) + Len(fits)
        /\ \A i \in 1..Len(stored) + Len(fits) :
              its[i] = IF i <= Len(stored) THEN stored[i] ELSE fits[i - Len(stored)]
    <3>1. stored \in Seq(Contents) /\ fits \in Seq(Contents)
      BY <1>1, <1>5
    <3> DEFINE j == stored \o fits
    <3>2. /\ j \in Seq(Contents) /\ Len(j) = Len(stored) + Len(fits)
          /\ \A i \in 1..Len(stored) + Len(fits) :
                j[i] = IF i <= Len(stored) THEN stored[i] ELSE fits[i - Len(stored)]
      BY <3>1, ConcatProperties
    <3> QED BY <3>2
  <2> HIDE DEF its
  <2> QED BY <1>1, <1>5, <2>1
<1> HIDE DEF its
<1>9. Overlaid(S, vec.len, fits, its, n)
  <2>1. ASSUME NEW i \in 1..n
        PROVE  its[i] = IF i - vec.len \in 1..Len(fits) THEN fits[i - vec.len] ELSE S.m[Block(S)][i]
    <3>1. CASE i <= vec.len
      <4>1. i \in 1..vec.len /\ ~(i - vec.len \in 1..Len(fits))
        BY <1>1, <1>3, <1>5, <3>1
      <4> QED BY <1>2, <1>8, <3>1, <4>1
    <3>2. CASE ~(i <= vec.len)
      <4>1. i - vec.len \in 1..Len(fits)
        BY <1>1, <1>3, <1>5, <3>2
      <4> QED BY <1>8, <3>2, <4>1
    <3> QED BY <3>1, <3>2
  <2> QED BY <1>8, <2>1 DEF Overlaid
<1> HIDE DEF n
<1> QED BY <1>1, <1>2, <1>4, <1>5, <1>6, <1>7, <1>9, ChangeInv

LEMMA RmAllStep ==
  ASSUME VecInv, NEW i \in Nat, NEW n \in Nat \ {0}, i + n <= vec.len, RmAll(i, n)
  PROVE  VecInv'
<1> DEFINE rest == SubSeq(stored, i + n + 1, vec.len)
           first == SubSeq(stored, 1, i)
           t == Rm(S, i, n)
           its == first \o rest
           k == vec.len - n
<1>1. /\ Sound(S) /\ S.v = vec /\ S.ok = TRUE /\ Cells(S) = stored
      /\ stored \in Seq(Contents) /\ Len(stored) = vec.len /\ vec.len \in Nat /\ vec.cap \in Nat
  BY InvFacts
<1>2. vec.cap # 0 /\ vec.len <= vec.cap /\ \A j \in 1..vec.len : S.m[Block(S)][j] = stored[j]
  BY OwnFacts DEF RmAll, Owned
<1>3. k \in Nat /\ k <= vec.cap
  BY <1>1, <1>2
<1>4. /\ rest \in Seq(Contents) /\ Len(rest) = vec.len - (i + n)
      /\ \A j \in 1..vec.len - (i + n) : rest[j] = stored[i + n + j]
  <2> DEFINE a == i + n
  <2>1. a \in Nat /\ a <= vec.len
    OBVIOUS
  <2> HIDE DEF a
  <2>2. /\ SubSeq(stored, a + 1, vec.len) \in Seq(Contents) /\ Len(SubSeq(stored, a + 1, vec.len)) = vec.len - a
        /\ \A j \in 1..vec.len - a : SubSeq(stored, a + 1, vec.len)[j] = stored[a + j]
    BY <1>1, <2>1, PartOf
  <2> QED BY <2>2 DEF a
<1>5. first \in Seq(Contents) /\ Len(first) = i /\ \A j \in 1..i : first[j] = stored[j]
  BY <1>1, FirstOf
<1>6. t = [Store(S, i, rest) EXCEPT !.v.len = k]
  <2>1. t = [Store(S, i, rest) EXCEPT !.v.len = @ - n]
    BY <1>1 DEF Rm
  <2> DEFINE w == Store(S, i, rest)
  <2> HIDE DEF rest, t
  <2>2. w.v = S.v
    BY <1>1, <1>2, <1>4, OwnStoreFacts
  <2>3. w.v.len - n = k
    BY <1>1, <2>2
  <2> HIDE DEF w, k
  <2>4. t = [w EXCEPT !.v.len = @ - n]
    BY <2>1 DEF w
  <2>5. t = [w EXCEPT !.v.len = k]
    BY <2>3, <2>4
  <2> QED BY <2>5 DEF w
<1>7. Return(t, its)
  BY <1>1 DEF RmAll
<1> HIDE DEF first, rest, t
<1>8. /\ its \in Seq(Contents) /\ Len(its) = k
      /\ \A j \in 1..k : its[j] = IF j <= i THEN first[j] ELSE rest[j - i]
  <2>1. Len(first) + Len(rest) = k
    BY <1>1, <1>4, <1>5
  <2>2. /\ its \in Seq(Contents) /\ Len(its) = Len(first) + Len(rest)
        /\ \A j \in 1..Len(first) + Len(rest) : its[j] = IF j <= Len(first) THEN first[j] ELSE rest[j - Len(first)]
    BY <1>4, <1>5, ConcatProperties
  <2> HIDE DEF its, k
  <2> QED BY <1>5, <2>1, <2>2
<1> HIDE DEF its
<1>9. Overlaid(S, i, rest, its, k)
  <2>1. ASSUME NEW j \in 1..k
        PROVE  its[j] = IF j - i \in 1..Len(rest) THEN rest[j - i] ELSE S.m[Block(S)][j]
    <3>1. CASE j <= i
      <4>1. j \in 1..i /\ j \in 1..vec.len /\ ~(j - i \in 1..Len(rest))
        BY <1>1, <1>4, <3>1
      <4> QED BY <1>2, <1>5, <1>8, <3>1, <4>1
    <3>2. CASE ~(j <= i)
      <4>1. j - i \in 1..Len(rest)
        BY <1>1, <1>4, <3>2
      <4> QED BY <1>8, <3>2, <4>1
    <3> QED BY <3>1, <3>2
  <2> QED BY <1>8, <2>1 DEF Overlaid
<1> HIDE DEF k
<1> QED BY <1>1, <1>2, <1>3, <1>4, <1>6, <1>7, <1>9, ChangeInv

LEMMA RmSwapAllStep ==
  ASSUME VecInv, NEW i \in Nat, NEW n \in Nat \ {0}, i + n <= vec.len, RmSwapAll(i, n)
  PROVE  VecInv'
<1> DEFINE l == vec.len
           a == i + n
           tail == SubSeq(stored, a + 1, l)
           L == l - a
           k == Smaller(n, L)
           o == L - k
           first == SubSeq(stored, 1, i)
           moved == SubSeq(tail, o + 1, L)
           stay == SubSeq(tail, 1, o)
           its == first \o moved \o stay
           off == Larger(l - n, a)
           data == SubSeq(stored, off + 1, l)
           len == l - n
           t == RmSwap(S, i, n)
<1>1. /\ Sound(S) /\ S.v = vec /\ S.v.len = l /\ S.ok = TRUE /\ Cells(S) = stored
      /\ stored \in Seq(Contents) /\ Len(stored) = l /\ l \in Nat /\ vec.cap \in Nat
  BY InvFacts
<1>2. vec.cap # 0 /\ l <= vec.cap /\ \A j \in 1..l : S.m[Block(S)][j] = stored[j]
  BY OwnFacts DEF RmSwapAll, Owned
<1>3. /\ a \in Nat /\ a <= l /\ L \in Nat /\ len \in Nat /\ len <= vec.cap
      /\ k \in Nat /\ k <= L /\ k <= n /\ (k = n \/ k = L) /\ o \in Nat
      /\ off \in Nat /\ off <= l /\ l - off = k
  BY <1>1, <1>2 DEF Smaller, Larger
<1>4. t = [Store(S, i, data) EXCEPT !.v.len = @ - n]
  BY <1>1 DEF RmSwap
<1>5. Return(t, its)
  <2>1. Len(tail) = L
    <3>1. a \in Nat /\ a <= l
      BY <1>3
    <3> HIDE DEF a
    <3> QED BY <1>1, <3>1, PartOf
  <2>2. Return(t, SubSeq(stored, 1, i) \o SubSeq(tail, Len(tail) - Smaller(n, Len(tail)) + 1, Len(tail))
                  \o SubSeq(tail, 1, Len(tail) - Smaller(n, Len(tail))))
    BY <1>1 DEF RmSwapAll
  <2> HIDE DEF t
  <2> QED BY <2>1, <2>2
<1> HIDE DEF a, k, off, t, l
<1>0. /\ stored \in Seq(Contents) /\ l \in Nat /\ l <= Len(stored) /\ i <= l /\ l - n = len
      /\ i + k + o = len
  <2>1. stored \in Seq(Contents) /\ l \in Nat /\ Len(stored) = l
    BY <1>1 DEF l
  <2>2. i <= l /\ l - n = len
    BY <2>1 DEF l
  <2>3. k \in Nat
    BY <1>3
  <2>4. i + k + o = len
    BY <2>1, <2>3 DEF a
  <2> HIDE DEF o, len
  <2> QED BY <2>1, <2>2, <2>4
<1>6. tail \in Seq(Contents) /\ Len(tail) = L /\ \A j \in 1..L : tail[j] = stored[a + j]
  <2>1. a \in Nat /\ a <= l
    BY <1>3
  <2> QED BY <1>0, <2>1, PartOf
<1>7. first \in Seq(Contents) /\ Len(first) = i /\ \A j \in 1..i : first[j] = stored[j]
  BY <1>0, FirstOf
<1>8. data \in Seq(Contents) /\ Len(data) = k /\ \A j \in 1..k : data[j] = stored[off + j]
  <2>1. off \in Nat /\ off <= l /\ l - off = k
    BY <1>3
  <2>2. data \in Seq(Contents) /\ Len(data) = l - off /\ \A j \in 1..l - off : data[j] = stored[off + j]
    BY <1>0, <2>1, PartOf
  <2> HIDE DEF data
  <2> QED BY <2>1, <2>2
<1> HIDE DEF tail
<1>9. moved \in Seq(Contents) /\ Len(moved) = k /\ \A j \in 1..k : moved[j] = tail[o + j]
  <2>1. L - o = k /\ o <= L
    BY <1>3
  <2> HIDE DEF o, L
  <2>2. /\ moved \in Seq(Contents) /\ Len(moved) = L - o /\ \A j \in 1..L - o : moved[j] = tail[o + j]
    BY <1>3, <1>6, <2>1, PartOf
  <2> QED BY <2>1, <2>2
<1>10. stay \in Seq(Contents) /\ Len(stay) = o /\ \A j \in 1..o : stay[j] = tail[j]
  <2>1. o <= Len(tail)
    BY <1>3, <1>6
  <2> HIDE DEF o
  <2> QED BY <1>3, <1>6, <2>1, FirstOf
<1> HIDE DEF moved, stay, first, data
<1>11. /\ its \in Seq(Contents) /\ Len(its) = len
       /\ \A j \in 1..len : its[j] = IF j <= i THEN first[j] ELSE IF j <= i + k THEN moved[j - i]
                                     ELSE stay[j - (i + k)]
  <2>1. /\ its \in Seq(Contents) /\ Len(its) = Len(first) + Len(moved) + Len(stay)
        /\ \A j \in 1..Len(first) + Len(moved) + Len(stay) :
             its[j] = IF j <= Len(first) THEN first[j]
                      ELSE IF j <= Len(first) + Len(moved) THEN moved[j - Len(first)]
                      ELSE stay[j - (Len(first) + Len(moved))]
    <3>1. first \in Seq(Contents) /\ moved \in Seq(Contents) /\ stay \in Seq(Contents)
      BY <1>7, <1>9, <1>10
    <3> QED BY <3>1, JoinThree
  <2>2. Len(first) + Len(moved) + Len(stay) = len
    BY <1>0, <1>3, <1>7, <1>9, <1>10
  <2> HIDE DEF its, len, o
  <2> QED BY <1>7, <1>9, <2>1, <2>2
<1> HIDE DEF its
<1>12. Overlaid(S, i, data, its, len)
  <2>1. ASSUME NEW j \in 1..len
        PROVE  its[j] = IF j - i \in 1..Len(data) THEN data[j - i] ELSE S.m[Block(S)][j]
    <3>1. CASE j <= i
      <4>1. j \in 1..i /\ j \in 1..l /\ ~(j - i \in 1..Len(data))
        BY SMTT(30), <1>1, <1>3, <1>8, <3>1
      <4> QED BY <1>2, <1>7, <1>11, <3>1, <4>1
    <3>2. CASE i < j /\ j <= i + k
      <4>1. /\ ~(j <= i) /\ j - i \in 1..k /\ o + (j - i) \in 1..L
            /\ a + (o + (j - i)) = off + (j - i)
        <5>1. k \in Nat /\ o \in Nat /\ L = o + k /\ l - off = k /\ a \in Nat /\ off \in Nat /\ l = a + L
          BY <1>0, <1>3
        <5> HIDE DEF o, L
        <5> QED BY <3>2, <5>1
      <4>2. its[j] = moved[j - i]
        BY <1>11, <3>2, <4>1
      <4>3. moved[j - i] = stored[a + (o + (j - i))]
        BY <1>6, <1>9, <4>1
      <4> QED BY <1>8, <4>1, <4>2, <4>3
    <3>3. CASE i + k < j
      <4>1. /\ ~(j <= i) /\ ~(j <= i + k) /\ ~(j - i \in 1..k)
            /\ j - (i + k) \in 1..o /\ j - (i + k) \in 1..L /\ j \in 1..l
        <5>1. k \in Nat /\ o \in Nat /\ L \in Nat /\ o <= L /\ l \in Nat /\ len <= l /\ j <= len /\ i + k + o = len
          BY <1>0, <1>3
        <5> HIDE DEF o, L, len
        <5> QED BY <3>3, <5>1
      <4>2. a + (j - (i + k)) = j
        <5>1. k = n
          BY <1>3, <4>1
        <5> QED BY <1>3, <5>1 DEF a
      <4>3. its[j] = stay[j - (i + k)]
        BY <1>11, <4>1
      <4>4. stay[j - (i + k)] = stored[a + (j - (i + k))]
        BY <1>6, <1>10, <4>1
      <4> QED BY <1>2, <1>8, <4>1, <4>2, <4>3, <4>4
    <3> QED BY <1>3, <3>1, <3>2, <3>3
  <2> HIDE DEF len
  <2> QED BY <1>11, <2>1 DEF Overlaid
<1>13. t = [Store(S, i, data) EXCEPT !.v.len = len]
  <2> DEFINE w == Store(S, i, data)
  <2>1. w.v = S.v
    BY <1>1, <1>2, <1>8, OwnStoreFacts
  <2>2. w.v.len - n = len
    BY <1>1, <2>1
  <2> HIDE DEF w, len
  <2>3. t = [w EXCEPT !.v.len = @ - n]
    BY <1>4 DEF w
  <2>4. t = [w EXCEPT !.v.len = len]
    BY <2>2, <2>3
  <2> QED BY <2>4 DEF w
<1> HIDE DEF len
<1> QED BY <1>2, <1>3, <1>5, <1>8, <1>12, <1>13, ChangeInv

LEMMA MoveAllStep ==
  ASSUME VecInv, NEW from \in Nat, NEW to \in Nat, NEW n \in Nat \ {0}, from + n <= vec.len, MoveAll(from, to, n)
  PROVE  VecInv'
<1> DEFINE its == [i \in DOMAIN stored |-> IF i \in to + 1..to + n THEN stored[i - to + from] ELSE stored[i]]
           data == SubSeq(stored, from + 1, from + n)
           t == Move(S, from, to, n)
<1>1. /\ Sound(S) /\ S.v = vec /\ S.ok = TRUE /\ Cells(S) = stored
      /\ stored \in Seq(Contents) /\ Len(stored) = vec.len /\ vec.len \in Nat /\ vec.cap \in Nat
  BY InvFacts
<1>2. /\ vec.cap # 0 /\ vec.len <= vec.cap /\ \A j \in 1..vec.len : S.m[Block(S)][j] = stored[j]
  BY OwnFacts DEF MoveAll, Owned
<1>3. to + n <= vec.len /\ Return(t, its)
  BY DEF MoveAll
<1>4. t = Store(S, to, data)
  BY <1>1 DEF Move
<1>5. data \in Seq(Contents) /\ Len(data) = n /\ \A j \in 1..n : data[j] = stored[from + j]
  <2> DEFINE b == from + n
  <2>1. b \in Nat /\ from <= b /\ b <= Len(stored) /\ b - from = n
    BY <1>1
  <2> HIDE DEF b
  <2>2. /\ SubSeq(stored, from + 1, b) \in Seq(Contents) /\ Len(SubSeq(stored, from + 1, b)) = b - from
        /\ \A j \in 1..b - from : SubSeq(stored, from + 1, b)[j] = stored[from + j]
    BY <1>1, <2>1, PartOf
  <2> QED BY <2>1, <2>2 DEF b
<1>6. /\ its \in Seq(Contents) /\ Len(its) = vec.len
      /\ \A j \in 1..vec.len : its[j] = IF j \in to + 1..to + n THEN stored[j - to + from] ELSE stored[j]
  <2>1. DOMAIN stored = 1..vec.len /\ \A j \in 1..vec.len : stored[j] \in Contents
    BY <1>1
  <2>2. \A j \in to + 1..to + n : j - to + from \in 1..vec.len
    BY <1>1
  <2>3. its \in [1..vec.len -> Contents]
    BY <2>1, <2>2
  <2>4. its = [j \in 1..vec.len |-> IF j \in to + 1..to + n THEN stored[j - to + from] ELSE stored[j]]
    BY <2>1
  <2> HIDE DEF its
  <2>5. its \in Seq(Contents) /\ Len(its) = vec.len
    BY <1>1, <2>3
  <2> QED BY <2>4, <2>5
<1> HIDE DEF its, data, t
<1>7. /\ Sound(t) /\ t.v = vec /\ t.ok = TRUE /\ Block(t) = Block(S)
      /\ \A j \in 1..vec.cap :
           t.m[Block(S)][j] = IF j - to \in 1..Len(data) THEN data[j - to] ELSE S.m[Block(S)][j]
  BY SMTT(30), <1>1, <1>2, <1>4, <1>5, OwnStoreFacts
<1>8. t.v.ptr[2] = 0
  BY <1>2, <1>7, SoundFacts
<1>9. \A j \in 1..vec.len : its[j] = t.m[Block(t)][t.v.ptr[2] + j]
  <2> TAKE j \in 1..vec.len
  <2>1. j \in 1..vec.cap /\ t.v.ptr[2] + j = j
    BY <1>1, <1>2, <1>8
  <2>2. CASE j \in to + 1..to + n
    <3>1. j - to \in 1..n /\ from + (j - to) = j - to + from
      BY <2>2
    <3>2. its[j] = stored[j - to + from]
      BY <1>6, <2>2
    <3>3. t.m[Block(S)][j] = data[j - to]
      BY <1>5, <1>7, <2>1, <3>1
    <3>4. data[j - to] = stored[from + (j - to)]
      BY <1>5, <3>1
    <3> QED BY <1>7, <2>1, <3>1, <3>2, <3>3, <3>4
  <2>3. CASE j \notin to + 1..to + n
    <3>1. ~(j - to \in 1..n)
      BY <2>3
    <3> QED BY <1>2, <1>5, <1>6, <1>7, <2>1, <2>3, <3>1
  <2> QED BY <2>2, <2>3
<1>10. Cells(t) = its
  BY <1>6, <1>7, <1>9, CellsAre
<1> QED BY <1>3, <1>7, <1>10, ReturnInv

LEMMA SliceDupStep ==
  ASSUME VecInv, NEW n \in Nat \ {0}, NEW data \in Datas, SliceDup(n, data)
  PROVE  VecInv'
<1>1. PICK memory \in BOOLEAN : Return(Dup(S, n, data, memory), data) /\ vec.ptr = Null /\ Len(data) <= n
  BY DEF SliceDup
<1> DEFINE t == Dup(S, n, data, memory)
           f == Fresh(S.m, n, data)
           k == Len(data)
<1>2. Sound(S) /\ S.v = vec /\ S.ok = TRUE /\ Cells(S) = stored
  BY InvFacts
<1>3. vec.cap = 0
  BY <1>1, <1>2, SoundFacts
<1>4. data \in Seq(Contents) /\ k \in Nat
  BY DatasFacts
<1>5. Return(t, data)
  BY <1>1
<1>6. CASE ~memory
  <2>1. t = [S EXCEPT !.ok = FALSE]
    BY <1>6 DEF Dup
  <2>2. t = [v |-> S.v, m |-> S.m, ok |-> FALSE]
    BY <1>2, <2>1, FieldFacts
  <2> HIDE DEF t
  <2>3. Sound(t) /\ Cells(t) = stored /\ t.ok = FALSE
    BY <1>2, <2>2 DEF Sound, Cells, Block
  <2> QED BY <1>5, <2>3, ReturnInv
<1>7. CASE memory
  <2> DEFINE v == [ptr |-> f.ptr, len |-> k, cap |-> n]
         m == f.m
  <2>1. t = [S EXCEPT !.v = v, !.m = m]
    BY <1>7 DEF Dup
  <2>2. Renewed(S, n, data, k) = [v |-> v, m |-> m, ok |-> S.ok]
    BY <1>2, <1>3 DEF Renewed
  <2> HIDE DEF t, v, m, k
  <2>3. t = Renewed(S, n, data, k)
    <3>1. t = [v |-> v, m |-> m, ok |-> S.ok]
      BY <1>2, <2>1 DEF Sound
    <3> QED BY <2>2, <3>1
  <2>4. k <= n /\ k <= Len(data)
    BY <1>1, <1>4 DEF k
  <2>5. SubSeq(data, 1, k) = data
    BY <1>4, SubSeqFull DEF k
  <2>6. Sound(t) /\ Cells(t) = SubSeq(data, 1, k) /\ t.ok = S.ok
    <3>1. Sound(S) /\ n \in Nat \ {0} /\ data \in Seq(Contents) /\ k \in Nat
      BY <1>2, <1>4
    <3>2. /\ Sound(Renewed(S, n, data, k)) /\ Cells(Renewed(S, n, data, k)) = SubSeq(data, 1, k)
          /\ Renewed(S, n, data, k).ok = S.ok
      BY <2>4, <3>1, RenewedFacts
    <3> QED BY <2>3, <3>2
  <2> QED BY <1>2, <1>5, <2>5, <2>6, ReturnInv
<1> QED BY <1>6, <1>7

LEMMA SliceReallocStep ==
  ASSUME VecInv, NEW n \in Nat \ {0}, SliceRealloc(n)
  PROVE  VecInv'
<1>1. PICK memory \in BOOLEAN : Return(Resize(S, n, memory), CutTo(n)) /\ (vec.cap # 0 \/ vec.ptr = Null)
  BY DEF SliceRealloc, Owned
<1> DEFINE t == Resize(S, n, memory)
           old == IF S.v.cap # 0 THEN S.m[Block(S)] ELSE <<>>
           data == IF S.v.cap # 0 THEN S.m[Block(S)] ELSE Cells(S)
           f == Fresh(S.m, n, old)
           k == Smaller(vec.len, n)
           m == IF S.v.cap # 0 THEN Release(f.m, Block(S)) ELSE f.m
<1>2. /\ Sound(S) /\ S.v = vec /\ S.ok = TRUE /\ Cells(S) = stored
      /\ stored \in Seq(Contents) /\ Len(stored) = vec.len /\ vec.len \in Nat
  BY InvFacts
<1>3. k \in Nat /\ k <= S.v.len /\ k <= n
  BY <1>2, SmallerFacts
<1>4. old = data
  <2>1. CASE S.v.cap # 0
    BY <2>1
  <2>2. CASE S.v.cap = 0
    <3>1. S.v.ptr = Null
      BY <1>1, <1>2, <2>2
    <3> QED BY <2>2, <3>1 DEF Cells
  <2> QED BY <2>1, <2>2
<1>5. CutTo(n) = SubSeq(stored, 1, k)
  BY ZenonT(40), <1>2, SmallerFacts DEF CutTo
<1>6. Return(t, CutTo(n))
  BY <1>1
<1>7. CASE ~memory
  <2>1. t = [S EXCEPT !.ok = FALSE]
    BY <1>7 DEF Resize
  <2>2. t = [v |-> S.v, m |-> S.m, ok |-> FALSE]
    BY <1>2, <2>1, FieldFacts
  <2> HIDE DEF t
  <2>3. Sound(t) /\ Cells(t) = stored /\ t.ok = FALSE
    BY <1>2, <2>2 DEF Sound, Cells, Block
  <2> QED BY <1>6, <2>3, ReturnInv
<1>8. CASE memory
  <2> DEFINE v == [ptr |-> f.ptr, len |-> k, cap |-> n]
  <2>1. t = [S EXCEPT !.v = v, !.m = m]
    <3>1. t = [S EXCEPT !.v = [ptr |-> f.ptr, len |-> Smaller(@.len, n), cap |-> n], !.m = m]
      BY <1>8 DEF Resize
    <3> HIDE DEF t, f, m
    <3> QED BY <1>2, <3>1
  <2>2. Renewed(S, n, data, k) = [v |-> v, m |-> m, ok |-> S.ok]
    <3>1. Renewed(S, n, old, k) = [v |-> v, m |-> m, ok |-> S.ok]
      BY DEF Renewed
    <3> HIDE DEF old, data
    <3> QED BY <1>4, <3>1
  <2> HIDE DEF t, v, m, k
  <2>3. t = Renewed(S, n, data, k)
    <3>1. t = [v |-> v, m |-> m, ok |-> S.ok]
      BY <1>2, <2>1 DEF Sound
    <3> QED BY <2>2, <3>1
  <2>4. data \in Seq(Contents) /\ k <= Len(data) /\ SubSeq(data, 1, k) = SubSeq(Cells(S), 1, k)
    BY <1>2, <1>3, SourceFacts
  <2> HIDE DEF data
  <2>5. Sound(t) /\ Cells(t) = SubSeq(data, 1, k) /\ t.ok = S.ok
    <3>1. Sound(S) /\ n \in Nat \ {0} /\ k \in Nat /\ k <= n
      BY <1>2, <1>3
    <3>2. /\ Sound(Renewed(S, n, data, k)) /\ Cells(Renewed(S, n, data, k)) = SubSeq(data, 1, k)
          /\ Renewed(S, n, data, k).ok = S.ok
      BY <2>4, <3>1, RenewedFacts
    <3> QED BY <2>3, <3>2
  <2> QED BY <1>2, <1>5, <1>6, <2>4, <2>5, ReturnInv
<1> QED BY <1>7, <1>8

----------------------------------------------------------------------------

LEMMA StutterStep ==
  ASSUME VecInv, UNCHANGED vecVars
  PROVE  VecInv'
<1>1. vec' = vec /\ mem' = mem /\ taken' = taken /\ stored' = stored
  BY DEF vecVars
<1> QED BY <1>1 DEF VecInv, Sound, S, Cells, Block, Memory, IsVec, OwnBlock

LEMMA NextInv ==
  ASSUME VecInv, [VecNext]_vecVars
  PROVE  VecInv'
<1>1. ASSUME NEW n \in 0..VecMaxCap, Allocate(n) \/ Reallocate(n)
      PROVE  VecInv'
  <2>1. n \in Nat
    OBVIOUS
  <2> QED BY <1>1, <2>1, AllocateStep, ReallocateStep
<1>2. ASSUME NEW n \in 1..VecMaxCap, SliceRealloc(n) \/ \E data \in Datas : SliceDup(n, data)
      PROVE  VecInv'
  <2>1. n \in Nat \ {0}
    OBVIOUS
  <2> QED BY <1>2, <2>1, SliceReallocStep, SliceDupStep
<1>3. CASE Clear \/ TakeOver \/ GiveBack
  BY <1>3, ClearStep, TakeOverStep, GiveBackStep
<1>4. ASSUME NEW off \in 0..Len(VecStatic), NEW n \in 0..Len(VecStatic),
             off + n <= Len(VecStatic), SetStatic(off, n)
      PROVE  VecInv'
  <2>1. off \in Nat /\ n \in Nat
    OBVIOUS
  <2> QED BY <1>4, <2>1, SetStaticStep
<1>5. ASSUME NEW by \in 0..VecMaxCap, Shift(by) \/ GrowBy(by, 1) \/ GrowBy(by, 2)
      PROVE  VecInv'
  <2>1. by \in Nat /\ 1 \in {1, 2} /\ 2 \in {1, 2}
    OBVIOUS
  <2>2. CASE Shift(by)
    BY <2>1, <2>2, ShiftStep
  <2>3. ASSUME NEW part \in {1, 2}, GrowBy(by, part) PROVE VecInv'
    BY <2>1, <2>3, GrowByStep
  <2> QED BY <1>5, <2>1, <2>2, <2>3
<1>6. ASSUME NEW data \in Datas, AppendFast(data) \/ \E off \in 0..vec.len : InsertAll(off, data)
      PROVE  VecInv'
  <2>1. \A off \in 0..vec.len : off \in Nat
    OBVIOUS
  <2> QED BY <1>6, <2>1, AppendFastStep, InsertAllStep
<1>7. ASSUME NEW h \in Holes, RmAll(h[1], h[2]) \/ RmSwapAll(h[1], h[2])
                              \/ \E to \in 0..vec.len : MoveAll(h[1], to, h[2])
      PROVE  VecInv'
  <2> DEFINE i == h[1]
             n == h[2]
  <2>1. i \in Nat /\ n \in Nat \ {0} /\ i + n <= vec.len
    BY DEF Holes
  <2>2. \A to \in 0..vec.len : to \in Nat
    OBVIOUS
  <2>3. RmAll(i, n) \/ RmSwapAll(i, n) \/ \E to \in 0..vec.len : MoveAll(i, to, n)
    BY <1>7
  <2> HIDE DEF i, n
  <2> QED BY <2>1, <2>2, <2>3, RmAllStep, RmSwapAllStep, MoveAllStep
<1>8. CASE UNCHANGED vecVars
  BY <1>8, StutterStep
<1> QED BY <1>1, <1>2, <1>3, <1>4, <1>5, <1>6, <1>7, <1>8 DEF VecNext

LEMMA InvMemory ==
  ASSUME VecInv
  PROVE  VecMemory
<1>1. Sound(S) /\ S.v = vec /\ S.m = mem /\ Cells(S) = stored
  BY InvFacts
<1>2. IsVec(vec, mem) /\ IsVec(taken, mem) /\ Memory(mem, vec)
  BY <1>1 DEF Sound
<1>3. DOMAIN mem = {"static"} \cup {v.ptr[1] : v \in {w \in {vec, taken} : w.cap # 0}}
  <2>1. OwnBlock(vec) \cup OwnBlock(taken) = {v.ptr[1] : v \in {w \in {vec, taken} : w.cap # 0}}
    BY DEF OwnBlock
  <2> QED BY <1>2, <2>1 DEF Memory
<1>4. \A v \in {vec, taken} : v.cap # 0 => v.len <= v.cap /\ Len(mem[v.ptr[1]]) = v.cap /\ v.ptr[2] = 0
  BY <1>2 DEF IsVec
<1>5. mem["static"] = VecStatic
  BY <1>2 DEF Memory
<1> QED BY <1>1, <1>3, <1>4, <1>5 DEF VecMemory

(* ffvec and ffslice: after any sequence of calls, those that run out of   *)
(* memory included, the vector holds what was stored in it; every block in *)
(* use belongs to the vector or to the caller that took it, with the size  *)
(* that cap says; data that the vector only refers to is never written to. *)
THEOREM VecHolds == VecSpec => []VecMemory
<1>1. VecInv /\ [VecNext]_vecVars => VecInv'
  BY NextInv
<1>2. VecInv => VecMemory
  BY InvMemory
<1> QED BY InitInv, <1>1, <1>2, PTL DEF VecSpec
=============================================================================
