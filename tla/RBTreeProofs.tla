---------------------------- MODULE RBTreeProofs ----------------------------
(***************************************************************************)
(* Theorems about RBTree: its links agree, its colors balance it and its   *)
(* walk is in order, for any nodes, any keys and any order of the calls.   *)
(*                                                                         *)
(* The lemmas are about any tree t, so that they speak of the trees in the *)
(* middle of an action as well.  In this order: the fields of a tree, its  *)
(* shape, what a rotation, a new leaf and a removed node do to the shape,  *)
(* then the same for the colors, turn by turn of the loops; what the       *)
(* assignments of the code come to; the ways that a search and a walk      *)
(* take; the sequence of the nodes; at the end the invariant, one lemma    *)
(* per action, the theorems and the refinement.                            *)
(***************************************************************************)
EXTENDS RBTree, FiniteSetTheorems, SequenceTheorems, TLAPS

----------------------------------------------------------------------------
(* Trees and their fields *)

Sides == {"left", "right"}
Cells == Nodes \cup {sentl}
Ptrs == Nodes \cup {sentl, NULL}
Colors == {"red", "black"}
Cell == [left : Ptrs, right : Ptrs, parent : Ptrs, color : Colors]
Trees == [root : Cells, at : [Cells -> Cell]]

Ch(t, x, s) == t.at[x][s]
Pa(t, x) == t.at[x].parent
Co(t, x) == t.at[x].color
Rt(t) == t.root

Mem(t) == {n \in Nodes : Pa(t, n) # NULL}

LEMMA Names == sentl \notin Nodes /\ NULL \notin Nodes /\ NULL # sentl
BY RBTreeAssumption DEF RBTreeAssumption

LEMMA SideCases ==
  /\ \A s \in Sides : s = "left" \/ s = "right"
  /\ \A s \in Sides : Other(s) \in Sides /\ Other(s) # s /\ Other(Other(s)) = s
  /\ \A r, s \in Sides : r # s => r = Other(s)
  /\ "left" \in Sides /\ "right" \in Sides
  /\ Other("left") = "right" /\ Other("right") = "left"
BY DEF Sides, Other

LEMMA FieldTypes ==
  ASSUME NEW t \in Trees, NEW x \in Cells
  PROVE  /\ \A s \in Sides : Ch(t, x, s) \in Ptrs
         /\ Pa(t, x) \in Ptrs /\ Co(t, x) \in Colors /\ Rt(t) \in Cells
<1>1. t.at[x] \in Cell /\ Rt(t) \in Cells
  BY DEF Trees, Rt
<1>2. \A s \in Sides : Ch(t, x, s) \in Ptrs
  <2>1. t.at[x].left \in Ptrs /\ t.at[x].right \in Ptrs
    BY <1>1 DEF Cell
  <2> QED BY <2>1, SideCases DEF Ch
<1> QED BY <1>1, <1>2 DEF Cell, Pa, Co

(* What an assignment to one field changes. *)
WithCell(t, n, c) == [t EXCEPT !.at[n] = c]
WithRoot(t, n) == [t EXCEPT !.root = n]
WithChild(t, p, s, c) == [t EXCEPT !.at[p][s] = c]
WithParent(t, c, p) == [t EXCEPT !.at[c].parent = p]

LEMMA SetCell ==
  ASSUME NEW t \in Trees, NEW n \in Cells, NEW c \in Cell,
         NEW u, u = WithCell(t, n, c)
  PROVE  /\ u \in Trees /\ Rt(u) = Rt(t)
         /\ \A x \in Cells : u.at[x] = IF x = n THEN c ELSE t.at[x]
BY DEF Trees, WithCell, Rt

LEMMA SetRoot ==
  ASSUME NEW t \in Trees, NEW n \in Cells, NEW u, u = WithRoot(t, n)
  PROVE  u \in Trees /\ Rt(u) = n /\ u.at = t.at
BY DEF Trees, WithRoot, Rt

LEMMA SetChild ==
  ASSUME NEW t \in Trees, NEW p \in Cells, NEW s \in Sides, NEW c \in Ptrs,
         NEW u, u = WithChild(t, p, s, c)
  PROVE  /\ u \in Trees /\ Rt(u) = Rt(t)
         /\ \A x \in Cells, r \in Sides :
              Ch(u, x, r) = IF x = p /\ r = s THEN c ELSE Ch(t, x, r)
         /\ \A x \in Cells : Pa(u, x) = Pa(t, x) /\ Co(u, x) = Co(t, x)
<1>1. PICK d : d = [t.at[p] EXCEPT ![s] = c]
  OBVIOUS
<1>2. /\ d \in Cell /\ d.color = t.at[p].color /\ d.parent = t.at[p].parent
      /\ \A r \in Sides : d[r] = IF r = s THEN c ELSE t.at[p][r]
  <2>1. t.at[p] \in Cell
    BY DEF Trees
  <2>2. CASE s = "left"
    BY <1>1, <2>1, <2>2 DEF Cell, Sides
  <2>3. CASE s = "right"
    BY <1>1, <2>1, <2>3 DEF Cell, Sides
  <2> QED BY <2>2, <2>3, SideCases
<1>3. u = WithCell(t, p, d)
  BY <1>1 DEF WithCell, WithChild
<1>4. /\ u \in Trees /\ Rt(u) = Rt(t)
      /\ \A x \in Cells : u.at[x] = IF x = p THEN d ELSE t.at[x]
  BY <1>2, <1>3, SetCell
<1> QED BY <1>2, <1>4 DEF Ch, Pa, Co

LEMMA SetParent ==
  ASSUME NEW t \in Trees, NEW p \in Ptrs, NEW c \in Cells,
         NEW u, u = WithParent(t, c, p)
  PROVE  /\ u \in Trees /\ Rt(u) = Rt(t)
         /\ \A x \in Cells, r \in Sides : Ch(u, x, r) = Ch(t, x, r)
         /\ \A x \in Cells : /\ Pa(u, x) = IF x = c THEN p ELSE Pa(t, x)
                             /\ Co(u, x) = Co(t, x)
<1>1. PICK d : d = [t.at[c] EXCEPT !.parent = p]
  OBVIOUS
<1>2. /\ d \in Cell /\ d.color = t.at[c].color /\ d.parent = p
      /\ \A r \in Sides : d[r] = t.at[c][r]
  <2>1. t.at[c] \in Cell
    BY DEF Trees
  <2>2. d \in Cell /\ d.color = t.at[c].color /\ d.parent = p
        /\ d.left = t.at[c].left /\ d.right = t.at[c].right
    BY <1>1, <2>1 DEF Cell
  <2> QED BY <2>2, SideCases
<1>3. u = WithCell(t, c, d)
  BY <1>1 DEF WithCell, WithParent
<1>4. /\ u \in Trees /\ Rt(u) = Rt(t)
      /\ \A x \in Cells : u.at[x] = IF x = c THEN d ELSE t.at[x]
  BY <1>2, <1>3, SetCell
<1> QED BY <1>2, <1>4 DEF Ch, Pa, Co

LEMMA PaintFacts ==
  ASSUME NEW t \in Trees, NEW n \in Cells, NEW clr \in Colors,
         NEW u, u = Paint(t, n, clr)
  PROVE  /\ u \in Trees /\ Rt(u) = Rt(t)
         /\ \A x \in Cells, r \in Sides : Ch(u, x, r) = Ch(t, x, r)
         /\ \A x \in Cells : /\ Pa(u, x) = Pa(t, x)
                             /\ Co(u, x) = IF x = n THEN clr ELSE Co(t, x)
<1>1. PICK d : d = [t.at[n] EXCEPT !.color = clr]
  OBVIOUS
<1>2. /\ d \in Cell /\ d.color = clr /\ d.parent = t.at[n].parent
      /\ \A r \in Sides : d[r] = t.at[n][r]
  <2>1. t.at[n] \in Cell
    BY DEF Trees
  <2>2. d \in Cell /\ d.color = clr /\ d.parent = t.at[n].parent
        /\ d.left = t.at[n].left /\ d.right = t.at[n].right
    BY <1>1, <2>1 DEF Cell
  <2> QED BY <2>2, SideCases
<1>3. u = WithCell(t, n, d)
  BY <1>1 DEF WithCell, Paint
<1>4. /\ u \in Trees /\ Rt(u) = Rt(t)
      /\ \A x \in Cells : u.at[x] = IF x = n THEN d ELSE t.at[x]
  BY <1>2, <1>3, SetCell
<1> QED BY <1>2, <1>4 DEF Ch, Pa, Co

LEMMA LinkFacts ==
  ASSUME NEW t \in Trees, NEW p \in Cells, NEW s \in Sides, NEW c \in Cells,
         NEW u, u = Link(t, p, s, c)
  PROVE  /\ u \in Trees /\ Rt(u) = Rt(t)
         /\ \A x \in Cells, r \in Sides :
              Ch(u, x, r) = IF x = p /\ r = s THEN c ELSE Ch(t, x, r)
         /\ \A x \in Cells : /\ Pa(u, x) = IF x = c THEN p ELSE Pa(t, x)
                             /\ Co(u, x) = Co(t, x)
<1>1. PICK v : v = WithChild(t, p, s, c)
  OBVIOUS
<1>2. u = WithParent(v, c, p)
  BY <1>1 DEF Link, WithChild, WithParent
<1>3. c \in Ptrs /\ p \in Ptrs
  BY DEF Cells, Ptrs
<1>4. /\ v \in Trees /\ Rt(v) = Rt(t)
      /\ \A x \in Cells, r \in Sides :
           Ch(v, x, r) = IF x = p /\ r = s THEN c ELSE Ch(t, x, r)
      /\ \A x \in Cells : Pa(v, x) = Pa(t, x) /\ Co(v, x) = Co(t, x)
  BY <1>1, <1>3, SetChild
<1>5. /\ u \in Trees /\ Rt(u) = Rt(v)
      /\ \A x \in Cells, r \in Sides : Ch(u, x, r) = Ch(v, x, r)
      /\ \A x \in Cells : /\ Pa(u, x) = IF x = c THEN p ELSE Pa(v, x)
                          /\ Co(u, x) = Co(v, x)
  BY <1>2, <1>3, <1>4, SetParent
<1> QED BY <1>4, <1>5

(* The side on which RelinkParent() finds the old node. *)
SideIn(t, old) == IF old = Ch(t, Pa(t, old), "left") THEN "left" ELSE "right"

LEMMA RelinkFacts ==
  ASSUME NEW t \in Trees, NEW old \in Cells, NEW new \in Cells,
         NEW p \in Cells, p = Pa(t, old), NEW u, u = RelinkParent(t, old, new)
  PROVE  /\ u \in Trees
         /\ Rt(u) = IF p = sentl THEN new ELSE Rt(t)
         /\ \A x \in Cells, r \in Sides :
              Ch(u, x, r) = IF p # sentl /\ x = p /\ r = SideIn(t, old) THEN new
                            ELSE Ch(t, x, r)
         /\ \A x \in Cells : /\ Pa(u, x) = IF x = new THEN p ELSE Pa(t, x)
                             /\ Co(u, x) = Co(t, x)
<1>1. CASE p = sentl
  <2>1. PICK v : v = WithRoot(t, new)
    OBVIOUS
  <2>2. u = WithParent(v, new, p)
    BY <1>1, <2>1 DEF RelinkParent, Pa, WithRoot, WithParent
  <2>3. v \in Trees /\ Rt(v) = new /\ v.at = t.at /\ p \in Ptrs
    BY <1>1, <2>1, SetRoot DEF Ptrs
  <2>4. /\ u \in Trees /\ Rt(u) = Rt(v)
        /\ \A x \in Cells, r \in Sides : Ch(u, x, r) = Ch(v, x, r)
        /\ \A x \in Cells : /\ Pa(u, x) = IF x = new THEN p ELSE Pa(v, x)
                            /\ Co(u, x) = Co(v, x)
    BY <2>2, <2>3, SetParent
  <2>5. /\ \A x \in Cells, r \in Sides : Ch(v, x, r) = Ch(t, x, r)
        /\ \A x \in Cells : Pa(v, x) = Pa(t, x) /\ Co(v, x) = Co(t, x)
    BY <2>3 DEF Ch, Pa, Co
  <2> QED BY <1>1, <2>3, <2>4, <2>5
<1>2. CASE p # sentl
  <2>1. PICK s \in Sides : s = SideIn(t, old)
    BY DEF SideIn, Sides
  <2>2. u = Link(t, p, s, new)
    BY <1>2, <2>1 DEF RelinkParent, SideIn, Ch, Pa
  <2> QED BY <1>2, <2>1, <2>2, LinkFacts
<1> QED BY <1>1, <1>2

----------------------------------------------------------------------------
(* The shape of a tree *)

(* a is on side s of b, in the order of pos. *)
On(s, pos, a, b) == IF s = "left" THEN pos[a] < pos[b] ELSE pos[b] < pos[a]

(* sub[x] are the nodes below x and x itself, pos[x] is the place of x in  *)
(* the order.  The sentinel has no nodes; its parent is any.               *)
Shape(t, sub, pos) ==
  /\ t \in Trees /\ pos \in [Nodes -> Int]
  /\ sub \in [Cells -> SUBSET Mem(t)]
  /\ sub[sentl] = {} /\ sub[Rt(t)] = Mem(t)
  /\ Rt(t) # sentl => Rt(t) \in Mem(t) /\ Pa(t, Rt(t)) = sentl
  /\ \A n \in Mem(t), s \in Sides : Ch(t, n, s) \in Mem(t) \cup {sentl}
  /\ \A n \in Mem(t) : sub[n] = {n} \cup sub[Ch(t, n, "left")] \cup sub[Ch(t, n, "right")]
  /\ \A n \in Mem(t), s \in Sides : \A a \in sub[Ch(t, n, s)] : On(s, pos, a, n)
  /\ \A n \in Mem(t), s \in Sides : Ch(t, n, s) # sentl => Pa(t, Ch(t, n, s)) = n
  /\ \A n \in Mem(t) \ {Rt(t)} :
       Pa(t, n) \in Mem(t) /\ \E s \in Sides : Ch(t, Pa(t, n), s) = n

LEMMA OnFacts ==
  ASSUME NEW pos \in [Nodes -> Int], NEW a \in Nodes, NEW b \in Nodes, NEW s \in Sides
  PROVE  /\ On(s, pos, a, b) => a # b /\ ~On(s, pos, b, a)
         /\ On(s, pos, a, b) <=> On(Other(s), pos, b, a)
         /\ \A c \in Nodes : On(s, pos, a, b) /\ On(s, pos, b, c) => On(s, pos, a, c)
         /\ On("left", pos, a, b) <=> pos[a] < pos[b]
         /\ On("right", pos, a, b) <=> pos[b] < pos[a]
BY DEF On, Sides, Other

LEMMA MemIn == \A t : Mem(t) \subseteq Nodes /\ sentl \notin Mem(t) /\ NULL \notin Mem(t)
                      /\ Mem(t) \subseteq Cells
BY Names DEF Mem, Cells

LEMMA ShapeFacts ==
  ASSUME NEW t, NEW sub, NEW pos, Shape(t, sub, pos)
  PROVE  /\ Rt(t) \in Mem(t) \cup {sentl} /\ Rt(t) \in Cells /\ sentl \in Cells
         /\ \A n \in Mem(t) : n \in sub[n]
         /\ \A n \in Mem(t), s \in Sides :
              /\ n # Ch(t, n, s) /\ n \notin sub[Ch(t, n, s)]
              /\ sub[Ch(t, n, s)] \subseteq sub[n]
              /\ Ch(t, n, s) # sentl => Ch(t, n, s) \in sub[n] /\ Ch(t, n, s) # Rt(t)
              /\ sub[Ch(t, n, s)] \cap sub[Ch(t, n, Other(s))] = {}
              /\ Ch(t, n, s) # sentl => Ch(t, n, s) # Ch(t, n, Other(s))
         /\ \A n \in Mem(t) : Pa(t, n) = sentl <=> n = Rt(t)
         /\ \A n \in Mem(t) : Pa(t, n) # n /\ Pa(t, n) \in Cells
<1>1. /\ \A n \in Mem(t) : n \in sub[n]
      /\ \A n \in Mem(t), s \in Sides : sub[Ch(t, n, s)] \subseteq sub[n]
  BY SideCases DEF Shape
<1>2. /\ Rt(t) \in Mem(t) \cup {sentl} /\ Rt(t) \in Cells /\ sentl \in Cells
  BY MemIn DEF Shape, Cells
<1>3. ASSUME NEW n \in Mem(t), NEW s \in Sides
      PROVE  /\ n # Ch(t, n, s) /\ n \notin sub[Ch(t, n, s)]
             /\ Ch(t, n, s) # sentl => Ch(t, n, s) \in sub[n]
             /\ sub[Ch(t, n, s)] \cap sub[Ch(t, n, Other(s))] = {}
             /\ Ch(t, n, s) # sentl => Ch(t, n, s) # Ch(t, n, Other(s))
  <2>1. n \notin sub[Ch(t, n, s)]
    BY MemIn, OnFacts DEF Shape
  <2>2. ASSUME NEW a \in sub[Ch(t, n, s)], a \in sub[Ch(t, n, Other(s))] PROVE FALSE
    <3>1. On(s, pos, a, n) /\ On(Other(s), pos, a, n) /\ a \in Mem(t)
      BY <2>2, SideCases, MemIn DEF Shape, Cells
    <3> QED BY <3>1, MemIn, OnFacts DEF Shape
  <2>3. n # Ch(t, n, s)
    BY <1>1, <2>1
  <2>4. Ch(t, n, s) # sentl => Ch(t, n, s) \in sub[Ch(t, n, s)]
    BY <1>1 DEF Shape
  <2> QED BY <1>1, <2>1, <2>2, <2>3, <2>4, SideCases
<1>4. ASSUME NEW n \in Mem(t), Pa(t, n) = sentl PROVE n = Rt(t)
  BY <1>4, MemIn DEF Shape
<1>5. ASSUME NEW n \in Mem(t) PROVE /\ n = Rt(t) => Pa(t, n) = sentl
                                    /\ Pa(t, n) # n /\ Pa(t, n) \in Cells
  <2>1. n = Rt(t) => Pa(t, n) = sentl
    BY MemIn DEF Shape
  <2> QED BY <1>2, <1>3, <2>1, MemIn DEF Shape
<1>6. ASSUME NEW n \in Mem(t), NEW s \in Sides, Ch(t, n, s) # sentl PROVE Ch(t, n, s) # Rt(t)
  <2>1. Pa(t, Ch(t, n, s)) = n /\ Ch(t, n, s) \in Mem(t)
    BY <1>6 DEF Shape
  <2> QED BY <1>5, <2>1, MemIn
<1> QED BY <1>1, <1>2, <1>3, <1>4, <1>5, <1>6

(* A node hangs from its parent on one side. *)
LEMMA SideInFacts ==
  ASSUME NEW t, NEW sub, NEW pos, Shape(t, sub, pos),
         NEW n \in Mem(t), n # Rt(t)
  PROVE  /\ SideIn(t, n) \in Sides /\ Pa(t, n) \in Mem(t)
         /\ Ch(t, Pa(t, n), SideIn(t, n)) = n
         /\ Ch(t, Pa(t, n), Other(SideIn(t, n))) # n
         /\ \A x \in Mem(t), r \in Sides :
              Ch(t, x, r) = n <=> x = Pa(t, n) /\ r = SideIn(t, n)
<1>1. Pa(t, n) \in Mem(t) /\ \E s \in Sides : Ch(t, Pa(t, n), s) = n
  BY DEF Shape
<1>2. PICK s \in Sides : Ch(t, Pa(t, n), s) = n
  BY <1>1
<1>3. n # sentl /\ Ch(t, Pa(t, n), Other(s)) # n
  BY <1>1, <1>2, ShapeFacts, MemIn
<1>4. SideIn(t, n) = s
  BY <1>2, <1>3, SideCases DEF SideIn
<1>5. \A x \in Mem(t), r \in Sides : Ch(t, x, r) = n => x = Pa(t, n)
  BY <1>3 DEF Shape
<1> QED BY <1>1, <1>2, <1>3, <1>4, <1>5, SideCases

----------------------------------------------------------------------------
(* Rotations *)

(* u is t after n went down to side s, but for its colors. *)
Rotated(t, u, s, n) ==
  /\ u \in Trees
  /\ Rt(u) = IF n = Rt(t) THEN Ch(t, n, Other(s)) ELSE Rt(t)
  /\ \A x \in Mem(t), r \in Sides :
       Ch(u, x, r) = IF x = n /\ r = Other(s) THEN Ch(t, Ch(t, n, Other(s)), s)
                     ELSE IF x = Ch(t, n, Other(s)) /\ r = s THEN n
                     ELSE IF Ch(t, x, r) = n THEN Ch(t, n, Other(s))
                     ELSE Ch(t, x, r)
  /\ \A x \in Cells :
       Pa(u, x) = IF x = Ch(t, Ch(t, n, Other(s)), s) THEN n
                  ELSE IF x = Ch(t, n, Other(s)) THEN Pa(t, n)
                  ELSE IF x = n THEN Ch(t, n, Other(s))
                  ELSE Pa(t, x)

LEMMA RotateFacts ==
  ASSUME NEW t, NEW sub, NEW pos, Shape(t, sub, pos),
         NEW s \in Sides, NEW n \in Mem(t), Ch(t, n, Other(s)) # sentl,
         NEW u, u = Rotate(t, s, n)
  PROVE  Rotated(t, u, s, n) /\ \A x \in Cells : Co(u, x) = Co(t, x)
<1>1. PICK o, c, b, p : /\ o = Other(s) /\ c = Ch(t, n, o) /\ b = Ch(t, c, s) /\ p = Pa(t, n)
  OBVIOUS
<1>2. PICK t1 : t1 = Link(t, n, o, b)
  OBVIOUS
<1>3. PICK t2 : t2 = RelinkParent(t1, n, c)
  OBVIOUS
<1>4. u = Link(t2, c, s, n)
  BY <1>1, <1>2, <1>3 DEF Rotate, Ch
<1>5. /\ t \in Trees /\ o \in Sides /\ o # s /\ c \in Mem(t) /\ c \in Cells /\ n \in Cells
      /\ b \in Cells /\ p \in Cells /\ n # sentl /\ c # sentl /\ n # c
  <2>1. t \in Trees /\ o \in Sides /\ o # s /\ c # sentl
    BY <1>1, SideCases DEF Shape
  <2>2. \A x \in Mem(t), r \in Sides : Ch(t, x, r) \in Mem(t) \cup {sentl}
    BY DEF Shape
  <2>3. c \in Mem(t) /\ b \in Mem(t) \cup {sentl}
    BY <1>1, <2>1, <2>2
  <2>4. n # c /\ p \in Cells
    BY <1>1, <2>1, ShapeFacts
  <2> QED BY <2>1, <2>3, <2>4, MemIn DEF Cells
<1>6. /\ b # n /\ b # c /\ p # n /\ p # c
  <2>1. b # c /\ p # n
    BY <1>1, <1>5, ShapeFacts
  <2>2. b # n
    <3>1. c \in sub[n] /\ n \notin sub[c]
      BY <1>1, <1>5, ShapeFacts
    <3>2. b # sentl => b \in sub[c]
      BY <1>1, <1>5, ShapeFacts
    <3> QED BY <1>5, <3>1, <3>2
  <2>3. p # c
    <3>1. CASE n = Rt(t)
      BY <1>1, <1>5, <3>1, ShapeFacts
    <3>2. CASE n # Rt(t)
      <4>1. p \in Mem(t) /\ n \in sub[p] /\ p \notin sub[n]
        BY <1>1, <3>2, <1>5, SideInFacts, ShapeFacts
      <4>2. c \in sub[n]
        BY <1>1, <1>5, ShapeFacts
      <4> QED BY <4>1, <4>2
    <3> QED BY <3>1, <3>2
  <2> QED BY <2>1, <2>2, <2>3
<1>7. /\ t1 \in Trees /\ Rt(t1) = Rt(t)
      /\ \A x \in Cells, r \in Sides :
           Ch(t1, x, r) = IF x = n /\ r = o THEN b ELSE Ch(t, x, r)
      /\ \A x \in Cells : /\ Pa(t1, x) = IF x = b THEN n ELSE Pa(t, x)
                          /\ Co(t1, x) = Co(t, x)
  <2>1. t \in Trees /\ n \in Cells /\ o \in Sides /\ b \in Cells
    BY <1>5
  <2> QED BY <1>2, <2>1, LinkFacts
<1>8. Pa(t1, n) = p /\ SideIn(t1, n) = SideIn(t, n)
  <2>1. Pa(t1, n) = p
    BY <1>1, <1>5, <1>6, <1>7
  <2>2. Ch(t1, p, "left") = Ch(t, p, "left")
    BY <1>5, <1>6, <1>7, SideCases
  <2> QED BY <1>1, <2>1, <2>2 DEF SideIn
<1>9. /\ t2 \in Trees /\ Rt(t2) = IF p = sentl THEN c ELSE Rt(t1)
      /\ \A x \in Cells, r \in Sides :
           Ch(t2, x, r) = IF p # sentl /\ x = p /\ r = SideIn(t, n) THEN c ELSE Ch(t1, x, r)
      /\ \A x \in Cells : /\ Pa(t2, x) = IF x = c THEN p ELSE Pa(t1, x)
                          /\ Co(t2, x) = Co(t1, x)
  BY <1>3, <1>5, <1>7, <1>8, RelinkFacts
<1>10. /\ u \in Trees /\ Rt(u) = Rt(t2)
       /\ \A x \in Cells, r \in Sides :
            Ch(u, x, r) = IF x = c /\ r = s THEN n ELSE Ch(t2, x, r)
       /\ \A x \in Cells : /\ Pa(u, x) = IF x = n THEN c ELSE Pa(t2, x)
                           /\ Co(u, x) = Co(t2, x)
  <2>1. t2 \in Trees /\ c \in Cells /\ s \in Sides /\ n \in Cells
    BY <1>5, <1>9
  <2> QED BY <1>4, <2>1, LinkFacts
<1>11. p = sentl <=> n = Rt(t)
  BY <1>1, ShapeFacts
<1>12. \A x \in Mem(t), r \in Sides :
         Ch(t, x, r) = n <=> p # sentl /\ x = p /\ r = SideIn(t, n)
  <2>1. CASE n = Rt(t)
    BY <1>5, <1>11, <2>1, ShapeFacts
  <2>2. CASE n # Rt(t)
    BY <1>1, <1>11, <2>2, SideInFacts
  <2> QED BY <2>1, <2>2
<1>13. \A x \in Mem(t), r \in Sides :
         Ch(u, x, r) = IF x = n /\ r = o THEN b ELSE IF x = c /\ r = s THEN n
                       ELSE IF Ch(t, x, r) = n THEN c ELSE Ch(t, x, r)
  <2>1. \A x \in Mem(t) : x \in Cells
    BY MemIn
  <2> QED BY <1>5, <1>6, <1>7, <1>9, <1>10, <1>12, <2>1
<1>14. \A x \in Cells :
         /\ Pa(u, x) = IF x = b THEN n ELSE IF x = c THEN p ELSE IF x = n THEN c ELSE Pa(t, x)
         /\ Co(u, x) = Co(t, x)
  BY <1>5, <1>6, <1>7, <1>9, <1>10
<1>15. Rt(u) = IF n = Rt(t) THEN c ELSE Rt(t)
  BY <1>7, <1>9, <1>10, <1>11
<1> QED BY <1>1, <1>10, <1>13, <1>14, <1>15 DEF Rotated

(* A rotation keeps the nodes and their order. *)
LEMMA RotateShape ==
  ASSUME NEW t, NEW sub, NEW pos, Shape(t, sub, pos),
         NEW s \in Sides, NEW n \in Mem(t), Ch(t, n, Other(s)) # sentl,
         NEW u, Rotated(t, u, s, n)
  PROVE  Mem(u) = Mem(t) /\ \E sub2 : Shape(u, sub2, pos)
<1>1. PICK o, c, a, b : /\ o = Other(s) /\ c = Ch(t, n, o) /\ b = Ch(t, c, s) /\ a = Ch(t, n, s)
  OBVIOUS
<1>2. /\ o \in Sides /\ o # s /\ s = Other(o) /\ c \in Mem(t) /\ c \in Cells /\ n \in Cells
      /\ a \in Mem(t) \cup {sentl} /\ b \in Mem(t) \cup {sentl} /\ a \in Cells /\ b \in Cells
      /\ n # sentl /\ c # sentl /\ n # c /\ pos \in [Nodes -> Int] /\ u \in Trees
  <2>1. /\ o \in Sides /\ o # s /\ s = Other(o) /\ c # sentl /\ u \in Trees
        /\ pos \in [Nodes -> Int]
    BY <1>1, SideCases DEF Shape, Rotated
  <2>2. \A x \in Mem(t), r \in Sides : Ch(t, x, r) \in Mem(t) \cup {sentl}
    BY DEF Shape
  <2>3. c \in Mem(t) /\ b \in Mem(t) \cup {sentl} /\ a \in Mem(t) \cup {sentl}
    BY <1>1, <2>1, <2>2
  <2>4. n # c
    BY <1>1, <2>1, ShapeFacts
  <2> QED BY <2>1, <2>3, <2>4, MemIn DEF Cells
<1>3. Mem(u) = Mem(t)
  <2>1. \A x \in Nodes : Pa(u, x) # NULL <=> Pa(t, x) # NULL
    <3>1. \A x \in Nodes : x \in Cells
      BY DEF Cells
    <3>2. Pa(t, n) # NULL /\ Pa(t, c) # NULL /\ c # NULL /\ n # NULL /\ (b # sentl => Pa(t, b) # NULL)
      BY <1>2, MemIn DEF Mem
    <3> QED BY <1>1, <3>1, <3>2, Names DEF Rotated
  <2> QED BY <2>1 DEF Mem
<1>4. PICK sub2 : sub2 = [sub EXCEPT ![c] = sub[n], ![n] = {n} \cup sub[a] \cup sub[b]]
  OBVIOUS
<1>5. /\ sub2 \in [Cells -> SUBSET Mem(t)]
      /\ sub2[c] = sub[n] /\ sub2[n] = {n} \cup sub[a] \cup sub[b]
      /\ \A x \in Cells : x # c /\ x # n => sub2[x] = sub[x]
  BY <1>2, <1>4 DEF Shape
<1>6. PICK d : d = Ch(t, c, o)
  OBVIOUS
<1>7. /\ sub[n] = {n} \cup sub[a] \cup sub[c] /\ sub[c] = {c} \cup sub[b] \cup sub[d]
  BY <1>1, <1>2, <1>6, SideCases DEF Shape
<1>8. /\ Ch(u, n, s) = a /\ Ch(u, n, o) = b /\ Ch(u, c, s) = n /\ Ch(u, c, o) = d
      /\ \A x \in Mem(t), r \in Sides : x # n /\ x # c =>
           Ch(u, x, r) = IF Ch(t, x, r) = n THEN c ELSE Ch(t, x, r)
  <2>1. a # n /\ d # n
    <3>1. d # sentl => d \in sub[c]
      BY <1>2, <1>6, ShapeFacts
    <3>2. a # n /\ n \notin sub[c]
      BY <1>1, <1>2, ShapeFacts
    <3> QED BY <1>2, <3>1, <3>2
  <2> QED BY <1>1, <1>2, <1>6, <2>1 DEF Rotated
<1>9. /\ a # n /\ a # c /\ b # n /\ b # c /\ d # n /\ d # c
      /\ d \in Mem(t) \cup {sentl} /\ d \in Cells
  <2>1. /\ a # n /\ a # c /\ b # c /\ d # c
    <3>1. a # n /\ a # c
      BY <1>1, <1>2, ShapeFacts
    <3>2. b # c
      BY <1>1, <1>2, ShapeFacts
    <3>3. d # c
      BY <1>2, <1>6, ShapeFacts
    <3> QED BY <3>1, <3>2, <3>3
  <2>2. b # n /\ d # n
    <3>1. (b # sentl => b \in sub[c]) /\ (d # sentl => d \in sub[c]) /\ n \notin sub[c]
      BY <1>1, <1>2, <1>6, ShapeFacts
    <3> QED BY <1>2, <3>1
  <2>3. d \in Mem(t) \cup {sentl}
    BY <1>2, <1>6 DEF Shape
  <2> QED BY <2>1, <2>2, <2>3, MemIn DEF Cells
<1>10. \A x \in Mem(t) : x # n /\ x # c => \A r \in Sides :
         /\ Ch(t, x, r) # c
         /\ sub2[Ch(u, x, r)] = sub[Ch(t, x, r)]
  <2>1. ASSUME NEW x \in Mem(t), x # n, x # c, NEW r \in Sides
        PROVE  Ch(t, x, r) # c /\ sub2[Ch(u, x, r)] = sub[Ch(t, x, r)]
    <3>1. Ch(t, x, r) # c
      BY <1>1, <1>2, <2>1 DEF Shape
    <3>2. Ch(t, x, r) \in Cells
      BY MemIn, ShapeFacts DEF Shape
    <3> QED BY <1>2, <1>5, <1>8, <2>1, <3>1, <3>2
  <2> QED BY <2>1
<1>11. ASSUME NEW x \in Mem(t)
       PROVE  sub2[x] = {x} \cup sub2[Ch(u, x, "left")] \cup sub2[Ch(u, x, "right")]
  <2>1. CASE x = n
    <3>1. sub2[n] = {n} \cup sub2[Ch(u, n, s)] \cup sub2[Ch(u, n, o)]
      BY <1>2, <1>5, <1>8, <1>9
    <3> QED BY <1>1, <2>1, <3>1, SideCases
  <2>2. CASE x = c
    <3>1. sub2[c] = {c} \cup sub2[Ch(u, c, s)] \cup sub2[Ch(u, c, o)]
      BY <1>2, <1>5, <1>7, <1>8, <1>9
    <3> QED BY <1>1, <2>2, <3>1, SideCases
  <2>3. CASE x # n /\ x # c
    <3>1. sub[x] = {x} \cup sub[Ch(t, x, "left")] \cup sub[Ch(t, x, "right")]
      BY DEF Shape
    <3>2. x \in Cells
      BY MemIn
    <3> QED BY <1>5, <1>10, <2>3, <3>1, <3>2, SideCases
  <2> QED BY <2>1, <2>2, <2>3
<1>12. ASSUME NEW x \in Mem(t), NEW r \in Sides, NEW y \in sub2[Ch(u, x, r)]
       PROVE  On(r, pos, y, x)
  <2>1. \A z \in Mem(t), q \in Sides : \A w \in sub[Ch(t, z, q)] : On(q, pos, w, z)
    BY DEF Shape
  <2>2. \A z \in Cells : sub[z] \subseteq Nodes
    BY MemIn DEF Shape
  <2>3. n \in Nodes /\ c \in Nodes /\ x \in Nodes
    BY <1>2, MemIn
  <2>4. c \in sub[c]
    BY <1>2, ShapeFacts
  <2>5. On(s, pos, n, c)
    BY <1>1, <1>2, <2>1, <2>3, <2>4, OnFacts
  <2>6. CASE x = n /\ r = s
    BY <1>1, <1>5, <1>8, <1>9, <1>12, <1>2, <2>1, <2>6
  <2>7. CASE x = n /\ r = o
    <3>1. y \in sub[b]
      BY <1>2, <1>5, <1>8, <1>9, <1>12, <2>7
    <3>2. y \in sub[c]
      BY <1>7, <3>1
    <3> QED BY <1>1, <1>2, <2>1, <2>7, <3>2
  <2>8. CASE x = c /\ r = s
    <3>1. y \in {n} \cup sub[a] \cup sub[b]
      BY <1>5, <1>8, <1>12, <2>8
    <3>2. CASE y = n
      BY <2>5, <2>8, <3>2
    <3>3. CASE y \in sub[a]
      <4>1. On(s, pos, y, n) /\ y \in Nodes
        BY <1>1, <1>2, <2>1, <2>2, <3>3
      <4> QED BY <1>2, <2>3, <2>5, <2>8, <4>1, OnFacts
    <3>4. CASE y \in sub[b]
      BY <1>1, <1>2, <2>1, <2>8, <3>4
    <3> QED BY <3>1, <3>2, <3>3, <3>4
  <2>9. CASE x = c /\ r = o
    BY <1>2, <1>5, <1>6, <1>8, <1>9, <1>12, <2>1, <2>9
  <2>10. CASE x # n /\ x # c
    BY <1>10, <1>12, <2>1, <2>10
  <2> QED BY <1>1, <2>6, <2>7, <2>8, <2>9, <2>10, SideCases
<1>13. /\ Rt(u) # sentl => Rt(u) \in Mem(t) /\ Pa(u, Rt(u)) = sentl
       /\ sub2[Rt(u)] = Mem(t)
  <2>1. CASE n = Rt(t)
    <3>1. Rt(u) = c /\ Pa(u, c) = Pa(t, n)
      BY <1>1, <1>2, <1>9, <2>1 DEF Rotated
    <3> QED BY <1>2, <1>5, <2>1, <3>1, ShapeFacts DEF Shape
  <2>2. CASE n # Rt(t)
    <3>1. /\ Rt(u) = Rt(t) /\ Rt(t) # c /\ Rt(t) \in Cells /\ Rt(t) # sentl
          /\ (b # sentl => Rt(t) # b)
      <4>1. Rt(u) = Rt(t)
        BY <2>2 DEF Rotated
      <4>2. Rt(t) # c /\ (b # sentl => Rt(t) # b) /\ Rt(t) \in Cells
        BY <1>1, <1>2, ShapeFacts
      <4>3. Rt(t) # sentl
        BY <1>2 DEF Shape
      <4> QED BY <4>1, <4>2, <4>3
    <3>2. Pa(u, Rt(t)) = Pa(t, Rt(t))
      BY <1>1, <2>2, <3>1 DEF Rotated
    <3> QED BY <1>5, <2>2, <3>1, <3>2 DEF Shape
  <2> QED BY <2>1, <2>2
<1>14. ASSUME NEW x \in Mem(t), NEW r \in Sides
       PROVE  /\ Ch(u, x, r) \in Mem(t) \cup {sentl}
              /\ Ch(u, x, r) # sentl => Pa(u, Ch(u, x, r)) = x
  <2>1. \A z \in Mem(t), q \in Sides : /\ Ch(t, z, q) \in Mem(t) \cup {sentl}
                                       /\ Ch(t, z, q) # sentl => Pa(t, Ch(t, z, q)) = z
    BY DEF Shape
  <2>2. \A z \in Mem(t) : z \in Cells
    BY MemIn
  <2>3. /\ (b # sentl => Pa(u, b) = n) /\ Pa(u, c) = Pa(t, n) /\ Pa(u, n) = c
        /\ \A z \in Mem(t) : z # b /\ z # c /\ z # n => Pa(u, z) = Pa(t, z)
    BY <1>1, <1>2, <1>9, <2>2 DEF Rotated
  <2>4. /\ (a # sentl => a # b) /\ (d # sentl => d # b)
    <3>1. (a # sentl => Pa(t, a) = n) /\ (b # sentl => Pa(t, b) = c)
      BY <1>1, <1>2, <2>1
    <3>2. d # sentl => d # b
      BY <1>1, <1>2, <1>6, ShapeFacts
    <3> QED BY <1>2, <3>1, <3>2
  <2>5. CASE x = n /\ r = s
    BY <1>1, <1>2, <1>8, <1>9, <2>1, <2>3, <2>4, <2>5
  <2>6. CASE x = n /\ r = o
    BY <1>2, <1>8, <2>3, <2>6
  <2>7. CASE x = c /\ r = s
    BY <1>2, <1>8, <2>3, <2>7
  <2>8. CASE x = c /\ r = o
    BY <1>2, <1>6, <1>8, <1>9, <2>1, <2>3, <2>4, <2>8
  <2>9. CASE x # n /\ x # c
    <3>1. CASE Ch(t, x, r) = n
      <4>1. Ch(u, x, r) = c /\ Pa(t, n) = x
        BY <1>2, <1>8, <2>1, <2>9, <3>1
      <4> QED BY <1>2, <2>3, <4>1
    <3>2. CASE Ch(t, x, r) # n
      <4>1. Ch(u, x, r) = Ch(t, x, r) /\ Ch(t, x, r) # c
        BY <1>8, <1>10, <2>9, <3>2
      <4>2. b # sentl => Pa(t, b) = c
        BY <1>1, <1>2, <2>1
      <4> QED BY <2>1, <2>3, <2>9, <3>2, <4>1, <4>2
    <3> QED BY <3>1, <3>2
  <2> QED BY <1>1, <2>5, <2>6, <2>7, <2>8, <2>9, SideCases
<1>15. ASSUME NEW x \in Mem(t) \ {Rt(u)}
       PROVE  Pa(u, x) \in Mem(t) /\ \E r \in Sides : Ch(u, Pa(u, x), r) = x
  <2>1. x \in Cells
    BY MemIn
  <2>2. CASE x = b
    BY <1>1, <1>2, <1>8, <1>9, <2>1, <2>2 DEF Rotated
  <2>3. CASE x = n
    BY <1>1, <1>2, <1>8, <1>9, <2>1, <2>3 DEF Rotated
  <2>4. CASE x = c
    <3>1. n # Rt(t) /\ Pa(u, c) = Pa(t, n)
      BY <1>1, <1>2, <1>9, <1>15, <2>4 DEF Rotated
    <3>2. PICK r \in Sides : Pa(t, n) \in Mem(t) /\ Ch(t, Pa(t, n), r) = n
      BY <3>1 DEF Shape
    <3>3. Pa(t, n) # n /\ Pa(t, n) # c
      <4>1. n \in sub[Pa(t, n)] /\ Pa(t, n) \notin sub[n] /\ c \in sub[n]
        BY <1>1, <1>2, <3>2, ShapeFacts
      <4> QED BY <4>1, ShapeFacts
    <3>4. Ch(u, Pa(t, n), r) = c
      BY <1>8, <3>2, <3>3
    <3> QED BY <2>4, <3>1, <3>2, <3>4
  <2>5. CASE x # b /\ x # n /\ x # c
    <3>1. x # Rt(t) /\ Pa(u, x) = Pa(t, x)
      <4>1. CASE n = Rt(t)
        BY <1>1, <1>2, <2>1, <2>5, <4>1 DEF Rotated
      <4>2. CASE n # Rt(t)
        BY <1>1, <1>15, <2>1, <2>5, <4>2 DEF Rotated
      <4> QED BY <4>1, <4>2
    <3>2. PICK r \in Sides : Pa(t, x) \in Mem(t) /\ Ch(t, Pa(t, x), r) = x
      BY <3>1 DEF Shape
    <3>3. Ch(u, Pa(t, x), r) = x
      <4>1. CASE Pa(t, x) = n
        BY <1>1, <1>2, <1>8, <2>5, <3>2, <4>1, SideCases
      <4>2. CASE Pa(t, x) = c
        BY <1>1, <1>2, <1>6, <1>8, <2>5, <3>2, <4>2, SideCases
      <4>3. CASE Pa(t, x) # n /\ Pa(t, x) # c
        BY <1>8, <2>5, <3>2, <4>3
      <4> QED BY <4>1, <4>2, <4>3
    <3> QED BY <3>1, <3>2, <3>3
  <2> QED BY <2>2, <2>3, <2>4, <2>5
<1>16. sub2[sentl] = {}
  BY <1>2, <1>5, ShapeFacts DEF Shape
<1>17. Shape(u, sub2, pos)
  BY <1>2, <1>3, <1>5, <1>11, <1>12, <1>13, <1>14, <1>15, <1>16 DEF Shape
<1> QED BY <1>3, <1>17

----------------------------------------------------------------------------
(* Induction along a tree *)

LEMMA Least ==
  ASSUME NEW S \in SUBSET Nat, S # {}
  PROVE  \E n \in S : \A m \in S : n <= m
<1> DEFINE R == OpToRel(<, Nat)
<1>1. IsWellFoundedOn(R, Nat)
  BY NatLessThanWellFounded
<1>2. R = {ss \in Nat \X Nat : ss[1] < ss[2]}
  BY DEF OpToRel
<1> HIDE DEF R
<1>3. PICK n \in S : \A m \in S : ~(<<m, n>> \in R)
  BY <1>1, WFMin
<1>4. ASSUME NEW m \in S PROVE n <= m
  <2>1. m \in Nat /\ n \in Nat /\ <<m, n>> \in Nat \X Nat /\ <<m, n>> \notin R
    BY <1>3
  <2>2. ~(m < n)
    BY <1>2, <2>1
  <2> QED BY <2>1, <2>2
<1> QED BY <1>3, <1>4

(* The same for a measure of the elements of any set. *)
LEMMA LeastBy ==
  ASSUME NEW P, P # {}, NEW f, \A x \in P : f[x] \in Nat
  PROVE  \E x \in P : \A y \in P : f[x] <= f[y]
<1>1. {f[x] : x \in P} \in SUBSET Nat /\ {f[x] : x \in P} # {}
  OBVIOUS
<1>2. PICK n \in {f[x] : x \in P} : \A m \in {f[x] : x \in P} : n <= m
  BY <1>1, Least
<1> QED BY <1>2

LEMMA SubSizes ==
  ASSUME NEW t, NEW sub, NEW pos, Shape(t, sub, pos), IsFiniteSet(Mem(t)),
         NEW x \in Mem(t)
  PROVE  /\ Cardinality(sub[x]) \in Nat
         /\ Cardinality(sub[x]) <= Cardinality(Mem(t)) /\ Cardinality(Mem(t)) \in Nat
         /\ \A s \in Sides : Cardinality(sub[Ch(t, x, s)]) < Cardinality(sub[x])
<1>1. sub[x] \in SUBSET Mem(t)
  BY MemIn DEF Shape
<1>2. /\ IsFiniteSet(sub[x]) /\ Cardinality(sub[x]) \in Nat
      /\ Cardinality(sub[x]) <= Cardinality(Mem(t)) /\ Cardinality(Mem(t)) \in Nat
  BY <1>1, FS_Subset, FS_CardinalityType
<1>3. ASSUME NEW s \in Sides PROVE Cardinality(sub[Ch(t, x, s)]) < Cardinality(sub[x])
  <2>1. sub[Ch(t, x, s)] \in SUBSET sub[x] /\ sub[Ch(t, x, s)] # sub[x]
    BY ShapeFacts
  <2>2. /\ Cardinality(sub[Ch(t, x, s)]) <= Cardinality(sub[x])
        /\ Cardinality(sub[Ch(t, x, s)]) # Cardinality(sub[x])
        /\ Cardinality(sub[Ch(t, x, s)]) \in Nat
    BY <1>2, <2>1, FS_Subset, FS_CardinalityType
  <2> QED BY <1>2, <2>2
<1> QED BY <1>2, <1>3

(* What fails somewhere fails at a lowest and at a highest node. *)
LEMMA Lowest ==
  ASSUME NEW t, NEW sub, NEW pos, Shape(t, sub, pos), IsFiniteSet(Mem(t)),
         NEW P \in SUBSET Mem(t), P # {}
  PROVE  \E x \in P : \A s \in Sides : Ch(t, x, s) \notin P
<1>1. PICK f : f = [x \in P |-> Cardinality(sub[x])]
  OBVIOUS
<1>2. \A x \in P : f[x] \in Nat /\ f[x] = Cardinality(sub[x])
  BY <1>1, SubSizes
<1>3. PICK x \in P : \A y \in P : f[x] <= f[y]
  BY <1>2, LeastBy
<1>4. \A s \in Sides : Cardinality(sub[Ch(t, x, s)]) < Cardinality(sub[x])
  BY SubSizes
<1>5. ASSUME NEW s \in Sides, Ch(t, x, s) \in P PROVE FALSE
  <2>1. f[x] <= f[Ch(t, x, s)] /\ f[Ch(t, x, s)] < f[x] /\ f[x] \in Nat /\ f[Ch(t, x, s)] \in Nat
    BY <1>2, <1>3, <1>4, <1>5
  <2> QED BY <2>1
<1> QED BY <1>5

LEMMA Highest ==
  ASSUME NEW t, NEW sub, NEW pos, Shape(t, sub, pos), IsFiniteSet(Mem(t)),
         NEW P \in SUBSET Mem(t), P # {}
  PROVE  \E x \in P : x # Rt(t) => Pa(t, x) \notin P
<1>1. PICK f : f = [x \in P |-> Cardinality(Mem(t)) - Cardinality(sub[x])]
  OBVIOUS
<1>2. \A x \in P : f[x] \in Nat /\ f[x] = Cardinality(Mem(t)) - Cardinality(sub[x])
  BY <1>1, SubSizes
<1>3. PICK x \in P : \A y \in P : f[x] <= f[y]
  BY <1>2, LeastBy
<1>4. ASSUME x # Rt(t), Pa(t, x) \in P PROVE FALSE
  <2>1. Pa(t, x) \in Mem(t) /\ \E s \in Sides : Ch(t, Pa(t, x), s) = x
    BY <1>4 DEF Shape
  <2>2. Cardinality(sub[x]) < Cardinality(sub[Pa(t, x)])
    BY <2>1, SubSizes
  <2>3. Cardinality(sub[x]) \in Nat /\ Cardinality(sub[Pa(t, x)]) \in Nat /\ Cardinality(Mem(t)) \in Nat
    BY <2>1, SubSizes
  <2>4. f[x] <= f[Pa(t, x)]
    BY <1>3, <1>4
  <2> QED BY <1>2, <1>4, <2>2, <2>3, <2>4
<1> QED BY <1>4

(* The nodes below a node are below whatever is above it. *)
LEMMA SubIn ==
  ASSUME NEW t, NEW sub, NEW pos, Shape(t, sub, pos), IsFiniteSet(Mem(t))
  PROVE  \A x \in Mem(t) : \A y \in sub[x] : y \in Mem(t) /\ sub[y] \subseteq sub[x]
<1> DEFINE P == {x \in Mem(t) : \E y \in sub[x] : ~(y \in Mem(t) /\ sub[y] \subseteq sub[x])}
<1>1. SUFFICES ASSUME P # {} PROVE FALSE
  OBVIOUS
<1>2. PICK x \in P : \A s \in Sides : Ch(t, x, s) \notin P
  <2>1. P \in SUBSET Mem(t)
    OBVIOUS
  <2> HIDE DEF P
  <2> QED BY <1>1, <2>1, Lowest
<1>3. PICK y \in sub[x] : ~(y \in Mem(t) /\ sub[y] \subseteq sub[x])
  BY <1>2
<1>4. x \in Mem(t) /\ x \in Cells /\ y \in Mem(t) /\ y # x
  <2>1. x \in Mem(t) /\ x \in Cells
    BY <1>2, MemIn
  <2> QED BY <1>3, <2>1, MemIn DEF Shape
<1>5. PICK s \in Sides : y \in sub[Ch(t, x, s)]
  BY <1>3, <1>4, SideCases DEF Shape
<1>6. Ch(t, x, s) \in Mem(t) /\ sub[Ch(t, x, s)] \subseteq sub[x]
  <2>1. Ch(t, x, s) \in Mem(t) \cup {sentl} /\ sub[sentl] = {}
    BY <1>4 DEF Shape
  <2> QED BY <1>4, <1>5, <2>1, ShapeFacts
<1>7. sub[y] \subseteq sub[Ch(t, x, s)]
  BY <1>2, <1>5, <1>6
<1> QED BY <1>3, <1>4, <1>6, <1>7

(* What is not below a node is on one side of all that is. *)
LEMMA Convex ==
  ASSUME NEW t, NEW sub, NEW pos, Shape(t, sub, pos), IsFiniteSet(Mem(t))
  PROVE  \A x \in Mem(t), y \in Mem(t) : y \notin sub[x] =>
           \A a \in sub[x], b \in sub[x] : pos[y] < pos[a] <=> pos[y] < pos[b]
<1> DEFINE Q(x, y) == y \notin sub[x] =>
             \A a \in sub[x], b \in sub[x] : pos[y] < pos[a] <=> pos[y] < pos[b]
           P == {x \in Mem(t) : \E y \in Mem(t) : ~Q(x, y)}
<1>1. SUFFICES ASSUME P # {} PROVE FALSE
  OBVIOUS
<1>2. PICK x \in P : x # Rt(t) => Pa(t, x) \notin P
  <2>1. P \in SUBSET Mem(t)
    OBVIOUS
  <2> HIDE DEF P
  <2> QED BY <1>1, <2>1, Highest
<1>3. PICK y \in Mem(t) : ~Q(x, y)
  BY <1>2
<1>4. PICK a \in sub[x], b \in sub[x] : y \notin sub[x] /\ ~(pos[y] < pos[a] <=> pos[y] < pos[b])
  BY <1>3
<1>5. x \in Mem(t) /\ x # Rt(t)
  BY <1>2, <1>4 DEF Shape
<1>6. PICK p, s : /\ p = Pa(t, x) /\ s \in Sides /\ Ch(t, p, s) = x /\ p \in Mem(t)
  BY <1>5 DEF Shape
<1>7. Q(p, y)
  BY <1>2, <1>5, <1>6
<1>8. sub[x] \subseteq sub[p] /\ p \in sub[p]
  BY <1>6, ShapeFacts
<1>9. y \in sub[p]
  BY <1>4, <1>7, <1>8
<1>10. y = p \/ y \in sub[Ch(t, p, Other(s))]
  BY <1>4, <1>6, <1>9, SideCases DEF Shape
<1>11. /\ On(s, pos, a, p) /\ On(s, pos, b, p)
       /\ a \in Nodes /\ b \in Nodes /\ p \in Nodes /\ y \in Nodes
       /\ pos \in [Nodes -> Int]
  <2>1. On(s, pos, a, p) /\ On(s, pos, b, p) /\ pos \in [Nodes -> Int]
    BY <1>4, <1>6 DEF Shape
  <2>2. a \in Mem(t) /\ b \in Mem(t)
    BY <1>5, SubIn
  <2> QED BY <1>6, <2>1, <2>2, MemIn
<1>12. CASE y = p
  BY <1>4, <1>11, <1>12 DEF On
<1>13. CASE y \in sub[Ch(t, p, Other(s))]
  <2>1. On(Other(s), pos, y, p)
    BY <1>6, <1>13, SideCases DEF Shape
  <2> QED BY <1>4, <1>6, <1>11, <2>1, SideCases DEF On
<1> QED BY <1>10, <1>12, <1>13

----------------------------------------------------------------------------
(* Colors, places, new nodes and removed nodes *)

SameLinks(t, u) ==
  /\ u \in Trees /\ Rt(u) = Rt(t)
  /\ \A x \in Cells, r \in Sides : Ch(u, x, r) = Ch(t, x, r)
  /\ \A x \in Cells : Pa(u, x) = Pa(t, x)

(* The shape does not depend on the colors ... *)
LEMMA SameShape ==
  ASSUME NEW t, NEW sub, NEW pos, Shape(t, sub, pos), NEW u, SameLinks(t, u)
  PROVE  Shape(u, sub, pos) /\ Mem(u) = Mem(t)
<1>1. Mem(u) = Mem(t)
  <2>1. \A x \in Nodes : Pa(u, x) = Pa(t, x)
    BY DEF SameLinks, Cells
  <2> QED BY <2>1 DEF Mem
<1>2. /\ \A x \in Mem(t), r \in Sides : Ch(u, x, r) = Ch(t, x, r)
      /\ \A x \in Mem(t) : Pa(u, x) = Pa(t, x)
      /\ Rt(u) = Rt(t) /\ u \in Trees
  BY MemIn DEF SameLinks
<1>3. /\ u \in Trees /\ pos \in [Nodes -> Int]
      /\ sub \in [Cells -> SUBSET Mem(u)]
      /\ sub[sentl] = {} /\ sub[Rt(u)] = Mem(u)
      /\ Rt(u) # sentl => Rt(u) \in Mem(u) /\ Pa(u, Rt(u)) = sentl
      /\ \A n \in Mem(u), s \in Sides : Ch(u, n, s) \in Mem(u) \cup {sentl}
  BY <1>1, <1>2 DEF Shape
<1>4. \A n \in Mem(u) : sub[n] = {n} \cup sub[Ch(u, n, "left")] \cup sub[Ch(u, n, "right")]
  BY <1>1, <1>2, SideCases DEF Shape
<1>5. \A n \in Mem(u), s \in Sides : \A a \in sub[Ch(u, n, s)] : On(s, pos, a, n)
  BY <1>1, <1>2 DEF Shape
<1>6. \A n \in Mem(u), s \in Sides : Ch(u, n, s) # sentl => Pa(u, Ch(u, n, s)) = n
  BY <1>1, <1>2 DEF Shape
<1>7. \A n \in Mem(u) \ {Rt(u)} : Pa(u, n) \in Mem(u) /\ \E s \in Sides : Ch(u, Pa(u, n), s) = n
  BY <1>1, <1>2 DEF Shape
<1> QED BY <1>1, <1>3, <1>4, <1>5, <1>6, <1>7 DEF Shape

(* ... and depends on the places of the nodes by their order. *)
LEMMA Reorder ==
  ASSUME NEW t, NEW sub, NEW pos, Shape(t, sub, pos),
         NEW pos2 \in [Nodes -> Int],
         \A a \in Mem(t), b \in Mem(t) : pos[a] < pos[b] => pos2[a] < pos2[b]
  PROVE  Shape(t, sub, pos2)
<1>1. \A n \in Mem(t), s \in Sides : \A a \in sub[Ch(t, n, s)] : On(s, pos2, a, n)
  <2>1. \A n \in Mem(t), s \in Sides : \A a \in sub[Ch(t, n, s)] :
          On(s, pos, a, n) /\ a \in Mem(t)
    BY MemIn DEF Shape, Cells
  <2> QED BY <2>1 DEF On
<1> QED BY <1>1 DEF Shape

(* u is t with the red leaf n on side s of y; no side of the sentinel when *)
(* the tree was empty.                                                     *)
Hung(t, u, n, y, s) ==
  /\ u \in Trees
  /\ Rt(u) = IF Rt(t) = sentl THEN n ELSE Rt(t)
  /\ \A x \in Cells, r \in Sides :
       Ch(u, x, r) = IF x = n THEN sentl
                     ELSE IF y # sentl /\ x = y /\ r = s THEN n ELSE Ch(t, x, r)
  /\ \A x \in Cells : /\ Pa(u, x) = IF x = n THEN y ELSE Pa(t, x)
                      /\ Co(u, x) = IF x = n THEN "red" ELSE Co(t, x)

(* A place for a leaf: the sentinel of an empty tree or a free side, where *)
(* it is on the right side of everything above.                            *)
Place(t, sub, pos, n, y, s) ==
  \/ Rt(t) = sentl /\ y = sentl
  \/ /\ Rt(t) # sentl /\ y \in Mem(t) /\ s \in Sides /\ Ch(t, y, s) = sentl
     /\ On(s, pos, n, y)
     /\ \A x \in Mem(t), r \in Sides : y \in sub[Ch(t, x, r)] => On(r, pos, n, x)

LEMMA HungShape ==
  ASSUME NEW t, NEW sub, NEW pos, Shape(t, sub, pos), NEW n \in Nodes \ Mem(t),
         NEW y, NEW s, Place(t, sub, pos, n, y, s), NEW u, Hung(t, u, n, y, s)
  PROVE  Mem(u) = Mem(t) \cup {n} /\ \E sub2 : Shape(u, sub2, pos)
<1>1. /\ n \in Cells /\ n # sentl /\ n # NULL /\ y # n /\ y \in Mem(t) \cup {sentl} /\ y # NULL
      /\ \A x \in Mem(t) : x # n /\ x \in Cells
  BY Names, MemIn DEF Cells, Place
<1>2. Mem(u) = Mem(t) \cup {n}
  <2>1. \A x \in Nodes : Pa(u, x) = IF x = n THEN y ELSE Pa(t, x)
    BY DEF Hung, Cells
  <2> QED BY <1>1, <2>1 DEF Mem
<1>3. PICK sub2 : sub2 = [x \in Cells |-> IF x = n THEN {n}
                                         ELSE IF y \in sub[x] THEN sub[x] \cup {n} ELSE sub[x]]
  OBVIOUS
<1>4. /\ sub2 \in [Cells -> SUBSET Mem(u)] /\ sub2[n] = {n} /\ sub2[sentl] = {}
      /\ \A x \in Cells : x # n => sub2[x] = IF y \in sub[x] THEN sub[x] \cup {n} ELSE sub[x]
  <2>1. sub \in [Cells -> SUBSET Mem(t)] /\ sub[sentl] = {} /\ sentl \in Cells
    BY DEF Shape, Cells
  <2> QED BY <1>1, <1>2, <1>3, <2>1
<1>5. /\ Rt(u) \in Mem(u) /\ Pa(u, Rt(u)) = sentl /\ sub2[Rt(u)] = Mem(u)
  <2>1. CASE Rt(t) = sentl
    <3>1. Rt(u) = n /\ y = sentl /\ Pa(u, n) = y /\ Mem(t) = {}
      BY <1>1, <2>1, MemIn DEF Hung, Place, Shape
    <3> QED BY <1>1, <1>2, <1>4, <2>1, <3>1
  <2>2. CASE Rt(t) # sentl
    <3>1. Rt(u) = Rt(t) /\ Rt(t) \in Mem(t) /\ Pa(t, Rt(t)) = sentl /\ sub[Rt(t)] = Mem(t)
      BY <2>2 DEF Hung, Shape
    <3>2. y \in Mem(t)
      BY <2>2 DEF Place
    <3>3. Pa(u, Rt(t)) = Pa(t, Rt(t)) /\ sub2[Rt(t)] = sub[Rt(t)] \cup {n}
      BY <1>1, <1>4, <3>1, <3>2 DEF Hung
    <3> QED BY <1>2, <3>1, <3>3
  <2> QED BY <2>1, <2>2
<1>6. /\ \A r \in Sides : Ch(u, n, r) = sentl
      /\ \A x \in Mem(t), r \in Sides :
           /\ Ch(u, x, r) = IF x = y /\ r = s THEN n ELSE Ch(t, x, r)
           /\ Ch(t, x, r) \in Mem(t) \cup {sentl} /\ Ch(t, x, r) # n /\ Ch(t, x, r) \in Cells
  <2>1. \A x \in Mem(t), r \in Sides : Ch(t, x, r) \in Mem(t) \cup {sentl}
    BY DEF Shape
  <2>2. \A x \in Mem(t) : x # sentl
    BY MemIn
  <2>3. \A r \in Sides : Ch(u, n, r) = sentl
    BY <1>1 DEF Hung
  <2>4. \A x \in Mem(t), r \in Sides : Ch(u, x, r) = IF x = y /\ r = s THEN n ELSE Ch(t, x, r)
    BY <1>1, <2>2 DEF Hung
  <2>5. sentl \in Cells
    BY DEF Cells
  <2> QED BY <1>1, <2>1, <2>3, <2>4, <2>5
<1>7. \A x \in Mem(u), r \in Sides : Ch(u, x, r) \in Mem(u) \cup {sentl}
  BY <1>2, <1>6
<1>8. ASSUME NEW x \in Mem(u)
      PROVE  sub2[x] = {x} \cup sub2[Ch(u, x, "left")] \cup sub2[Ch(u, x, "right")]
  <2>1. CASE x = n
    BY <1>4, <1>6, <2>1, SideCases
  <2>2. CASE x \in Mem(t) /\ x = y
    <3>1. /\ s \in Sides /\ Ch(t, y, s) = sentl
      BY <1>1, <2>2, MemIn DEF Place
    <3>2. PICK z : z = Ch(t, y, Other(s))
      OBVIOUS
    <3>3. /\ Ch(u, y, s) = n /\ Ch(u, y, Other(s)) = z /\ z \in Cells /\ z # n
      BY <1>6, <2>2, <3>1, <3>2, SideCases
    <3>4. y \notin sub[z] /\ y \in sub[y]
      BY <2>2, <3>1, <3>2, ShapeFacts, SideCases
    <3>5. sub[y] = {y} \cup sub[z] /\ y \in Cells /\ y # n
      <4>1. sub[y] = {y} \cup sub[Ch(t, y, "left")] \cup sub[Ch(t, y, "right")] /\ sub[sentl] = {}
        BY <2>2 DEF Shape
      <4> QED BY <1>1, <2>2, <3>1, <3>2, <4>1, SideCases
    <3>6. sub2[y] = {y} \cup sub2[Ch(u, y, s)] \cup sub2[Ch(u, y, Other(s))]
      BY <1>4, <3>3, <3>4, <3>5
    <3> QED BY <2>2, <3>1, <3>6, SideCases
  <2>3. CASE x \in Mem(t) /\ x # y
    <3>1. sub[x] = {x} \cup sub[Ch(t, x, "left")] \cup sub[Ch(t, x, "right")]
      BY <2>3 DEF Shape
    <3>2. /\ Ch(u, x, "left") = Ch(t, x, "left") /\ Ch(u, x, "right") = Ch(t, x, "right")
          /\ Ch(t, x, "left") \in Cells /\ Ch(t, x, "left") # n
          /\ Ch(t, x, "right") \in Cells /\ Ch(t, x, "right") # n
      BY <1>6, <2>3, SideCases
    <3> QED BY <1>1, <1>4, <2>3, <3>1, <3>2
  <2> QED BY <1>2, <2>1, <2>2, <2>3
<1>9. ASSUME NEW x \in Mem(u), NEW r \in Sides, NEW a \in sub2[Ch(u, x, r)]
      PROVE  On(r, pos, a, x)
  <2>1. CASE x = n
    BY <1>4, <1>6, <1>9, <2>1
  <2>2. CASE x \in Mem(t) /\ x = y /\ r = s
    <3>1. a = n
      BY <1>4, <1>6, <1>9, <2>2
    <3> QED BY <2>2, <3>1, MemIn DEF Place
  <2>3. CASE x \in Mem(t) /\ ~(x = y /\ r = s)
    <3>1. a \in sub[Ch(t, x, r)] \/ (a = n /\ y \in sub[Ch(t, x, r)])
      BY <1>4, <1>6, <1>9, <2>3
    <3>2. CASE a \in sub[Ch(t, x, r)]
      BY <2>3, <3>2 DEF Shape
    <3>3. CASE a = n /\ y \in sub[Ch(t, x, r)]
      <4>1. y \in Mem(t)
        BY <1>1, <1>6, <2>3, <3>3, MemIn DEF Shape
      <4> QED BY <2>3, <3>3, <4>1, MemIn DEF Place
    <3> QED BY <3>1, <3>2, <3>3
  <2> QED BY <1>2, <2>1, <2>2, <2>3
<1>10. ASSUME NEW x \in Mem(u), NEW r \in Sides, Ch(u, x, r) # sentl
       PROVE  Pa(u, Ch(u, x, r)) = x
  <2>1. x \in Mem(t)
    BY <1>2, <1>6, <1>10
  <2>2. CASE x = y /\ r = s
    BY <1>1, <1>6, <2>1, <2>2 DEF Hung
  <2>3. CASE ~(x = y /\ r = s)
    <3>1. Ch(u, x, r) = Ch(t, x, r) /\ Ch(t, x, r) # n /\ Ch(t, x, r) \in Cells
      BY <1>6, <2>1, <2>3
    <3>2. Pa(t, Ch(t, x, r)) = x
      BY <1>10, <2>1, <3>1 DEF Shape
    <3> QED BY <3>1, <3>2 DEF Hung
  <2> QED BY <2>2, <2>3
<1>11. ASSUME NEW x \in Mem(u) \ {Rt(u)}
       PROVE  Pa(u, x) \in Mem(u) /\ \E r \in Sides : Ch(u, Pa(u, x), r) = x
  <2>1. CASE x = n
    <3>1. Rt(t) # sentl
      BY <1>11, <2>1 DEF Hung
    <3>2. y \in Mem(t) /\ s \in Sides /\ Pa(u, n) = y /\ Ch(u, y, s) = n
      BY <1>1, <1>6, <3>1 DEF Place, Hung
    <3> QED BY <1>2, <2>1, <3>2
  <2>2. CASE x \in Mem(t)
    <3>1. Rt(t) # sentl
      BY <2>2 DEF Shape
    <3>2. x # Rt(t) /\ Pa(u, x) = Pa(t, x)
      BY <1>1, <1>11, <2>2, <3>1 DEF Hung
    <3>3. PICK r \in Sides : Pa(t, x) \in Mem(t) /\ Ch(t, Pa(t, x), r) = x
      BY <2>2, <3>2 DEF Shape
    <3>4. Ch(u, Pa(t, x), r) = x
      <4>1. ~(Pa(t, x) = y /\ r = s)
        BY <2>2, <3>3, MemIn DEF Place
      <4> QED BY <1>6, <3>3, <4>1
    <3> QED BY <1>2, <3>2, <3>3, <3>4
  <2> QED BY <1>2, <2>1, <2>2
<1>12. u \in Trees /\ pos \in [Nodes -> Int]
  BY DEF Hung, Shape
<1>13. Shape(u, sub2, pos)
  BY <1>4, <1>5, <1>7, <1>8, <1>9, <1>10, <1>11, <1>12 DEF Shape
<1> QED BY <1>2, <1>13

(* u is t without n, whose only child c goes up. *)
Spliced(t, u, n, c) ==
  /\ u \in Trees
  /\ Rt(u) = IF n = Rt(t) THEN c ELSE Rt(t)
  /\ \A x \in Mem(t) \ {n}, r \in Sides :
       Ch(u, x, r) = IF Ch(t, x, r) = n THEN c ELSE Ch(t, x, r)
  /\ \A x \in Cells : Pa(u, x) = IF x = n THEN NULL ELSE IF x = c THEN Pa(t, n) ELSE Pa(t, x)
  /\ \A x \in Cells \ {n} : Co(u, x) = Co(t, x)

LEMMA SplicedShape ==
  ASSUME NEW t, NEW sub, NEW pos, Shape(t, sub, pos), NEW n \in Mem(t), NEW s \in Sides,
         NEW c, c = Ch(t, n, s), Ch(t, n, Other(s)) = sentl,
         NEW u, Spliced(t, u, n, c)
  PROVE  Mem(u) = Mem(t) \ {n} /\ \E sub2 : Shape(u, sub2, pos)
<1>1. /\ n \in Cells /\ n # sentl /\ c \in Mem(t) \cup {sentl} /\ c \in Cells /\ c # n
      /\ n \notin sub[c] /\ sub[n] = {n} \cup sub[c] /\ Pa(t, n) # n
  <2>1. c \in Mem(t) \cup {sentl} /\ sub[sentl] = {}
    BY DEF Shape
  <2>2. sub[n] = {n} \cup sub[Ch(t, n, "left")] \cup sub[Ch(t, n, "right")]
    BY DEF Shape
  <2>3. sub[n] = {n} \cup sub[c]
    BY <2>1, <2>2, SideCases
  <2>4. c # n /\ n \notin sub[c] /\ Pa(t, n) # n
    BY ShapeFacts
  <2> QED BY <2>1, <2>3, <2>4, MemIn DEF Cells
<1>2. /\ Pa(t, n) # NULL /\ (c # sentl => Pa(t, c) = n)
  BY <1>1, MemIn DEF Mem, Shape
<1>3. Mem(u) = Mem(t) \ {n}
  <2>1. \A x \in Nodes : Pa(u, x) = IF x = n THEN NULL ELSE IF x = c THEN Pa(t, n) ELSE Pa(t, x)
    BY DEF Spliced, Cells
  <2>2. c \in Nodes => Pa(t, c) # NULL
    BY <1>1, MemIn, Names DEF Mem
  <2> QED BY <1>1, <1>2, <2>1, <2>2 DEF Mem
<1>4. PICK sub2 : sub2 = [x \in Cells |-> sub[x] \ {n}]
  OBVIOUS
<1>5. /\ sub2 \in [Cells -> SUBSET Mem(u)] /\ sub2[sentl] = {} /\ sub2[c] = sub[n] \ {n}
      /\ \A x \in Cells : sub2[x] = sub[x] \ {n}
  <2>1. sub \in [Cells -> SUBSET Mem(t)] /\ sub[sentl] = {} /\ sentl \in Cells
    BY DEF Shape, Cells
  <2> QED BY <1>1, <1>3, <1>4, <2>1
<1>6. \A x \in Mem(t), r \in Sides : /\ Ch(t, x, r) \in Mem(t) \cup {sentl} /\ Ch(t, x, r) \in Cells
                                     /\ x \in Cells
  BY MemIn DEF Shape, Cells
<1>7. \A x \in Mem(u), r \in Sides :
        /\ Ch(u, x, r) = IF Ch(t, x, r) = n THEN c ELSE Ch(t, x, r)
        /\ sub2[Ch(u, x, r)] = sub[Ch(t, x, r)] \ {n}
  <2>1. \A x \in Mem(u), r \in Sides : Ch(u, x, r) = IF Ch(t, x, r) = n THEN c ELSE Ch(t, x, r)
    BY <1>3 DEF Spliced
  <2> QED BY <1>3, <1>5, <1>6, <2>1
<1>8. \A x \in Mem(u), r \in Sides : Ch(u, x, r) \in Mem(u) \cup {sentl}
  BY <1>1, <1>3, <1>6, <1>7
<1>9. ASSUME NEW x \in Mem(u)
      PROVE  sub2[x] = {x} \cup sub2[Ch(u, x, "left")] \cup sub2[Ch(u, x, "right")]
  <2>1. sub[x] = {x} \cup sub[Ch(t, x, "left")] \cup sub[Ch(t, x, "right")] /\ x # n /\ x \in Cells
    BY <1>3, <1>6, SideCases DEF Shape
  <2>2. /\ sub2[Ch(u, x, "left")] = sub[Ch(t, x, "left")] \ {n}
        /\ sub2[Ch(u, x, "right")] = sub[Ch(t, x, "right")] \ {n}
    BY <1>7, SideCases
  <2> QED BY <1>5, <2>1, <2>2
<1>10. \A x \in Mem(u), r \in Sides : \A a \in sub2[Ch(u, x, r)] : On(r, pos, a, x)
  BY <1>3, <1>7 DEF Shape
<1>11. /\ sub2[Rt(u)] = Mem(u)
       /\ Rt(u) # sentl => Rt(u) \in Mem(u) /\ Pa(u, Rt(u)) = sentl
  <2>1. sub[Rt(t)] = Mem(t) /\ Rt(t) # sentl /\ Rt(t) \in Mem(t) /\ Pa(t, Rt(t)) = sentl
    BY DEF Shape
  <2>2. CASE n = Rt(t)
    <3>1. Rt(u) = c /\ Pa(u, c) = sentl
      BY <1>1, <2>1, <2>2 DEF Spliced
    <3> QED BY <1>1, <1>3, <1>5, <2>1, <2>2, <3>1
  <2>3. CASE n # Rt(t)
    <3>1. Rt(u) = Rt(t) /\ Rt(t) \in Cells /\ Rt(t) # c
      BY <1>6, <2>1, <2>3, ShapeFacts DEF Spliced
    <3>2. Pa(u, Rt(t)) = Pa(t, Rt(t))
      BY <2>3, <3>1 DEF Spliced
    <3> QED BY <1>3, <1>5, <2>1, <2>3, <3>1, <3>2
  <2> QED BY <2>2, <2>3
<1>12. ASSUME NEW x \in Mem(u), NEW r \in Sides, Ch(u, x, r) # sentl
       PROVE  Pa(u, Ch(u, x, r)) = x
  <2>1. CASE Ch(t, x, r) = n
    <3>1. Ch(u, x, r) = c /\ Pa(t, n) = x
      BY <1>1, <1>3, <1>7, <2>1 DEF Shape
    <3> QED BY <1>1, <3>1 DEF Spliced
  <2>2. CASE Ch(t, x, r) # n
    <3>1. Ch(u, x, r) = Ch(t, x, r) /\ Pa(t, Ch(t, x, r)) = x /\ x # n
      BY <1>3, <1>7, <1>12, <2>2 DEF Shape
    <3>2. Ch(t, x, r) # c
      BY <1>2, <1>12, <3>1
    <3> QED BY <1>3, <1>6, <2>2, <3>1, <3>2 DEF Spliced
  <2> QED BY <2>1, <2>2
<1>13. ASSUME NEW x \in Mem(u) \ {Rt(u)}
       PROVE  Pa(u, x) \in Mem(u) /\ \E r \in Sides : Ch(u, Pa(u, x), r) = x
  <2>1. x \in Mem(t) /\ x # n /\ x \in Cells
    BY <1>3, <1>6, SideCases
  <2>2. CASE x = c
    <3>1. n # Rt(t) /\ Pa(u, c) = Pa(t, n)
      BY <1>1, <1>13, <2>2 DEF Spliced
    <3>2. PICK r \in Sides : Pa(t, n) \in Mem(t) /\ Ch(t, Pa(t, n), r) = n
      BY <3>1 DEF Shape
    <3> QED BY <1>1, <1>3, <1>7, <2>2, <3>1, <3>2
  <2>3. CASE x # c
    <3>1. Pa(u, x) = Pa(t, x) /\ x # Rt(t)
      <4>1. Pa(u, x) = Pa(t, x)
        BY <2>1, <2>3 DEF Spliced
      <4>2. x # Rt(t)
        BY <1>13, <2>1 DEF Spliced
      <4> QED BY <4>1, <4>2
    <3>2. PICK r \in Sides : Pa(t, x) \in Mem(t) /\ Ch(t, Pa(t, x), r) = x
      BY <2>1, <3>1 DEF Shape
    <3>3. Pa(t, x) # n
      <4>1. Pa(t, x) = n => r = Other(s) \/ r = s
        BY <3>2, SideCases
      <4> QED BY <2>1, <2>3, <3>2, <4>1, MemIn
    <3> QED BY <1>3, <1>7, <2>1, <3>1, <3>2, <3>3
  <2> QED BY <2>2, <2>3
<1>14. u \in Trees /\ pos \in [Nodes -> Int]
  BY DEF Spliced, Shape
<1>15. Shape(u, sub2, pos)
  BY <1>5, <1>8, <1>9, <1>10, <1>11, <1>12, <1>13, <1>14 DEF Shape
<1> QED BY <1>3, <1>15

(* u is t with the new node m in the place of n. *)
Replaced(t, u, n, m) ==
  /\ u \in Trees
  /\ Rt(u) = IF n = Rt(t) THEN m ELSE Rt(t)
  /\ \A x \in Mem(t) \ {n}, r \in Sides :
       Ch(u, x, r) = IF Ch(t, x, r) = n THEN m ELSE Ch(t, x, r)
  /\ \A r \in Sides : Ch(u, m, r) = Ch(t, n, r)
  /\ Pa(u, m) = Pa(t, n) /\ Pa(u, n) = NULL
  /\ \A x \in Nodes \ {n, m} : Pa(u, x) = IF Pa(t, x) = n THEN m ELSE Pa(t, x)
  /\ Co(u, m) = Co(t, n)
  /\ \A x \in Cells \ {n, m} : Co(u, x) = Co(t, x)

LEMMA ReplacedShape ==
  ASSUME NEW t, NEW sub, NEW pos, Shape(t, sub, pos), NEW n \in Mem(t),
         NEW m \in Nodes \ Mem(t),
         \A x \in Mem(t) \ {n} : pos[x] < pos[n] <=> pos[x] < pos[m],
         \A x \in Mem(t) \ {n} : pos[n] < pos[x] <=> pos[m] < pos[x],
         NEW u, Replaced(t, u, n, m)
  PROVE  Mem(u) = (Mem(t) \ {n}) \cup {m} /\ \E sub2 : Shape(u, sub2, pos)
<1>1. /\ n \in Nodes /\ n # sentl /\ n # NULL /\ m # n /\ m # sentl /\ m # NULL /\ m \in Cells
      /\ n \in Cells /\ Pa(t, n) # NULL /\ Pa(t, n) # n /\ Pa(t, n) # m
  <2>1. n \in Nodes /\ n # sentl /\ n # NULL /\ m # n /\ m # sentl /\ m # NULL /\ m \in Cells
        /\ n \in Cells
    BY Names, MemIn DEF Cells
  <2>2. Pa(t, n) # NULL
    BY DEF Mem
  <2>3. Pa(t, n) # n
    BY ShapeFacts
  <2>4. Pa(t, n) \in Mem(t) \cup {sentl}
    BY DEF Shape
  <2> QED BY <2>1, <2>2, <2>3, <2>4
<1>2. Mem(u) = (Mem(t) \ {n}) \cup {m}
  <2>1. \A x \in Nodes \ {n, m} : Pa(u, x) # NULL <=> Pa(t, x) # NULL
    BY <1>1 DEF Replaced
  <2>2. Pa(u, n) = NULL /\ Pa(u, m) # NULL
    BY <1>1 DEF Replaced
  <2> QED BY <1>1, <2>1, <2>2 DEF Mem
<1> DEFINE Swap(A) == IF n \in A THEN (A \ {n}) \cup {m} ELSE A
<1>3. PICK sub2 : sub2 = [x \in Cells |-> IF x = m THEN Swap(sub[n])
                                         ELSE IF x = n THEN {} ELSE Swap(sub[x])]
  OBVIOUS
<1>4. sub \in [Cells -> SUBSET Mem(t)] /\ sub[sentl] = {} /\ sentl \in Cells
  BY DEF Shape, Cells
<1>5. /\ sub2 \in [Cells -> SUBSET Mem(u)] /\ sub2[sentl] = {}
      /\ sub2[m] = Swap(sub[n])
      /\ \A x \in Cells : x # m /\ x # n => sub2[x] = Swap(sub[x])
  <2>1. \A A \in SUBSET Mem(t) : Swap(A) \in SUBSET Mem(u)
    BY <1>2
  <2>2. Swap({}) = {}
    OBVIOUS
  <2> HIDE DEF Swap
  <2> QED BY <1>1, <1>3, <1>4, <2>1, <2>2
<1>6. \A x \in Mem(t), r \in Sides : /\ Ch(t, x, r) \in Mem(t) \cup {sentl} /\ Ch(t, x, r) \in Cells
                                     /\ x \in Cells /\ Ch(t, x, r) # m /\ x # m /\ x # sentl
  BY <1>1, MemIn DEF Shape, Cells
<1>7. \A x \in Mem(t), r \in Sides :
        /\ Ch(u, IF x = n THEN m ELSE x, r) = IF Ch(t, x, r) = n THEN m ELSE Ch(t, x, r)
        /\ sub2[Ch(u, IF x = n THEN m ELSE x, r)] = Swap(sub[Ch(t, x, r)])
  <2>1. ASSUME NEW x \in Mem(t), NEW r \in Sides
        PROVE  Ch(u, IF x = n THEN m ELSE x, r) = IF Ch(t, x, r) = n THEN m ELSE Ch(t, x, r)
    <3>1. CASE x = n
      <4>1. Ch(t, n, r) # n
        BY ShapeFacts
      <4> QED BY <3>1, <4>1 DEF Replaced
    <3>2. CASE x # n
      BY <3>2 DEF Replaced
    <3> QED BY <3>1, <3>2
  <2> HIDE DEF Swap
  <2> QED BY <1>1, <1>5, <1>6, <2>1
<1>8. ASSUME NEW y \in Mem(u)
      PROVE  \E x \in Mem(t) : y = IF x = n THEN m ELSE x
  BY <1>2
<1>9. \A x \in Mem(t), r \in Sides : Ch(u, IF x = n THEN m ELSE x, r) \in Mem(u) \cup {sentl}
  BY <1>1, <1>2, <1>6, <1>7
<1>10. ASSUME NEW x \in Mem(t), NEW y, y = IF x = n THEN m ELSE x
      PROVE  sub2[y] = {y} \cup sub2[Ch(u, y, "left")] \cup sub2[Ch(u, y, "right")]
  <2>1. sub[x] = {x} \cup sub[Ch(t, x, "left")] \cup sub[Ch(t, x, "right")]
    BY DEF Shape
  <2>2. /\ sub2[Ch(u, y, "left")] = Swap(sub[Ch(t, x, "left")])
        /\ sub2[Ch(u, y, "right")] = Swap(sub[Ch(t, x, "right")])
    BY <1>7, <1>10, SideCases
  <2>3. sub2[y] = Swap(sub[x])
    <3> HIDE DEF Swap
    <3> QED BY <1>5, <1>6, <1>10, SideCases
  <2>4. x = n => n \notin sub[Ch(t, x, "left")] /\ n \notin sub[Ch(t, x, "right")]
    BY ShapeFacts, SideCases
  <2> QED BY <1>10, <2>1, <2>2, <2>3, <2>4
<1>11. ASSUME NEW x \in Mem(t), NEW r \in Sides, NEW y, y = IF x = n THEN m ELSE x,
              NEW a \in sub2[Ch(u, y, r)]
       PROVE  On(r, pos, a, y)
  <2>1. a \in Swap(sub[Ch(t, x, r)])
    BY <1>7, <1>11
  <2>2. /\ \A b \in sub[Ch(t, x, r)] : On(r, pos, b, x) /\ b \in Mem(t)
        /\ x = n => n \notin sub[Ch(t, x, r)]
    <3>1. x = n => n \notin sub[Ch(t, x, r)]
      BY ShapeFacts
    <3> QED BY <1>4, <1>6, <3>1 DEF Shape
  <2> QED BY <1>11, <2>1, <2>2 DEF On
<1>12. /\ sub2[Rt(u)] = Mem(u) /\ Rt(u) \in Mem(u) /\ Pa(u, Rt(u)) = sentl
  <2>1. sub[Rt(t)] = Mem(t) /\ Rt(t) # sentl /\ Rt(t) \in Mem(t) /\ Pa(t, Rt(t)) = sentl
    BY DEF Shape
  <2>2. CASE n = Rt(t)
    BY <1>2, <1>5, <2>1, <2>2 DEF Replaced
  <2>3. CASE n # Rt(t)
    <3>1. Rt(u) = Rt(t) /\ Rt(t) \in Cells /\ Rt(t) # m /\ Rt(t) \in Nodes
      BY <1>6, <2>1, <2>3, MemIn DEF Replaced
    <3>2. Pa(u, Rt(t)) = Pa(t, Rt(t))
      BY <1>1, <2>1, <2>3, <3>1 DEF Replaced
    <3> QED BY <1>2, <1>5, <2>1, <2>3, <3>1, <3>2
  <2> QED BY <2>2, <2>3
<1>13. ASSUME NEW x \in Mem(t), NEW r \in Sides, NEW y, y = IF x = n THEN m ELSE x,
              Ch(u, y, r) # sentl
       PROVE  Pa(u, Ch(u, y, r)) = y
  <2>1. Ch(u, y, r) = IF Ch(t, x, r) = n THEN m ELSE Ch(t, x, r)
    BY <1>7, <1>13
  <2>2. Ch(t, x, r) # sentl /\ Ch(t, x, r) \in Nodes /\ Pa(t, Ch(t, x, r)) = x
    <3>1. Ch(t, x, r) # sentl
      BY <1>1, <1>13, <2>1
    <3> QED BY <1>6, <3>1, MemIn DEF Shape
  <2>3. CASE Ch(t, x, r) = n
    <3>1. x # n
      BY <2>3, ShapeFacts
    <3> QED BY <1>13, <2>1, <2>2, <2>3, <3>1 DEF Replaced
  <2>4. CASE Ch(t, x, r) # n
    BY <1>6, <1>13, <2>1, <2>2, <2>4 DEF Replaced
  <2> QED BY <2>3, <2>4
<1>14. ASSUME NEW x \in Mem(t), NEW y, y = IF x = n THEN m ELSE x, y # Rt(u)
       PROVE  Pa(u, y) \in Mem(u) /\ \E r \in Sides : Ch(u, Pa(u, y), r) = y
  <2>1. x # Rt(t)
    BY <1>1, <1>14 DEF Replaced
  <2>2. PICK r \in Sides : Pa(t, x) \in Mem(t) /\ Ch(t, Pa(t, x), r) = x
    BY <2>1 DEF Shape
  <2>3. Pa(u, y) = IF Pa(t, x) = n THEN m ELSE Pa(t, x)
    <3>1. CASE x = n
      BY <1>1, <1>14, <3>1 DEF Replaced
    <3>2. CASE x # n
      BY <1>6, <1>14, <3>2, MemIn, SideCases DEF Replaced
    <3> QED BY <3>1, <3>2
  <2>4. Ch(u, Pa(u, y), r) = y
    BY <1>7, <1>14, <2>2, <2>3
  <2> QED BY <1>2, <2>2, <2>3, <2>4
<1>15. u \in Trees /\ pos \in [Nodes -> Int]
  BY DEF Replaced, Shape
<1>16. /\ \A y \in Mem(u), r \in Sides :
            /\ Ch(u, y, r) \in Mem(u) \cup {sentl}
            /\ \A a \in sub2[Ch(u, y, r)] : On(r, pos, a, y)
            /\ Ch(u, y, r) # sentl => Pa(u, Ch(u, y, r)) = y
       /\ \A y \in Mem(u) :
            /\ sub2[y] = {y} \cup sub2[Ch(u, y, "left")] \cup sub2[Ch(u, y, "right")]
            /\ y # Rt(u) => Pa(u, y) \in Mem(u) /\ \E r \in Sides : Ch(u, Pa(u, y), r) = y
  <2>1. ASSUME NEW y \in Mem(u)
        PROVE  /\ \A r \in Sides :
                    /\ Ch(u, y, r) \in Mem(u) \cup {sentl}
                    /\ \A a \in sub2[Ch(u, y, r)] : On(r, pos, a, y)
                    /\ Ch(u, y, r) # sentl => Pa(u, Ch(u, y, r)) = y
               /\ sub2[y] = {y} \cup sub2[Ch(u, y, "left")] \cup sub2[Ch(u, y, "right")]
               /\ y # Rt(u) => Pa(u, y) \in Mem(u) /\ \E r \in Sides : Ch(u, Pa(u, y), r) = y
    <3>1. PICK x \in Mem(t) : y = IF x = n THEN m ELSE x
      BY <1>8
    <3>2. \A r \in Sides : Ch(u, y, r) \in Mem(u) \cup {sentl}
      BY <1>9, <3>1
    <3>3. \A r \in Sides : \A a \in sub2[Ch(u, y, r)] : On(r, pos, a, y)
      BY <1>11, <3>1
    <3>4. \A r \in Sides : Ch(u, y, r) # sentl => Pa(u, Ch(u, y, r)) = y
      BY <1>13, <3>1
    <3>5. sub2[y] = {y} \cup sub2[Ch(u, y, "left")] \cup sub2[Ch(u, y, "right")]
      BY <1>10, <3>1
    <3>6. y # Rt(u) => Pa(u, y) \in Mem(u) /\ \E r \in Sides : Ch(u, Pa(u, y), r) = y
      BY <1>14, <3>1
    <3> QED BY <3>2, <3>3, <3>4, <3>5, <3>6
  <2> QED BY <2>1
<1>17. Shape(u, sub2, pos)
  BY <1>5, <1>12, <1>15, <1>16 DEF Shape
<1> QED BY <1>2, <1>17

----------------------------------------------------------------------------
(* Colors *)

(* The children after n went down to side s and c came up. *)
LEMMA RotatedEdges ==
  ASSUME NEW t, NEW sub, NEW pos, Shape(t, sub, pos),
         NEW s \in Sides, NEW n \in Mem(t), NEW c, c = Ch(t, n, Other(s)), c # sentl,
         NEW u, Rotated(t, u, s, n)
  PROVE  /\ c \in Mem(t) /\ n # c
         /\ Ch(u, n, s) = Ch(t, n, s) /\ Ch(u, n, Other(s)) = Ch(t, c, s)
         /\ Ch(u, c, s) = n /\ Ch(u, c, Other(s)) = Ch(t, c, Other(s))
         /\ \A z \in Mem(t), r \in Sides : z # n /\ z # c =>
              /\ Ch(u, z, r) = IF Ch(t, z, r) = n THEN c ELSE Ch(t, z, r)
              /\ Ch(t, z, r) # c
         /\ Ch(t, n, s) \notin {n, c} /\ Ch(t, c, s) \notin {n, c}
         /\ Ch(t, c, Other(s)) \notin {n, c}
<1>1. /\ Other(s) \in Sides /\ Other(s) # s /\ s = Other(Other(s))
      /\ \A x \in Mem(t), r \in Sides : Ch(t, x, r) \in Mem(t) \cup {sentl}
      /\ \A x \in Mem(t), r \in Sides : Ch(t, x, r) # sentl => Pa(t, Ch(t, x, r)) = x
  BY SideCases DEF Shape
<1>2. c \in Mem(t) /\ n # sentl /\ n # c
  BY <1>1, ShapeFacts, MemIn
<1>3. Ch(t, n, s) \notin {n, c}
  BY <1>1, <1>2, ShapeFacts
<1>4. \A r \in Sides : Ch(t, c, r) # c /\ Ch(t, c, r) # n
  <2>1. n \notin sub[c]
    BY <1>1, ShapeFacts
  <2>2. \A r \in Sides : Ch(t, c, r) # sentl => Ch(t, c, r) \in sub[c]
    BY <1>2, ShapeFacts
  <2>3. \A r \in Sides : Ch(t, c, r) # c
    BY <1>2, ShapeFacts
  <2> QED BY <1>2, <2>1, <2>2, <2>3
<1>5. \A z \in Mem(t), r \in Sides : z # n => Ch(t, z, r) # c
  BY <1>1, <1>2
<1>6. /\ Ch(u, n, s) = Ch(t, n, s) /\ Ch(u, n, Other(s)) = Ch(t, c, s)
      /\ Ch(u, c, s) = n /\ Ch(u, c, Other(s)) = Ch(t, c, Other(s))
  BY <1>1, <1>2, <1>3, <1>4 DEF Rotated
<1>7. \A z \in Mem(t), r \in Sides : z # n /\ z # c =>
        Ch(u, z, r) = IF Ch(t, z, r) = n THEN c ELSE Ch(t, z, r)
  BY DEF Rotated
<1> QED BY <1>1, <1>2, <1>3, <1>4, <1>5, <1>6, <1>7

(* A rotation after some painting. *)
LEMMA PaintedRotate ==
  ASSUME NEW t, NEW sub, NEW pos, Shape(t, sub, pos), NEW v, SameLinks(t, v),
         NEW s \in Sides, NEW n \in Mem(t), Ch(t, n, Other(s)) # sentl,
         NEW u, u = Rotate(v, s, n)
  PROVE  /\ Rotated(t, u, s, n) /\ Mem(u) = Mem(t) /\ \E sub2 : Shape(u, sub2, pos)
         /\ \A x \in Cells : Co(u, x) = Co(v, x)
<1>1. Shape(v, sub, pos) /\ Mem(v) = Mem(t)
  BY SameShape
<1>2. Other(s) \in Sides /\ n \in Cells
  BY SideCases, MemIn
<1>3. Ch(v, n, Other(s)) = Ch(t, n, Other(s))
  BY <1>2 DEF SameLinks
<1>4. Rotated(v, u, s, n) /\ \A x \in Cells : Co(u, x) = Co(v, x)
  BY <1>1, <1>3, RotateFacts
<1>5. Mem(u) = Mem(t) /\ \E sub2 : Shape(u, sub2, pos)
  BY <1>1, <1>3, <1>4, RotateShape
<1>6. Rotated(t, u, s, n)
  <2>1. Ch(t, n, Other(s)) \in Cells /\ \A x \in Mem(t) : x \in Cells
    BY <1>2, MemIn DEF Shape
  <2>2. Ch(v, Ch(t, n, Other(s)), s) = Ch(t, Ch(t, n, Other(s)), s)
    BY <2>1 DEF SameLinks
  <2>3. Pa(v, n) = Pa(t, n) /\ \A x \in Cells : Pa(v, x) = Pa(t, x)
    BY <1>2 DEF SameLinks
  <2>4. /\ Rt(v) = Rt(t)
        /\ \A x \in Mem(t), r \in Sides : Ch(v, x, r) = Ch(t, x, r)
    BY <2>1 DEF SameLinks
  <2> QED BY <1>1, <1>3, <1>4, <2>2, <2>3, <2>4 DEF Rotated
<1> QED BY <1>4, <1>5, <1>6

Black(t, x) == IF Co(t, x) = "black" THEN 1 ELSE 0

(* The black nodes that are missing on side s of n, when one is missing on *)
(* side r of q.                                                            *)
Lost(q, r, n, s) == IF n = q /\ r = s THEN 1 ELSE 0

(* bh[x] is the number of black nodes on every way down from x, counting   *)
(* the one that is missing on side r of q; nothing is when q is NULL.      *)
Heights(t, bh, q, r) ==
  /\ bh \in [Cells -> Nat] /\ bh[sentl] = 0
  /\ \A n \in Mem(t), s \in Sides :
       bh[n] = bh[Ch(t, n, s)] + Lost(q, r, n, s) + Black(t, n)

LEMMA HeightTypes ==
  ASSUME NEW t, NEW sub, NEW pos, Shape(t, sub, pos), NEW bh, NEW q, NEW r, Heights(t, bh, q, r)
  PROVE  /\ \A x \in Cells : bh[x] \in Nat
         /\ \A x \in Mem(t) : bh[x] \in Nat /\ x \in Cells
         /\ \A x \in Mem(t), s \in Sides : Ch(t, x, s) \in Cells /\ bh[Ch(t, x, s)] \in Nat
         /\ \A x : Black(t, x) \in {0, 1}
<1>1. \A x \in Mem(t), s \in Sides : Ch(t, x, s) \in Cells
  BY MemIn DEF Shape, Cells
<1> QED BY <1>1, MemIn DEF Heights, Black

(* A rotation in which the nodes exchange their colors, c being red, keeps *)
(* the heights.                                                            *)
LEMMA SwapHeights ==
  ASSUME NEW t, NEW sub, NEW pos, Shape(t, sub, pos),
         NEW s \in Sides, NEW n \in Mem(t), NEW c, c = Ch(t, n, Other(s)), c # sentl,
         NEW u, Rotated(t, u, s, n), Mem(u) = Mem(t),
         NEW bh, NEW q, NEW r, Heights(t, bh, q, r), q # c, ~(q = n /\ r = Other(s)),
         Co(t, c) = "red", Co(u, c) = Co(t, n), Co(u, n) = "red",
         \A x \in Mem(t) : x # n /\ x # c => Co(u, x) = Co(t, x)
  PROVE  \E bh2 : Heights(u, bh2, q, r)
<1>1. /\ c \in Mem(t) /\ n # c
      /\ Ch(u, n, s) = Ch(t, n, s) /\ Ch(u, n, Other(s)) = Ch(t, c, s)
      /\ Ch(u, c, s) = n /\ Ch(u, c, Other(s)) = Ch(t, c, Other(s))
      /\ \A z \in Mem(t), e \in Sides : z # n /\ z # c =>
           /\ Ch(u, z, e) = IF Ch(t, z, e) = n THEN c ELSE Ch(t, z, e)
           /\ Ch(t, z, e) # c
      /\ Ch(t, n, s) \notin {n, c} /\ Ch(t, c, s) \notin {n, c}
      /\ Ch(t, c, Other(s)) \notin {n, c}
  BY RotatedEdges
<1>2. /\ n \in Cells /\ c \in Cells /\ n # sentl /\ Other(s) \in Sides /\ Other(s) # s
      /\ \A e \in Sides : e = s \/ e = Other(s)
  BY <1>1, SideCases, MemIn
<1>3. /\ \A x \in Cells : bh[x] \in Nat
      /\ \A x \in Mem(t), e \in Sides : Ch(t, x, e) \in Cells
  BY HeightTypes
<1>4. PICK bh2 : bh2 = [bh EXCEPT ![c] = bh[n], ![n] = bh[c]]
  OBVIOUS
<1>5. /\ bh2 \in [Cells -> Nat] /\ bh2[sentl] = 0 /\ bh2[c] = bh[n] /\ bh2[n] = bh[c]
      /\ \A x \in Cells : x # n /\ x # c => bh2[x] = bh[x]
  BY <1>1, <1>2, <1>4 DEF Heights, Cells
<1>6. \A x \in Mem(t), e \in Sides : bh[x] = bh[Ch(t, x, e)] + Lost(q, r, x, e) + Black(t, x)
  BY DEF Heights
<1>7. /\ bh[n] = bh[Ch(t, n, s)] + Lost(q, r, n, s) + Black(t, n)
      /\ bh[n] = bh[c] + Lost(q, r, n, Other(s)) + Black(t, n)
      /\ bh[c] = bh[Ch(t, c, s)] + Lost(q, r, c, s) + Black(t, c)
      /\ bh[c] = bh[Ch(t, c, Other(s))] + Lost(q, r, c, Other(s)) + Black(t, c)
  BY <1>1, <1>2, <1>6
<1>8. /\ Lost(q, r, n, Other(s)) = 0 /\ Lost(q, r, c, s) = 0 /\ Lost(q, r, c, Other(s)) = 0
      /\ Lost(q, r, n, s) \in {0, 1} /\ Black(t, c) = 0 /\ Black(u, n) = 0
      /\ Black(u, c) = Black(t, n) /\ Black(t, n) \in {0, 1}
      /\ \A x \in Mem(t) : x # n /\ x # c => Black(u, x) = Black(t, x)
  BY DEF Lost, Black
<1>9. /\ bh[n] \in Nat /\ bh[c] \in Nat /\ bh[Ch(t, n, s)] \in Nat /\ bh[Ch(t, c, s)] \in Nat
      /\ bh[Ch(t, c, Other(s))] \in Nat
      /\ bh2[Ch(t, n, s)] = bh[Ch(t, n, s)] /\ bh2[Ch(t, c, s)] = bh[Ch(t, c, s)]
      /\ bh2[Ch(t, c, Other(s))] = bh[Ch(t, c, Other(s))]
  BY <1>1, <1>2, <1>3, <1>5
<1>10. ASSUME NEW x \in Mem(u), NEW e \in Sides
       PROVE  bh2[x] = bh2[Ch(u, x, e)] + Lost(q, r, x, e) + Black(u, x)
  <2>1. CASE x = n
    <3>1. /\ bh2[n] = bh2[Ch(u, n, s)] + Lost(q, r, n, s) + Black(u, n)
          /\ bh2[n] = bh2[Ch(u, n, Other(s))] + Lost(q, r, n, Other(s)) + Black(u, n)
      BY <1>1, <1>5, <1>7, <1>8, <1>9
    <3> QED BY <1>2, <2>1, <3>1
  <2>2. CASE x = c
    <3>1. /\ bh2[c] = bh2[Ch(u, c, s)] + Lost(q, r, c, s) + Black(u, c)
          /\ bh2[c] = bh2[Ch(u, c, Other(s))] + Lost(q, r, c, Other(s)) + Black(u, c)
      BY <1>1, <1>5, <1>7, <1>8, <1>9
    <3> QED BY <1>2, <2>2, <3>1
  <2>3. CASE x # n /\ x # c
    <3>1. bh2[Ch(u, x, e)] = bh[Ch(t, x, e)]
      BY <1>1, <1>3, <1>5, <2>3
    <3>2. x \in Mem(t) /\ x \in Cells
      BY MemIn
    <3> QED BY <1>5, <1>6, <1>8, <2>3, <3>1, <3>2
  <2> QED BY <2>1, <2>2, <2>3
<1> QED BY <1>5, <1>10 DEF Heights

(* A rotation in which a black c takes the color of n, n becomes black and *)
(* so does the outer child of c, makes up for what was missing below n.    *)
LEMMA FillHeights ==
  ASSUME NEW t, NEW sub, NEW pos, Shape(t, sub, pos), IsFiniteSet(Mem(t)),
         NEW s \in Sides, NEW n \in Mem(t), NEW c, c = Ch(t, n, Other(s)), c # sentl,
         NEW u, Rotated(t, u, s, n), Mem(u) = Mem(t),
         NEW d, d = Ch(t, c, Other(s)), d # sentl,
         NEW bh, Heights(t, bh, n, s),
         Co(t, c) = "black", Co(t, d) = "red",
         Co(u, c) = Co(t, n), Co(u, n) = "black", Co(u, d) = "black",
         \A x \in Mem(t) : x \notin {n, c, d} => Co(u, x) = Co(t, x)
  PROVE  \E bh2 : Heights(u, bh2, NULL, s)
<1>1. /\ c \in Mem(t) /\ n # c
      /\ Ch(u, n, s) = Ch(t, n, s) /\ Ch(u, n, Other(s)) = Ch(t, c, s)
      /\ Ch(u, c, s) = n /\ Ch(u, c, Other(s)) = d
      /\ \A z \in Mem(t), e \in Sides : z # n /\ z # c =>
           /\ Ch(u, z, e) = IF Ch(t, z, e) = n THEN c ELSE Ch(t, z, e)
           /\ Ch(t, z, e) # c
      /\ Ch(t, n, s) \notin {n, c} /\ Ch(t, c, s) \notin {n, c}
      /\ d \notin {n, c}
  BY RotatedEdges
<1>2. /\ n \in Cells /\ c \in Cells /\ n # sentl /\ Other(s) \in Sides /\ Other(s) # s
      /\ \A e \in Sides : e = s \/ e = Other(s)
  BY <1>1, SideCases, MemIn
<1>3. /\ \A x \in Cells : bh[x] \in Nat
      /\ \A x \in Mem(t), e \in Sides : Ch(t, x, e) \in Cells
      /\ d \in Mem(t) /\ d \in Cells
  <2>1. d \in Mem(t)
    BY <1>1, <1>2 DEF Shape
  <2> QED BY <2>1, HeightTypes, MemIn
<1>4. PICK bh2 : bh2 = [bh EXCEPT ![c] = bh[n], ![n] = bh[c], ![d] = bh[d] + 1]
  OBVIOUS
<1>5. /\ bh2 \in [Cells -> Nat] /\ bh2[sentl] = 0 /\ bh2[c] = bh[n] /\ bh2[n] = bh[c]
      /\ bh2[d] = bh[d] + 1
      /\ \A x \in Cells : x \notin {n, c, d} => bh2[x] = bh[x]
  <2>1. bh \in [Cells -> Nat] /\ bh[sentl] = 0 /\ sentl \in Cells
    BY DEF Heights, Cells
  <2> QED BY <1>1, <1>2, <1>3, <1>4, <2>1
<1>6. \A x \in Mem(t), e \in Sides : bh[x] = bh[Ch(t, x, e)] + Lost(n, s, x, e) + Black(t, x)
  BY DEF Heights
<1>7. /\ bh[n] = bh[Ch(t, n, s)] + 1 + Black(t, n) /\ bh[n] = bh[c] + Black(t, n)
      /\ bh[c] = bh[Ch(t, c, s)] + 1 /\ bh[c] = bh[d] + 1
      /\ \A e \in Sides : bh[d] = bh[Ch(t, d, e)]
  <2>1. /\ Lost(n, s, n, s) = 1 /\ Lost(n, s, n, Other(s)) = 0
        /\ \A e \in Sides : Lost(n, s, c, e) = 0 /\ Lost(n, s, d, e) = 0
        /\ Black(t, c) = 1 /\ Black(t, d) = 0
    BY <1>1, <1>2 DEF Lost, Black
  <2>2. /\ bh[n] = bh[Ch(t, n, s)] + 1 + Black(t, n) /\ bh[n] = bh[c] + 0 + Black(t, n)
        /\ bh[c] = bh[Ch(t, c, s)] + 0 + 1 /\ bh[c] = bh[d] + 0 + 1
        /\ \A e \in Sides : bh[d] = bh[Ch(t, d, e)] + 0 + 0
    BY <1>1, <1>2, <1>3, <1>6, <2>1
  <2>3. /\ bh[c] \in Nat /\ Black(t, n) \in {0, 1} /\ bh[Ch(t, c, s)] \in Nat
        /\ bh[d] \in Nat /\ \A e \in Sides : bh[Ch(t, d, e)] \in Nat
    BY <1>1, <1>2, <1>3 DEF Black
  <2> QED BY <2>2, <2>3
<1>8. /\ \A x \in Mem(t) : x \notin {n, c, d} => Black(u, x) = Black(t, x)
      /\ Black(u, n) = 1 /\ Black(u, d) = 1 /\ Black(u, c) = Black(t, n) /\ Black(t, n) \in {0, 1}
      /\ \A x \in Mem(t), e \in Sides : /\ Lost(NULL, s, x, e) = 0
                                        /\ x # n => Lost(n, s, x, e) = 0
  BY MemIn DEF Black, Lost
<1>9. /\ \A e \in Sides : Ch(t, d, e) \notin {n, c, d}
      /\ Ch(t, n, s) # d /\ Ch(t, c, s) # d
      /\ \A x \in Mem(t), e \in Sides : x # c => Ch(t, x, e) # d
  <2>1. sub[d] \subseteq sub[c] /\ n \notin sub[c] /\ c \notin sub[d]
    BY <1>1, <1>2, ShapeFacts
  <2>2. \A e \in Sides : Ch(t, d, e) # sentl => Ch(t, d, e) \in sub[d]
    BY <1>3, ShapeFacts
  <2>3. \A e \in Sides : Ch(t, d, e) # d
    BY <1>3, ShapeFacts
  <2>4. \A x \in Mem(t), e \in Sides : Ch(t, x, e) # sentl => Pa(t, Ch(t, x, e)) = x
    BY DEF Shape
  <2>5. \A x \in Mem(t), e \in Sides : x # c => Ch(t, x, e) # d
    BY <1>1, <1>2, <2>4
  <2>6. Ch(t, c, s) # d
    BY <1>1, ShapeFacts
  <2>7. \A e \in Sides : Ch(t, d, e) \notin {n, c, d}
    BY <1>2, <2>1, <2>2, <2>3
  <2> QED BY <1>1, <2>5, <2>6, <2>7
<1>10. ASSUME NEW x \in Mem(u), NEW e \in Sides
       PROVE  bh2[x] = bh2[Ch(u, x, e)] + Lost(NULL, s, x, e) + Black(u, x)
  <2>1. CASE x = n
    <3>1. /\ bh2[Ch(u, n, s)] = bh[Ch(t, n, s)] /\ bh2[Ch(u, n, Other(s))] = bh[Ch(t, c, s)]
          /\ bh[Ch(t, n, s)] \in Nat /\ bh[Ch(t, c, s)] \in Nat /\ bh[n] \in Nat
      BY <1>1, <1>2, <1>3, <1>5, <1>9
    <3> QED BY <1>2, <1>5, <1>7, <1>8, <2>1, <3>1
  <2>2. CASE x = c
    <3>1. /\ bh2[Ch(u, c, s)] = bh[c] /\ bh2[Ch(u, c, Other(s))] = bh[d] + 1
          /\ bh[c] \in Nat /\ bh[d] \in Nat
      BY <1>1, <1>2, <1>3, <1>5
    <3> QED BY <1>2, <1>5, <1>7, <1>8, <2>2, <3>1
  <2>3. CASE x = d
    <3>1. Ch(u, d, e) = Ch(t, d, e)
      BY <1>1, <1>3, <1>9, <2>3
    <3>2. bh2[Ch(u, d, e)] = bh[Ch(t, d, e)] /\ bh[Ch(t, d, e)] \in Nat
      BY <1>3, <1>5, <1>9, <3>1
    <3> QED BY <1>5, <1>7, <1>8, <2>3, <3>2
  <2>4. CASE x \notin {n, c, d}
    <3>1. bh2[Ch(u, x, e)] = bh[Ch(t, x, e)]
      BY <1>1, <1>3, <1>5, <1>9, <2>4
    <3>2. x \in Mem(t) /\ x \in Cells
      BY MemIn
    <3> QED BY <1>5, <1>6, <1>8, <2>4, <3>1, <3>2
  <2> QED BY <2>1, <2>2, <2>3, <2>4
<1> QED BY <1>5, <1>10 DEF Heights

(* The loop k works at x: the red pair of a node and its child that may    *)
(* wait for it, ...                                                        *)
Exempt(k, x, n, c) ==
  \/ k = "insert" /\ c = x
  \/ k = "remove" /\ x \in {n, c}

Reds(t, k, x) ==
  \A n \in Mem(t), s \in Sides :
    Co(t, n) = "red" /\ Co(t, Ch(t, n, s)) = "red" => Exempt(k, x, n, Ch(t, n, s))

(* ... the red root that may, ... *)
RootBlack(t, k, x) ==
  Co(t, Rt(t)) = "red" => k \in {"insert", "remove"} /\ x = Rt(t)

(* ... the node the loop is at ... *)
AtWork(t, k, x) ==
  /\ k \in {"none", "insert", "remove", "done"}
  /\ k = "insert" => x \in Mem(t) /\ Co(t, x) = "red"
  /\ k = "remove" => x \in Mem(t) \cup {sentl}
  /\ k = "done" => x \in Cells /\ Co(t, x) = "black"

(* ... and the side r of q on which a black node is missing. *)
Hole(t, k, x, q, r) ==
  IF k = "remove" /\ x # Rt(t)
  THEN /\ q \in Mem(t) /\ q = Pa(t, x)
       /\ r \in Sides /\ Ch(t, q, r) = x /\ Ch(t, q, Other(r)) # x
  ELSE q = NULL

Colored(t, k, x) ==
  Co(t, sentl) = "black" /\ Reds(t, k, x) /\ RootBlack(t, k, x) /\ AtWork(t, k, x)

Balanced(t, k, x) ==
  /\ Colored(t, k, x)
  /\ \E q, r : Hole(t, k, x, q, r) /\ \E bh : Heights(t, bh, q, r)

(* A turn of a loop keeps the nodes and their order. *)
Turned(t, u, pos) == Mem(u) = Mem(t) /\ \E sub : Shape(u, sub, pos)

LEMMA PaintLinks ==
  ASSUME NEW t, NEW v \in Trees, SameLinks(t, v),
         NEW n \in Cells, NEW clr \in Colors, NEW u, u = Paint(v, n, clr)
  PROVE  SameLinks(t, u) /\ u \in Trees /\ \A x \in Cells : Co(u, x) = IF x = n THEN clr ELSE Co(v, x)
<1>1. /\ u \in Trees /\ Rt(u) = Rt(v)
      /\ \A x \in Cells, r \in Sides : Ch(u, x, r) = Ch(v, x, r)
      /\ \A x \in Cells : Pa(u, x) = Pa(v, x) /\ Co(u, x) = IF x = n THEN clr ELSE Co(v, x)
  BY PaintFacts
<1> QED BY <1>1 DEF SameLinks

LEMMA LinksSame == \A t \in Trees : SameLinks(t, t)
BY DEF SameLinks

LEMMA ColorNames == "red" \in Colors /\ "black" \in Colors /\ \A c \in Colors : c = "red" \/ c = "black"
BY DEF Colors

LEMMA CellColors ==
  ASSUME NEW t, NEW sub, NEW pos, Shape(t, sub, pos)
  PROVE  /\ \A x \in Cells : Co(t, x) \in Colors
         /\ \A x \in Mem(t), s \in Sides : /\ Ch(t, x, s) \in Mem(t) \cup {sentl}
                                           /\ Ch(t, x, s) \in Cells /\ x \in Cells
         /\ \A x \in Mem(t), s \in Sides : Ch(t, x, s) # sentl => Pa(t, Ch(t, x, s)) = x
         /\ sentl \in Cells /\ t \in Trees /\ Rt(t) \in Cells
<1>1. t \in Trees /\ \A x \in Cells : Co(t, x) \in Colors
  BY FieldTypes DEF Shape
<1> QED BY <1>1, ShapeFacts, MemIn DEF Shape, Cells

LEMMA PaintOne ==
  ASSUME NEW t, NEW sub, NEW pos, Shape(t, sub, pos), NEW x \in Cells, NEW a \in Colors,
         NEW u, u = Paint(t, x, a)
  PROVE  SameLinks(t, u) /\ u \in Trees /\ \A z \in Cells : Co(u, z) = IF z = x THEN a ELSE Co(t, z)
<1>1. t \in Trees /\ SameLinks(t, t)
  BY CellColors, LinksSame
<1> QED BY <1>1, PaintLinks

LEMMA PaintTwo ==
  ASSUME NEW t, NEW sub, NEW pos, Shape(t, sub, pos), NEW x \in Cells, NEW y \in Cells,
         NEW a \in Colors, NEW b \in Colors, NEW u, u = Paint(Paint(t, x, a), y, b)
  PROVE  /\ SameLinks(t, u) /\ u \in Trees
         /\ \A z \in Cells : Co(u, z) = IF z = y THEN b ELSE IF z = x THEN a ELSE Co(t, z)
<1>1. PICK v : v = Paint(t, x, a)
  OBVIOUS
<1>2. SameLinks(t, v) /\ v \in Trees /\ \A z \in Cells : Co(v, z) = IF z = x THEN a ELSE Co(t, z)
  BY <1>1, PaintOne
<1>3. SameLinks(t, u) /\ u \in Trees /\ \A z \in Cells : Co(u, z) = IF z = y THEN b ELSE Co(v, z)
  BY <1>1, <1>2, PaintLinks
<1> QED BY <1>2, <1>3

LEMMA PaintThree ==
  ASSUME NEW t, NEW sub, NEW pos, Shape(t, sub, pos),
         NEW x \in Cells, NEW y \in Cells, NEW w \in Cells,
         NEW a \in Colors, NEW b \in Colors, NEW c \in Colors,
         NEW u, u = Paint(Paint(Paint(t, x, a), y, b), w, c)
  PROVE  /\ SameLinks(t, u) /\ u \in Trees
         /\ \A z \in Cells : Co(u, z) = IF z = w THEN c ELSE IF z = y THEN b
                                         ELSE IF z = x THEN a ELSE Co(t, z)
<1>1. PICK v : v = Paint(Paint(t, x, a), y, b)
  OBVIOUS
<1>2. /\ SameLinks(t, v) /\ v \in Trees
      /\ \A z \in Cells : Co(v, z) = IF z = y THEN b ELSE IF z = x THEN a ELSE Co(t, z)
  BY <1>1, PaintTwo
<1>3. SameLinks(t, u) /\ u \in Trees /\ \A z \in Cells : Co(u, z) = IF z = w THEN c ELSE Co(v, z)
  BY <1>1, <1>2, PaintLinks
<1> QED BY <1>2, <1>3

(* The nodes around a red node with a red parent *)
LEMMA RedParent ==
  ASSUME NEW t, NEW sub, NEW pos, Shape(t, sub, pos),
         NEW x, Colored(t, "insert", x), Co(t, Pa(t, x)) = "red",
         NEW p, p = Pa(t, x), NEW g, g = Pa(t, p), NEW s, s = SideIn(t, p),
         NEW y, y = Ch(t, g, Other(s))
  PROVE  /\ x \in Mem(t) /\ p \in Mem(t) /\ g \in Mem(t)
         /\ y \in Mem(t) \cup {sentl} /\ y \in Cells
         /\ x # Rt(t) /\ p # Rt(t) /\ x # p /\ x # g /\ p # g /\ y \notin {x, p, g}
         /\ s \in Sides /\ Ch(t, g, s) = p /\ \E e \in Sides : Ch(t, p, e) = x
         /\ Co(t, x) = "red" /\ Co(t, g) = "black" /\ Co(t, Rt(t)) = "black"
<1>1. x \in Mem(t) /\ Co(t, x) = "red" /\ Co(t, sentl) = "black"
  BY DEF Colored, AtWork
<1>2. x # Rt(t)
  BY <1>1 DEF Shape
<1>3. p \in Mem(t) /\ \E e \in Sides : Ch(t, p, e) = x
  BY <1>1, <1>2 DEF Shape
<1>4. Co(t, Rt(t)) = "black"
  BY <1>2, CellColors, ColorNames DEF Colored, RootBlack
<1>5. p # Rt(t)
  BY <1>4
<1>6. g \in Mem(t) /\ s \in Sides /\ Ch(t, g, s) = p /\ Ch(t, g, Other(s)) # p
  BY <1>3, <1>5, SideInFacts
<1>7. p \in sub[g] /\ g \notin sub[p] /\ p # g /\ x \in sub[p] /\ x # p
  <2>1. PICK e \in Sides : Ch(t, p, e) = x
    BY <1>3
  <2>2. x # sentl /\ p # sentl
    BY <1>1, <1>3, MemIn
  <2>3. p \in sub[g] /\ g \notin sub[p] /\ p # g
    BY <1>6, <2>2, ShapeFacts
  <2>4. x \in sub[p] /\ x # p
    BY <1>3, <2>1, <2>2, ShapeFacts
  <2> QED BY <2>3, <2>4
<1>8. Co(t, g) = "black"
  <2>1. Co(t, g) # "red"
    BY <1>6, <1>7 DEF Colored, Reds, Exempt
  <2> QED BY <1>6, <2>1, CellColors, ColorNames, MemIn
<1>9. y \in Mem(t) \cup {sentl} /\ y \in Cells /\ y # p /\ y # g /\ y # x
  <2>1. Other(s) \in Sides
    BY <1>6, SideCases
  <2>2. y \in Mem(t) \cup {sentl} /\ y \in Cells /\ (y # sentl => Pa(t, y) = g)
    BY <1>6, <2>1, CellColors
  <2>3. y # g
    BY <1>6, <2>1, ShapeFacts
  <2> QED BY <1>1, <1>6, <1>7, <2>2, <2>3, MemIn
<1> QED BY <1>1, <1>2, <1>3, <1>4, <1>5, <1>6, <1>7, <1>8, <1>9

LEMMA InsertRecolorTurn ==
  ASSUME NEW t, NEW sub, NEW pos, Shape(t, sub, pos),
         NEW x, Balanced(t, "insert", x), Co(t, Pa(t, x)) = "red",
         NEW p, p = Pa(t, x), NEW g, g = Pa(t, p), NEW s, s = SideIn(t, p),
         NEW y, y = Ch(t, g, Other(s)), Co(t, y) = "red",
         NEW u, u = Paint(Paint(Paint(t, p, "black"), y, "black"), g, "red")
  PROVE  Turned(t, u, pos) /\ Balanced(u, "insert", g)
<1>1. Colored(t, "insert", x) /\ Co(t, sentl) = "black" /\ Reds(t, "insert", x)
  BY DEF Balanced, Colored
<1>2. /\ x \in Mem(t) /\ p \in Mem(t) /\ g \in Mem(t)
      /\ y \in Mem(t) \cup {sentl} /\ y \in Cells
      /\ x # Rt(t) /\ p # Rt(t) /\ x # p /\ x # g /\ p # g /\ y \notin {x, p, g}
      /\ s \in Sides /\ Ch(t, g, s) = p /\ \E e \in Sides : Ch(t, p, e) = x
      /\ Co(t, x) = "red" /\ Co(t, g) = "black" /\ Co(t, Rt(t)) = "black"
  BY <1>1, RedParent
<1>3. /\ y \in Mem(t) /\ y # sentl /\ p # sentl /\ g # sentl /\ p \in Cells /\ g \in Cells
      /\ Other(s) \in Sides /\ Other(s) # s /\ \A e \in Sides : e = s \/ e = Other(s)
  BY <1>1, <1>2, MemIn, SideCases
<1>4. /\ SameLinks(t, u)
      /\ \A z \in Cells : Co(u, z) = IF z = g THEN "red"
                                     ELSE IF z \in {p, y} THEN "black" ELSE Co(t, z)
  <2>1. "red" \in Colors /\ "black" \in Colors /\ p \in Cells /\ y \in Cells /\ g \in Cells
    BY <1>2, <1>3, ColorNames
  <2>2. /\ SameLinks(t, u)
        /\ \A z \in Cells : Co(u, z) = IF z = g THEN "red" ELSE IF z = y THEN "black"
                                        ELSE IF z = p THEN "black" ELSE Co(t, z)
    BY <2>1, PaintThree
  <2> QED BY <2>2
<1>5. /\ Shape(u, sub, pos) /\ Mem(u) = Mem(t) /\ Rt(u) = Rt(t)
      /\ \A z \in Mem(t), e \in Sides : Ch(u, z, e) = Ch(t, z, e)
  BY <1>4, SameShape, MemIn DEF SameLinks
<1>6. Colored(u, "insert", g)
  <2>1. Co(u, sentl) = "black"
    BY <1>1, <1>3, <1>4, CellColors
  <2>2. ASSUME NEW n \in Mem(t), NEW e \in Sides, Co(u, n) = "red",
               Co(u, Ch(t, n, e)) = "red", Ch(t, n, e) # g
        PROVE  FALSE
    <3>1. Ch(t, n, e) \in Cells /\ n \in Cells
      BY CellColors
    <3>2. Co(t, Ch(t, n, e)) = "red" /\ Ch(t, n, e) \notin {p, y}
      BY <1>4, <2>2, <3>1
    <3>3. n # g
      BY <1>2, <1>3, <3>2
    <3>4. Co(t, n) = "red" /\ n # p
      BY <1>4, <2>2, <3>1, <3>3
    <3>5. Ch(t, n, e) = x
      BY <1>1, <3>2, <3>4 DEF Reds, Exempt
    <3> QED BY <1>1, <1>2, <3>4, <3>5, CellColors
  <2>3. Reds(u, "insert", g)
    BY <1>5, <2>2 DEF Reds, Exempt
  <2>4. RootBlack(u, "insert", g)
    BY <1>2, <1>4, <1>5, CellColors DEF RootBlack
  <2>5. AtWork(u, "insert", g)
    BY <1>2, <1>3, <1>4, <1>5 DEF AtWork
  <2> QED BY <2>1, <2>3, <2>4, <2>5 DEF Colored
<1>7. PICK q, r, bh : q = NULL /\ Heights(t, bh, q, r)
  BY DEF Balanced, Hole
<1>8. PICK bh2 : bh2 = [bh EXCEPT ![p] = bh[p] + 1, ![y] = bh[y] + 1]
  OBVIOUS
<1>9. /\ bh2 \in [Cells -> Nat] /\ bh2[sentl] = 0 /\ bh2[p] = bh[p] + 1 /\ bh2[y] = bh[y] + 1
      /\ \A z \in Cells : z \notin {p, y} => bh2[z] = bh[z]
  <2>1. bh \in [Cells -> Nat] /\ bh[sentl] = 0 /\ sentl \in Cells
    BY <1>7 DEF Heights, Cells
  <2> QED BY <1>2, <1>3, <1>8, <2>1
<1>10. ASSUME NEW n \in Mem(t), NEW e \in Sides
       PROVE  bh2[n] = bh2[Ch(t, n, e)] + Lost(q, r, n, e) + Black(u, n)
  <2>1. /\ bh[n] = bh[Ch(t, n, e)] + Lost(q, r, n, e) + Black(t, n)
        /\ bh[n] \in Nat /\ bh[Ch(t, n, e)] \in Nat /\ Lost(q, r, n, e) = 0
        /\ n \in Cells /\ Ch(t, n, e) \in Cells
    <3>1. bh[n] = bh[Ch(t, n, e)] + Lost(q, r, n, e) + Black(t, n)
      BY <1>7 DEF Heights
    <3>2. Lost(q, r, n, e) = 0
      BY <1>7, MemIn DEF Lost
    <3> QED BY <1>7, <3>1, <3>2, HeightTypes
  <2>2. CASE n = g
    <3>1. Black(t, g) = 1 /\ Black(u, g) = 0 /\ Ch(t, g, e) \in {p, y}
      BY <1>2, <1>3, <1>4 DEF Black
    <3> QED BY <1>2, <1>3, <1>9, <2>1, <2>2, <3>1
  <2>3. CASE n \in {p, y}
    <3>1. Black(t, n) = 0 /\ Black(u, n) = 1
      BY <1>2, <1>3, <1>4, <2>3 DEF Black
    <3>2. Ch(t, n, e) \notin {p, y}
      BY <1>2, <1>3, <2>3, CellColors
    <3> QED BY <1>9, <2>1, <2>3, <3>1, <3>2
  <2>4. CASE n \notin {g, p, y}
    <3>1. Black(u, n) = Black(t, n)
      BY <1>4, <2>1, <2>4 DEF Black
    <3>2. Ch(t, n, e) \notin {p, y}
      BY <1>2, <1>3, <2>4, CellColors
    <3> QED BY <1>9, <2>1, <2>4, <3>1, <3>2
  <2> QED BY <2>2, <2>3, <2>4
<1>11. Heights(u, bh2, q, r) /\ Hole(u, "insert", g, q, r)
  BY <1>5, <1>7, <1>9, <1>10 DEF Heights, Hole
<1> QED BY <1>5, <1>6, <1>11 DEF Turned, Balanced

(* The first rotation of InsertRotate leaves the red pair on the outside. *)
LEMMA InnerTurn ==
  ASSUME NEW t, NEW sub, NEW pos, Shape(t, sub, pos),
         NEW x, Balanced(t, "insert", x), Co(t, Pa(t, x)) = "red",
         NEW p, p = Pa(t, x), NEW g, g = Pa(t, p), NEW s, s = SideIn(t, p),
         NEW y, y = Ch(t, g, Other(s)), Ch(t, p, Other(s)) = x,
         NEW u, u = Rotate(t, s, p)
  PROVE  /\ Turned(t, u, pos) /\ Balanced(u, "insert", p)
         /\ Pa(u, p) = x /\ Pa(u, x) = g /\ SideIn(u, x) = s /\ Ch(u, x, s) = p
         /\ Co(u, x) = "red" /\ Ch(u, g, Other(s)) = y /\ Co(u, y) = Co(t, y)
<1>1. Colored(t, "insert", x) /\ Co(t, sentl) = "black" /\ Reds(t, "insert", x)
  BY DEF Balanced, Colored
<1>2. /\ x \in Mem(t) /\ p \in Mem(t) /\ g \in Mem(t)
      /\ y \in Mem(t) \cup {sentl} /\ y \in Cells
      /\ x # Rt(t) /\ p # Rt(t) /\ x # p /\ x # g /\ p # g /\ y \notin {x, p, g}
      /\ s \in Sides /\ Ch(t, g, s) = p
      /\ Co(t, x) = "red" /\ Co(t, g) = "black" /\ Co(t, Rt(t)) = "black"
  BY <1>1, RedParent
<1>3. /\ x # sentl /\ p # sentl /\ g # sentl /\ p \in Cells /\ g \in Cells /\ x \in Cells
      /\ Other(s) \in Sides /\ Other(s) # s /\ \A e \in Sides : e = s \/ e = Other(s)
  BY <1>2, MemIn, SideCases
<1>4. SameLinks(t, t)
  BY CellColors, LinksSame
<1>5. /\ Rotated(t, u, s, p) /\ Mem(u) = Mem(t) /\ \E sub2 : Shape(u, sub2, pos)
      /\ \A z \in Cells : Co(u, z) = Co(t, z)
  <2>1. s \in Sides /\ p \in Mem(t) /\ Ch(t, p, Other(s)) # sentl
    BY <1>2, <1>3
  <2> QED BY <1>4, <2>1, PaintedRotate
<1>6. /\ Ch(u, p, s) = Ch(t, p, s) /\ Ch(u, p, Other(s)) = Ch(t, x, s)
      /\ Ch(u, x, s) = p /\ Ch(u, x, Other(s)) = Ch(t, x, Other(s))
      /\ \A z \in Mem(t), r \in Sides : z # p /\ z # x =>
           /\ Ch(u, z, r) = IF Ch(t, z, r) = p THEN x ELSE Ch(t, z, r)
           /\ Ch(t, z, r) # x
      /\ Ch(t, p, s) \notin {p, x} /\ Ch(t, x, s) \notin {p, x}
      /\ Ch(t, x, Other(s)) \notin {p, x}
  BY <1>2, <1>3, <1>5, RotatedEdges
<1>7. Pa(u, p) = x /\ Pa(u, x) = g /\ Rt(u) = Rt(t)
  <2>1. Rotated(t, u, s, p) /\ p \in Cells /\ x \in Cells /\ x # p /\ p # Rt(t)
    BY <1>2, <1>3, <1>5
  <2>2. p # Ch(t, x, s) /\ x # Ch(t, x, s)
    BY <1>6
  <2> QED BY <2>1, <2>2 DEF Rotated
<1>8. Ch(u, g, s) = x /\ Ch(u, g, Other(s)) = y
  BY <1>2, <1>3, <1>6
<1>9. SideIn(u, x) = s
  <2>1. PICK sub2 : Shape(u, sub2, pos)
    BY <1>5
  <2> QED BY <1>2, <1>5, <1>7, <1>8, <2>1, SideInFacts
<1>10. Colored(u, "insert", p)
  <2>1. ASSUME NEW n \in Mem(t), NEW e \in Sides, Co(u, n) = "red",
               Co(u, Ch(u, n, e)) = "red", Ch(u, n, e) # p
        PROVE  FALSE
    <3>1. \A z \in Mem(t), r \in Sides :
            Co(t, z) = "red" /\ Co(t, Ch(t, z, r)) = "red" => Ch(t, z, r) = x
      BY <1>1 DEF Reds, Exempt
    <3>2. \A z \in Mem(t), r \in Sides : Ch(t, z, r) \in Cells /\ z \in Cells
      BY CellColors
    <3>3. CASE n = p
      BY <1>2, <1>3, <1>5, <1>6, <2>1, <3>1, <3>2, <3>3
    <3>4. CASE n = x
      BY <1>2, <1>3, <1>5, <1>6, <2>1, <3>1, <3>2, <3>4
    <3>5. CASE n # p /\ n # x
      <4>1. CASE Ch(t, n, e) = p
        <5>1. n = g
          BY <1>3, <4>1, CellColors
        <5> QED BY <1>2, <1>3, <1>5, <2>1, <5>1
      <4>2. CASE Ch(t, n, e) # p
        BY <1>5, <1>6, <2>1, <3>1, <3>2, <3>5, <4>2
      <4> QED BY <4>1, <4>2
    <3> QED BY <3>3, <3>4, <3>5
  <2>2. Reds(u, "insert", p)
    BY <1>5, <2>1 DEF Reds, Exempt
  <2>3. Co(u, sentl) = "black" /\ Co(u, Rt(t)) = "black" /\ Co(u, p) = "red"
    BY <1>1, <1>2, <1>3, <1>5, CellColors
  <2>4. RootBlack(u, "insert", p) /\ AtWork(u, "insert", p)
    BY <1>2, <1>5, <1>7, <2>3 DEF RootBlack, AtWork
  <2> QED BY <2>2, <2>3, <2>4 DEF Colored
<1>11. PICK q, r, bh : q = NULL /\ Heights(t, bh, q, r)
  BY DEF Balanced, Hole
<1>12. \E bh2 : Heights(u, bh2, q, r)
  <2>1. q # x /\ q # p
    BY <1>2, <1>11, MemIn
  <2>2. Co(u, x) = Co(t, p) /\ Co(u, p) = "red" /\ \A z \in Mem(t) : Co(u, z) = Co(t, z)
    BY <1>2, <1>3, <1>5, MemIn
  <2> QED BY <1>2, <1>3, <1>5, <1>11, <2>1, <2>2, SwapHeights
<1>13. Balanced(u, "insert", p)
  BY <1>10, <1>11, <1>12 DEF Balanced, Hole
<1> QED BY <1>2, <1>3, <1>5, <1>6, <1>7, <1>8, <1>9, <1>13 DEF Turned

LEMMA OuterTurn ==
  ASSUME NEW t, NEW sub, NEW pos, Shape(t, sub, pos),
         NEW x, Balanced(t, "insert", x), Co(t, Pa(t, x)) = "red",
         NEW p, p = Pa(t, x), NEW g, g = Pa(t, p), NEW s, s = SideIn(t, p),
         NEW o, o = Other(s), NEW y, y = Ch(t, g, o), Ch(t, p, s) = x, Co(t, y) = "black",
         NEW v, v = Paint(Paint(t, p, "black"), g, "red"), NEW u, u = Rotate(v, o, g)
  PROVE  Turned(t, u, pos) /\ Balanced(u, "insert", x)
<1>1. Colored(t, "insert", x) /\ Co(t, sentl) = "black" /\ Reds(t, "insert", x)
  BY DEF Balanced, Colored
<1>2. /\ x \in Mem(t) /\ p \in Mem(t) /\ g \in Mem(t)
      /\ y \in Mem(t) \cup {sentl} /\ y \in Cells
      /\ x # Rt(t) /\ p # Rt(t) /\ x # p /\ x # g /\ p # g /\ y \notin {x, p, g}
      /\ s \in Sides /\ Ch(t, g, s) = p
      /\ Co(t, x) = "red" /\ Co(t, g) = "black" /\ Co(t, Rt(t)) = "black"
  BY <1>1, RedParent
<1>3. x # sentl /\ p # sentl /\ g # sentl /\ p \in Cells /\ g \in Cells /\ x \in Cells
  BY <1>2, MemIn
<1>4. /\ o \in Sides /\ o # s /\ Other(o) = s /\ \A e \in Sides : e = s \/ e = o
      /\ Ch(t, g, Other(o)) = p /\ Ch(t, g, Other(o)) # sentl
  <2>1. o \in Sides /\ o # s /\ Other(o) = s /\ \A e \in Sides : e = s \/ e = o
    BY <1>2, SideCases
  <2> QED BY <1>2, <1>3, <2>1
<1>5. "red" \in Colors /\ "black" \in Colors
  BY ColorNames
<1>6. /\ SameLinks(t, v)
      /\ \A z \in Cells : Co(v, z) = IF z = g THEN "red" ELSE IF z = p THEN "black" ELSE Co(t, z)
  <2>1. p \in Cells /\ g \in Cells
    BY <1>3
  <2>2. \A w : w = Paint(Paint(t, p, "black"), g, "red") => /\ SameLinks(t, w)
      /\ \A z \in Cells : Co(w, z) = IF z = g THEN "red" ELSE IF z = p THEN "black" ELSE Co(t, z)
    BY <1>5, <2>1, PaintTwo
  <2> QED BY <2>2
<1>7. /\ Rotated(t, u, o, g) /\ Mem(u) = Mem(t) /\ \E sub2 : Shape(u, sub2, pos)
      /\ \A z \in Cells : Co(u, z) = Co(v, z)
  <2>1. /\ o \in Sides /\ g \in Mem(t) /\ Ch(t, g, Other(o)) # sentl
    BY <1>2, <1>4
  <2>2. SameLinks(t, v)
    BY <1>6
  <2> QED BY <2>1, <2>2, PaintedRotate
<1>8. /\ Ch(u, g, o) = y /\ Ch(u, g, s) = Ch(t, p, o)
      /\ Ch(u, p, o) = g /\ Ch(u, p, s) = x
      /\ \A z \in Mem(t), r \in Sides : z # g /\ z # p =>
           /\ Ch(u, z, r) = IF Ch(t, z, r) = g THEN p ELSE Ch(t, z, r)
           /\ Ch(t, z, r) # p
      /\ Ch(t, p, o) \notin {g, p}
  <2>1. o \in Sides /\ g \in Mem(t) /\ Ch(t, g, Other(o)) = p /\ p # sentl
    BY <1>2, <1>3, <1>4
  <2>2. /\ Ch(u, g, o) = Ch(t, g, o) /\ Ch(u, g, Other(o)) = Ch(t, p, o)
        /\ Ch(u, p, o) = g /\ Ch(u, p, Other(o)) = Ch(t, p, Other(o))
        /\ \A z \in Mem(t), r \in Sides : z # g /\ z # p =>
             /\ Ch(u, z, r) = IF Ch(t, z, r) = g THEN p ELSE Ch(t, z, r)
             /\ Ch(t, z, r) # p
        /\ Ch(t, p, o) \notin {g, p}
    <3>1. Rotated(t, u, o, g)
      BY <1>7
    <3> QED BY <2>1, <3>1, RotatedEdges
  <2> QED BY <1>4, <2>2
<1>9. /\ \A z \in Cells : Co(u, z) = IF z = g THEN "red" ELSE IF z = p THEN "black" ELSE Co(t, z)
      /\ Co(u, p) = "black" /\ Co(u, g) = "red" /\ Co(u, x) = "red" /\ Co(u, y) = "black"
  BY <1>2, <1>3, <1>6, <1>7
<1>10. Colored(u, "insert", x)
  <2>1. ASSUME NEW n \in Mem(t), NEW e \in Sides, Co(u, n) = "red",
               Co(u, Ch(u, n, e)) = "red", Ch(u, n, e) # x
        PROVE  FALSE
    <3>1. \A z \in Mem(t), r \in Sides :
            Co(t, z) = "red" /\ Co(t, Ch(t, z, r)) = "red" => Ch(t, z, r) = x
      BY <1>1 DEF Reds, Exempt
    <3>2. \A z \in Mem(t), r \in Sides : Ch(t, z, r) \in Cells /\ z \in Cells
      BY CellColors
    <3>3. CASE n = g
      <4>1. Ch(u, n, e) = Ch(t, p, o)
        <5>1. Ch(u, g, o) = y /\ Ch(u, g, s) = Ch(t, p, o) /\ Co(u, y) # "red"
          BY <1>8, <1>9
        <5>2. e = s \/ e = o
          BY <1>4
        <5> QED BY <2>1, <3>3, <5>1, <5>2
      <4>2. Co(t, Ch(t, p, o)) = "red"
        BY <1>2, <1>3, <1>4, <1>8, <1>9, <2>1, <3>2, <4>1
      <4> QED BY <1>2, <1>4, <2>1, <3>1, <4>1, <4>2
    <3>4. CASE n = p
      BY <1>9, <2>1, <3>4
    <3>5. CASE n # g /\ n # p
      BY <1>8, <1>9, <2>1, <3>1, <3>2, <3>5
    <3> QED BY <3>3, <3>4, <3>5
  <2>2. Reds(u, "insert", x)
    BY <1>7, <2>1 DEF Reds, Exempt
  <2>3. Co(u, sentl) = "black"
    BY <1>1, <1>2, <1>3, <1>9, CellColors
  <2>4. Co(u, Rt(u)) = "black"
    <3>1. CASE g = Rt(t)
      <4>1. Rt(u) = p
        BY <1>4, <1>7, <3>1 DEF Rotated
      <4> QED BY <1>9, <4>1
    <3>2. CASE g # Rt(t)
      <4>1. Rt(u) = Rt(t) /\ Rt(t) \in Cells
        BY <1>7, <3>2, CellColors DEF Rotated
      <4> QED BY <1>2, <1>9, <3>2, <4>1
    <3> QED BY <3>1, <3>2
  <2>5. RootBlack(u, "insert", x) /\ AtWork(u, "insert", x)
    BY <1>2, <1>7, <1>9, <2>4 DEF RootBlack, AtWork
  <2> QED BY <2>2, <2>3, <2>5 DEF Colored
<1>11. PICK q, r, bh : q = NULL /\ Heights(t, bh, q, r)
  BY DEF Balanced, Hole
<1>12. \E bh2 : Heights(u, bh2, q, r)
  <2>1. q # p /\ q # g
    BY <1>2, <1>11, MemIn
  <2>2. /\ Co(u, p) = Co(t, g) /\ Co(u, g) = "red" /\ Co(t, p) = "red"
        /\ \A z \in Mem(t) : z # g /\ z # p => Co(u, z) = Co(t, z)
    BY <1>2, <1>9, MemIn
  <2>3. /\ o \in Sides /\ g \in Mem(t) /\ Ch(t, g, Other(o)) = p /\ p # sentl
        /\ ~(q = g /\ r = Other(o))
    BY <1>2, <1>3, <1>4, <2>1
  <2>4. Rotated(t, u, o, g) /\ Mem(u) = Mem(t) /\ Heights(t, bh, q, r)
    BY <1>7, <1>11
  <2>5. q # p
    BY <2>1
  <2> QED BY <2>2, <2>3, <2>4, <2>5, SwapHeights
<1>13. Balanced(u, "insert", x)
  BY <1>10, <1>11, <1>12 DEF Balanced, Hole
<1> QED BY <1>7, <1>13 DEF Turned

LEMMA InsertEndTurn ==
  ASSUME NEW t, NEW sub, NEW pos, Shape(t, sub, pos),
         NEW x, Balanced(t, "insert", x), Co(t, Pa(t, x)) # "red",
         NEW u, u = Paint(t, Rt(t), "black"), NEW z
  PROVE  Turned(t, u, pos) /\ Balanced(u, "none", z)
<1>1. /\ Co(t, sentl) = "black" /\ Reds(t, "insert", x) /\ x \in Mem(t)
  BY DEF Balanced, Colored, AtWork
<1>2. PICK w : w = Rt(t)
  OBVIOUS
<1>3. w \in Mem(t) /\ w \in Cells /\ w # sentl
  BY <1>1, <1>2, MemIn DEF Shape
<1>4. SameLinks(t, u) /\ \A y \in Cells : Co(u, y) = IF y = w THEN "black" ELSE Co(t, y)
  <2>1. t \in Trees /\ SameLinks(t, t) /\ "black" \in Colors
    BY LinksSame, CellColors, ColorNames
  <2> QED BY <1>2, <1>3, <2>1, PaintLinks
<1>5. /\ Shape(u, sub, pos) /\ Mem(u) = Mem(t) /\ Rt(u) = w
      /\ \A y \in Mem(t), e \in Sides : Ch(u, y, e) = Ch(t, y, e)
  BY <1>2, <1>4, SameShape, MemIn DEF SameLinks
<1>6. Colored(u, "none", z)
  <2>1. ASSUME NEW n \in Mem(t), NEW e \in Sides, Co(u, n) = "red", Co(u, Ch(t, n, e)) = "red"
        PROVE  FALSE
    <3>1. Co(t, n) = "red" /\ Co(t, Ch(t, n, e)) = "red"
      BY <1>4, <2>1, CellColors
    <3>2. Ch(t, n, e) = x
      BY <1>1, <3>1 DEF Reds, Exempt
    <3>3. n = Pa(t, x)
      BY <1>1, <3>2, CellColors, MemIn
    <3> QED BY <3>1, <3>3
  <2>2. Reds(u, "none", z)
    BY <1>5, <2>1 DEF Reds
  <2> QED BY <1>1, <1>3, <1>4, <1>5, <2>2, CellColors DEF Colored, RootBlack, AtWork
<1>7. PICK q, r, bh : q = NULL /\ Heights(t, bh, q, r)
  BY DEF Balanced, Hole
<1>8. PICK bh2 : bh2 = [bh EXCEPT ![w] = bh[w] + 1 - Black(t, w)]
  OBVIOUS
<1>9. /\ bh2 \in [Cells -> Nat] /\ bh2[sentl] = 0 /\ bh2[w] = bh[w] + 1 - Black(t, w)
      /\ \A y \in Cells : y # w => bh2[y] = bh[y]
  <2>1. bh \in [Cells -> Nat] /\ bh[sentl] = 0 /\ sentl \in Cells /\ Black(t, w) \in {0, 1}
    BY <1>7 DEF Heights, Cells, Black
  <2> QED BY <1>3, <1>8, <2>1
<1>10. ASSUME NEW n \in Mem(t), NEW e \in Sides
       PROVE  bh2[n] = bh2[Ch(t, n, e)] + Lost(q, r, n, e) + Black(u, n)
  <2>1. /\ bh[n] = bh[Ch(t, n, e)] + Lost(q, r, n, e) + Black(t, n)
        /\ bh[n] \in Nat /\ bh[Ch(t, n, e)] \in Nat /\ Lost(q, r, n, e) \in {0, 1}
        /\ n \in Cells /\ Ch(t, n, e) \in Cells /\ Black(t, n) \in {0, 1}
    <3>1. bh[n] = bh[Ch(t, n, e)] + Lost(q, r, n, e) + Black(t, n)
      BY <1>7 DEF Heights
    <3>2. Lost(q, r, n, e) \in {0, 1}
      BY DEF Lost
    <3> QED BY <1>7, <3>1, <3>2, HeightTypes
  <2>2. Ch(t, n, e) # w
    BY <1>2, <1>3, ShapeFacts
  <2>3. /\ n = w => Black(u, n) = 1
        /\ n # w => Black(u, n) = Black(t, n)
    BY <1>4, <2>1 DEF Black
  <2> QED BY <1>9, <2>1, <2>2, <2>3
<1>11. Heights(u, bh2, q, r) /\ Hole(u, "none", z, q, r)
  BY <1>5, <1>7, <1>9, <1>10 DEF Heights, Hole
<1> QED BY <1>5, <1>6, <1>11 DEF Turned, Balanced

LEMMA InsertRotateTurn ==
  ASSUME NEW t, NEW sub, NEW pos, Shape(t, sub, pos),
         NEW x, Balanced(t, "insert", x), Co(t, Pa(t, x)) = "red",
         NEW p, p = Pa(t, x), NEW g, g = Pa(t, p), NEW s, s = SideIn(t, p),
         NEW o, o = Other(s), NEW y, y = Ch(t, g, o), Co(t, y) = "black",
         NEW t1, t1 = IF x = Ch(t, p, o) THEN Rotate(t, s, p) ELSE t,
         NEW a, a = IF x = Ch(t, p, o) THEN x ELSE p,
         NEW b, b = IF x = Ch(t, p, o) THEN p ELSE x,
         NEW v, v = Paint(Paint(t1, a, "black"), g, "red"), NEW u, u = Rotate(v, o, g)
  PROVE  Turned(t, u, pos) /\ Balanced(u, "insert", b)
<1>1. /\ x \in Mem(t) /\ p \in Mem(t) /\ s \in Sides /\ \E e \in Sides : Ch(t, p, e) = x
  <2>1. Colored(t, "insert", x)
    BY DEF Balanced
  <2> QED BY <2>1, RedParent
<1>2. CASE x = Ch(t, p, o)
  <2>1. t1 = Rotate(t, s, p) /\ a = x /\ b = p
    BY <1>2
  <2>2. x = Ch(t, p, Other(s)) /\ y = Ch(t, g, Other(s))
    BY <1>2
  <2>3. /\ Turned(t, t1, pos) /\ Balanced(t1, "insert", p)
        /\ Pa(t1, p) = x /\ Pa(t1, x) = g /\ SideIn(t1, x) = s /\ Ch(t1, x, s) = p
        /\ Co(t1, x) = "red" /\ Ch(t1, g, Other(s)) = y /\ Co(t1, y) = Co(t, y)
    BY <2>1, <2>2, InnerTurn
  <2>4. PICK sub1 : Shape(t1, sub1, pos) /\ Mem(t1) = Mem(t)
    BY <2>3 DEF Turned
  <2>5. /\ Co(t1, Pa(t1, p)) = "red" /\ Pa(t1, p) = x /\ Pa(t1, x) = g /\ SideIn(t1, x) = s
        /\ Ch(t1, g, o) = y /\ Ch(t1, x, s) = p /\ Co(t1, y) = "black"
        /\ Balanced(t1, "insert", p) /\ v = Paint(Paint(t1, x, "black"), g, "red")
    BY <2>1, <2>3
  <2>6. Turned(t1, u, pos) /\ Balanced(u, "insert", p)
    BY <2>4, <2>5, OuterTurn
  <2> QED BY <2>1, <2>4, <2>6 DEF Turned
<1>3. CASE x # Ch(t, p, o)
  <2>1. t1 = t /\ a = p /\ b = x
    BY <1>3
  <2>2. x = Ch(t, p, s)
    BY <1>1, <1>3, SideCases
  <2>3. v = Paint(Paint(t, p, "black"), g, "red")
    BY <2>1
  <2>4. Turned(t, u, pos) /\ Balanced(u, "insert", x)
    BY <2>2, <2>3, OuterTurn
  <2> QED BY <2>1, <2>4
<1> QED BY <1>2, <1>3

(* No red pair waits for a loop. *)
Calm(t) ==
  /\ Co(t, sentl) = "black" /\ Co(t, Rt(t)) = "black"
  /\ \A n \in Mem(t), e \in Sides : ~(Co(t, n) = "red" /\ Co(t, Ch(t, n, e)) = "red")

(* The nodes around a black node x on whose side a black node is missing *)
LEMMA MissingFacts ==
  ASSUME NEW t, NEW sub, NEW pos, Shape(t, sub, pos),
         NEW x, Balanced(t, "remove", x), x # Rt(t), Co(t, x) = "black",
         NEW p, p = Pa(t, x), NEW s, s = SideIn(t, x), NEW o, o = Other(s),
         NEW y, y = Ch(t, p, o)
  PROVE  /\ Calm(t) /\ x \in Mem(t) \cup {sentl} /\ x \in Cells
         /\ p \in Mem(t) /\ s \in Sides /\ o \in Sides /\ o # s /\ Other(o) = s
         /\ Ch(t, p, s) = x /\ y \in Mem(t) /\ y # x /\ x # p /\ y # p
         /\ \E bh : Heights(t, bh, p, s) /\ bh[y] = bh[x] + 1
<1>1. Reds(t, "remove", x) /\ Co(t, sentl) = "black" /\ x \in Mem(t) \cup {sentl}
  BY DEF Balanced, Colored, AtWork
<1>2. Co(t, Rt(t)) = "black"
  <2>1. Co(t, Rt(t)) # "red"
    BY DEF Balanced, Colored, RootBlack
  <2> QED BY <2>1, CellColors, ColorNames
<1>3. \A n \in Mem(t), e \in Sides : ~(Co(t, n) = "red" /\ Co(t, Ch(t, n, e)) = "red")
  BY <1>1 DEF Reds, Exempt
<1>4. PICK q, r, bh : /\ Hole(t, "remove", x, q, r) /\ Heights(t, bh, q, r)
  BY DEF Balanced
<1>5. q \in Mem(t) /\ q = p /\ r \in Sides /\ Ch(t, q, r) = x /\ Ch(t, q, Other(r)) # x
  BY <1>4 DEF Hole
<1>6. s = r
  <2>1. r = "left" \/ r = "right"
    BY <1>5, SideCases
  <2> QED BY <1>5, <2>1, SideCases DEF SideIn
<1>7. /\ p \in Mem(t) /\ s \in Sides /\ o \in Sides /\ o # s /\ Other(o) = s
      /\ Ch(t, p, s) = x /\ y # x /\ Heights(t, bh, p, s)
  BY <1>4, <1>5, <1>6, SideCases
<1>8. bh[y] = bh[x] + 1
  <2>1. /\ bh[p] = bh[x] + Lost(p, s, p, s) + Black(t, p)
        /\ bh[p] = bh[y] + Lost(p, s, p, o) + Black(t, p)
    BY <1>7 DEF Heights
  <2>2. Lost(p, s, p, s) = 1 /\ Lost(p, s, p, o) = 0
    BY <1>7 DEF Lost
  <2>3. bh[p] \in Nat /\ bh[x] \in Nat /\ bh[y] \in Nat /\ Black(t, p) \in {0, 1}
    BY <1>7, HeightTypes
  <2> QED BY <2>1, <2>2, <2>3
<1>9. y \in Mem(t)
  <2>1. y # sentl
    <3>1. bh[x] \in Nat
      BY <1>7, HeightTypes
    <3>2. bh[sentl] = 0
      BY <1>7 DEF Heights
    <3> QED BY <1>8, <3>1, <3>2
  <2> QED BY <1>7, <2>1 DEF Shape
<1>10. x # p /\ y # p /\ x \in Cells
  <2>1. x # p /\ x \in Cells
    BY <1>7, ShapeFacts, CellColors
  <2>2. y # p
    BY <1>7, ShapeFacts
  <2> QED BY <2>1, <2>2
<1>11. Calm(t)
  BY <1>1, <1>2, <1>3 DEF Calm
<1> QED BY <1>1, <1>7, <1>8, <1>9, <1>10, <1>11

LEMMA RaiseTurn ==
  ASSUME NEW t, NEW sub, NEW pos, Shape(t, sub, pos),
         NEW x, Balanced(t, "remove", x), x # Rt(t), Co(t, x) = "black",
         NEW p, p = Pa(t, x), NEW s, s = SideIn(t, x), NEW o, o = Other(s),
         NEW y, y = Ch(t, p, o), Co(t, y) = "red",
         NEW v, v = Paint(Paint(t, y, "black"), p, "red"), NEW u, u = Rotate(v, s, p)
  PROVE  Turned(t, u, pos) /\ Balanced(u, "remove", x)
<1>1. /\ Calm(t) /\ x \in Mem(t) \cup {sentl} /\ x \in Cells
      /\ p \in Mem(t) /\ s \in Sides /\ o \in Sides /\ o # s /\ Other(o) = s
      /\ Ch(t, p, s) = x /\ y \in Mem(t) /\ y # x /\ x # p /\ y # p
      /\ \E bh : Heights(t, bh, p, s) /\ bh[y] = bh[x] + 1
  BY MissingFacts
<1>2. /\ p # sentl /\ y # sentl /\ p \in Cells /\ y \in Cells
      /\ Ch(t, p, Other(s)) = y /\ Ch(t, p, Other(s)) # sentl
      /\ \A e \in Sides : e = s \/ e = o
  <2>1. p # sentl /\ y # sentl /\ p \in Cells /\ y \in Cells
    BY <1>1, MemIn
  <2>2. \A e \in Sides : e = s \/ e = o
    BY <1>1, SideCases
  <2> QED BY <2>1, <2>2
<1>3. Co(t, p) = "black"
  <2>1. Co(t, p) # "red"
    BY <1>1 DEF Calm
  <2> QED BY <1>2, <2>1, CellColors, ColorNames
<1>4. /\ SameLinks(t, v)
      /\ \A z \in Cells : Co(v, z) = IF z = p THEN "red" ELSE IF z = y THEN "black" ELSE Co(t, z)
  <2>1. p \in Cells /\ y \in Cells /\ "red" \in Colors /\ "black" \in Colors
    BY <1>2, ColorNames
  <2>2. \A w : w = Paint(Paint(t, y, "black"), p, "red") => /\ SameLinks(t, w)
      /\ \A z \in Cells : Co(w, z) = IF z = p THEN "red" ELSE IF z = y THEN "black" ELSE Co(t, z)
    BY <2>1, PaintTwo
  <2> QED BY <2>2
<1>5. /\ Rotated(t, u, s, p) /\ Mem(u) = Mem(t) /\ \E sub2 : Shape(u, sub2, pos)
      /\ \A z \in Cells : Co(u, z) = Co(v, z)
  <2>1. s \in Sides /\ p \in Mem(t) /\ Ch(t, p, Other(s)) # sentl
    BY <1>1, <1>2
  <2>2. SameLinks(t, v)
    BY <1>4
  <2> QED BY <2>1, <2>2, PaintedRotate
<1>6. /\ Ch(u, p, s) = x /\ Ch(u, p, o) = Ch(t, y, s)
      /\ Ch(u, y, s) = p /\ Ch(u, y, o) = Ch(t, y, o)
      /\ \A z \in Mem(t), r \in Sides : z # p /\ z # y =>
           /\ Ch(u, z, r) = IF Ch(t, z, r) = p THEN y ELSE Ch(t, z, r)
           /\ Ch(t, z, r) # y
      /\ Ch(t, y, s) \notin {p, y} /\ Ch(t, y, o) \notin {p, y}
  <2>1. s \in Sides /\ p \in Mem(t) /\ y = Ch(t, p, Other(s)) /\ y # sentl
    BY <1>1, <1>2
  <2>2. Rotated(t, u, s, p)
    BY <1>5
  <2>3. /\ Ch(u, p, s) = Ch(t, p, s) /\ Ch(u, p, Other(s)) = Ch(t, y, s)
        /\ Ch(u, y, s) = p /\ Ch(u, y, Other(s)) = Ch(t, y, Other(s))
        /\ \A z \in Mem(t), r \in Sides : z # p /\ z # y =>
             /\ Ch(u, z, r) = IF Ch(t, z, r) = p THEN y ELSE Ch(t, z, r)
             /\ Ch(t, z, r) # y
        /\ Ch(t, y, s) \notin {p, y} /\ Ch(t, y, Other(s)) \notin {p, y}
    BY <2>1, <2>2, RotatedEdges
  <2> QED BY <1>1, <2>3
<1>7. \A z \in Cells : Co(u, z) = IF z = p THEN "red" ELSE IF z = y THEN "black" ELSE Co(t, z)
  BY <1>4, <1>5
<1>8. ASSUME NEW n \in Mem(t), NEW e \in Sides, Co(u, n) = "red", Co(u, Ch(u, n, e)) = "red"
      PROVE  FALSE
  <2>1. \A z \in Mem(t), r \in Sides :
          /\ ~(Co(t, z) = "red" /\ Co(t, Ch(t, z, r)) = "red")
          /\ Ch(t, z, r) \in Cells /\ z \in Cells
    BY <1>1, CellColors DEF Calm
  <2>2. CASE n = p
    <3>1. Co(u, x) = "black"
      BY <1>1, <1>7
    <3>2. Co(u, Ch(t, y, s)) = Co(t, Ch(t, y, s))
      BY <1>1, <1>6, <1>7, <2>1
    <3>3. e = s \/ e = o
      BY <1>2
    <3>4. Co(t, Ch(t, y, s)) # "red"
      BY <1>1, <2>1
    <3> QED BY <1>6, <1>8, <2>2, <3>1, <3>2, <3>3, <3>4
  <2>3. CASE n = y
    BY <1>1, <1>2, <1>7, <1>8, <2>3
  <2>4. CASE n # p /\ n # y
    <3>1. Co(t, n) = "red"
      BY <1>7, <1>8, <2>1, <2>4
    <3>2. Co(u, y) = "black"
      BY <1>1, <1>2, <1>7
    <3>3. Ch(t, n, e) # p /\ Ch(u, n, e) = Ch(t, n, e) /\ Ch(t, n, e) # y
      BY <1>6, <1>8, <2>4, <3>2
    <3>4. Co(t, Ch(t, n, e)) = "red"
      BY <1>7, <1>8, <2>1, <3>3
    <3> QED BY <2>1, <3>1, <3>4
  <2> QED BY <2>2, <2>3, <2>4
<1>9. Co(u, Rt(u)) = "black" /\ Rt(u) # x
  <2>1. CASE p = Rt(t)
    <3>1. Rt(u) = y
      BY <1>2, <1>5, <2>1 DEF Rotated
    <3> QED BY <1>1, <1>2, <1>7, <3>1
  <2>2. CASE p # Rt(t)
    <3>1. Rt(u) = Rt(t) /\ Rt(t) \in Cells /\ Co(t, Rt(t)) = "black"
      BY <1>1, <1>5, <2>2, CellColors DEF Rotated, Calm
    <3> QED BY <1>7, <2>2, <3>1
  <2> QED BY <2>1, <2>2
<1>10. Colored(u, "remove", x)
  <2>1. Reds(u, "remove", x)
    BY <1>5, <1>8 DEF Reds
  <2>2. Co(u, sentl) = "black"
    <3>1. Co(t, sentl) = "black" /\ sentl \in Cells
      BY <1>1, CellColors DEF Calm
    <3> QED BY <1>2, <1>7, <3>1
  <2> QED BY <1>1, <1>5, <1>9, <2>1, <2>2 DEF Colored, RootBlack, AtWork
<1>11. PICK bh : Heights(t, bh, p, s) /\ bh[y] = bh[x] + 1
  BY <1>1
<1>12. \E bh2 : Heights(u, bh2, p, s)
  <2>1. /\ Co(u, y) = Co(t, p) /\ Co(u, p) = "red"
        /\ \A z \in Mem(t) : z # p /\ z # y => Co(u, z) = Co(t, z)
    BY <1>1, <1>2, <1>3, <1>7, MemIn
  <2>2. /\ s \in Sides /\ p \in Mem(t) /\ y = Ch(t, p, Other(s)) /\ y # sentl
        /\ ~(p = p /\ s = Other(s)) /\ p # y
    BY <1>1, <1>2
  <2>3. Rotated(t, u, s, p) /\ Mem(u) = Mem(t) /\ Heights(t, bh, p, s)
    BY <1>5, <1>11
  <2> QED BY <2>1, <2>2, <2>3, SwapHeights
<1>13. Hole(u, "remove", x, p, s)
  <2>1. Ch(t, y, s) # x
    <3>1. CASE x # sentl
      BY <1>1, <3>1, CellColors
    <3>2. CASE x = sentl
      <4>1. bh[y] = bh[Ch(t, y, s)] + Lost(p, s, y, s) + Black(t, y)
        BY <1>1, <1>11 DEF Heights
      <4>2. Lost(p, s, y, s) = 0 /\ Black(t, y) = 0
        BY <1>1 DEF Lost, Black
      <4>3. bh[x] = 0
        BY <1>11, <3>2 DEF Heights
      <4>4. bh[Ch(t, y, s)] \in Nat /\ bh[y] \in Nat
        BY <1>1, <1>11, HeightTypes
      <4> QED BY <1>11, <4>1, <4>2, <4>3, <4>4
    <3> QED BY <3>1, <3>2
  <2>2. Pa(u, x) = p
    <3>1. Rotated(t, u, s, p) /\ x # Ch(t, y, s) /\ x # y /\ x # p /\ x \in Cells
          /\ Ch(t, p, Other(s)) = y
      BY <1>1, <1>2, <1>5, <2>1
    <3> QED BY <3>1 DEF Rotated
  <2>3. Ch(u, p, Other(s)) # x /\ p \in Mem(u) /\ s \in Sides /\ Ch(u, p, s) = x
    BY <1>1, <1>5, <1>6, <2>1
  <2>4. Rt(u) # x
    BY <1>9
  <2> QED BY <2>2, <2>3, <2>4 DEF Hole
<1>14. Balanced(u, "remove", x)
  BY <1>10, <1>12, <1>13 DEF Balanced
<1> QED BY <1>5, <1>14 DEF Turned

LEMMA RecolorTurn ==
  ASSUME NEW t, NEW sub, NEW pos, Shape(t, sub, pos),
         NEW x, Balanced(t, "remove", x), x # Rt(t), Co(t, x) = "black",
         NEW p, p = Pa(t, x), NEW s, s = SideIn(t, x), NEW o, o = Other(s),
         NEW y, y = Ch(t, p, o), Co(t, y) = "black",
         \A e \in Sides : Co(t, Ch(t, y, e)) # "red",
         NEW u, u = Paint(t, y, "red")
  PROVE  Turned(t, u, pos) /\ Balanced(u, "remove", p)
<1>1. /\ Calm(t) /\ x \in Mem(t) \cup {sentl} /\ x \in Cells
      /\ p \in Mem(t) /\ s \in Sides /\ o \in Sides /\ o # s /\ Other(o) = s
      /\ Ch(t, p, s) = x /\ y \in Mem(t) /\ y # x /\ x # p /\ y # p
      /\ \E bh : Heights(t, bh, p, s) /\ bh[y] = bh[x] + 1
  BY MissingFacts
<1>2. /\ p # sentl /\ y # sentl /\ p \in Cells /\ y \in Cells /\ y # Rt(t)
      /\ \A e \in Sides : e = s \/ e = o
  <2>1. p # sentl /\ y # sentl /\ p \in Cells /\ y \in Cells
    BY <1>1, MemIn
  <2>2. \A e \in Sides : e = s \/ e = o
    BY <1>1, SideCases
  <2>3. y # Rt(t)
    BY <1>1, <2>1, ShapeFacts
  <2> QED BY <2>1, <2>2, <2>3
<1>3. SameLinks(t, u) /\ \A z \in Cells : Co(u, z) = IF z = y THEN "red" ELSE Co(t, z)
  <2>1. y \in Cells /\ "red" \in Colors
    BY <1>2, ColorNames
  <2> QED BY <2>1, PaintOne
<1>4. /\ Shape(u, sub, pos) /\ Mem(u) = Mem(t) /\ Rt(u) = Rt(t)
      /\ \A z \in Mem(t), e \in Sides : Ch(u, z, e) = Ch(t, z, e)
      /\ \A z \in Mem(t) : Pa(u, z) = Pa(t, z)
  BY <1>3, SameShape, MemIn DEF SameLinks
<1>5. ASSUME NEW n \in Mem(t), NEW e \in Sides, Co(u, n) = "red", Co(u, Ch(t, n, e)) = "red"
      PROVE  n = p
  <2>1. \A z \in Mem(t), r \in Sides :
          /\ ~(Co(t, z) = "red" /\ Co(t, Ch(t, z, r)) = "red")
          /\ Ch(t, z, r) \in Cells /\ z \in Cells
          /\ Ch(t, z, r) # sentl => Pa(t, Ch(t, z, r)) = z
    BY <1>1, CellColors DEF Calm
  <2>2. CASE n = y
    <3>1. Ch(t, y, e) # y
      BY <1>1, ShapeFacts
    <3> QED BY <1>3, <1>5, <2>1, <2>2, <3>1
  <2>3. CASE Ch(t, n, e) = y
    BY <1>1, <1>2, <2>1, <2>3
  <2>4. CASE n # y /\ Ch(t, n, e) # y
    BY <1>3, <1>5, <2>1, <2>4
  <2> QED BY <2>2, <2>3, <2>4
<1>6. Colored(u, "remove", p)
  <2>1. Reds(u, "remove", p)
    BY <1>4, <1>5 DEF Reds, Exempt
  <2>2. Co(u, sentl) = "black" /\ Co(u, Rt(u)) = "black"
    <3>1. Co(t, sentl) = "black" /\ Co(t, Rt(t)) = "black" /\ sentl \in Cells /\ Rt(t) \in Cells
      BY <1>1, CellColors DEF Calm
    <3> QED BY <1>2, <1>3, <1>4, <3>1
  <2> QED BY <1>1, <1>4, <2>1, <2>2 DEF Colored, RootBlack, AtWork
<1>7. PICK bh : Heights(t, bh, p, s) /\ bh[y] = bh[x] + 1
  BY <1>1
<1>8. PICK q, r : Hole(t, "remove", p, q, r) /\ (p # Rt(t) => q = Pa(t, p) /\ r = SideIn(t, p))
  <2>1. CASE p = Rt(t)
    BY <2>1 DEF Hole
  <2>2. CASE p # Rt(t)
    <3>1. /\ SideIn(t, p) \in Sides /\ Pa(t, p) \in Mem(t)
          /\ Ch(t, Pa(t, p), SideIn(t, p)) = p
          /\ Ch(t, Pa(t, p), Other(SideIn(t, p))) # p
      BY <1>1, <2>2, SideInFacts
    <3>2. Hole(t, "remove", p, Pa(t, p), SideIn(t, p))
      BY <2>2, <3>1 DEF Hole
    <3> QED BY <3>2
  <2> QED BY <2>1, <2>2
<1>9. PICK bh2 : bh2 = [bh EXCEPT ![y] = bh[y] - 1, ![p] = bh[p] - 1]
  OBVIOUS
<1>10. /\ \A z \in Cells : bh[z] \in Nat
       /\ \A n \in Mem(t), e \in Sides :
            bh[n] = bh[Ch(t, n, e)] + Lost(p, s, n, e) + Black(t, n)
       /\ bh[sentl] = 0 /\ bh \in [Cells -> Nat]
  BY <1>7 DEF Heights
<1>11. bh[p] = bh[x] + 1 + Black(t, p) /\ Black(t, p) \in {0, 1} /\ bh[x] \in Nat
  <2>1. Lost(p, s, p, s) = 1 /\ Black(t, p) \in {0, 1}
    BY DEF Lost, Black
  <2> QED BY <1>1, <1>10, <2>1
<1>12. /\ bh2 \in [Cells -> Nat] /\ bh2[sentl] = 0
       /\ bh2[y] = bh[x] /\ bh2[p] = bh[x] + Black(t, p)
       /\ \A z \in Cells : z \notin {y, p} => bh2[z] = bh[z]
  <2>1. bh[y] - 1 \in Nat /\ bh[p] - 1 \in Nat /\ bh[y] - 1 = bh[x]
        /\ bh[p] - 1 = bh[x] + Black(t, p)
    BY <1>7, <1>11
  <2>2. sentl \in Cells
    BY DEF Cells
  <2> QED BY <1>1, <1>2, <1>9, <1>10, <2>1, <2>2
<1>13. ASSUME NEW n \in Mem(t), NEW e \in Sides
       PROVE  bh2[n] = bh2[Ch(t, n, e)] + Lost(q, r, n, e) + Black(u, n)
  <2>1. /\ bh[n] = bh[Ch(t, n, e)] + Lost(p, s, n, e) + Black(t, n)
        /\ bh[n] \in Nat /\ bh[Ch(t, n, e)] \in Nat /\ Black(t, n) \in {0, 1}
        /\ n \in Cells /\ Ch(t, n, e) \in Cells
    BY <1>7, <1>10, HeightTypes
  <2>2. /\ Ch(t, n, e) # n
        /\ Ch(t, n, e) # sentl => Pa(t, Ch(t, n, e)) = n
        /\ Ch(t, n, e) # Rt(t) \/ Ch(t, n, e) = sentl
    BY ShapeFacts, CellColors
  <2>3. /\ Lost(q, r, n, e) = 1 <=> p # Rt(t) /\ n = Pa(t, p) /\ e = SideIn(t, p)
        /\ Lost(q, r, n, e) \in {0, 1}
    BY <1>8, MemIn DEF Lost, Hole
  <2>4. Ch(t, n, e) = p <=> Lost(q, r, n, e) = 1
    <3>1. CASE p = Rt(t)
      BY <1>2, <2>2, <2>3, <3>1
    <3>2. CASE p # Rt(t)
      BY <1>1, <2>3, <3>2, SideInFacts
    <3> QED BY <3>1, <3>2
  <2>5. CASE n = p
    <3>1. Lost(q, r, n, e) = 0 /\ Black(u, p) = Black(t, p) /\ Ch(t, p, e) \in {x, y}
      BY <1>1, <1>2, <1>3, <2>2, <2>3, <2>4, <2>5 DEF Black
    <3>2. bh2[Ch(t, p, e)] = bh[x]
      BY <1>1, <1>12, <3>1
    <3> QED BY <1>11, <1>12, <2>5, <3>1, <3>2
  <2>6. CASE n = y
    <3>1. Black(t, y) = 1 /\ Black(u, y) = 0 /\ Lost(p, s, y, e) = 0
      BY <1>1, <1>2, <1>3 DEF Black, Lost
    <3>2. Ch(t, y, e) # p /\ Ch(t, y, e) # y
      <4>1. Ch(t, y, e) # y /\ (Ch(t, y, e) # sentl => Ch(t, y, e) \in sub[y])
        BY <1>1, ShapeFacts
      <4>2. p \notin sub[y]
        BY <1>1, ShapeFacts
      <4> QED BY <1>2, <4>1, <4>2
    <3>3. bh[y] = bh[Ch(t, y, e)] + 0 + 1 /\ bh2[Ch(t, y, e)] = bh[Ch(t, y, e)]
      BY <1>12, <2>1, <2>6, <3>1, <3>2
    <3>4. Lost(q, r, y, e) = 0
      BY <2>3, <2>4, <2>6, <3>2
    <3> QED BY <1>7, <1>11, <1>12, <2>1, <2>6, <3>1, <3>3, <3>4
  <2>7. CASE n # p /\ n # y
    <3>1. Black(u, n) = Black(t, n) /\ Lost(p, s, n, e) = 0
      BY <1>3, <2>1, <2>7 DEF Black, Lost
    <3>2. Ch(t, n, e) # y
      BY <1>1, <1>2, <2>7, CellColors
    <3>3. CASE Ch(t, n, e) = p
      <4>1. bh2[p] + 1 = bh[p] /\ Lost(q, r, n, e) = 1 /\ bh2[n] = bh[n] /\ bh2[p] \in Nat
        BY <1>2, <1>11, <1>12, <2>1, <2>4, <2>7, <3>3
      <4> QED BY <2>1, <3>1, <3>3, <4>1
    <3>4. CASE Ch(t, n, e) # p
      <4>1. bh2[Ch(t, n, e)] = bh[Ch(t, n, e)] /\ Lost(q, r, n, e) = 0 /\ bh2[n] = bh[n]
        BY <1>12, <2>1, <2>3, <2>4, <2>7, <3>2, <3>4
      <4> QED BY <2>1, <3>1, <4>1
    <3> QED BY <3>3, <3>4
  <2> QED BY <2>5, <2>6, <2>7
<1>14. Heights(u, bh2, q, r)
  BY <1>4, <1>12, <1>13 DEF Heights
<1>15. Hole(u, "remove", p, q, r)
  <2>1. CASE p = Rt(t)
    <3>1. q = NULL /\ p = Rt(u)
      BY <1>4, <1>8, <2>1 DEF Hole
    <3> QED BY <3>1 DEF Hole
  <2>2. CASE p # Rt(t)
    <3>1. q \in Mem(t) /\ Pa(t, p) = q /\ r \in Sides /\ Ch(t, q, r) = p /\ Ch(t, q, Other(r)) # p
      BY <1>8, <2>2 DEF Hole
    <3>2. q \in Mem(u) /\ Ch(u, q, r) = p /\ Ch(u, q, Other(r)) # p /\ p # Rt(u)
      BY <1>4, <2>2, <3>1, SideCases
    <3>3. p \in Mem(t) /\ Pa(u, p) = q
      BY <1>1, <1>4, <3>1
    <3> QED BY <3>1, <3>2, <3>3 DEF Hole
  <2> QED BY <2>1, <2>2
<1> QED BY <1>4, <1>6, <1>14, <1>15 DEF Turned, Balanced

(* The red inner child of the black y goes up to the place of y. *)
LEMMA InnerFill ==
  ASSUME NEW t, NEW sub, NEW pos, Shape(t, sub, pos), Calm(t),
         NEW p \in Mem(t), NEW s \in Sides, NEW o, o = Other(s),
         NEW bh, Heights(t, bh, p, s),
         NEW y, y = Ch(t, p, o), y \in Mem(t), Co(t, y) = "black",
         Co(t, Ch(t, y, o)) = "black",
         NEW i, i = Ch(t, y, s), Co(t, i) = "red",
         NEW v, v = Paint(Paint(t, i, "black"), y, "red"), NEW u, u = Rotate(v, o, y)
  PROVE  /\ Turned(t, u, pos) /\ Calm(u) /\ \E bh2 : Heights(u, bh2, p, s)
         /\ Ch(u, p, o) = i /\ i \in Mem(t) /\ Co(u, i) = "black"
         /\ Ch(u, i, o) = y /\ Co(u, y) = "red" /\ Co(u, p) = Co(t, p)
<1>1. /\ o \in Sides /\ o # s /\ Other(o) = s /\ \A e \in Sides : e = s \/ e = o
  BY SideCases
<1>2. /\ i \in Mem(t) /\ i # sentl /\ i \in Cells /\ y \in Cells /\ p \in Cells /\ y # sentl
      /\ p # sentl /\ Ch(t, y, Other(o)) = i /\ Ch(t, y, Other(o)) # sentl
  <2>1. i \in Mem(t) \cup {sentl} /\ i # sentl
    BY CellColors DEF Calm
  <2> QED BY <1>1, <2>1, MemIn
<1>3. p # y /\ p # i /\ y # i /\ i # Rt(t) /\ y # Rt(t)
  <2>1. p # y /\ y \in sub[p] /\ p \notin sub[y] /\ y # Rt(t)
    BY <1>1, <1>2, ShapeFacts
  <2>2. i # y /\ i \in sub[y] /\ i # Rt(t)
    BY <1>1, <1>2, ShapeFacts
  <2> QED BY <2>1, <2>2
<1>4. /\ SameLinks(t, v)
      /\ \A z \in Cells : Co(v, z) = IF z = y THEN "red" ELSE IF z = i THEN "black" ELSE Co(t, z)
  <2>1. i \in Cells /\ y \in Cells /\ "red" \in Colors /\ "black" \in Colors
    BY <1>2, ColorNames
  <2>2. \A w : w = Paint(Paint(t, i, "black"), y, "red") => /\ SameLinks(t, w)
      /\ \A z \in Cells : Co(w, z) = IF z = y THEN "red" ELSE IF z = i THEN "black" ELSE Co(t, z)
    BY <2>1, PaintTwo
  <2> QED BY <2>2
<1>5. /\ Rotated(t, u, o, y) /\ Mem(u) = Mem(t) /\ \E sub2 : Shape(u, sub2, pos)
      /\ \A z \in Cells : Co(u, z) = Co(v, z)
  <2>1. o \in Sides /\ y \in Mem(t) /\ Ch(t, y, Other(o)) # sentl
    BY <1>1, <1>2
  <2>2. SameLinks(t, v)
    BY <1>4
  <2> QED BY <2>1, <2>2, PaintedRotate
<1>6. /\ Ch(u, y, o) = Ch(t, y, o) /\ Ch(u, y, s) = Ch(t, i, o)
      /\ Ch(u, i, o) = y /\ Ch(u, i, s) = Ch(t, i, s)
      /\ \A z \in Mem(t), r \in Sides : z # y /\ z # i =>
           /\ Ch(u, z, r) = IF Ch(t, z, r) = y THEN i ELSE Ch(t, z, r)
           /\ Ch(t, z, r) # i
      /\ Ch(t, y, o) \notin {y, i} /\ Ch(t, i, o) \notin {y, i} /\ Ch(t, i, s) \notin {y, i}
  <2>1. o \in Sides /\ y \in Mem(t) /\ Ch(t, y, Other(o)) = i /\ i # sentl
    BY <1>1, <1>2
  <2>2. Rotated(t, u, o, y)
    BY <1>5
  <2>3. /\ Ch(u, y, o) = Ch(t, y, o) /\ Ch(u, y, Other(o)) = Ch(t, i, o)
        /\ Ch(u, i, o) = y /\ Ch(u, i, Other(o)) = Ch(t, i, Other(o))
        /\ \A z \in Mem(t), r \in Sides : z # y /\ z # i =>
             /\ Ch(u, z, r) = IF Ch(t, z, r) = y THEN i ELSE Ch(t, z, r)
             /\ Ch(t, z, r) # i
        /\ Ch(t, y, o) \notin {y, i} /\ Ch(t, i, o) \notin {y, i}
        /\ Ch(t, i, Other(o)) \notin {y, i}
    BY <2>1, <2>2, RotatedEdges
  <2> QED BY <1>1, <2>3
<1>7. /\ \A z \in Cells : Co(u, z) = IF z = y THEN "red" ELSE IF z = i THEN "black" ELSE Co(t, z)
      /\ Co(u, i) = "black" /\ Co(u, y) = "red" /\ Co(u, p) = Co(t, p)
  BY <1>2, <1>3, <1>4, <1>5
<1>8. Ch(u, p, o) = i
  BY <1>1, <1>3, <1>6
<1>9. ASSUME NEW n \in Mem(t), NEW e \in Sides, Co(u, n) = "red", Co(u, Ch(u, n, e)) = "red"
      PROVE  FALSE
  <2>1. \A z \in Mem(t), r \in Sides :
          /\ ~(Co(t, z) = "red" /\ Co(t, Ch(t, z, r)) = "red")
          /\ Ch(t, z, r) \in Cells /\ z \in Cells
    BY CellColors DEF Calm
  <2>2. CASE n = y
    <3>1. Co(t, Ch(t, i, o)) # "red" /\ Co(t, Ch(t, y, o)) # "red"
      BY <1>1, <1>2, <2>1
    <3>2. Ch(t, i, o) \in Cells /\ Ch(t, y, o) \in Cells
      BY <1>1, <1>2, <2>1
    <3>3. Co(u, Ch(t, i, o)) # "red" /\ Co(u, Ch(t, y, o)) # "red"
      BY <1>6, <1>7, <3>1, <3>2
    <3>4. e = s \/ e = o
      BY <1>1
    <3> QED BY <1>6, <1>9, <2>2, <3>3, <3>4
  <2>3. CASE n = i
    BY <1>7, <1>9, <2>3
  <2>4. CASE n # y /\ n # i
    <3>1. Co(t, n) = "red"
      BY <1>7, <1>9, <2>1, <2>4
    <3>2. Ch(t, n, e) # y /\ Ch(u, n, e) = Ch(t, n, e) /\ Ch(t, n, e) # i
      BY <1>6, <1>7, <1>9, <2>4
    <3>3. Co(t, Ch(t, n, e)) = "red"
      BY <1>7, <1>9, <2>1, <3>2
    <3> QED BY <2>1, <3>1, <3>3
  <2> QED BY <2>2, <2>3, <2>4
<1>10. Calm(u)
  <2>1. Rt(u) = Rt(t) /\ Rt(t) \in Cells /\ sentl \in Cells
        /\ Co(t, Rt(t)) = "black" /\ Co(t, sentl) = "black"
    BY <1>3, <1>5, CellColors DEF Rotated, Calm
  <2>2. Co(u, Rt(t)) = "black" /\ Co(u, sentl) = "black"
    BY <1>2, <1>3, <1>7, <2>1
  <2> QED BY <1>5, <1>9, <2>1, <2>2 DEF Calm
<1>11. \E bh2 : Heights(u, bh2, p, s)
  <2>1. /\ Co(u, i) = Co(t, y) /\ Co(u, y) = "red"
        /\ \A z \in Mem(t) : z # y /\ z # i => Co(u, z) = Co(t, z)
    BY <1>7, MemIn
  <2>2. /\ o \in Sides /\ y \in Mem(t) /\ Ch(t, y, Other(o)) = i /\ i # sentl
        /\ ~(p = y /\ s = Other(o)) /\ p # i
    BY <1>1, <1>2, <1>3
  <2>3. Rotated(t, u, o, y) /\ Mem(u) = Mem(t)
    BY <1>5
  <2> QED BY <2>1, <2>2, <2>3, SwapHeights
<1> QED BY <1>2, <1>5, <1>7, <1>6, <1>8, <1>10, <1>11 DEF Turned

(* The red outer child d of the black c makes up for the missing node. *)
LEMMA FillTurn ==
  ASSUME NEW t, NEW sub, NEW pos, Shape(t, sub, pos), Calm(t), IsFiniteSet(Mem(t)),
         NEW p \in Mem(t), NEW s \in Sides, NEW o, o = Other(s),
         NEW bh, Heights(t, bh, p, s),
         NEW c, Ch(t, p, o) = c, c \in Mem(t), Co(t, c) = "black",
         NEW d, Ch(t, c, o) = d, Co(t, d) = "red", NEW clr, Co(t, p) = clr,
         NEW v, v = Paint(Paint(Paint(t, c, clr), p, "black"), d, "black"),
         NEW u, u = Rotate(v, s, p)
  PROVE  Turned(t, u, pos) /\ Balanced(u, "remove", Rt(u))
<1>1. /\ o \in Sides /\ o # s /\ Other(o) = s /\ \A e \in Sides : e = s \/ e = o
  BY SideCases
<1>2. /\ d \in Mem(t) /\ d # sentl /\ d \in Cells /\ c \in Cells /\ p \in Cells /\ c # sentl
      /\ p # sentl /\ clr \in Colors
  <2>1. d \in Mem(t) \cup {sentl} /\ d # sentl
    BY <1>1, CellColors DEF Calm
  <2>2. d \in Mem(t) /\ d # sentl /\ d \in Cells /\ c \in Cells /\ p \in Cells /\ c # sentl
        /\ p # sentl
    BY <2>1, MemIn
  <2>3. Co(t, p) \in Colors
    BY <2>2, CellColors
  <2> QED BY <2>2, <2>3
<1>3. /\ SameLinks(t, v)
      /\ \A z \in Cells : Co(v, z) = IF z = d THEN "black" ELSE IF z = p THEN "black"
                                      ELSE IF z = c THEN clr ELSE Co(t, z)
  <2>1. c \in Cells /\ p \in Cells /\ d \in Cells /\ "black" \in Colors /\ clr \in Colors
    BY <1>2, ColorNames
  <2>2. \A w : w = Paint(Paint(Paint(t, c, clr), p, "black"), d, "black") =>
      /\ SameLinks(t, w)
      /\ \A z \in Cells : Co(w, z) = IF z = d THEN "black" ELSE IF z = p THEN "black"
                                      ELSE IF z = c THEN clr ELSE Co(t, z)
    BY <2>1, PaintThree
  <2> QED BY <2>2
<1>4. /\ Rotated(t, u, s, p) /\ Mem(u) = Mem(t) /\ \E sub2 : Shape(u, sub2, pos)
      /\ \A z \in Cells : Co(u, z) = Co(v, z)
  <2>1. s \in Sides /\ p \in Mem(t) /\ Ch(t, p, Other(s)) # sentl
    BY <1>2
  <2>2. SameLinks(t, v)
    BY <1>3
  <2> QED BY <2>1, <2>2, PaintedRotate
<1>5. /\ p # c
      /\ Ch(u, p, s) = Ch(t, p, s) /\ Ch(u, p, o) = Ch(t, c, s)
      /\ Ch(u, c, s) = p /\ Ch(u, c, o) = d
      /\ \A z \in Mem(t), r \in Sides : z # p /\ z # c =>
           /\ Ch(u, z, r) = IF Ch(t, z, r) = p THEN c ELSE Ch(t, z, r)
           /\ Ch(t, z, r) # c
      /\ Ch(t, p, s) \notin {p, c} /\ Ch(t, c, s) \notin {p, c} /\ d \notin {p, c}
  <2>1. s \in Sides /\ p \in Mem(t) /\ Ch(t, p, Other(s)) = c /\ c # sentl
    BY <1>2
  <2>2. Rotated(t, u, s, p)
    BY <1>4
  <2>3. /\ p # c
        /\ Ch(u, p, s) = Ch(t, p, s) /\ Ch(u, p, Other(s)) = Ch(t, c, s)
        /\ Ch(u, c, s) = p /\ Ch(u, c, Other(s)) = Ch(t, c, Other(s))
        /\ \A z \in Mem(t), r \in Sides : z # p /\ z # c =>
             /\ Ch(u, z, r) = IF Ch(t, z, r) = p THEN c ELSE Ch(t, z, r)
             /\ Ch(t, z, r) # c
        /\ Ch(t, p, s) \notin {p, c} /\ Ch(t, c, s) \notin {p, c}
        /\ Ch(t, c, Other(s)) \notin {p, c}
    BY <2>1, <2>2, RotatedEdges
  <2> QED BY <2>3
<1>6. /\ \A z \in Cells : Co(u, z) = IF z = d THEN "black" ELSE IF z = p THEN "black"
                                      ELSE IF z = c THEN clr ELSE Co(t, z)
      /\ Co(u, c) = clr /\ Co(u, p) = "black" /\ Co(u, d) = "black"
  BY <1>2, <1>3, <1>4, <1>5
<1>7. /\ \A z \in Mem(t), r \in Sides :
          /\ ~(Co(t, z) = "red" /\ Co(t, Ch(t, z, r)) = "red")
          /\ Ch(t, z, r) \in Cells /\ z \in Cells
          /\ Ch(t, z, r) # sentl => Pa(t, Ch(t, z, r)) = z
      /\ Co(t, sentl) = "black" /\ Co(t, Rt(t)) = "black" /\ sentl \in Cells /\ Rt(t) \in Cells
  BY CellColors DEF Calm
<1>8. ASSUME NEW n \in Mem(t), NEW e \in Sides, Co(u, n) = "red", Co(u, Ch(u, n, e)) = "red"
      PROVE  FALSE
  <2>1. CASE n = c
    <3>1. e = s \/ e = o
      BY <1>1
    <3> QED BY <1>5, <1>6, <1>8, <2>1, <3>1
  <2>2. CASE n # c
    <3>1. n # p /\ n # d /\ Co(t, n) = "red"
      BY <1>6, <1>7, <1>8, <2>2
    <3>2. CASE Ch(t, n, e) = p
      <4>1. Ch(u, n, e) = c /\ clr = "red"
        BY <1>5, <1>6, <1>8, <2>2, <3>1, <3>2
      <4> QED BY <1>7, <3>1, <3>2, <4>1
    <3>3. CASE Ch(t, n, e) # p
      <4>1. Ch(u, n, e) = Ch(t, n, e) /\ Ch(t, n, e) # c
        BY <1>5, <2>2, <3>1, <3>3
      <4>2. Co(t, Ch(t, n, e)) = "red"
        BY <1>6, <1>7, <1>8, <3>3, <4>1
      <4> QED BY <1>7, <3>1, <4>2
    <3> QED BY <3>2, <3>3
  <2> QED BY <2>1, <2>2
<1>9. Co(u, Rt(u)) = "black" /\ Rt(u) \in Mem(u)
  <2>1. CASE p = Rt(t)
    <3>1. Rt(u) = c
      BY <1>4, <2>1 DEF Rotated
    <3> QED BY <1>4, <1>6, <1>7, <2>1, <3>1
  <2>2. CASE p # Rt(t)
    <3>1. Rt(u) = Rt(t) /\ Rt(t) # c /\ Rt(t) # d /\ Rt(t) \in Mem(t)
      <4>1. Rt(u) = Rt(t)
        BY <1>4, <2>2 DEF Rotated
      <4>2. Rt(t) # c /\ Rt(t) # d
        BY <1>1, <1>2, ShapeFacts
      <4>3. Rt(t) \in Mem(t)
        BY DEF Shape
      <4> QED BY <4>1, <4>2, <4>3
    <3> QED BY <1>4, <1>6, <1>7, <2>2, <3>1
  <2> QED BY <2>1, <2>2
<1>10. Colored(u, "remove", Rt(u))
  <2>1. Reds(u, "remove", Rt(u))
    BY <1>4, <1>8 DEF Reds
  <2>2. Co(u, sentl) = "black"
    BY <1>2, <1>6, <1>7
  <2> QED BY <1>9, <2>1, <2>2 DEF Colored, RootBlack, AtWork
<1>11. \E bh2 : Heights(u, bh2, NULL, s)
  <2>1. \A z \in Mem(t) : z \notin {p, c, d} => Co(u, z) = Co(t, z)
    BY <1>6, MemIn
  <2>2. Co(u, c) = Co(t, p) /\ Co(u, p) = "black" /\ Co(u, d) = "black"
    BY <1>6
  <2>3. s \in Sides /\ p \in Mem(t) /\ Ch(t, p, Other(s)) = c /\ c # sentl
        /\ Ch(t, c, Other(s)) = d /\ d # sentl
    BY <1>2
  <2>4. Rotated(t, u, s, p) /\ Mem(u) = Mem(t)
    BY <1>4
  <2> QED BY <2>1, <2>2, <2>3, <2>4, FillHeights
<1>12. Hole(u, "remove", Rt(u), NULL, s)
  BY DEF Hole
<1>13. Balanced(u, "remove", Rt(u))
  BY <1>10, <1>11, <1>12 DEF Balanced
<1> QED BY <1>4, <1>13 DEF Turned

LEMMA RemoveRotateTurn ==
  ASSUME NEW t, NEW sub, NEW pos, Shape(t, sub, pos), IsFiniteSet(Mem(t)),
         NEW x, Balanced(t, "remove", x), x # Rt(t), Co(t, x) = "black",
         NEW p, p = Pa(t, x), NEW s, s = SideIn(t, x), NEW o, o = Other(s),
         NEW y, y = Ch(t, p, o), Co(t, y) = "black",
         \E e \in Sides : Co(t, Ch(t, y, e)) = "red",
         NEW t1, t1 = IF Co(t, Ch(t, y, o)) = "black"
                      THEN Rotate(Paint(Paint(t, Ch(t, y, s), "black"), y, "red"), o, y)
                      ELSE t,
         NEW c, c = Ch(t1, p, o), NEW t2, t2 = Paint(Paint(t1, c, Co(t, p)), p, "black"),
         NEW v, v = Paint(t2, Ch(t2, c, o), "black"), NEW u, u = Rotate(v, s, p)
  PROVE  Turned(t, u, pos) /\ Balanced(u, "remove", Rt(u))
<1>1. /\ Calm(t) /\ p \in Mem(t) /\ s \in Sides /\ o \in Sides /\ o # s /\ Other(o) = s
      /\ Ch(t, p, s) = x /\ y \in Mem(t) /\ y # p
      /\ \E bh : Heights(t, bh, p, s) /\ bh[y] = bh[x] + 1
  BY MissingFacts
<1>2. PICK bh : Heights(t, bh, p, s)
  BY <1>1
<1>3. \A e \in Sides : e = s \/ e = o
  BY <1>1, SideCases
<1>4. /\ \E bh1 : Heights(t1, bh1, p, s)
      /\ Turned(t, t1, pos) /\ Calm(t1) /\ Co(t1, p) = Co(t, p)
      /\ c \in Mem(t) /\ Co(t1, c) = "black" /\ Co(t1, Ch(t1, c, o)) = "red"
  <2>1. CASE Co(t, Ch(t, y, o)) = "black"
    <3>1. PICK i : i = Ch(t, y, s)
      OBVIOUS
    <3>2. Co(t, i) = "red"
      BY <1>3, <2>1, <3>1
    <3>3. PICK w : w = Paint(Paint(t, i, "black"), y, "red")
      OBVIOUS
    <3>4. t1 = Rotate(w, o, y)
      BY <2>1, <3>1, <3>3
    <3>5. /\ Turned(t, t1, pos) /\ Calm(t1) /\ \E bh2 : Heights(t1, bh2, p, s)
          /\ Ch(t1, p, o) = i /\ i \in Mem(t) /\ Co(t1, i) = "black"
          /\ Ch(t1, i, o) = y /\ Co(t1, y) = "red" /\ Co(t1, p) = Co(t, p)
      BY <1>1, <1>2, <2>1, <3>1, <3>2, <3>3, <3>4, InnerFill
    <3> QED BY <3>5
  <2>2. CASE Co(t, Ch(t, y, o)) # "black"
    <3>1. t1 = t /\ c = y
      BY <2>2
    <3>2. Co(t, Ch(t, y, o)) = "red"
      BY <1>1, <2>2, CellColors, ColorNames
    <3>3. Turned(t, t, pos)
      BY DEF Turned
    <3> QED BY <1>1, <1>2, <3>1, <3>2, <3>3
  <2> QED BY <2>1, <2>2
<1>5. PICK sub1 : Shape(t1, sub1, pos) /\ Mem(t1) = Mem(t)
  BY <1>4 DEF Turned
<1>6. PICK bh1 : Heights(t1, bh1, p, s)
  BY <1>4
<1>7. PICK d : d = Ch(t1, c, o)
  OBVIOUS
<1>8. PICK clr : clr = Co(t, p)
  OBVIOUS
<1>9. v = Paint(Paint(Paint(t1, c, clr), p, "black"), d, "black")
  <2>1. p \in Cells /\ c \in Cells /\ clr \in Colors /\ "black" \in Colors
    BY <1>1, <1>4, <1>8, MemIn, ColorNames, CellColors
  <2>2. \A w : w = Paint(Paint(t1, c, clr), p, "black") => SameLinks(t1, w)
    BY <1>5, <2>1, PaintTwo
  <2>3. SameLinks(t1, t2)
    BY <1>8, <2>2
  <2>4. Ch(t2, c, o) = d
    BY <1>1, <1>7, <2>1, <2>3 DEF SameLinks
  <2> QED BY <1>8, <2>4
<1>10. Turned(t1, u, pos) /\ Balanced(u, "remove", Rt(u))
  <2>1. /\ Calm(t1) /\ IsFiniteSet(Mem(t1)) /\ p \in Mem(t1) /\ s \in Sides
        /\ Ch(t1, p, o) = c /\ c \in Mem(t1) /\ Co(t1, c) = "black"
        /\ Ch(t1, c, o) = d /\ Co(t1, d) = "red" /\ Co(t1, p) = clr
    BY <1>1, <1>4, <1>5, <1>7, <1>8
  <2> QED BY <1>5, <1>6, <1>9, <2>1, FillTurn
<1> QED BY <1>5, <1>10 DEF Turned

LEMMA RemoveEndTurn ==
  ASSUME NEW t, NEW sub, NEW pos, Shape(t, sub, pos),
         NEW k \in {"remove", "done"}, NEW x, Balanced(t, k, x),
         ~(k = "remove" /\ x # Rt(t) /\ Co(t, x) = "black"),
         NEW u, u = Paint(t, x, "black"), NEW z
  PROVE  Turned(t, u, pos) /\ Balanced(u, "none", z)
<1>1. /\ Co(t, sentl) = "black" /\ Reds(t, k, x) /\ RootBlack(t, k, x) /\ x \in Cells
      /\ k = "remove" => x \in Mem(t) \cup {sentl}
      /\ k = "done" => Co(t, x) = "black"
  <2>1. AtWork(t, k, x)
    BY DEF Balanced, Colored
  <2>2. x \in Cells
    BY <2>1, MemIn, CellColors DEF AtWork
  <2> QED BY <2>1, <2>2 DEF Balanced, Colored, AtWork
<1>2. SameLinks(t, u) /\ \A y \in Cells : Co(u, y) = IF y = x THEN "black" ELSE Co(t, y)
  <2>1. "black" \in Colors
    BY ColorNames
  <2> QED BY <1>1, <2>1, PaintOne
<1>3. /\ Shape(u, sub, pos) /\ Mem(u) = Mem(t) /\ Rt(u) = Rt(t)
      /\ \A y \in Mem(t), e \in Sides : Ch(u, y, e) = Ch(t, y, e)
  BY <1>2, SameShape, MemIn DEF SameLinks
<1>4. Colored(u, "none", z)
  <2>1. ASSUME NEW n \in Mem(t), NEW e \in Sides, Co(u, n) = "red", Co(u, Ch(t, n, e)) = "red"
        PROVE  FALSE
    <3>1. Ch(t, n, e) \in Cells /\ n \in Cells
      BY CellColors
    <3>2. Co(t, n) = "red" /\ Co(t, Ch(t, n, e)) = "red" /\ n # x /\ Ch(t, n, e) # x
      BY <1>2, <2>1, <3>1
    <3> QED BY <1>1, <3>2 DEF Reds, Exempt
  <2>2. Reds(u, "none", z)
    BY <1>3, <2>1 DEF Reds
  <2>3. Co(u, sentl) = "black"
    BY <1>1, <1>2, CellColors
  <2>4. Co(u, Rt(t)) # "red"
    BY <1>1, <1>2, CellColors DEF RootBlack
  <2> QED BY <1>3, <2>2, <2>3, <2>4 DEF Colored, RootBlack, AtWork
<1>5. PICK q, r, bh : Hole(t, k, x, q, r) /\ Heights(t, bh, q, r)
  BY DEF Balanced
<1>6. CASE Co(t, x) = "black"
  <2>1. q = NULL
    BY <1>5, <1>6 DEF Hole
  <2>2. \A n \in Mem(t) : Black(u, n) = Black(t, n)
    BY <1>2, <1>6, MemIn DEF Black
  <2>3. Heights(u, bh, q, r)
    BY <1>3, <1>5, <2>2 DEF Heights
  <2>4. Hole(u, "none", z, q, r)
    BY <2>1 DEF Hole
  <2> QED BY <1>3, <1>4, <2>3, <2>4 DEF Turned, Balanced
<1>7. CASE Co(t, x) # "black"
  <2>1. k = "remove" /\ x \in Mem(t) /\ x # sentl /\ Co(t, x) = "red"
    <3>1. k = "remove" /\ x \in Mem(t) /\ x # sentl
      BY <1>1, <1>7, MemIn
    <3>2. Co(t, x) \in Colors
      BY <1>1, CellColors
    <3> QED BY <1>7, <3>1, <3>2, ColorNames
  <2>2. PICK bh2 : bh2 = [bh EXCEPT ![x] = bh[x] + 1]
    OBVIOUS
  <2>3. /\ bh2 \in [Cells -> Nat] /\ bh2[sentl] = 0 /\ bh2[x] = bh[x] + 1
        /\ \A y \in Cells : y # x => bh2[y] = bh[y]
    <3>1. bh \in [Cells -> Nat] /\ bh[sentl] = 0 /\ sentl \in Cells
      BY <1>5 DEF Heights, Cells
    <3> QED BY <1>1, <2>1, <2>2, <3>1
  <2>4. ASSUME NEW n \in Mem(t), NEW e \in Sides
        PROVE  bh2[n] = bh2[Ch(t, n, e)] + Lost(NULL, r, n, e) + Black(u, n)
    <3>1. /\ bh[n] = bh[Ch(t, n, e)] + Lost(q, r, n, e) + Black(t, n)
          /\ bh[n] \in Nat /\ bh[Ch(t, n, e)] \in Nat
          /\ n \in Cells /\ Ch(t, n, e) \in Cells /\ Black(t, n) \in {0, 1}
          /\ Lost(NULL, r, n, e) = 0
      <4>1. bh[n] = bh[Ch(t, n, e)] + Lost(q, r, n, e) + Black(t, n)
        BY <1>5 DEF Heights
      <4>2. Lost(NULL, r, n, e) = 0
        BY MemIn DEF Lost
      <4> QED BY <1>5, <4>1, <4>2, HeightTypes
    <3>2. Ch(t, n, e) # n
      BY ShapeFacts
    <3>3. Lost(q, r, n, e) = IF Ch(t, n, e) = x THEN 1 ELSE 0
      <4>1. CASE x = Rt(t)
        <5>1. q = NULL /\ Ch(t, n, e) # x
          <6>1. q = NULL
            BY <1>5, <4>1 DEF Hole
          <6>2. Ch(t, n, e) # x
            BY <2>1, <4>1, ShapeFacts
          <6> QED BY <6>1, <6>2
        <5> QED BY <5>1, MemIn DEF Lost
      <4>2. CASE x # Rt(t)
        <5>1. q \in Mem(t) /\ Pa(t, x) = q /\ r \in Sides /\ Ch(t, q, r) = x /\ Ch(t, q, Other(r)) # x
          BY <1>5, <2>1, <4>2 DEF Hole
        <5>2. Ch(t, n, e) = x => n = q
          BY <2>1, <5>1, CellColors
        <5>3. Ch(t, n, e) = x <=> n = q /\ e = r
          BY <5>1, <5>2, SideCases
        <5> QED BY <5>3 DEF Lost
      <4> QED BY <4>1, <4>2
    <3>4. /\ n = x => Black(u, n) = 1 /\ Black(t, n) = 0
          /\ n # x => Black(u, n) = Black(t, n)
      BY <1>2, <2>1, <3>1 DEF Black
    <3>5. /\ n = x => bh2[n] = bh[n] + 1 /\ bh2[Ch(t, n, e)] = bh[Ch(t, n, e)]
          /\ n # x => bh2[n] = bh[n]
          /\ n # x /\ Ch(t, n, e) = x => bh2[Ch(t, n, e)] = bh[Ch(t, n, e)] + 1
          /\ n # x /\ Ch(t, n, e) # x => bh2[Ch(t, n, e)] = bh[Ch(t, n, e)]
      BY <2>3, <3>1, <3>2
    <3> QED BY <3>1, <3>2, <3>3, <3>4, <3>5
  <2>5. Heights(u, bh2, NULL, r) /\ Hole(u, "none", z, NULL, r)
    BY <1>3, <2>3, <2>4 DEF Heights, Hole
  <2> QED BY <1>3, <1>4, <2>5 DEF Turned, Balanced
<1> QED BY <1>6, <1>7

(* A new red leaf *)
LEMMA HungColors ==
  ASSUME NEW t, NEW sub, NEW pos, Shape(t, sub, pos), NEW n \in Nodes \ Mem(t),
         NEW y, NEW s, Place(t, sub, pos, n, y, s), NEW u, Hung(t, u, n, y, s),
         NEW z, Balanced(t, "none", z)
  PROVE  Balanced(u, "insert", n)
<1>1. /\ n \in Cells /\ n # sentl /\ y # n /\ y \in Mem(t) \cup {sentl}
      /\ \A x \in Mem(t) : x # n /\ x \in Cells /\ x # sentl
  BY Names, MemIn DEF Cells, Place
<1>2. Mem(u) = Mem(t) \cup {n}
  BY HungShape
<1>3. /\ \A r \in Sides : Ch(u, n, r) = sentl
      /\ \A x \in Mem(t), r \in Sides :
           /\ Ch(u, x, r) = IF x = y /\ r = s THEN n ELSE Ch(t, x, r)
           /\ Ch(t, x, r) # n /\ Ch(t, x, r) \in Cells
  <2>1. \A x \in Mem(t), r \in Sides : Ch(t, x, r) \in Mem(t) \cup {sentl} /\ Ch(t, x, r) \in Cells
    BY CellColors
  <2>2. \A r \in Sides : Ch(u, n, r) = sentl
    BY <1>1 DEF Hung
  <2>3. \A x \in Mem(t), r \in Sides : Ch(u, x, r) = IF x = y /\ r = s THEN n ELSE Ch(t, x, r)
    BY <1>1 DEF Hung
  <2> QED BY <1>1, <2>1, <2>2, <2>3
<1>4. \A x \in Cells : Co(u, x) = IF x = n THEN "red" ELSE Co(t, x)
  BY DEF Hung
<1>5. /\ Co(t, sentl) = "black" /\ Co(t, Rt(t)) # "red" /\ sentl \in Cells /\ Rt(t) \in Cells
      /\ \A x \in Mem(t), e \in Sides : ~(Co(t, x) = "red" /\ Co(t, Ch(t, x, e)) = "red")
  BY CellColors DEF Balanced, Colored, RootBlack, Reds, Exempt
<1>6. Colored(u, "insert", n)
  <2>1. ASSUME NEW x \in Mem(u), NEW e \in Sides, Co(u, x) = "red", Co(u, Ch(u, x, e)) = "red"
        PROVE  Ch(u, x, e) = n
    <3>1. CASE x = n
      BY <1>1, <1>3, <1>4, <1>5, <2>1, <3>1
    <3>2. CASE x \in Mem(t)
      BY <1>1, <1>3, <1>4, <1>5, <2>1, <3>2
    <3> QED BY <1>2, <3>1, <3>2
  <2>2. Reds(u, "insert", n)
    BY <2>1 DEF Reds, Exempt
  <2>3. Co(u, sentl) = "black" /\ Co(u, n) = "red"
    BY <1>1, <1>4, <1>5
  <2>4. RootBlack(u, "insert", n)
    <3>1. CASE Rt(t) = sentl
      BY <3>1 DEF RootBlack, Hung
    <3>2. CASE Rt(t) # sentl
      BY <1>1, <1>4, <1>5, <3>2 DEF RootBlack, Hung
    <3> QED BY <3>1, <3>2
  <2> QED BY <1>2, <2>2, <2>3, <2>4 DEF Colored, AtWork
<1>7. PICK q, r, bh : q = NULL /\ Heights(t, bh, q, r)
  BY DEF Balanced, Hole
<1>8. PICK bh2 : bh2 = [bh EXCEPT ![n] = 0]
  OBVIOUS
<1>9. /\ bh2 \in [Cells -> Nat] /\ bh2[sentl] = 0 /\ bh2[n] = 0
      /\ \A x \in Cells : x # n => bh2[x] = bh[x]
  <2>1. bh \in [Cells -> Nat] /\ bh[sentl] = 0
    BY <1>7 DEF Heights
  <2> QED BY <1>1, <1>5, <1>8, <2>1
<1>10. ASSUME NEW x \in Mem(u), NEW e \in Sides
       PROVE  bh2[x] = bh2[Ch(u, x, e)] + Lost(q, r, x, e) + Black(u, x)
  <2>1. Lost(q, r, x, e) = 0
    BY <1>7, MemIn DEF Lost
  <2>2. CASE x = n
    BY <1>1, <1>3, <1>4, <1>9, <2>1, <2>2 DEF Black
  <2>3. CASE x \in Mem(t)
    <3>1. bh[x] = bh[Ch(t, x, e)] + Lost(q, r, x, e) + Black(t, x)
      BY <1>7, <2>3 DEF Heights
    <3>2. Black(u, x) = Black(t, x)
      BY <1>1, <1>4, <2>3 DEF Black
    <3>3. x = y /\ e = s => Ch(t, x, e) = sentl
      BY <1>1, <2>3 DEF Place
    <3>4. bh[sentl] = 0
      BY <1>7 DEF Heights
    <3>5. bh2[Ch(u, x, e)] = bh[Ch(t, x, e)] /\ bh2[x] = bh[x]
      BY <1>1, <1>3, <1>9, <2>3, <3>3, <3>4
    <3> QED BY <3>1, <3>2, <3>5
  <2> QED BY <1>2, <2>2, <2>3
<1>11. Heights(u, bh2, q, r) /\ Hole(u, "insert", n, q, r)
  BY <1>7, <1>9, <1>10 DEF Heights, Hole
<1> QED BY <1>6, <1>11 DEF Balanced

(* A node with at most one child is taken out. *)
LEMMA SplicedColors ==
  ASSUME NEW t, NEW sub, NEW pos, Shape(t, sub, pos), NEW n \in Mem(t), NEW s \in Sides,
         NEW c, c = Ch(t, n, s), Ch(t, n, Other(s)) = sentl,
         NEW u, Spliced(t, u, n, c), NEW z, Balanced(t, "none", z),
         NEW k, k = IF Co(t, n) = "red" THEN "done" ELSE "remove"
  PROVE  Balanced(u, k, c)
<1>1. /\ n \in Cells /\ n # sentl /\ c \in Mem(t) \cup {sentl} /\ c \in Cells /\ c # n
  <2>1. c \in Mem(t) \cup {sentl} /\ c \in Cells
    BY CellColors
  <2>2. c # n
    BY ShapeFacts
  <2> QED BY <2>1, <2>2, MemIn
<1>2. /\ Mem(u) = Mem(t) \ {n} /\ u \in Trees
      /\ \A x \in Mem(u), r \in Sides : Ch(u, x, r) = IF Ch(t, x, r) = n THEN c ELSE Ch(t, x, r)
      /\ \A x \in Cells : x # n => Co(u, x) = Co(t, x)
      /\ Pa(u, c) = Pa(t, n)
      /\ Rt(u) = IF n = Rt(t) THEN c ELSE Rt(t)
  <2>1. Mem(u) = Mem(t) \ {n}
    BY SplicedShape
  <2> QED BY <1>1, <2>1 DEF Spliced
<1>3. /\ Co(t, sentl) = "black" /\ Co(t, Rt(t)) # "red" /\ sentl \in Cells /\ Rt(t) \in Cells
      /\ \A x \in Mem(t), e \in Sides :
           /\ ~(Co(t, x) = "red" /\ Co(t, Ch(t, x, e)) = "red")
           /\ x \in Cells /\ Ch(t, x, e) \in Cells
  BY CellColors DEF Balanced, Colored, RootBlack, Reds, Exempt
<1>4. Co(t, n) = "red" => Co(t, c) = "black"
  <2>1. Co(t, c) \in Colors
    BY <1>1, CellColors
  <2> QED BY <1>3, <2>1, ColorNames
<1>5. Colored(u, k, c)
  <2>1. ASSUME NEW x \in Mem(u), NEW e \in Sides, Co(u, x) = "red", Co(u, Ch(u, x, e)) = "red"
        PROVE  k = "remove" /\ Ch(u, x, e) = c
    <3>1. CASE Ch(t, x, e) = n
      BY <1>1, <1>2, <1>4, <2>1, <3>1
    <3>2. CASE Ch(t, x, e) # n
      BY <1>2, <1>3, <2>1, <3>2
    <3> QED BY <3>1, <3>2
  <2>2. Reds(u, k, c)
    BY <2>1 DEF Reds, Exempt
  <2>3. Co(u, sentl) = "black" /\ Co(u, c) = Co(t, c)
    BY <1>1, <1>2, <1>3
  <2>4. RootBlack(u, k, c)
    <3>1. CASE n = Rt(t)
      BY <1>2, <1>3, <3>1 DEF RootBlack
    <3>2. CASE n # Rt(t)
      BY <1>2, <1>3, <3>2 DEF RootBlack
    <3> QED BY <3>1, <3>2
  <2>5. AtWork(u, k, c)
    BY <1>1, <1>2, <1>4, <2>3 DEF AtWork
  <2> QED BY <2>2, <2>3, <2>4, <2>5 DEF Colored
<1>6. PICK r0, bh : Heights(t, bh, NULL, r0)
  BY DEF Balanced, Hole
<1>7. /\ \A x \in Mem(t), e \in Sides : bh[x] = bh[Ch(t, x, e)] + Black(t, x)
      /\ bh[sentl] = 0 /\ bh \in [Cells -> Nat]
  <2>1. \A x \in Mem(t), e \in Sides : Lost(NULL, r0, x, e) = 0
    BY MemIn DEF Lost
  <2>2. \A x \in Mem(t), e \in Sides : bh[x] = bh[Ch(t, x, e)] + Lost(NULL, r0, x, e) + Black(t, x)
    BY <1>6 DEF Heights
  <2>3. \A x \in Mem(t), e \in Sides : bh[Ch(t, x, e)] \in Nat /\ Black(t, x) \in {0, 1}
    BY <1>6, HeightTypes
  <2>4. bh[sentl] = 0 /\ bh \in [Cells -> Nat]
    BY <1>6 DEF Heights
  <2> QED BY <2>1, <2>2, <2>3, <2>4
<1>8. \A x \in Mem(u) : Black(u, x) = Black(t, x)
  BY <1>2, <1>3, MemIn, SideCases DEF Black
<1>9. bh[n] = bh[c] + Black(t, n) /\ bh[n] \in Nat /\ bh[c] \in Nat
  BY <1>1, <1>7
<1>10. CASE n = Rt(t) \/ Co(t, n) = "red"
  <2>1. Hole(u, k, c, NULL, r0)
    BY <1>2, <1>10 DEF Hole
  <2>2. ASSUME NEW x \in Mem(u), NEW e \in Sides
        PROVE  bh[x] = bh[Ch(u, x, e)] + Lost(NULL, r0, x, e) + Black(u, x)
    <3>1. bh[x] = bh[Ch(t, x, e)] + Black(t, x) /\ Lost(NULL, r0, x, e) = 0
          /\ bh[Ch(t, x, e)] \in Nat /\ Black(t, x) \in {0, 1}
      BY <1>2, <1>3, <1>7, MemIn DEF Lost, Black
    <3>2. CASE Ch(t, x, e) = n
      <4>1. n # Rt(t)
        BY <1>1, <1>2, <3>2, ShapeFacts
      <4>2. bh[n] = bh[c]
        BY <1>9, <1>10, <4>1 DEF Black
      <4> QED BY <1>2, <1>8, <3>1, <3>2, <4>2
    <3>3. CASE Ch(t, x, e) # n
      BY <1>2, <1>8, <3>1, <3>3
    <3> QED BY <3>2, <3>3
  <2>3. Heights(u, bh, NULL, r0)
    BY <1>7, <2>2 DEF Heights
  <2> QED BY <1>5, <2>1, <2>3 DEF Balanced
<1>11. CASE n # Rt(t) /\ Co(t, n) # "red"
  <2>1. PICK q, r : Pa(t, n) = q /\ SideIn(t, n) = r
    OBVIOUS
  <2>2. /\ r \in Sides /\ q \in Mem(t) /\ Ch(t, q, r) = n /\ Ch(t, q, Other(r)) # n
        /\ \A x \in Mem(t), e \in Sides : Ch(t, x, e) = n <=> x = q /\ e = r
    BY <1>11, <2>1, SideInFacts
  <2>3. q # n /\ q \in Mem(u)
    BY <1>2, <2>2, ShapeFacts
  <2>4. k = "remove" /\ Black(t, n) = 1
    <3>1. Co(t, n) \in Colors
      BY <1>1, CellColors
    <3> QED BY <1>11, <3>1, ColorNames DEF Black
  <2>5. Ch(t, q, Other(r)) # c /\ Other(r) \in Sides
    <3>1. Other(r) \in Sides
      BY <2>2, SideCases
    <3>2. CASE c = sentl
      <4>1. bh[q] = bh[n] + Black(t, q) /\ bh[q] = bh[Ch(t, q, Other(r))] + Black(t, q)
        BY <1>7, <2>2, <3>1
      <4>2. bh[Ch(t, q, Other(r))] \in Nat /\ Black(t, q) \in {0, 1}
        BY <1>3, <1>7, <2>2, <3>1 DEF Black
      <4>3. bh[n] = 1
        BY <1>7, <1>9, <2>4, <3>2
      <4>4. bh[Ch(t, q, Other(r))] = 1
        BY <4>1, <4>2, <4>3
      <4> QED BY <1>7, <3>1, <3>2, <4>4
    <3>3. CASE c # sentl
      BY <1>1, <2>2, <2>3, <3>1, <3>3, CellColors
    <3> QED BY <3>1, <3>2, <3>3
  <2>6. c # Rt(u)
    <3>1. Rt(u) = Rt(t) /\ Rt(t) \in Mem(t)
      BY <1>2, <1>11 DEF Shape
    <3>2. c = sentl => Rt(t) # c
      BY <3>1, MemIn
    <3>3. c # sentl => Rt(t) # c
      BY ShapeFacts
    <3> QED BY <3>1, <3>2, <3>3
  <2>7. Hole(u, k, c, q, r)
    <3>1. Ch(u, q, r) = c /\ Ch(u, q, Other(r)) # c /\ Pa(u, c) = q
      BY <1>2, <2>1, <2>2, <2>3, <2>5
    <3> QED BY <2>2, <2>3, <2>4, <2>6, <3>1 DEF Hole
  <2>8. ASSUME NEW x \in Mem(u), NEW e \in Sides
        PROVE  bh[x] = bh[Ch(u, x, e)] + Lost(q, r, x, e) + Black(u, x)
    <3>1. bh[x] = bh[Ch(t, x, e)] + Black(t, x)
          /\ bh[Ch(t, x, e)] \in Nat /\ Black(t, x) \in {0, 1}
      BY <1>2, <1>3, <1>7 DEF Black
    <3>2. CASE Ch(t, x, e) = n
      <4>1. Lost(q, r, x, e) = 1 /\ Ch(u, x, e) = c
        BY <1>2, <2>2, <3>2 DEF Lost
      <4> QED BY <1>8, <1>9, <2>4, <3>1, <3>2, <4>1
    <3>3. CASE Ch(t, x, e) # n
      <4>1. Lost(q, r, x, e) = 0 /\ Ch(u, x, e) = Ch(t, x, e)
        BY <1>2, <2>2, <3>3 DEF Lost
      <4> QED BY <1>8, <3>1, <4>1
    <3> QED BY <3>2, <3>3
  <2>9. Heights(u, bh, q, r)
    BY <1>7, <2>8 DEF Heights
  <2> QED BY <1>5, <2>7, <2>9 DEF Balanced
<1> QED BY <1>10, <1>11

(* A node that takes the place and the color of another one *)
LEMMA ReplacedColors ==
  ASSUME NEW t, NEW sub, NEW pos, Shape(t, sub, pos), NEW n \in Mem(t),
         NEW m \in Nodes \ Mem(t), NEW u, Replaced(t, u, n, m), Mem(u) = (Mem(t) \ {n}) \cup {m},
         NEW k \in {"remove", "done"}, NEW x \in Mem(t) \cup {sentl}, x # n, Balanced(t, k, x),
         Pa(u, x) = IF Pa(t, x) = n THEN m ELSE Pa(t, x)
  PROVE  Balanced(u, k, x)
<1> DEFINE As(y) == IF y = n THEN m ELSE y
<1>1. /\ n # sentl /\ m # sentl /\ n \in Cells /\ m \in Cells /\ m # n /\ x # m /\ x \in Cells
      /\ x \in Mem(u) \cup {sentl}
  BY Names, MemIn DEF Cells
<1>2. \A y \in Mem(t), e \in Sides :
        /\ Ch(u, As(y), e) = As(Ch(t, y, e)) /\ Ch(t, y, e) \in Cells
        /\ y # m /\ Ch(t, y, e) # m /\ y \in Cells
  <2>1. \A y \in Mem(t), e \in Sides : /\ Ch(t, y, e) \in Mem(t) \cup {sentl}
                                       /\ Ch(t, y, e) \in Cells /\ y \in Cells
    BY CellColors
  <2>2. \A e \in Sides : Ch(t, n, e) # n
    BY ShapeFacts
  <2>3. \A y \in Mem(t), e \in Sides : Ch(u, As(y), e) = As(Ch(t, y, e))
    BY <2>2 DEF Replaced
  <2> QED BY <1>1, <2>1, <2>3
<1>3. \A y \in Mem(u) : \E w \in Mem(t) : y = As(w)
  OBVIOUS
<1>4. \A y \in Cells : y # m => Co(u, As(y)) = Co(t, y)
  BY DEF Replaced
<1>5. /\ Co(t, sentl) = "black" /\ Reds(t, k, x) /\ RootBlack(t, k, x) /\ AtWork(t, k, x)
      /\ sentl \in Cells
  BY CellColors DEF Balanced, Colored
<1>6. Rt(u) = As(Rt(t)) /\ Rt(t) \in Cells /\ Rt(t) # m /\ (Rt(u) = x <=> Rt(t) = x)
  <2>1. Rt(t) \in Mem(t) \cup {sentl} /\ Rt(t) \in Cells
    BY ShapeFacts
  <2> QED BY <1>1, <2>1 DEF Replaced
<1>7. Colored(u, k, x)
  <2>1. ASSUME NEW y \in Mem(u), NEW e \in Sides, Co(u, y) = "red", Co(u, Ch(u, y, e)) = "red"
        PROVE  k = "remove" /\ x \in {y, Ch(u, y, e)}
    <3>1. PICK w \in Mem(t) : y = As(w)
      BY <1>3
    <3>2. Ch(u, y, e) = As(Ch(t, w, e)) /\ Ch(t, w, e) \in Cells /\ Ch(t, w, e) # m
          /\ w \in Cells /\ w # m
      BY <1>2, <3>1
    <3>3. Co(t, w) = "red" /\ Co(t, Ch(t, w, e)) = "red"
      <4> HIDE DEF As
      <4> QED BY <1>4, <2>1, <3>1, <3>2
    <3>4. k = "remove" /\ x \in {w, Ch(t, w, e)}
      BY <1>5, <3>3 DEF Reds, Exempt
    <3> QED BY <3>1, <3>2, <3>4
  <2>2. Reds(u, k, x)
    BY <2>1 DEF Reds, Exempt
  <2>3. Co(u, sentl) = "black" /\ Co(u, x) = Co(t, x)
    BY <1>1, <1>4, <1>5
  <2>4. RootBlack(u, k, x)
    <3>1. Co(u, Rt(u)) = Co(t, Rt(t))
      <4> HIDE DEF As
      <4> QED BY <1>4, <1>6
    <3> QED BY <1>5, <1>6, <3>1 DEF RootBlack
  <2>5. AtWork(u, k, x)
    BY <1>1, <1>5, <2>3 DEF AtWork
  <2> QED BY <2>2, <2>3, <2>4, <2>5 DEF Colored
<1>8. PICK q, r, bh : Hole(t, k, x, q, r) /\ Heights(t, bh, q, r)
  BY DEF Balanced
<1>9. q \in Mem(t) \cup {NULL} /\ NULL # n /\ NULL # m /\ q # m
  BY <1>8, MemIn, Names DEF Hole
<1>10. Hole(u, k, x, As(q), r)
  <2>1. CASE k = "remove" /\ x # Rt(t)
    <3>1. q \in Mem(t) /\ Pa(t, x) = q /\ r \in Sides /\ Ch(t, q, r) = x /\ Ch(t, q, Other(r)) # x
      BY <1>8, <2>1 DEF Hole
    <3>2. As(q) \in Mem(u) /\ Pa(u, x) = As(q) /\ Other(r) \in Sides
      BY <3>1, SideCases
    <3>3. Ch(u, As(q), r) = As(x) /\ Ch(u, As(q), Other(r)) = As(Ch(t, q, Other(r)))
          /\ Ch(t, q, Other(r)) # m
      <4> HIDE DEF As
      <4> QED BY <1>2, <3>1, <3>2
    <3>4. Ch(u, As(q), r) = x /\ Ch(u, As(q), Other(r)) # x
      BY <1>1, <3>1, <3>3
    <3> HIDE DEF As
    <3> QED BY <1>6, <2>1, <3>1, <3>2, <3>4 DEF Hole
  <2>2. CASE ~(k = "remove" /\ x # Rt(t))
    BY <1>6, <1>8, <1>9, <2>2 DEF Hole
  <2> QED BY <2>1, <2>2
<1>11. PICK bh2 : bh2 = [bh EXCEPT ![m] = bh[n]]
  OBVIOUS
<1>12. /\ bh2 \in [Cells -> Nat] /\ bh2[sentl] = 0
       /\ \A y \in Cells : y # m => bh2[As(y)] = bh[y]
  <2>1. bh \in [Cells -> Nat] /\ bh[sentl] = 0
    BY <1>8 DEF Heights
  <2> QED BY <1>1, <1>5, <1>11, <2>1
<1>13. ASSUME NEW y \in Mem(u), NEW e \in Sides
       PROVE  bh2[y] = bh2[Ch(u, y, e)] + Lost(As(q), r, y, e) + Black(u, y)
  <2>1. PICK w \in Mem(t) : y = As(w)
    BY <1>3
  <2>2. Ch(u, y, e) = As(Ch(t, w, e)) /\ Ch(t, w, e) \in Cells /\ Ch(t, w, e) # m
        /\ w \in Cells /\ w # m
    BY <1>2, <2>1
  <2>3. bh[w] = bh[Ch(t, w, e)] + Lost(q, r, w, e) + Black(t, w)
    BY <1>8 DEF Heights
  <2>4. Black(u, y) = Black(t, w)
    <3> HIDE DEF As
    <3> QED BY <1>4, <2>1, <2>2 DEF Black
  <2>5. As(q) = As(w) <=> q = w
    BY <1>9, <2>2
  <2>6. Lost(As(q), r, y, e) = Lost(q, r, w, e)
    <3> HIDE DEF As
    <3> QED BY <2>1, <2>5 DEF Lost
  <2>7. bh2[y] = bh[w] /\ bh2[Ch(u, y, e)] = bh[Ch(t, w, e)]
    <3> HIDE DEF As
    <3> QED BY <1>12, <2>1, <2>2
  <2> HIDE DEF As
  <2> QED BY <2>3, <2>4, <2>6, <2>7
<1>14. Heights(u, bh2, As(q), r)
  <2> HIDE DEF As
  <2> QED BY <1>12, <1>13 DEF Heights
<1> QED BY <1>7, <1>10, <1>14 DEF Balanced

----------------------------------------------------------------------------
(* What the assignments of an insertion and of a removal make of the tree *)

Fresh(y) == [left |-> sentl, right |-> sentl, color |-> "red", parent |-> y]

LEMMA HungFacts ==
  ASSUME NEW t \in Trees, NEW n \in Nodes, NEW y, NEW s,
         \/ Rt(t) = sentl /\ y = sentl
         \/ Rt(t) # sentl /\ y \in Nodes /\ y # n /\ s \in Sides,
         NEW u, u = IF Rt(t) = sentl THEN WithCell(WithRoot(t, n), n, Fresh(y))
                    ELSE WithCell(WithChild(t, y, s, n), n, Fresh(y))
  PROVE  Hung(t, u, n, y, s)
<1>1. n \in Cells /\ n \in Ptrs /\ sentl \in Cells /\ y \in Cells /\ y \in Ptrs
  BY DEF Cells, Ptrs
<1>2. Fresh(y) \in Cell
  BY <1>1 DEF Fresh, Cell, Ptrs, Colors
<1>3. /\ \A r \in Sides : Fresh(y)[r] = sentl
      /\ Fresh(y).parent = y /\ Fresh(y).color = "red"
  BY DEF Fresh, Sides
<1>4. PICK v : v = IF Rt(t) = sentl THEN WithRoot(t, n) ELSE WithChild(t, y, s, n)
  OBVIOUS
<1>5. /\ v \in Trees
      /\ Rt(v) = IF Rt(t) = sentl THEN n ELSE Rt(t)
      /\ \A x \in Cells, r \in Sides :
           Ch(v, x, r) = IF y # sentl /\ x = y /\ r = s THEN n ELSE Ch(t, x, r)
      /\ \A x \in Cells : Pa(v, x) = Pa(t, x) /\ Co(v, x) = Co(t, x)
  <2>1. CASE Rt(t) = sentl
    <3>1. v \in Trees /\ Rt(v) = n /\ v.at = t.at
      BY <1>1, <1>4, <2>1, SetRoot
    <3> QED BY <2>1, <3>1 DEF Ch, Pa, Co
  <2>2. CASE Rt(t) # sentl
    <3>1. y # sentl /\ s \in Sides
      BY <2>2, Names
    <3> QED BY <1>1, <1>4, <2>2, <3>1, SetChild
  <2> QED BY <2>1, <2>2
<1>6. u = WithCell(v, n, Fresh(y))
  BY <1>4
<1>7. /\ u \in Trees /\ Rt(u) = Rt(v)
      /\ \A x \in Cells : u.at[x] = IF x = n THEN Fresh(y) ELSE v.at[x]
  BY <1>1, <1>2, <1>5, <1>6, SetCell
<1>8. /\ \A x \in Cells, r \in Sides : Ch(u, x, r) = IF x = n THEN sentl ELSE Ch(v, x, r)
      /\ \A x \in Cells : /\ Pa(u, x) = IF x = n THEN y ELSE Pa(v, x)
                          /\ Co(u, x) = IF x = n THEN "red" ELSE Co(v, x)
  BY <1>3, <1>7 DEF Ch, Pa, Co
<1> QED BY <1>5, <1>7, <1>8 DEF Hung

LEMMA UnlinkFacts ==
  ASSUME NEW t \in Trees, NEW n \in Cells, NEW u, u = WithCell(t, n, Unlinked)
  PROVE  /\ u \in Trees /\ Rt(u) = Rt(t)
         /\ \A x \in Cells, r \in Sides : x # n => Ch(u, x, r) = Ch(t, x, r)
         /\ \A x \in Cells : /\ Pa(u, x) = IF x = n THEN NULL ELSE Pa(t, x)
                             /\ x # n => Co(u, x) = Co(t, x)
<1>1. Unlinked \in Cell /\ Unlinked.parent = NULL
  BY DEF Unlinked, Cell, Ptrs, Colors
<1>2. /\ u \in Trees /\ Rt(u) = Rt(t)
      /\ \A x \in Cells : u.at[x] = IF x = n THEN Unlinked ELSE t.at[x]
  BY <1>1, SetCell
<1> QED BY <1>1, <1>2 DEF Ch, Pa, Co

LEMMA SplicedFacts ==
  ASSUME NEW t, NEW sub, NEW pos, Shape(t, sub, pos), NEW n \in Mem(t),
         NEW c \in Mem(t) \cup {sentl}, c # n,
         NEW u, u = WithCell(RelinkParent(t, n, c), n, Unlinked)
  PROVE  Spliced(t, u, n, c)
<1>1. n \in Cells /\ c \in Cells /\ t \in Trees /\ n # sentl
  BY MemIn, CellColors
<1>2. PICK p : p = Pa(t, n)
  OBVIOUS
<1>3. p \in Cells /\ (p = sentl <=> n = Rt(t))
  BY <1>2, ShapeFacts
<1>4. PICK v : v = RelinkParent(t, n, c)
  OBVIOUS
<1>5. /\ v \in Trees
      /\ Rt(v) = IF p = sentl THEN c ELSE Rt(t)
      /\ \A x \in Cells, r \in Sides :
           Ch(v, x, r) = IF p # sentl /\ x = p /\ r = SideIn(t, n) THEN c ELSE Ch(t, x, r)
      /\ \A x \in Cells : /\ Pa(v, x) = IF x = c THEN p ELSE Pa(t, x)
                          /\ Co(v, x) = Co(t, x)
  BY <1>1, <1>2, <1>3, <1>4, RelinkFacts
<1>6. /\ u \in Trees /\ Rt(u) = Rt(v)
      /\ \A x \in Cells, r \in Sides : x # n => Ch(u, x, r) = Ch(v, x, r)
      /\ \A x \in Cells : /\ Pa(u, x) = IF x = n THEN NULL ELSE Pa(v, x)
                          /\ x # n => Co(u, x) = Co(v, x)
  BY <1>1, <1>4, <1>5, UnlinkFacts
<1>7. \A x \in Mem(t), r \in Sides : Ch(t, x, r) = n <=> p # sentl /\ x = p /\ r = SideIn(t, n)
  <2>1. CASE n = Rt(t)
    BY <1>1, <1>3, <2>1, ShapeFacts
  <2>2. CASE n # Rt(t)
    BY <1>2, <1>3, <2>2, SideInFacts
  <2> QED BY <2>1, <2>2
<1>8. \A x \in Mem(t) \ {n}, r \in Sides : Ch(u, x, r) = IF Ch(t, x, r) = n THEN c ELSE Ch(t, x, r)
  BY <1>5, <1>6, <1>7, MemIn
<1>9. \A x \in Cells : Pa(u, x) = IF x = n THEN NULL ELSE IF x = c THEN Pa(t, n) ELSE Pa(t, x)
  BY <1>2, <1>5, <1>6
<1>10. Rt(u) = IF n = Rt(t) THEN c ELSE Rt(t)
  BY <1>3, <1>5, <1>6
<1> QED BY <1>5, <1>6, <1>8, <1>9, <1>10 DEF Spliced

(* The parent of a node below x is below x, or is x. *)
LEMMA UpIn ==
  ASSUME NEW t, NEW sub, NEW pos, Shape(t, sub, pos), IsFiniteSet(Mem(t))
  PROVE  \A x \in Mem(t) : \A y \in sub[x] : y # x => Pa(t, y) \in sub[x]
<1> DEFINE P == {x \in Mem(t) : \E y \in sub[x] : y # x /\ Pa(t, y) \notin sub[x]}
<1>1. SUFFICES ASSUME P # {} PROVE FALSE
  OBVIOUS
<1>2. PICK x \in P : \A s \in Sides : Ch(t, x, s) \notin P
  <2>1. P \in SUBSET Mem(t)
    OBVIOUS
  <2> HIDE DEF P
  <2> QED BY <1>1, <2>1, Lowest
<1>3. PICK y \in sub[x] : y # x /\ Pa(t, y) \notin sub[x]
  BY <1>2
<1>4. x \in Mem(t) /\ x \in sub[x]
  BY <1>2, ShapeFacts
<1>5. PICK s \in Sides : y \in sub[Ch(t, x, s)]
  BY <1>3, <1>4, SideCases DEF Shape
<1>6. Ch(t, x, s) \in Mem(t) /\ sub[Ch(t, x, s)] \subseteq sub[x] /\ Pa(t, Ch(t, x, s)) = x
  <2>1. Ch(t, x, s) \in Mem(t) \cup {sentl} /\ sub[sentl] = {}
    BY <1>4 DEF Shape
  <2>2. Ch(t, x, s) # sentl
    BY <1>5, <2>1
  <2> QED BY <1>4, <2>1, <2>2, ShapeFacts, CellColors
<1>7. CASE y = Ch(t, x, s)
  BY <1>3, <1>4, <1>6, <1>7
<1>8. CASE y # Ch(t, x, s)
  BY <1>2, <1>3, <1>5, <1>6, <1>8
<1> QED BY <1>7, <1>8

(* The node m, leftmost below the right child of n, is spliced out and     *)
(* takes the place of n.                                                   *)
Hop(t, n, m) ==
  LET x == Ch(t, m, "right")
      t1 == IF m = Ch(t, n, "right") THEN WithParent(t, x, m)
            ELSE Link(Link(t, Pa(t, m), "left", x), m, "right", Ch(t, n, "right"))
      t2 == RelinkParent(Link(t1, m, "left", Ch(t, n, "left")), n, m)
  IN  Paint(t2, m, Co(t, n))

LEMMA HopFacts ==
  ASSUME NEW t, NEW sub, NEW pos, Shape(t, sub, pos), IsFiniteSet(Mem(t)),
         NEW n \in Mem(t), NEW a, Ch(t, n, "left") = a, NEW b, Ch(t, n, "right") = b,
         a # sentl, b # sentl,
         NEW m, m \in sub[b], Ch(t, m, "left") = sentl, NEW x, Ch(t, m, "right") = x,
         \A z \in sub[b] : z # m => pos[m] < pos[z],
         NEW v, Spliced(t, v, m, x), NEW u, u = WithCell(Hop(t, n, m), n, Unlinked)
  PROVE  /\ m \in Mem(t) /\ m # n /\ x # n /\ x # m
         /\ Replaced(v, u, n, m)
         /\ Pa(u, x) = IF Pa(v, x) = n THEN m ELSE Pa(v, x)
<1>1. /\ "left" \in Sides /\ "right" \in Sides /\ "left" # "right"
      /\ Other("left") = "right" /\ Other("right") = "left"
      /\ \A r \in Sides : r = "left" \/ r = "right"
  BY SideCases
<1>2. /\ a \in Mem(t) /\ b \in Mem(t) /\ a # n /\ b # n /\ a # b /\ Pa(t, a) = n /\ Pa(t, b) = n
      /\ sub[a] \cap sub[b] = {} /\ n \notin sub[b] /\ n \notin sub[a]
      /\ sub[b] \subseteq sub[n] /\ a \in sub[a] /\ b \in sub[b]
  <2>1. /\ a \in Mem(t) /\ b \in Mem(t) /\ Pa(t, a) = n /\ Pa(t, b) = n
    BY <1>1, CellColors
  <2>2. /\ a # n /\ b # n /\ a # b
        /\ sub[a] \cap sub[b] = {} /\ n \notin sub[b] /\ n \notin sub[a]
        /\ sub[b] \subseteq sub[n]
    BY <1>1, ShapeFacts
  <2>3. a \in sub[a] /\ b \in sub[b]
    BY <2>1, ShapeFacts
  <2> QED BY <2>1, <2>2, <2>3
<1>3. /\ m \in Mem(t) /\ m # n /\ m # a /\ sub[m] \subseteq sub[b] /\ m \in sub[m] /\ m # Rt(t)
  <2>1. m \in Mem(t) /\ sub[m] \subseteq sub[b]
    BY <1>2, SubIn
  <2>2. m # n /\ m # a /\ m \in sub[m]
    BY <1>2, <2>1, ShapeFacts
  <2>3. m # Rt(t)
    <3>1. m = Rt(t) => sub[m] = Mem(t)
      BY DEF Shape
    <3> QED BY <1>2, <2>1, <3>1
  <2> QED BY <2>1, <2>2, <2>3
<1>4. /\ x \in Mem(t) \cup {sentl} /\ x \in Cells /\ x # n /\ x # m /\ x # a /\ x # b
      /\ x # sentl => Pa(t, x) = m
  <2>1. x \in Mem(t) \cup {sentl} /\ x \in Cells /\ (x # sentl => Pa(t, x) = m)
    BY <1>1, <1>3, CellColors
  <2>2. x # m /\ (x # sentl => x \in sub[m]) /\ m \notin sub[x]
    BY <1>1, <1>3, ShapeFacts
  <2>3. x # sentl => x \in sub[b]
    BY <1>3, <2>2
  <2>4. n # sentl /\ a # sentl /\ b # sentl
    BY MemIn
  <2>5. x # b
    <3>1. x = b => m \in sub[x]
      BY <1>3
    <3> QED BY <2>2, <3>1
  <2>6. x # n /\ x # a
    BY <1>2, <2>3, <2>4
  <2> QED BY <2>1, <2>2, <2>5, <2>6
<1>5. /\ t \in Trees /\ n \in Cells /\ m \in Cells /\ a \in Cells /\ b \in Cells
      /\ n # sentl /\ m # sentl /\ m \in Nodes /\ n \in Nodes
  BY <1>2, <1>3, MemIn, CellColors
<1>6. PICK g : g = Pa(t, m)
  OBVIOUS
<1>7. /\ g \in Mem(t) /\ g # m /\ g \in Cells
      /\ m = b => g = n
      /\ m # b => /\ g \in sub[b] /\ g # n /\ g # a /\ Ch(t, g, "left") = m
      /\ \A z \in Mem(t), r \in Sides : Ch(t, z, r) = m <=> z = g /\ r = SideIn(t, m)
  <2>1. /\ g \in Mem(t) /\ SideIn(t, m) \in Sides /\ Ch(t, g, SideIn(t, m)) = m
        /\ \A z \in Mem(t), r \in Sides : Ch(t, z, r) = m <=> z = g /\ r = SideIn(t, m)
    BY <1>3, <1>6, SideInFacts
  <2>2. g # m /\ g \in Cells
    BY <1>3, <1>6, <2>1, ShapeFacts, MemIn
  <2>3. m = b => g = n
    BY <1>2, <1>6
  <2>4. ASSUME m # b PROVE g \in sub[b] /\ g # n /\ g # a /\ Ch(t, g, "left") = m
    <3>1. g \in sub[b]
      BY <1>2, <1>6, <2>4, UpIn
    <3>2. g # n /\ g # a
      BY <1>2, <3>1
    <3>3. SideIn(t, m) # "right"
      <4>1. pos[m] < pos[g] /\ pos \in [Nodes -> Int]
        BY <2>2, <3>1 DEF Shape
      <4>2. SideIn(t, m) = "right" => On("right", pos, m, g)
        BY <1>3, <2>1 DEF Shape
      <4>3. g \in Nodes /\ m \in Nodes
        BY <1>5, <2>1, MemIn
      <4> QED BY <4>1, <4>2, <4>3 DEF On
    <3> QED BY <1>1, <2>1, <3>1, <3>2, <3>3
  <2> QED BY <2>1, <2>2, <2>3, <2>4
<1>8. PICK p : p = Pa(t, n)
  OBVIOUS
<1>9. /\ p \in Cells /\ (p = sentl <=> n = Rt(t)) /\ p # n /\ p # m /\ p # a /\ p # b
      /\ m # b => p # g
      /\ p # sentl => p \in Mem(t)
  <2>1. p \in Cells /\ (p = sentl <=> n = Rt(t)) /\ p # n
    BY <1>8, ShapeFacts
  <2>2. CASE p = sentl
    BY <1>2, <1>5, <1>7, <2>1, <2>2, MemIn
  <2>3. CASE p # sentl
    <3>1. p \in Mem(t) /\ Ch(t, p, SideIn(t, n)) = n /\ SideIn(t, n) \in Sides
      BY <1>8, <2>1, <2>3, SideInFacts
    <3>2. p \notin sub[n]
      BY <1>5, <3>1, ShapeFacts
    <3>3. m \in sub[n] /\ b \in sub[n] /\ a \in sub[n] /\ (m # b => g \in sub[n])
      <4>1. a \in sub[n]
        BY <1>1, ShapeFacts
      <4> QED BY <1>2, <1>7, <4>1
    <3> QED BY <2>1, <3>1, <3>2, <3>3
  <2> QED BY <2>2, <2>3
<1>10. PICK t1 : t1 = IF m = b THEN WithParent(t, x, m)
                      ELSE Link(Link(t, g, "left", x), m, "right", b)
  OBVIOUS
<1>11. PICK t3 : t3 = Link(t1, m, "left", a)
  OBVIOUS
<1>12. PICK t2 : t2 = RelinkParent(t3, n, m)
  OBVIOUS
<1>13. PICK clr, t4 : clr = Co(t, n) /\ t4 = Paint(t2, m, clr)
  OBVIOUS
<1>14. u = WithCell(t4, n, Unlinked)
  BY <1>6, <1>10, <1>11, <1>12, <1>13 DEF Hop
<1>15. /\ t1 \in Trees /\ Rt(t1) = Rt(t)
       /\ \A z \in Cells, r \in Sides :
            Ch(t1, z, r) = IF m # b /\ z = m /\ r = "right" THEN b
                           ELSE IF m # b /\ z = g /\ r = "left" THEN x ELSE Ch(t, z, r)
       /\ \A z \in Cells :
            /\ Pa(t1, z) = IF m # b /\ z = b THEN m
                           ELSE IF z = x THEN (IF m = b THEN m ELSE g) ELSE Pa(t, z)
            /\ Co(t1, z) = Co(t, z)
  <2>1. CASE m = b
    <3>1. m \in Ptrs
      BY <1>5 DEF Ptrs
    <3>2. t1 = WithParent(t, x, m)
      BY <1>10, <2>1
    <3>3. /\ t1 \in Trees /\ Rt(t1) = Rt(t)
          /\ \A z \in Cells, r \in Sides : Ch(t1, z, r) = Ch(t, z, r)
          /\ \A z \in Cells : /\ Pa(t1, z) = IF z = x THEN m ELSE Pa(t, z)
                              /\ Co(t1, z) = Co(t, z)
      BY <1>4, <1>5, <3>1, <3>2, SetParent
    <3> QED BY <2>1, <3>3
  <2>2. CASE m # b
    <3>1. PICK w : w = Link(t, g, "left", x)
      OBVIOUS
    <3>2. t1 = Link(w, m, "right", b)
      BY <1>10, <2>2, <3>1
    <3>3. /\ w \in Trees /\ Rt(w) = Rt(t)
          /\ \A z \in Cells, r \in Sides :
               Ch(w, z, r) = IF z = g /\ r = "left" THEN x ELSE Ch(t, z, r)
          /\ \A z \in Cells : /\ Pa(w, z) = IF z = x THEN g ELSE Pa(t, z)
                              /\ Co(w, z) = Co(t, z)
      <4>1. t \in Trees /\ g \in Cells /\ "left" \in Sides /\ x \in Cells
        BY <1>1, <1>4, <1>5, <1>7
      <4> QED BY <3>1, <4>1, LinkFacts
    <3>4. /\ t1 \in Trees /\ Rt(t1) = Rt(w)
          /\ \A z \in Cells, r \in Sides :
               Ch(t1, z, r) = IF z = m /\ r = "right" THEN b ELSE Ch(w, z, r)
          /\ \A z \in Cells : /\ Pa(t1, z) = IF z = b THEN m ELSE Pa(w, z)
                              /\ Co(t1, z) = Co(w, z)
      <4>1. w \in Trees /\ m \in Cells /\ "right" \in Sides /\ b \in Cells
        BY <1>1, <1>5, <3>3
      <4> QED BY <3>2, <4>1, LinkFacts
    <3> QED BY <2>2, <3>3, <3>4
  <2> QED BY <2>1, <2>2
<1>16. /\ t3 \in Trees /\ Rt(t3) = Rt(t)
       /\ \A z \in Cells, r \in Sides :
            Ch(t3, z, r) = IF z = m /\ r = "left" THEN a ELSE Ch(t1, z, r)
       /\ \A z \in Cells : /\ Pa(t3, z) = IF z = a THEN m ELSE Pa(t1, z)
                           /\ Co(t3, z) = Co(t, z)
  <2>1. /\ t3 \in Trees /\ Rt(t3) = Rt(t1)
        /\ \A z \in Cells, r \in Sides :
             Ch(t3, z, r) = IF z = m /\ r = "left" THEN a ELSE Ch(t1, z, r)
        /\ \A z \in Cells : /\ Pa(t3, z) = IF z = a THEN m ELSE Pa(t1, z)
                            /\ Co(t3, z) = Co(t1, z)
    <3>1. t1 \in Trees /\ m \in Cells /\ "left" \in Sides /\ a \in Cells
      BY <1>1, <1>5, <1>15
    <3> QED BY <1>11, <3>1, LinkFacts
  <2> QED BY <1>15, <2>1
<1>17. Pa(t3, n) = p /\ (p # sentl => SideIn(t3, n) = SideIn(t, n))
  <2>1. Pa(t3, n) = p
    BY <1>2, <1>4, <1>5, <1>8, <1>15, <1>16
  <2>2. p # sentl => Ch(t3, p, "left") = Ch(t, p, "left")
    BY <1>1, <1>9, <1>15, <1>16
  <2> QED BY <1>8, <2>1, <2>2 DEF SideIn
<1>18. /\ t2 \in Trees
       /\ Rt(t2) = IF p = sentl THEN m ELSE Rt(t)
       /\ \A z \in Cells, r \in Sides :
            Ch(t2, z, r) = IF p # sentl /\ z = p /\ r = SideIn(t, n) THEN m ELSE Ch(t3, z, r)
       /\ \A z \in Cells : /\ Pa(t2, z) = IF z = m THEN p ELSE Pa(t3, z)
                           /\ Co(t2, z) = Co(t, z)
  <2>1. /\ t2 \in Trees
        /\ Rt(t2) = IF p = sentl THEN m ELSE Rt(t3)
        /\ \A z \in Cells, r \in Sides :
             Ch(t2, z, r) = IF p # sentl /\ z = p /\ r = SideIn(t3, n) THEN m ELSE Ch(t3, z, r)
        /\ \A z \in Cells : /\ Pa(t2, z) = IF z = m THEN p ELSE Pa(t3, z)
                            /\ Co(t2, z) = Co(t3, z)
    <3>1. t3 \in Trees /\ n \in Cells /\ m \in Cells /\ p \in Cells /\ Pa(t3, n) = p
      BY <1>5, <1>9, <1>16, <1>17
    <3> QED BY <1>12, <3>1, RelinkFacts
  <2> QED BY <1>16, <1>17, <2>1
<1>19. /\ t4 \in Trees /\ Rt(t4) = Rt(t2)
       /\ \A z \in Cells, r \in Sides : Ch(t4, z, r) = Ch(t2, z, r)
       /\ \A z \in Cells : /\ Pa(t4, z) = Pa(t2, z)
                           /\ Co(t4, z) = IF z = m THEN clr ELSE Co(t2, z)
  <2>1. clr \in Colors
    BY <1>5, <1>13, CellColors
  <2> QED BY <1>5, <1>13, <1>18, <2>1, PaintFacts
<1>20. /\ u \in Trees /\ Rt(u) = Rt(t4)
       /\ \A z \in Cells, r \in Sides : z # n => Ch(u, z, r) = Ch(t4, z, r)
       /\ \A z \in Cells : /\ Pa(u, z) = IF z = n THEN NULL ELSE Pa(t4, z)
                           /\ z # n => Co(u, z) = Co(t4, z)
  BY <1>5, <1>14, <1>19, UnlinkFacts
<1>21. /\ v \in Trees /\ Rt(v) = Rt(t) /\ Mem(v) = Mem(t) \ {m}
       /\ \A z \in Mem(t) \ {m}, r \in Sides :
            Ch(v, z, r) = IF Ch(t, z, r) = m THEN x ELSE Ch(t, z, r)
       /\ \A z \in Cells : Pa(v, z) = IF z = m THEN NULL ELSE IF z = x THEN g ELSE Pa(t, z)
       /\ \A z \in Cells \ {m} : Co(v, z) = Co(t, z)
  <2>1. Mem(v) = Mem(t) \ {m}
    BY <1>1, <1>3, SplicedShape
  <2> QED BY <1>3, <1>6, <2>1 DEF Spliced
<1>22. \A z \in Mem(t), r \in Sides : Ch(t, z, r) = n <=> p # sentl /\ z = p /\ r = SideIn(t, n)
  <2>1. CASE n = Rt(t)
    BY <1>5, <1>9, <2>1, ShapeFacts
  <2>2. CASE n # Rt(t)
    BY <1>8, <1>9, <2>2, SideInFacts
  <2> QED BY <2>1, <2>2
<1>23. ASSUME NEW z \in Mem(v) \ {n}, NEW r \in Sides
       PROVE  Ch(u, z, r) = IF Ch(v, z, r) = n THEN m ELSE Ch(v, z, r)
  <2>1. z \in Mem(t) /\ z # m /\ z # n /\ z \in Cells
    BY <1>21, MemIn, SideCases
  <2>2. Ch(u, z, r) = IF p # sentl /\ z = p /\ r = SideIn(t, n) THEN m ELSE Ch(t3, z, r)
    BY <1>18, <1>19, <1>20, <2>1
  <2>3. Ch(t3, z, r) = IF m # b /\ z = g /\ r = "left" THEN x ELSE Ch(t, z, r)
    BY <1>15, <1>16, <2>1
  <2>4. Ch(v, z, r) = IF Ch(t, z, r) = m THEN x ELSE Ch(t, z, r)
    BY <1>21, <2>1
  <2>5. Ch(t, z, r) = m <=> m # b /\ z = g /\ r = "left"
    <3>1. CASE m = b
      BY <1>7, <2>1, <3>1
    <3>2. CASE m # b
      BY <1>1, <1>7, <2>1, <3>2
    <3> QED BY <3>1, <3>2
  <2>6. Ch(t, z, r) = n <=> p # sentl /\ z = p /\ r = SideIn(t, n)
    BY <1>22, <2>1
  <2> QED BY <1>3, <1>4, <2>2, <2>3, <2>4, <2>5, <2>6
<1>24. ASSUME NEW r \in Sides PROVE Ch(u, m, r) = Ch(v, n, r)
  <2>1. Ch(u, m, r) = Ch(t3, m, r)
    BY <1>5, <1>3, <1>9, <1>18, <1>19, <1>20
  <2>2. Ch(t3, m, "left") = a /\ Ch(t3, m, "right") = IF m # b THEN b ELSE x
    BY <1>1, <1>5, <1>7, <1>15, <1>16
  <2>3. Ch(v, n, "left") = a /\ Ch(v, n, "right") = IF m = b THEN x ELSE b
    BY <1>1, <1>3, <1>21
  <2> QED BY <1>1, <2>1, <2>2, <2>3
<1>25. Pa(u, m) = Pa(v, n) /\ Pa(u, n) = NULL /\ Co(u, m) = Co(v, n)
  BY <1>3, <1>4, <1>5, <1>8, <1>13, <1>18, <1>19, <1>20, <1>21
<1>26. ASSUME NEW z \in Cells, z # n, z # m, z \in Nodes \/ z = x
       PROVE  Pa(u, z) = IF Pa(v, z) = n THEN m ELSE Pa(v, z)
  <2>1. Pa(u, z) = IF z = a THEN m ELSE IF m # b /\ z = b THEN m
                   ELSE IF z = x THEN (IF m = b THEN m ELSE g) ELSE Pa(t, z)
    BY <1>15, <1>16, <1>18, <1>19, <1>20, <1>26
  <2>2. Pa(v, z) = IF z = x THEN g ELSE Pa(t, z)
    BY <1>21, <1>26
  <2>3. CASE z = x
    BY <1>4, <1>7, <2>1, <2>2, <2>3
  <2>4. CASE z # x /\ z \in {a, b}
    BY <1>2, <1>26, <2>1, <2>2, <2>4
  <2>5. CASE z # x /\ z \notin {a, b}
    <3>1. Pa(t, z) # n
      <4>1. ASSUME Pa(t, z) = n PROVE FALSE
        <5>1. z \in Nodes /\ n # NULL
          BY <1>26, <2>5, MemIn
        <5>2. z \in Mem(t) /\ z # Rt(t)
          BY <1>5, <4>1, <5>1, ShapeFacts DEF Mem
        <5>3. PICK r \in Sides : Ch(t, n, r) = z
          BY <4>1, <5>2 DEF Shape
        <5> QED BY <1>1, <2>5, <5>3
      <4> QED BY <4>1
    <3> QED BY <2>1, <2>2, <2>5, <3>1
  <2> QED BY <2>3, <2>4, <2>5, <1>26
<1>27. \A z \in Cells \ {n, m} : Co(u, z) = Co(v, z)
  BY <1>18, <1>19, <1>20, <1>21
<1>28. Rt(u) = IF n = Rt(v) THEN m ELSE Rt(v)
  BY <1>9, <1>18, <1>19, <1>20, <1>21
<1>29. Replaced(v, u, n, m)
  <2>1. \A z \in Nodes \ {n, m} : Pa(u, z) = IF Pa(v, z) = n THEN m ELSE Pa(v, z)
    BY <1>26 DEF Cells
  <2> QED BY <1>20, <1>23, <1>24, <1>25, <1>27, <1>28, <2>1 DEF Replaced
<1> QED BY <1>3, <1>4, <1>26, <1>29

----------------------------------------------------------------------------
(* Ways down: at each node the way goes on to nx[y], a child of y, and ends *)
(* where that is the sentinel.                                             *)

Goes(t, nx) ==
  \A y \in Mem(t) : nx[y] = sentl \/ (nx[y] # sentl /\ \E s \in Sides : Ch(t, y, s) = nx[y])

(* y is the end of the way from x. *)
Ends(t, sub, nx, x, y) ==
  /\ y \in sub[x] /\ nx[y] = sentl
  /\ \A z \in sub[x], r \in Sides : y \in sub[Ch(t, z, r)] => Ch(t, z, r) = nx[z]

LEMMA EndsStep ==
  ASSUME NEW t, NEW sub, NEW pos, Shape(t, sub, pos), IsFiniteSet(Mem(t)),
         NEW nx, Goes(t, nx), NEW x \in Mem(t)
  PROVE  /\ nx[x] = sentl => \A y : Ends(t, sub, nx, x, y) <=> y = x
         /\ nx[x] # sentl => /\ nx[x] \in Mem(t) /\ nx[x] \in sub[x]
                             /\ \A y : Ends(t, sub, nx, x, y) <=> Ends(t, sub, nx, nx[x], y)
<1>1. x \in sub[x] /\ sub[sentl] = {}
  BY ShapeFacts DEF Shape
<1>2. /\ \A z \in sub[x] : z \in Mem(t) /\ sub[z] \subseteq sub[x]
      /\ \A z \in Mem(t), r \in Sides :
           /\ z \notin sub[Ch(t, z, r)] /\ z \in sub[z]
           /\ sub[Ch(t, z, r)] \subseteq sub[z]
  BY SubIn, ShapeFacts
<1>3. ASSUME nx[x] = sentl, NEW y
      PROVE  Ends(t, sub, nx, x, y) <=> y = x
  <2>1. ASSUME Ends(t, sub, nx, x, y), y # x PROVE FALSE
    <3>1. y \in sub[x] /\ \A r \in Sides : y \in sub[Ch(t, x, r)] => Ch(t, x, r) = nx[x]
      BY <1>1, <2>1 DEF Ends
    <3>2. PICK r \in Sides : y \in sub[Ch(t, x, r)]
      BY <2>1, <3>1, SideCases DEF Shape
    <3> QED BY <1>1, <1>3, <3>1, <3>2
  <2>2. ASSUME NEW z \in sub[x], NEW r \in Sides PROVE x \notin sub[Ch(t, z, r)]
    <3>1. z \in Mem(t) /\ z \notin sub[Ch(t, z, r)] /\ sub[Ch(t, z, r)] \subseteq sub[z]
      BY <1>2
    <3>2. ASSUME x \in sub[Ch(t, z, r)] PROVE FALSE
      <4>1. Ch(t, z, r) \in Mem(t)
        BY <1>1, <3>1, <3>2, CellColors
      <4>2. sub[x] \subseteq sub[Ch(t, z, r)]
        BY <3>2, <4>1, SubIn
      <4> QED BY <3>1, <4>2
    <3> QED BY <3>2
  <2>3. Ends(t, sub, nx, x, x)
    BY <1>1, <1>3, <2>2 DEF Ends
  <2> QED BY <2>1, <2>3
<1>4. ASSUME nx[x] # sentl
      PROVE  /\ nx[x] \in Mem(t) /\ nx[x] \in sub[x]
             /\ \A y : Ends(t, sub, nx, x, y) <=> Ends(t, sub, nx, nx[x], y)
  <2>1. PICK c : nx[x] = c
    OBVIOUS
  <2>2. PICK s \in Sides : Ch(t, x, s) = c
    BY <1>4, <2>1 DEF Goes
  <2>3. /\ c \in Mem(t) /\ c \in sub[x] /\ x \notin sub[c] /\ sub[c] \subseteq sub[x]
        /\ sub[c] \cap sub[Ch(t, x, Other(s))] = {} /\ Other(s) \in Sides
    <3>1. c \in Mem(t) \cup {sentl} /\ c # sentl
      BY <1>4, <2>1, <2>2, CellColors
    <3>2. x \notin sub[c] /\ c \in sub[x] /\ sub[c] \subseteq sub[x]
          /\ sub[c] \cap sub[Ch(t, x, Other(s))] = {}
      BY <2>2, <3>1, ShapeFacts
    <3> QED BY <3>1, <3>2, SideCases
  <2>4. ASSUME NEW y, Ends(t, sub, nx, x, y) PROVE Ends(t, sub, nx, c, y)
    <3>1. /\ y \in sub[x] /\ nx[y] = sentl
          /\ \A z \in sub[x], r \in Sides : y \in sub[Ch(t, z, r)] => Ch(t, z, r) = nx[z]
      BY <2>4 DEF Ends
    <3>2. y # x
      BY <1>4, <3>1
    <3>3. PICK r \in Sides : y \in sub[Ch(t, x, r)]
      BY <3>1, <3>2, SideCases DEF Shape
    <3>4. y \in sub[c]
      BY <1>1, <2>1, <3>1, <3>3
    <3> QED BY <2>3, <3>1, <3>4 DEF Ends
  <2>5. ASSUME NEW y, Ends(t, sub, nx, c, y) PROVE Ends(t, sub, nx, x, y)
    <3>1. /\ y \in sub[c] /\ nx[y] = sentl
          /\ \A z \in sub[c], r \in Sides : y \in sub[Ch(t, z, r)] => Ch(t, z, r) = nx[z]
      BY <2>5 DEF Ends
    <3>2. ASSUME NEW z \in sub[x], NEW r \in Sides, y \in sub[Ch(t, z, r)]
          PROVE  Ch(t, z, r) = nx[z]
      <4>1. CASE z = x
        <5>1. r = s \/ r = Other(s)
          BY SideCases
        <5> QED BY <2>1, <2>2, <2>3, <3>1, <3>2, <4>1, <5>1
      <4>2. CASE z \in sub[c]
        BY <3>1, <3>2, <4>2
      <4>3. CASE z # x /\ z \notin sub[c]
        <5>1. z \in sub[Ch(t, x, Other(s))]
          <6>1. PICK e \in Sides : z \in sub[Ch(t, x, e)]
            BY <4>3, SideCases DEF Shape
          <6>2. e = s \/ e = Other(s)
            BY SideCases
          <6> QED BY <2>2, <4>3, <6>1, <6>2
        <5>2. Ch(t, x, Other(s)) \in Mem(t)
          BY <1>1, <2>3, <5>1, CellColors
        <5>3. sub[z] \subseteq sub[Ch(t, x, Other(s))] /\ z \in Mem(t)
          BY <5>1, <5>2, SubIn
        <5>4. y \in sub[z]
          BY <1>2, <3>2, <5>3
        <5> QED BY <2>3, <3>1, <5>3, <5>4
      <4> QED BY <4>1, <4>2, <4>3
    <3> QED BY <2>3, <3>1, <3>2 DEF Ends
  <2> QED BY <2>1, <2>3, <2>4, <2>5
<1> QED BY <1>3, <1>4

IsTheEnd(t, sub, nx, x, y) == \A z : Ends(t, sub, nx, x, z) <=> z = y

HasOneEnd(t, sub, nx, x) == \E y : IsTheEnd(t, sub, nx, x, y)

LEMMA EndsOne ==
  ASSUME NEW t, NEW sub, NEW pos, Shape(t, sub, pos), IsFiniteSet(Mem(t)),
         NEW nx, Goes(t, nx)
  PROVE  \A x \in Mem(t) : HasOneEnd(t, sub, nx, x)
<1> DEFINE P == {x \in Mem(t) : ~HasOneEnd(t, sub, nx, x)}
<1>1. SUFFICES ASSUME P # {} PROVE FALSE
  OBVIOUS
<1>2. PICK x \in P : \A s \in Sides : Ch(t, x, s) \notin P
  <2>1. P \in SUBSET Mem(t)
    OBVIOUS
  <2> HIDE DEF P
  <2> QED BY <1>1, <2>1, Lowest
<1>3. x \in Mem(t)
  BY <1>2
<1>4. CASE nx[x] = sentl
  <2>1. \A y : Ends(t, sub, nx, x, y) <=> y = x
    BY <1>3, <1>4, EndsStep
  <2>2. HasOneEnd(t, sub, nx, x)
    BY <2>1 DEF HasOneEnd, IsTheEnd
  <2> QED BY <1>2, <2>2
<1>5. CASE nx[x] # sentl
  <2>1. nx[x] \in Mem(t) /\ \A y : Ends(t, sub, nx, x, y) <=> Ends(t, sub, nx, nx[x], y)
    BY <1>3, <1>5, EndsStep
  <2>2. nx[x] \notin P
    BY <1>2, <1>3, <1>5 DEF Goes
  <2>3. HasOneEnd(t, sub, nx, nx[x])
    BY <2>1, <2>2
  <2>4. HasOneEnd(t, sub, nx, x)
    BY <2>1, <2>3 DEF HasOneEnd, IsTheEnd
  <2> QED BY <1>2, <2>4
<1> QED BY <1>4, <1>5

LEMMA WayDown ==
  ASSUME NEW t, NEW sub, NEW pos, Shape(t, sub, pos), IsFiniteSet(Mem(t)),
         NEW nx, Goes(t, nx)
  PROVE  /\ \E f : f = [y \in Mem(t) |-> IF nx[y] = sentl THEN y ELSE f[nx[y]]]
         /\ \A f : f = [y \in Mem(t) |-> IF nx[y] = sentl THEN y ELSE f[nx[y]]] =>
              \A x \in Mem(t) : Ends(t, sub, nx, x, f[x])
<1>1. \E f : f = [y \in Mem(t) |-> IF nx[y] = sentl THEN y ELSE f[nx[y]]]
  <2>1. PICK f : f = [x \in Mem(t) |-> CHOOSE y : IsTheEnd(t, sub, nx, x, y)]
    OBVIOUS
  <2>2. \A x \in Mem(t) : \A z : Ends(t, sub, nx, x, z) <=> z = f[x]
    <3>1. ASSUME NEW x \in Mem(t) PROVE \A z : Ends(t, sub, nx, x, z) <=> z = f[x]
      <4>1. HasOneEnd(t, sub, nx, x)
        BY EndsOne
      <4>2. f[x] = CHOOSE y : IsTheEnd(t, sub, nx, x, y)
        BY <2>1
      <4>3. IsTheEnd(t, sub, nx, x, f[x])
        BY <4>1, <4>2 DEF HasOneEnd
      <4> QED BY <4>3 DEF IsTheEnd
    <3> QED BY <3>1
  <2>3. ASSUME NEW x \in Mem(t) PROVE f[x] = IF nx[x] = sentl THEN x ELSE f[nx[x]]
    <3>1. CASE nx[x] = sentl
      BY <2>2, <3>1, EndsStep
    <3>2. CASE nx[x] # sentl
      <4>1. nx[x] \in Mem(t) /\ \A y : Ends(t, sub, nx, x, y) <=> Ends(t, sub, nx, nx[x], y)
        BY <3>2, EndsStep
      <4> QED BY <2>2, <3>2, <4>1
    <3> QED BY <3>1, <3>2
  <2>4. f = [y \in Mem(t) |-> IF nx[y] = sentl THEN y ELSE f[nx[y]]]
    BY <2>1, <2>3
  <2> QED BY <2>4
<1>2. ASSUME NEW f, f = [y \in Mem(t) |-> IF nx[y] = sentl THEN y ELSE f[nx[y]]]
      PROVE  \A x \in Mem(t) : Ends(t, sub, nx, x, f[x])
  <2> DEFINE P == {x \in Mem(t) : ~Ends(t, sub, nx, x, f[x])}
  <2>1. SUFFICES ASSUME P # {} PROVE FALSE
    OBVIOUS
  <2>2. PICK x \in P : \A s \in Sides : Ch(t, x, s) \notin P
    <3>1. P \in SUBSET Mem(t)
      OBVIOUS
    <3> HIDE DEF P
    <3> QED BY <2>1, <3>1, Lowest
  <2>3. x \in Mem(t) /\ ~Ends(t, sub, nx, x, f[x])
    BY <2>2
  <2>4. f[x] = IF nx[x] = sentl THEN x ELSE f[nx[x]]
    <3>1. \A y \in Mem(t) : f[y] = IF nx[y] = sentl THEN y ELSE f[nx[y]]
      BY <1>2
    <3> QED BY <2>3, <3>1
  <2>5. CASE nx[x] = sentl
    <3>1. \A y : Ends(t, sub, nx, x, y) <=> y = x
      BY <2>3, <2>5, EndsStep
    <3> QED BY <2>3, <2>4, <2>5, <3>1
  <2>6. CASE nx[x] # sentl
    <3>1. nx[x] \in Mem(t) /\ \A y : Ends(t, sub, nx, x, y) <=> Ends(t, sub, nx, nx[x], y)
      BY <2>3, <2>6, EndsStep
    <3>2. nx[x] \notin P
      BY <2>2, <2>3, <2>6 DEF Goes
    <3>3. Ends(t, sub, nx, nx[x], f[nx[x]])
      BY <3>1, <3>2
    <3> QED BY <2>3, <2>4, <2>6, <3>1, <3>3
  <2> QED BY <2>5, <2>6
<1> QED BY <1>1, <1>2

(* The way to the left ends at the first node in the order. *)
LEMMA LeftmostIsFirst ==
  ASSUME NEW t, NEW sub, NEW pos, Shape(t, sub, pos), IsFiniteSet(Mem(t)),
         NEW nx, \A y \in Mem(t) : nx[y] = Ch(t, y, "left")
  PROVE  \A x \in Mem(t) : \A y : Ends(t, sub, nx, x, y) =>
           \A a \in sub[x] : a # y => pos[y] < pos[a]
<1>1. Goes(t, nx) /\ "left" \in Sides /\ "right" \in Sides
  BY SideCases DEF Goes
<1> DEFINE P == {x \in Mem(t) : \E y : /\ Ends(t, sub, nx, x, y)
                                      /\ \E a \in sub[x] : a # y /\ ~(pos[y] < pos[a])}
<1>2. SUFFICES ASSUME P # {} PROVE FALSE
  OBVIOUS
<1>3. PICK x \in P : \A s \in Sides : Ch(t, x, s) \notin P
  <2>1. P \in SUBSET Mem(t)
    OBVIOUS
  <2> HIDE DEF P
  <2> QED BY <1>2, <2>1, Lowest
<1>4. PICK y, a : Ends(t, sub, nx, x, y) /\ a \in sub[x] /\ a # y /\ ~(pos[y] < pos[a])
  BY <1>3
<1>5. PICK l, r : Ch(t, x, "left") = l /\ Ch(t, x, "right") = r
  OBVIOUS
<1>6. /\ x \in Mem(t) /\ nx[x] = l
      /\ sub[x] = {x} \cup sub[l] \cup sub[r]
      /\ \A b \in sub[l] : On("left", pos, b, x)
      /\ \A b \in sub[r] : On("right", pos, b, x)
  BY <1>1, <1>3, <1>5 DEF Shape
<1>7. \A b \in sub[x] : b \in Nodes /\ pos[b] \in Int
  BY <1>6, SubIn, MemIn DEF Shape
<1>8. \A b \in sub[l] : pos[b] < pos[x]
  BY <1>6 DEF On
<1>9. \A b \in sub[r] : pos[x] < pos[b]
  BY <1>6 DEF On
<1>10. CASE l = sentl
  <2>1. y = x
    BY <1>1, <1>4, <1>6, <1>10, EndsStep
  <2>2. sub[l] = {}
    BY <1>10 DEF Shape
  <2> QED BY <1>4, <1>6, <1>9, <2>1, <2>2
<1>11. CASE l # sentl
  <2>1. l \in Mem(t) /\ Ends(t, sub, nx, l, y)
    BY <1>1, <1>4, <1>6, <1>11, EndsStep
  <2>2. y \in sub[l]
    BY <2>1 DEF Ends
  <2>3. l \notin P
    BY <1>1, <1>3, <1>5
  <2>4. \A b \in sub[l] : b # y => pos[y] < pos[b]
    BY <2>1, <2>3
  <2>5. pos[y] < pos[x] /\ pos[y] \in Int /\ pos[x] \in Int /\ pos[a] \in Int
    BY <1>4, <1>6, <1>7, <1>8, <2>2
  <2>6. a \in sub[r] => pos[x] < pos[a]
    BY <1>9
  <2> HIDE DEF P
  <2> QED BY <1>4, <1>6, <2>4, <2>5, <2>6
<1> QED BY <1>10, <1>11

----------------------------------------------------------------------------
(* The way up to the next node *)

Distinct(t, pos) == \A a \in Mem(t), b \in Mem(t) : a # b => pos[a] # pos[b]

(* m is the node after n, or the sentinel after the last one. *)
Follows(t, pos, n, m) ==
  IF m = sentl THEN \A z \in Mem(t) : ~(pos[n] < pos[z])
  ELSE /\ m \in Mem(t) /\ pos[n] < pos[m]
       /\ \A z \in Mem(t) : pos[n] < pos[z] /\ z # m => pos[m] < pos[z]

(* The nodes after all that are below y, and the first of them *)
Above(t, sub, pos, y) == {z \in Mem(t) : \A a \in sub[y] : pos[a] < pos[z]}

IsBeyond(t, sub, pos, y, m) ==
  IF Above(t, sub, pos, y) = {} THEN m = sentl
  ELSE /\ m \in Above(t, sub, pos, y)
       /\ \A z \in Above(t, sub, pos, y) : z # m => pos[m] < pos[z]

IsRight(t, y) == Pa(t, y) # sentl /\ y = Ch(t, Pa(t, y), "right")

LEMMA UpStep ==
  ASSUME NEW t, NEW sub, NEW pos, Shape(t, sub, pos), IsFiniteSet(Mem(t)), Distinct(t, pos),
         NEW y \in Mem(t)
  PROVE  /\ IsRight(t, y) => /\ y # Rt(t) /\ Pa(t, y) \in Mem(t)
                             /\ Above(t, sub, pos, y) = Above(t, sub, pos, Pa(t, y))
         /\ ~IsRight(t, y) => IsBeyond(t, sub, pos, y, Pa(t, y))
<1>1. PICK p : Pa(t, y) = p
  OBVIOUS
<1>2. /\ y \in sub[y] /\ (p = sentl <=> y = Rt(t)) /\ sub[y] \subseteq Mem(t)
      /\ \A z \in Mem(t) : z \in Nodes /\ pos[z] \in Int /\ z # sentl
  <2>1. y \in sub[y] /\ (p = sentl <=> y = Rt(t))
    BY <1>1, ShapeFacts
  <2>2. sub[y] \subseteq Mem(t) /\ pos \in [Nodes -> Int]
    BY MemIn DEF Shape
  <2> QED BY <2>1, <2>2, MemIn
<1>3. CASE y = Rt(t)
  <2>1. sub[y] = Mem(t) /\ p = sentl
    BY <1>2, <1>3 DEF Shape
  <2>2. Above(t, sub, pos, y) = {}
    BY <1>2, <2>1 DEF Above
  <2> QED BY <1>1, <2>1, <2>2 DEF IsRight, IsBeyond
<1>4. CASE y # Rt(t)
  <2>1. p \in Mem(t) /\ p # sentl /\ \E s \in Sides : Ch(t, p, s) = y
    BY <1>1, <1>2, <1>4 DEF Shape
  <2>2. PICK s \in Sides : Ch(t, p, s) = y
    BY <2>1
  <2>3. PICK d : d = Ch(t, p, Other(s))
    OBVIOUS
  <2>4. /\ sub[p] = {p} \cup sub[y] \cup sub[d] /\ sub[p] \subseteq Mem(t)
        /\ \A a \in sub[y] : On(s, pos, a, p)
        /\ \A a \in sub[d] : On(Other(s), pos, a, p)
    <3>1. sub[p] = {p} \cup sub[Ch(t, p, "left")] \cup sub[Ch(t, p, "right")]
      BY <2>1 DEF Shape
    <3>2. sub[p] \subseteq Mem(t)
      BY <2>1, MemIn DEF Shape
    <3>3. /\ \A a \in sub[y] : On(s, pos, a, p)
          /\ \A a \in sub[d] : On(Other(s), pos, a, p)
      BY <2>1, <2>2, <2>3, SideCases DEF Shape
    <3> QED BY <2>2, <2>3, <3>1, <3>2, <3>3, SideCases
  <2>5. ASSUME NEW z \in Mem(t), z \notin sub[p], NEW a \in sub[p], NEW b \in sub[p]
        PROVE  pos[a] < pos[z] => pos[b] < pos[z]
    <3>1. pos[z] < pos[a] <=> pos[z] < pos[b]
      BY <2>1, <2>5, Convex
    <3>2. pos[b] # pos[z] /\ pos[a] \in Int /\ pos[b] \in Int /\ pos[z] \in Int
      BY <1>2, <2>4, <2>5 DEF Distinct
    <3> QED BY <3>1, <3>2
  <2>6. p \in sub[p] /\ y \in sub[p]
    BY <1>2, <2>4
  <2>7. CASE s = "right"
    <3>1. IsRight(t, y)
      BY <1>1, <2>1, <2>2, <2>7 DEF IsRight
    <3>2. \A a \in sub[y] : pos[p] < pos[a]
      BY <2>4, <2>7 DEF On
    <3>3. \A a \in sub[d] : pos[a] < pos[p]
      BY <2>4, <2>7, SideCases DEF On
    <3>4. ASSUME NEW z \in Above(t, sub, pos, y) PROVE z \in Above(t, sub, pos, p)
      <4>1. z \in Mem(t) /\ \A a \in sub[y] : pos[a] < pos[z]
        BY DEF Above
      <4>2. pos[p] < pos[y] /\ pos[y] < pos[z] /\ pos[p] \in Int /\ pos[y] \in Int /\ pos[z] \in Int
        BY <1>2, <2>1, <3>2, <4>1
      <4>3. \A a \in sub[d] : pos[a] < pos[p] /\ pos[a] \in Int
        BY <1>2, <2>4, <3>3
      <4>4. z # p /\ z \notin sub[y] /\ z \notin sub[d]
        BY <4>1, <4>2, <4>3
      <4>5. z \notin sub[p]
        BY <2>4, <4>4
      <4>6. \A b \in sub[p] : pos[b] < pos[z]
        BY <2>5, <2>6, <4>1, <4>2, <4>5
      <4> QED BY <4>1, <4>6 DEF Above
    <3>5. Above(t, sub, pos, p) \subseteq Above(t, sub, pos, y)
      BY <2>4 DEF Above
    <3>6. Above(t, sub, pos, p) = Above(t, sub, pos, y)
      BY <3>4, <3>5
    <3> QED BY <1>1, <1>4, <2>1, <3>1, <3>6
  <2>8. CASE s = "left"
    <3>1. ~IsRight(t, y)
      <4>1. y # sentl
        BY <1>2
      <4> QED BY <1>1, <2>1, <2>2, <2>8, <4>1, ShapeFacts, SideCases DEF IsRight
    <3>2. \A a \in sub[y] : pos[a] < pos[p]
      BY <2>4, <2>8 DEF On
    <3>3. \A a \in sub[d] : pos[p] < pos[a]
      BY <2>4, <2>8, SideCases DEF On
    <3>4. p \in Above(t, sub, pos, y)
      BY <2>1, <3>2 DEF Above
    <3>5. ASSUME NEW z \in Above(t, sub, pos, y), z # p PROVE pos[p] < pos[z]
      <4>1. z \in Mem(t) /\ \A a \in sub[y] : pos[a] < pos[z]
        BY DEF Above
      <4>2. z \notin sub[y]
        BY <1>2, <4>1
      <4>3. CASE z \in sub[d]
        BY <3>3, <4>3
      <4>4. CASE z \notin sub[d]
        <5>1. z \notin sub[p]
          BY <2>4, <3>5, <4>2, <4>4
        <5> QED BY <1>2, <2>5, <2>6, <4>1, <5>1
      <4> QED BY <4>3, <4>4
    <3> QED BY <1>1, <3>1, <3>4, <3>5 DEF IsBeyond
  <2> QED BY <2>7, <2>8, SideCases
<1> QED BY <1>3, <1>4

LEMMA BeyondIsOne ==
  ASSUME NEW t, NEW sub, NEW pos, Shape(t, sub, pos), NEW y \in Mem(t), NEW m, NEW m2,
         IsBeyond(t, sub, pos, y, m), IsBeyond(t, sub, pos, y, m2)
  PROVE  m = m2
<1>1. CASE Above(t, sub, pos, y) = {}
  BY <1>1 DEF IsBeyond
<1>2. CASE Above(t, sub, pos, y) # {}
  <2>1. m \in Mem(t) /\ m2 \in Mem(t) /\ (m # m2 => pos[m] < pos[m2] /\ pos[m2] < pos[m])
    BY <1>2 DEF IsBeyond, Above
  <2>2. pos[m] \in Int /\ pos[m2] \in Int
    BY <2>1, MemIn DEF Shape
  <2> QED BY <2>1, <2>2
<1> QED BY <1>1, <1>2

HasBeyond(t, sub, pos, y) == \E m : IsBeyond(t, sub, pos, y, m)

LEMMA WayUp ==
  ASSUME NEW t, NEW sub, NEW pos, Shape(t, sub, pos), IsFiniteSet(Mem(t)), Distinct(t, pos)
  PROVE  /\ \E f : f = [y \in Mem(t) |-> IF IsRight(t, y) THEN f[Pa(t, y)] ELSE Pa(t, y)]
         /\ \A f : f = [y \in Mem(t) |-> IF IsRight(t, y) THEN f[Pa(t, y)] ELSE Pa(t, y)] =>
              \A y \in Mem(t) : IsBeyond(t, sub, pos, y, f[y])
<1>1. \A y \in Mem(t) : HasBeyond(t, sub, pos, y)
  <2> DEFINE P == {y \in Mem(t) : ~HasBeyond(t, sub, pos, y)}
  <2>1. SUFFICES ASSUME P # {} PROVE FALSE
    OBVIOUS
  <2>2. PICK y \in P : y # Rt(t) => Pa(t, y) \notin P
    <3>1. P \in SUBSET Mem(t)
      OBVIOUS
    <3> HIDE DEF P
    <3> QED BY <2>1, <3>1, Highest
  <2>3. y \in Mem(t) /\ ~HasBeyond(t, sub, pos, y)
    BY <2>2
  <2>4. IsRight(t, y)
    BY <2>3, UpStep DEF HasBeyond
  <2>5. /\ y # Rt(t) /\ Pa(t, y) \in Mem(t)
        /\ Above(t, sub, pos, y) = Above(t, sub, pos, Pa(t, y))
    BY <2>3, <2>4, UpStep
  <2>6. HasBeyond(t, sub, pos, Pa(t, y))
    BY <2>2, <2>5
  <2> QED BY <2>3, <2>5, <2>6 DEF HasBeyond, IsBeyond
<1>2. \E f : f = [y \in Mem(t) |-> IF IsRight(t, y) THEN f[Pa(t, y)] ELSE Pa(t, y)]
  <2>1. PICK f : f = [y \in Mem(t) |-> CHOOSE m : IsBeyond(t, sub, pos, y, m)]
    OBVIOUS
  <2>2. \A y \in Mem(t) : IsBeyond(t, sub, pos, y, f[y])
    <3>1. ASSUME NEW y \in Mem(t) PROVE IsBeyond(t, sub, pos, y, f[y])
      <4>1. HasBeyond(t, sub, pos, y)
        BY <1>1
      <4>2. f[y] = CHOOSE m : IsBeyond(t, sub, pos, y, m)
        BY <2>1
      <4> QED BY <4>1, <4>2 DEF HasBeyond
    <3> QED BY <3>1
  <2>3. ASSUME NEW y \in Mem(t) PROVE f[y] = IF IsRight(t, y) THEN f[Pa(t, y)] ELSE Pa(t, y)
    <3>1. CASE IsRight(t, y)
      <4>1. Pa(t, y) \in Mem(t) /\ Above(t, sub, pos, y) = Above(t, sub, pos, Pa(t, y))
        BY <3>1, UpStep
      <4>2. IsBeyond(t, sub, pos, Pa(t, y), f[Pa(t, y)])
        BY <2>2, <4>1
      <4>3. IsBeyond(t, sub, pos, y, f[Pa(t, y)])
        BY <4>1, <4>2 DEF IsBeyond
      <4> QED BY <2>2, <3>1, <4>3, BeyondIsOne
    <3>2. CASE ~IsRight(t, y)
      <4>1. IsBeyond(t, sub, pos, y, Pa(t, y))
        BY <3>2, UpStep
      <4> QED BY <2>2, <3>2, <4>1, BeyondIsOne
    <3> QED BY <3>1, <3>2
  <2>4. f = [y \in Mem(t) |-> IF IsRight(t, y) THEN f[Pa(t, y)] ELSE Pa(t, y)]
    BY <2>1, <2>3
  <2> QED BY <2>4
<1>3. ASSUME NEW f, f = [y \in Mem(t) |-> IF IsRight(t, y) THEN f[Pa(t, y)] ELSE Pa(t, y)]
      PROVE  \A y \in Mem(t) : IsBeyond(t, sub, pos, y, f[y])
  <2> DEFINE P == {y \in Mem(t) : ~IsBeyond(t, sub, pos, y, f[y])}
  <2>1. SUFFICES ASSUME P # {} PROVE FALSE
    OBVIOUS
  <2>2. PICK y \in P : y # Rt(t) => Pa(t, y) \notin P
    <3>1. P \in SUBSET Mem(t)
      OBVIOUS
    <3> HIDE DEF P
    <3> QED BY <2>1, <3>1, Highest
  <2>3. y \in Mem(t) /\ ~IsBeyond(t, sub, pos, y, f[y])
    BY <2>2
  <2>4. f[y] = IF IsRight(t, y) THEN f[Pa(t, y)] ELSE Pa(t, y)
    <3>1. \A z \in Mem(t) : f[z] = IF IsRight(t, z) THEN f[Pa(t, z)] ELSE Pa(t, z)
      BY <1>3
    <3> QED BY <2>3, <3>1
  <2>5. CASE IsRight(t, y)
    <3>1. /\ y # Rt(t) /\ Pa(t, y) \in Mem(t)
          /\ Above(t, sub, pos, y) = Above(t, sub, pos, Pa(t, y))
      BY <2>3, <2>5, UpStep
    <3>2. IsBeyond(t, sub, pos, Pa(t, y), f[Pa(t, y)])
      BY <2>2, <3>1
    <3>3. IsBeyond(t, sub, pos, y, f[Pa(t, y)])
      BY <3>1, <3>2 DEF IsBeyond
    <3> QED BY <2>3, <2>4, <2>5, <3>3
  <2>6. CASE ~IsRight(t, y)
    BY <2>3, <2>4, <2>6, UpStep
  <2> QED BY <2>5, <2>6
<1> QED BY <1>2, <1>3

(* The next node is the first one below the right child or, without one,   *)
(* the first after everything below.                                       *)
LEMMA NextFacts ==
  ASSUME NEW t, NEW sub, NEW pos, Shape(t, sub, pos), IsFiniteSet(Mem(t)), Distinct(t, pos),
         NEW n \in Mem(t), NEW b, Ch(t, n, "right") = b, NEW m
  PROVE  /\ b # sentl /\ m \in sub[b] /\ (\A a \in sub[b] : a # m => pos[m] < pos[a]) =>
              Follows(t, pos, n, m)
         /\ b = sentl /\ IsBeyond(t, sub, pos, n, m) => Follows(t, pos, n, m)
<1>1. PICK a : a = Ch(t, n, "left")
  OBVIOUS
<1>2. /\ sub[n] = {n} \cup sub[a] \cup sub[b] /\ n \in sub[n]
      /\ \A z \in sub[a] : On("left", pos, z, n)
      /\ \A z \in sub[b] : On("right", pos, z, n)
      /\ sub[n] \subseteq Mem(t) /\ sub[sentl] = {}
  BY <1>1, MemIn, SideCases DEF Shape
<1>3. \A z \in Mem(t) : z \in Nodes /\ pos[z] \in Int /\ z # sentl
  BY MemIn DEF Shape
<1>4. (\A z \in sub[a] : pos[z] < pos[n]) /\ (\A z \in sub[b] : pos[n] < pos[z])
  BY <1>2 DEF On
<1>5. ASSUME NEW z \in Mem(t), z \notin sub[n], pos[n] < pos[z]
      PROVE  \A y \in sub[n] : pos[y] < pos[z]
  <2>1. ASSUME NEW y \in sub[n] PROVE pos[y] < pos[z]
    <3>1. pos[z] < pos[n] <=> pos[z] < pos[y]
      BY <1>2, <1>5, Convex
    <3>2. y \in Mem(t) /\ y # z /\ pos[y] # pos[z]
      BY <1>2, <1>5 DEF Distinct
    <3> QED BY <1>3, <1>5, <3>1, <3>2
  <2> QED BY <2>1
<1>6. ASSUME b # sentl, m \in sub[b], \A y \in sub[b] : y # m => pos[m] < pos[y]
      PROVE  Follows(t, pos, n, m)
  <2>1. m \in Mem(t) /\ pos[n] < pos[m] /\ m \in sub[n] /\ m # sentl
    BY <1>2, <1>3, <1>4, <1>6
  <2>2. ASSUME NEW z \in Mem(t), pos[n] < pos[z], z # m PROVE pos[m] < pos[z]
    <3>1. CASE z \in sub[n]
      <4>1. z # n /\ z \notin sub[a]
        BY <1>3, <1>4, <2>2
      <4> QED BY <1>2, <1>6, <2>2, <3>1, <4>1
    <3>2. CASE z \notin sub[n]
      BY <1>5, <2>1, <2>2, <3>2
    <3> QED BY <3>1, <3>2
  <2> QED BY <2>1, <2>2 DEF Follows
<1>7. ASSUME b = sentl, IsBeyond(t, sub, pos, n, m) PROVE Follows(t, pos, n, m)
  <2>1. Above(t, sub, pos, n) = {z \in Mem(t) : pos[n] < pos[z]}
    <3>1. ASSUME NEW z \in Mem(t), pos[n] < pos[z] PROVE z \in Above(t, sub, pos, n)
      <4>1. z \notin sub[n]
        BY <1>2, <1>3, <1>4, <1>7, <3>1
      <4> QED BY <1>5, <3>1, <4>1 DEF Above
    <3> QED BY <1>2, <3>1 DEF Above
  <2>2. CASE Above(t, sub, pos, n) = {}
    <3>1. m = sentl
      BY <1>7, <2>2 DEF IsBeyond
    <3> QED BY <2>1, <2>2, <3>1 DEF Follows
  <2>3. CASE Above(t, sub, pos, n) # {}
    <3>1. /\ m \in Above(t, sub, pos, n)
          /\ \A z \in Above(t, sub, pos, n) : z # m => pos[m] < pos[z]
      BY <1>7, <2>3 DEF IsBeyond
    <3> QED BY <1>3, <2>1, <3>1 DEF Follows
  <2> QED BY <2>2, <2>3
<1> QED BY <1>6, <1>7

----------------------------------------------------------------------------
(* The sequence of the nodes *)

Put(q, i, n) == SubSeq(q, 1, i - 1) \o <<n>> \o SubSeq(q, i, Len(q))
Drop(q, k) == SubSeq(q, 1, k - 1) \o SubSeq(q, k + 1, Len(q))

LEMMA PartFacts ==
  ASSUME NEW q \in Seq(Nodes), NEW i \in 1..(Len(q) + 1), NEW k \in 0..Len(q), i <= k + 1,
         NEW r, r = SubSeq(q, i, k)
  PROVE  r \in Seq(Nodes) /\ Len(r) = k - i + 1 /\ \A j \in 1..(k - i + 1) : r[j] = q[i + j - 1]
<1>1. Len(q) \in Nat /\ i \in Int /\ k \in Int
  OBVIOUS
<1>2. \A j \in i..k : q[j] \in Nodes
  BY <1>1
<1>3. /\ SubSeq(q, i, k) \in Seq(Nodes)
      /\ Len(SubSeq(q, i, k)) = IF i <= k THEN k - i + 1 ELSE 0
      /\ \A j \in 1..(k - i + 1) : SubSeq(q, i, k)[j] = q[i + j - 1]
  BY <1>1, <1>2, SubSeqProperties
<1>4. (IF i <= k THEN k - i + 1 ELSE 0) = k - i + 1
  BY <1>1
<1> QED BY <1>3, <1>4

LEMMA PutFacts ==
  ASSUME NEW q \in Seq(Nodes), NEW i \in 1..(Len(q) + 1), NEW n \in Nodes,
         NEW r, r = Put(q, i, n)
  PROVE  /\ r \in Seq(Nodes) /\ Len(r) = Len(q) + 1
         /\ \A j \in 1..(Len(q) + 1) :
              r[j] = IF j < i THEN q[j] ELSE IF j = i THEN n ELSE q[j - 1]
<1>1. PICK u, v, l : u = SubSeq(q, 1, i - 1) /\ v = SubSeq(q, i, Len(q)) /\ l = Len(q)
  OBVIOUS
<1>2. l \in Nat /\ i \in 1..(l + 1)
  BY <1>1
<1>3. u \in Seq(Nodes) /\ Len(u) = i - 1 /\ \A j \in 1..(i - 1) : u[j] = q[j]
  <2>1. 1 \in 1..(Len(q) + 1) /\ i - 1 \in 0..Len(q) /\ 1 <= (i - 1) + 1
    BY <1>1, <1>2
  <2>2. /\ u \in Seq(Nodes) /\ Len(u) = (i - 1) - 1 + 1
        /\ \A j \in 1..((i - 1) - 1 + 1) : u[j] = q[1 + j - 1]
    BY <1>1, <2>1, PartFacts
  <2>3. (i - 1) - 1 + 1 = i - 1
    BY <1>2
  <2>4. \A j \in 1..(i - 1) : 1 + j - 1 = j
    OBVIOUS
  <2> QED BY <2>2, <2>3, <2>4
<1>4. v \in Seq(Nodes) /\ Len(v) = l - i + 1 /\ \A j \in 1..(l - i + 1) : v[j] = q[i + j - 1]
  <2>1. l \in 0..Len(q) /\ i <= l + 1
    BY <1>1, <1>2
  <2> QED BY <1>1, <2>1, PartFacts
<1>5. <<n>> \in Seq(Nodes) /\ Len(<<n>>) = 1 /\ <<n>>[1] = n
  OBVIOUS
<1>6. PICK w : w = u \o <<n>>
  OBVIOUS
<1>7. /\ w \in Seq(Nodes) /\ Len(w) = (i - 1) + 1
      /\ \A j \in 1..((i - 1) + 1) : w[j] = IF j <= i - 1 THEN u[j] ELSE <<n>>[j - (i - 1)]
  BY <1>3, <1>5, <1>6, ConcatProperties
<1>8. Len(w) = i /\ \A j \in 1..i : w[j] = IF j < i THEN q[j] ELSE n
  <2>1. (i - 1) + 1 = i
    BY <1>2
  <2>2. ASSUME NEW j \in 1..i PROVE w[j] = IF j < i THEN q[j] ELSE n
    <3>1. w[j] = IF j <= i - 1 THEN u[j] ELSE <<n>>[j - (i - 1)]
      BY <1>7, <2>1, <2>2
    <3>2. CASE j < i
      <4>1. j <= i - 1 /\ j \in 1..(i - 1)
        BY <1>2, <2>2, <3>2
      <4> QED BY <1>3, <3>1, <3>2, <4>1
    <3>3. CASE ~(j < i)
      <4>1. ~(j <= i - 1) /\ j - (i - 1) = 1
        BY <1>2, <2>2, <3>3
      <4> QED BY <1>5, <3>1, <3>3, <4>1
    <3> QED BY <3>2, <3>3
  <2> QED BY <1>7, <2>1, <2>2
<1>9. r = w \o v
  BY <1>1, <1>6 DEF Put
<1>10. /\ r \in Seq(Nodes) /\ Len(r) = i + (l - i + 1)
       /\ \A j \in 1..(i + (l - i + 1)) : r[j] = IF j <= i THEN w[j] ELSE v[j - i]
  <2>1. w \in Seq(Nodes) /\ v \in Seq(Nodes) /\ Len(w) = i /\ Len(v) = l - i + 1
    BY <1>4, <1>7, <1>8
  <2>2. /\ r \in Seq(Nodes) /\ Len(r) = Len(w) + Len(v)
        /\ \A j \in 1..(Len(w) + Len(v)) : r[j] = IF j <= Len(w) THEN w[j] ELSE v[j - Len(w)]
    <3>1. w \in Seq(Nodes) /\ v \in Seq(Nodes)
      BY <2>1
    <3>2. /\ w \o v \in Seq(Nodes) /\ Len(w \o v) = Len(w) + Len(v)
          /\ \A j \in 1..(Len(w) + Len(v)) : (w \o v)[j] = IF j <= Len(w) THEN w[j] ELSE v[j - Len(w)]
      BY <3>1, ConcatProperties
    <3> QED BY <1>9, <3>2
  <2> QED BY <2>1, <2>2
<1>11. i + (l - i + 1) = l + 1
  BY <1>2
<1>12. ASSUME NEW j \in 1..(l + 1)
       PROVE  r[j] = IF j < i THEN q[j] ELSE IF j = i THEN n ELSE q[j - 1]
  <2>1. r[j] = IF j <= i THEN w[j] ELSE v[j - i]
    BY <1>10, <1>11, <1>12
  <2>2. CASE j <= i
    <3>1. j \in 1..i
      BY <1>2, <1>12, <2>2
    <3>2. ~(j < i) => j = i
      BY <1>2, <1>12, <2>2
    <3> QED BY <1>8, <2>1, <2>2, <3>1, <3>2
  <2>3. CASE ~(j <= i)
    <3>1. j - i \in 1..(l - i + 1) /\ i + (j - i) - 1 = j - 1 /\ ~(j < i) /\ j # i
      BY <1>2, <1>12, <2>3
    <3> QED BY <1>4, <2>1, <2>3, <3>1
  <2> QED BY <2>2, <2>3
<1> QED BY <1>1, <1>10, <1>11, <1>12

LEMMA DropFacts ==
  ASSUME NEW q \in Seq(Nodes), NEW k \in 1..Len(q), NEW r, r = Drop(q, k)
  PROVE  /\ r \in Seq(Nodes) /\ Len(r) = Len(q) - 1
         /\ \A j \in 1..(Len(q) - 1) : r[j] = IF j < k THEN q[j] ELSE q[j + 1]
<1>1. PICK u, v, l : u = SubSeq(q, 1, k - 1) /\ v = SubSeq(q, k + 1, Len(q)) /\ l = Len(q)
  OBVIOUS
<1>2. l \in Nat /\ k \in 1..l
  BY <1>1
<1>3. u \in Seq(Nodes) /\ Len(u) = k - 1 /\ \A j \in 1..(k - 1) : u[j] = q[j]
  <2>1. 1 \in 1..(Len(q) + 1) /\ k - 1 \in 0..Len(q) /\ 1 <= (k - 1) + 1
    BY <1>1, <1>2
  <2>2. /\ u \in Seq(Nodes) /\ Len(u) = (k - 1) - 1 + 1
        /\ \A j \in 1..((k - 1) - 1 + 1) : u[j] = q[1 + j - 1]
    BY <1>1, <2>1, PartFacts
  <2>3. (k - 1) - 1 + 1 = k - 1
    BY <1>2
  <2>4. \A j \in 1..(k - 1) : 1 + j - 1 = j
    OBVIOUS
  <2> QED BY <2>2, <2>3, <2>4
<1>4. v \in Seq(Nodes) /\ Len(v) = l - k /\ \A j \in 1..(l - k) : v[j] = q[k + j]
  <2>1. k + 1 \in 1..(Len(q) + 1) /\ l \in 0..Len(q) /\ k + 1 <= l + 1
    BY <1>1, <1>2
  <2>2. /\ v \in Seq(Nodes) /\ Len(v) = l - (k + 1) + 1
        /\ \A j \in 1..(l - (k + 1) + 1) : v[j] = q[(k + 1) + j - 1]
    BY <1>1, <2>1, PartFacts
  <2>3. l - (k + 1) + 1 = l - k /\ \A j \in 1..(l - k) : (k + 1) + j - 1 = k + j
    BY <1>2
  <2> QED BY <2>2, <2>3
<1>5. r = u \o v
  BY <1>1 DEF Drop
<1>6. /\ r \in Seq(Nodes) /\ Len(r) = (k - 1) + (l - k)
      /\ \A j \in 1..((k - 1) + (l - k)) : r[j] = IF j <= k - 1 THEN u[j] ELSE v[j - (k - 1)]
  BY <1>3, <1>4, <1>5, ConcatProperties
<1>7. (k - 1) + (l - k) = l - 1
  BY <1>2
<1>8. ASSUME NEW j \in 1..(l - 1) PROVE r[j] = IF j < k THEN q[j] ELSE q[j + 1]
  <2>1. r[j] = IF j <= k - 1 THEN u[j] ELSE v[j - (k - 1)]
    BY <1>6, <1>7, <1>8
  <2>2. CASE j < k
    <3>1. j <= k - 1 /\ j \in 1..(k - 1)
      BY <1>2, <1>8, <2>2
    <3> QED BY <1>3, <2>1, <2>2, <3>1
  <2>3. CASE ~(j < k)
    <3>1. ~(j <= k - 1) /\ j - (k - 1) \in 1..(l - k) /\ k + (j - (k - 1)) = j + 1
      BY <1>2, <1>8, <2>3
    <3> QED BY <1>4, <2>1, <2>3, <3>1
  <2> QED BY <2>2, <2>3
<1> QED BY <1>1, <1>6, <1>7, <1>8

(* q are the nodes of t in the order of pos, and their keys rise. *)
Ordered(t, q, pos) ==
  /\ q \in Seq(Nodes)
  /\ \A i \in 1..Len(q) : q[i] \in Mem(t) /\ pos[q[i]] = i
  /\ \A x \in Mem(t) : pos[x] \in 1..Len(q) /\ q[pos[x]] = x
  /\ \A i, j \in 1..Len(q) : i < j => KeyOf[q[i]] <= KeyOf[q[j]]

LEMMA OrderedFacts ==
  ASSUME NEW t, NEW q, NEW pos, Ordered(t, q, pos)
  PROVE  /\ Len(q) \in Nat /\ DOMAIN q = 1..Len(q)
         /\ Distinct(t, pos)
         /\ \A n \in Mem(t) : \A m : Follows(t, pos, n, m) =>
              m = IF pos[n] = Len(q) THEN sentl ELSE q[pos[n] + 1]
<1>1. Len(q) \in Nat /\ DOMAIN q = 1..Len(q)
  BY DEF Ordered
<1>2. Distinct(t, pos)
  <2>1. \A x \in Mem(t) : q[pos[x]] = x
    BY DEF Ordered
  <2> QED BY <2>1 DEF Distinct
<1>3. ASSUME NEW n \in Mem(t), NEW m, Follows(t, pos, n, m)
      PROVE  m = IF pos[n] = Len(q) THEN sentl ELSE q[pos[n] + 1]
  <2>1. PICK l, k : l = Len(q) /\ k = pos[n]
    OBVIOUS
  <2>2. l \in Nat /\ k \in 1..l /\ \A z \in Mem(t) : pos[z] \in 1..l /\ q[pos[z]] = z
    BY <2>1, <1>1 DEF Ordered
  <2>3. k + 1 <= l => q[k + 1] \in Mem(t) /\ pos[q[k + 1]] = k + 1
    <3>1. k + 1 <= l => k + 1 \in 1..Len(q)
      BY <2>1, <2>2
    <3> QED BY <3>1 DEF Ordered
  <2>4. CASE m = sentl
    <3>1. \A z \in Mem(t) : ~(k < pos[z])
      BY <1>3, <2>1, <2>4 DEF Follows
    <3>2. ~(k + 1 <= l)
      BY <2>2, <2>3, <3>1
    <3> QED BY <2>1, <2>2, <2>4, <3>2
  <2>5. CASE m # sentl
    <3>1. /\ m \in Mem(t) /\ k < pos[m]
          /\ \A z \in Mem(t) : k < pos[z] /\ z # m => pos[m] < pos[z]
      BY <1>3, <2>1, <2>5 DEF Follows
    <3>2. pos[m] \in 1..l /\ k + 1 <= l
      BY <2>2, <3>1
    <3>3. q[k + 1] = m
      <4>1. SUFFICES ASSUME q[k + 1] # m PROVE FALSE
        OBVIOUS
      <4>2. pos[m] < k + 1
        BY <2>2, <2>3, <3>1, <3>2, <4>1
      <4> QED BY <2>2, <3>1, <3>2, <4>2
    <3> QED BY <2>1, <2>2, <3>2, <3>3
  <2> QED BY <2>4, <2>5
<1> QED BY <1>1, <1>2, <1>3

(* i is the place of a new node n in the sequence q. *)
InPlace(q, n, i) == \A j \in DOMAIN q : KeyOf[q[j]] <= KeyOf[n] <=> j < i

LEMMA HasPlace ==
  ASSUME NEW q \in Seq(Nodes), NEW n \in Nodes,
         \A i, j \in 1..Len(q) : i < j => KeyOf[q[i]] <= KeyOf[q[j]]
  PROVE  \E i \in 1..(Len(q) + 1) : InPlace(q, n, i)
<1>1. PICK l : l = Len(q)
  OBVIOUS
<1>2. l \in Nat /\ DOMAIN q = 1..l /\ \A j \in 1..l : q[j] \in Nodes
  BY <1>1
<1>3. KeyOf[n] \in Nat /\ \A j \in 1..l : KeyOf[q[j]] \in Nat
  BY <1>2, RBTreeAssumption DEF RBTreeAssumption
<1>4. \A i, j \in 1..l : i < j => KeyOf[q[i]] <= KeyOf[q[j]]
  BY <1>1
<1> DEFINE S == {i \in 1..(l + 1) : \A j \in 1..l : i <= j => ~(KeyOf[q[j]] <= KeyOf[n])}
<1>5. l + 1 \in S /\ S \in SUBSET Nat
  BY <1>2
<1>6. PICK i \in S : \A m \in S : i <= m
  <2>1. S # {} /\ S \in SUBSET Nat
    BY <1>5
  <2> HIDE DEF S
  <2> QED BY <2>1, Least
<1>7. i \in 1..(l + 1) /\ \A j \in 1..l : i <= j => ~(KeyOf[q[j]] <= KeyOf[n])
  BY <1>6
<1>8. ASSUME NEW j \in 1..l, j < i PROVE KeyOf[q[j]] <= KeyOf[n]
  <2>1. i - 1 \in 1..l /\ i - 1 \notin S
    BY <1>2, <1>6, <1>7, <1>8
  <2>2. PICK m \in 1..l : i - 1 <= m /\ KeyOf[q[m]] <= KeyOf[n]
    BY <1>2, <2>1
  <2>3. m = i - 1
    BY <1>2, <1>7, <2>2
  <2>4. j < m => KeyOf[q[j]] <= KeyOf[q[m]]
    BY <1>4, <1>8
  <2>5. j < m \/ j = m
    BY <1>2, <1>7, <1>8, <2>3
  <2> QED BY <1>3, <1>8, <2>2, <2>4, <2>5
<1>9. InPlace(q, n, i)
  <2>1. \A j \in 1..l : j < i \/ i <= j
    BY <1>2, <1>7
  <2> QED BY <1>2, <1>7, <1>8, <2>1 DEF InPlace
<1> QED BY <1>1, <1>7, <1>9

LEMMA PutOrdered ==
  ASSUME NEW t, NEW sub, NEW pos, Shape(t, sub, pos), NEW q, Ordered(t, q, pos),
         NEW n \in Nodes \ Mem(t), NEW i \in 1..(Len(q) + 1), InPlace(q, n, i),
         NEW r, r = Put(q, i, n)
  PROVE  \E pos2 : /\ Shape(t, sub, pos2)
                   /\ \A u : Mem(u) = Mem(t) \cup {n} => Ordered(u, r, pos2)
                   /\ \A x \in Mem(t) : On(SideFor(n, x), pos2, n, x)
<1>1. PICK l : l = Len(q)
  OBVIOUS
<1>2. /\ l \in Nat /\ DOMAIN q = 1..l /\ i \in 1..(l + 1) /\ q \in Seq(Nodes)
      /\ \A j \in 1..l : q[j] \in Mem(t) /\ pos[q[j]] = j
      /\ \A x \in Mem(t) : pos[x] \in 1..l /\ q[pos[x]] = x
  BY <1>1, OrderedFacts DEF Ordered
<1>3. \A j, m \in 1..l : j < m => KeyOf[q[j]] <= KeyOf[q[m]]
  BY <1>1 DEF Ordered
<1>4. KeyOf[n] \in Nat /\ \A x \in Mem(t) : KeyOf[x] \in Nat /\ x \in Nodes /\ x # n
  BY MemIn, RBTreeAssumption DEF RBTreeAssumption
<1>5. PICK pos2 : pos2 = [x \in Nodes |-> IF x = n THEN i
                                          ELSE IF pos[x] < i THEN pos[x] ELSE pos[x] + 1]
  OBVIOUS
<1>6. pos2[n] = i /\ \A x \in Mem(t) : pos2[x] = IF pos[x] < i THEN pos[x] ELSE pos[x] + 1
  BY <1>4, <1>5
<1>7. pos2 \in [Nodes -> Int]
  <2>1. pos \in [Nodes -> Int]
    BY DEF Shape
  <2>2. \A x \in Nodes : pos[x] \in Int
    BY <2>1
  <2> QED BY <1>2, <1>5, <2>2
<1>8. Shape(t, sub, pos2)
  <2>1. ASSUME NEW a \in Mem(t), NEW b \in Mem(t), pos[a] < pos[b] PROVE pos2[a] < pos2[b]
    <3>1. pos[a] \in 1..l /\ pos[b] \in 1..l
      BY <1>2
    <3>2. /\ pos2[a] = IF pos[a] < i THEN pos[a] ELSE pos[a] + 1
          /\ pos2[b] = IF pos[b] < i THEN pos[b] ELSE pos[b] + 1
      BY <1>6
    <3> QED BY <1>2, <2>1, <3>1, <3>2
  <2> QED BY <1>7, <2>1, Reorder
<1>9. ASSUME NEW x \in Mem(t) PROVE On(SideFor(n, x), pos2, n, x)
  <2>1. pos[x] \in 1..l /\ q[pos[x]] = x
    BY <1>2
  <2>2. KeyOf[x] <= KeyOf[n] <=> pos[x] < i
    BY <1>2, <2>1 DEF InPlace
  <2>3. pos2[n] = i /\ pos2[x] = IF pos[x] < i THEN pos[x] ELSE pos[x] + 1
    BY <1>6
  <2>4. CASE KeyOf[n] < KeyOf[x]
    <3>1. SideFor(n, x) = "left" /\ i < pos2[x]
      BY <1>2, <1>4, <2>1, <2>2, <2>3, <2>4 DEF SideFor
    <3> QED BY <2>3, <3>1 DEF On
  <2>5. CASE ~(KeyOf[n] < KeyOf[x])
    <3>1. SideFor(n, x) = "right"
      BY <2>5 DEF SideFor
    <3>2. pos2[x] < i
      BY <1>2, <1>4, <2>1, <2>2, <2>3, <2>5
    <3>3. SideFor(n, x) # "left"
      BY <3>1
    <3> QED BY <2>3, <3>2, <3>3 DEF On
  <2> QED BY <2>4, <2>5
<1>10. /\ r \in Seq(Nodes) /\ Len(r) = l + 1
       /\ \A j \in 1..(l + 1) : r[j] = IF j < i THEN q[j] ELSE IF j = i THEN n ELSE q[j - 1]
  BY <1>1, <1>2, PutFacts
<1>11. \A j \in 1..(l + 1) : /\ j < i => j \in 1..l
                             /\ ~(j < i) /\ j # i => j - 1 \in 1..l /\ ~(j - 1 < i) /\ j - 1 + 1 = j
  BY <1>2
<1>12. ASSUME NEW j \in 1..(l + 1) PROVE r[j] \in Mem(t) \cup {n} /\ pos2[r[j]] = j
  <2>1. CASE j < i
    <3>1. r[j] = q[j] /\ q[j] \in Mem(t) /\ pos[q[j]] = j
      BY <1>2, <1>10, <1>11, <2>1
    <3> QED BY <1>6, <2>1, <3>1
  <2>2. CASE j = i
    <3>1. r[j] = n
      BY <1>2, <1>10, <2>2
    <3> QED BY <1>6, <2>2, <3>1
  <2>3. CASE ~(j < i) /\ j # i
    <3>1. r[j] = q[j - 1] /\ q[j - 1] \in Mem(t) /\ pos[q[j - 1]] = j - 1
      BY <1>2, <1>10, <1>11, <2>3
    <3>2. ~(j - 1 < i) /\ j - 1 + 1 = j
      BY <1>11, <2>3
    <3> QED BY <1>6, <3>1, <3>2
  <2> QED BY <2>1, <2>2, <2>3
<1>13. ASSUME NEW x \in Mem(t) \cup {n} PROVE pos2[x] \in 1..(l + 1) /\ r[pos2[x]] = x
  <2>1. CASE x = n
    <3>1. r[i] = n
      BY <1>2, <1>10
    <3> QED BY <1>2, <1>6, <2>1, <3>1
  <2>2. CASE x # n
    <3>1. x \in Mem(t) /\ pos[x] \in 1..l /\ q[pos[x]] = x
      BY <1>2, <1>13, <2>2
    <3>2. CASE pos[x] < i
      <4>1. pos2[x] = pos[x] /\ pos[x] \in 1..(l + 1)
        BY <1>2, <1>6, <3>1, <3>2
      <4> QED BY <1>10, <3>1, <3>2, <4>1
    <3>3. CASE ~(pos[x] < i)
      <4>1. pos2[x] = pos[x] + 1
        BY <1>6, <3>1, <3>3
      <4>2. /\ pos[x] + 1 \in 1..(l + 1) /\ ~(pos[x] + 1 < i) /\ pos[x] + 1 # i
            /\ (pos[x] + 1) - 1 = pos[x]
        BY <1>2, <3>1, <3>3
      <4>3. r[pos[x] + 1] = q[(pos[x] + 1) - 1]
        BY <1>10, <4>2
      <4> QED BY <3>1, <4>1, <4>2, <4>3
    <3> QED BY <3>2, <3>3
  <2> QED BY <2>1, <2>2
<1>14. \A j \in 1..(l + 1) : KeyOf[r[j]] \in Nat
  BY <1>4, <1>12
<1>15. ASSUME NEW j \in 1..(l + 1), NEW m \in 1..(l + 1), j < m
       PROVE  KeyOf[r[j]] <= KeyOf[r[m]]
  <2>1. \A a \in 1..(l + 1) : /\ a < i => r[a] = q[a] /\ KeyOf[r[a]] <= KeyOf[n]
                              /\ ~(a < i) /\ a # i => r[a] = q[a - 1] /\ KeyOf[n] <= KeyOf[r[a]]
    <3>1. ASSUME NEW a \in 1..(l + 1), a < i PROVE r[a] = q[a] /\ KeyOf[r[a]] <= KeyOf[n]
      <4>1. a \in DOMAIN q /\ r[a] = q[a]
        BY <1>2, <1>10, <1>11, <3>1
      <4> QED BY <3>1, <4>1 DEF InPlace
    <3>2. ASSUME NEW a \in 1..(l + 1), ~(a < i), a # i
          PROVE  r[a] = q[a - 1] /\ KeyOf[n] <= KeyOf[r[a]]
      <4>1. a - 1 \in DOMAIN q /\ r[a] = q[a - 1] /\ ~(a - 1 < i)
        BY <1>2, <1>10, <1>11, <3>2
      <4>2. ~(KeyOf[q[a - 1]] <= KeyOf[n])
        BY <4>1 DEF InPlace
      <4>3. KeyOf[r[a]] \in Nat
        BY <1>14
      <4> QED BY <1>4, <4>1, <4>2, <4>3
    <3> QED BY <3>1, <3>2
  <2>2. r[i] = n /\ KeyOf[r[j]] \in Nat /\ KeyOf[r[m]] \in Nat
    BY <1>2, <1>10, <1>14
  <2>3. CASE m < i
    <3>1. j < i /\ j \in 1..l /\ m \in 1..l
      BY <1>2, <1>11, <1>15, <2>3
    <3>2. r[j] = q[j] /\ r[m] = q[m]
      BY <2>1, <2>3, <3>1
    <3> QED BY <1>3, <1>15, <3>1, <3>2
  <2>4. CASE j < i /\ ~(m < i)
    <3>1. KeyOf[r[j]] <= KeyOf[n]
      BY <2>1, <2>4
    <3>2. KeyOf[n] <= KeyOf[r[m]]
      BY <1>4, <2>1, <2>2, <2>4
    <3> QED BY <1>4, <2>2, <3>1, <3>2
  <2>5. CASE j = i
    <3>1. ~(m < i) /\ m # i
      BY <1>2, <1>15, <2>5
    <3> QED BY <2>1, <2>2, <2>5, <3>1
  <2>6. CASE ~(j < i) /\ j # i
    <3>1. ~(m < i) /\ m # i /\ j - 1 \in 1..l /\ m - 1 \in 1..l /\ j - 1 < m - 1
      BY <1>2, <1>15, <2>6
    <3>2. r[j] = q[j - 1] /\ r[m] = q[m - 1]
      BY <2>1, <2>6, <3>1
    <3> QED BY <1>3, <3>1, <3>2
  <2>7. m < i => j < i
    BY <1>2, <1>15
  <2> QED BY <2>3, <2>4, <2>5, <2>6, <2>7
<1>16. \A u : Mem(u) = Mem(t) \cup {n} => Ordered(u, r, pos2)
  BY <1>10, <1>12, <1>13, <1>15 DEF Ordered
<1> QED BY <1>8, <1>9, <1>16

LEMMA DropOrdered ==
  ASSUME NEW t, NEW q, NEW pos, Ordered(t, q, pos), NEW n \in Mem(t),
         NEW k, k = pos[n], NEW r, r = Drop(q, k),
         NEW u, Mem(u) = Mem(t) \ {n}, NEW sub, Shape(u, sub, pos)
  PROVE  \E pos2 : Shape(u, sub, pos2) /\ Ordered(u, r, pos2)
<1>1. PICK l : l = Len(q)
  OBVIOUS
<1>2. /\ l \in Nat /\ DOMAIN q = 1..l /\ k \in 1..l /\ q[k] = n /\ q \in Seq(Nodes)
      /\ \A j \in 1..l : q[j] \in Mem(t) /\ pos[q[j]] = j
      /\ \A x \in Mem(t) : pos[x] \in 1..l /\ q[pos[x]] = x
  BY <1>1, OrderedFacts DEF Ordered
<1>3. \A j, m \in 1..l : j < m => KeyOf[q[j]] <= KeyOf[q[m]]
  BY <1>1 DEF Ordered
<1>4. PICK pos2 : pos2 = [x \in Nodes |-> IF pos[x] < k THEN pos[x] ELSE pos[x] - 1]
  OBVIOUS
<1>5. \A x \in Mem(t) : pos2[x] = IF pos[x] < k THEN pos[x] ELSE pos[x] - 1
  BY <1>4, MemIn
<1>6. pos2 \in [Nodes -> Int]
  <2>1. pos \in [Nodes -> Int]
    BY DEF Shape
  <2>2. \A x \in Nodes : pos[x] \in Int
    BY <2>1
  <2> QED BY <1>2, <1>4, <2>2
<1>7. \A x \in Mem(u) : x \in Mem(t) /\ pos[x] \in 1..l /\ pos[x] # k /\ q[pos[x]] = x
  BY <1>2
<1>8. Shape(u, sub, pos2)
  <2>1. ASSUME NEW a \in Mem(u), NEW b \in Mem(u), pos[a] < pos[b] PROVE pos2[a] < pos2[b]
    <3>1. pos[a] \in 1..l /\ pos[b] \in 1..l /\ pos[a] # k /\ pos[b] # k
      BY <1>7
    <3>2. /\ pos2[a] = IF pos[a] < k THEN pos[a] ELSE pos[a] - 1
          /\ pos2[b] = IF pos[b] < k THEN pos[b] ELSE pos[b] - 1
      BY <1>5, <1>7
    <3> QED BY <1>2, <2>1, <3>1, <3>2
  <2> QED BY <1>6, <2>1, Reorder
<1>9. /\ r \in Seq(Nodes) /\ Len(r) = l - 1
      /\ \A j \in 1..(l - 1) : r[j] = IF j < k THEN q[j] ELSE q[j + 1]
  <2>1. k \in 1..Len(q) /\ q \in Seq(Nodes)
    BY <1>1, <1>2
  <2>2. /\ r \in Seq(Nodes) /\ Len(r) = Len(q) - 1
        /\ \A j \in 1..(Len(q) - 1) : r[j] = IF j < k THEN q[j] ELSE q[j + 1]
    BY <2>1, DropFacts
  <2> QED BY <1>1, <2>2
<1>10. \A j \in 1..(l - 1) : /\ j \in 1..l /\ j + 1 \in 1..l
                             /\ ~(j < k) => ~(j + 1 < k) /\ j + 1 # k /\ (j + 1) - 1 = j
  BY <1>2
<1>11. ASSUME NEW j \in 1..(l - 1) PROVE r[j] \in Mem(u) /\ pos2[r[j]] = j
  <2>1. CASE j < k
    <3>1. r[j] = q[j] /\ q[j] \in Mem(t) /\ pos[q[j]] = j
      BY <1>2, <1>9, <1>10, <2>1
    <3>2. q[j] # n
      BY <1>2, <2>1, <3>1
    <3> QED BY <1>5, <2>1, <3>1, <3>2
  <2>2. CASE ~(j < k)
    <3>1. r[j] = q[j + 1] /\ q[j + 1] \in Mem(t) /\ pos[q[j + 1]] = j + 1
      BY <1>2, <1>9, <1>10, <2>2
    <3>2. q[j + 1] # n
      BY <1>2, <1>10, <2>2, <3>1
    <3>3. ~(j + 1 < k) /\ (j + 1) - 1 = j
      BY <1>10, <2>2
    <3> QED BY <1>5, <3>1, <3>2, <3>3
  <2> QED BY <2>1, <2>2
<1>12. ASSUME NEW x \in Mem(u) PROVE pos2[x] \in 1..(l - 1) /\ r[pos2[x]] = x
  <2>1. x \in Mem(t) /\ pos[x] \in 1..l /\ pos[x] # k /\ q[pos[x]] = x
    BY <1>7
  <2>2. CASE pos[x] < k
    <3>1. pos2[x] = pos[x] /\ pos[x] \in 1..(l - 1)
      BY <1>2, <1>5, <2>1, <2>2
    <3> QED BY <1>9, <2>1, <2>2, <3>1
  <2>3. CASE ~(pos[x] < k)
    <3>1. pos2[x] = pos[x] - 1
      BY <1>5, <2>1, <2>3
    <3>2. pos[x] - 1 \in 1..(l - 1) /\ ~(pos[x] - 1 < k) /\ (pos[x] - 1) + 1 = pos[x]
      BY <1>2, <2>1, <2>3
    <3>3. r[pos[x] - 1] = q[(pos[x] - 1) + 1]
      BY <1>9, <3>2
    <3> QED BY <2>1, <3>1, <3>2, <3>3
  <2> QED BY <2>2, <2>3
<1>13. ASSUME NEW j \in 1..(l - 1), NEW m \in 1..(l - 1), j < m
       PROVE  KeyOf[r[j]] <= KeyOf[r[m]]
  <2>1. PICK a \in 1..l : r[j] = q[a] /\ a = IF j < k THEN j ELSE j + 1
    BY <1>9, <1>10
  <2>2. PICK b \in 1..l : r[m] = q[b] /\ b = IF m < k THEN m ELSE m + 1
    BY <1>9, <1>10
  <2>3. a < b
    BY <1>2, <1>13, <2>1, <2>2
  <2> QED BY <1>3, <2>1, <2>2, <2>3
<1>14. l - 1 \in Nat
  BY <1>2
<1> QED BY <1>8, <1>9, <1>11, <1>12, <1>13, <1>14 DEF Ordered

----------------------------------------------------------------------------
(* The operators that read the tree *)

LEMMA ReadFacts ==
  /\ Members = Mem(tree)
  /\ \A y : /\ Left(y) = Ch(tree, y, "left") /\ Right(y) = Ch(tree, y, "right")
            /\ Parent(y) = Pa(tree, y) /\ Color(y) = Co(tree, y)
  /\ tree.root = Rt(tree)
BY DEF Members, Linked, Parent, Mem, Pa, Left, Right, Ch, Color, Co, Rt

LEMMA MinimumFacts ==
  ASSUME NEW sub, NEW pos, Shape(tree, sub, pos), IsFiniteSet(Mem(tree)),
         NEW x \in Mem(tree), NEW m, m = Minimum(x)
  PROVE  /\ m \in sub[x] /\ m \in Mem(tree) /\ Ch(tree, m, "left") = sentl
         /\ \A a \in sub[x] : a # m => pos[m] < pos[a]
<1>1. PICK nx : nx = [y \in Mem(tree) |-> Ch(tree, y, "left")]
  OBVIOUS
<1>2. \A y \in Mem(tree) : nx[y] = Ch(tree, y, "left")
  BY <1>1
<1>3. Goes(tree, nx)
  BY <1>2, SideCases DEF Goes
<1> DEFINE D == CHOOSE f : f = [y \in Members |-> IF Left(y) = sentl THEN y ELSE f[Left(y)]]
<1>4. m = D[x]
  <2>1. x # sentl
    BY MemIn
  <2> QED BY <2>1 DEF Minimum
<1>5. D = [y \in Mem(tree) |-> IF nx[y] = sentl THEN y ELSE D[nx[y]]]
  <2>1. PICK f : f = [y \in Mem(tree) |-> IF nx[y] = sentl THEN y ELSE f[nx[y]]]
    BY <1>3, WayDown
  <2>2. f = [y \in Members |-> IF Left(y) = sentl THEN y ELSE f[Left(y)]]
    BY <1>2, <2>1, ReadFacts
  <2>3. D = [y \in Members |-> IF Left(y) = sentl THEN y ELSE D[Left(y)]]
    BY <2>2
  <2> HIDE DEF D
  <2> QED BY <1>2, <2>3, ReadFacts
<1> HIDE DEF D
<1>6. Ends(tree, sub, nx, x, m)
  BY <1>3, <1>4, <1>5, WayDown
<1>7. m \in sub[x] /\ nx[m] = sentl
  BY <1>6 DEF Ends
<1>8. m \in Mem(tree)
  BY <1>7, SubIn
<1>9. \A a \in sub[x] : a # m => pos[m] < pos[a]
  BY <1>2, <1>6, LeftmostIsFirst
<1> QED BY <1>2, <1>7, <1>8, <1>9

LEMMA LeafFacts ==
  ASSUME NEW sub, NEW pos, Shape(tree, sub, pos), IsFiniteSet(Mem(tree)), Rt(tree) # sentl,
         NEW n \in Nodes, \A x \in Mem(tree) : On(SideFor(n, x), pos, n, x),
         NEW w, w = Leaf(n)
  PROVE  Place(tree, sub, pos, n, w, SideFor(n, w)) /\ w \in Mem(tree)
<1>1. PICK nx : nx = [y \in Mem(tree) |-> Ch(tree, y, SideFor(n, y))]
  OBVIOUS
<1>2. \A y \in Mem(tree) : nx[y] = Ch(tree, y, SideFor(n, y))
  BY <1>1
<1>3. \A y : SideFor(n, y) \in Sides
  BY DEF SideFor, Sides
<1>4. Goes(tree, nx)
  BY <1>2, <1>3 DEF Goes
<1> DEFINE D == CHOOSE f : f = [y \in Members |->
                  IF tree.at[y][SideFor(n, y)] = sentl THEN y ELSE f[tree.at[y][SideFor(n, y)]]]
<1>5. w = D[Rt(tree)]
  BY DEF Leaf, Rt
<1>6. \A y : tree.at[y][SideFor(n, y)] = Ch(tree, y, SideFor(n, y))
  BY DEF Ch
<1>7. D = [y \in Mem(tree) |-> IF nx[y] = sentl THEN y ELSE D[nx[y]]]
  <2>1. PICK f : f = [y \in Mem(tree) |-> IF nx[y] = sentl THEN y ELSE f[nx[y]]]
    BY <1>4, WayDown
  <2>2. f = [y \in Members |->
                  IF tree.at[y][SideFor(n, y)] = sentl THEN y ELSE f[tree.at[y][SideFor(n, y)]]]
    BY <1>2, <1>6, <2>1, ReadFacts
  <2>3. D = [y \in Members |->
                  IF tree.at[y][SideFor(n, y)] = sentl THEN y ELSE D[tree.at[y][SideFor(n, y)]]]
    BY <2>2
  <2> HIDE DEF D
  <2> QED BY <1>2, <1>6, <2>3, ReadFacts
<1> HIDE DEF D
<1>8. Rt(tree) \in Mem(tree) /\ sub[Rt(tree)] = Mem(tree)
  BY DEF Shape
<1>9. Ends(tree, sub, nx, Rt(tree), w)
  BY <1>4, <1>5, <1>7, <1>8, WayDown
<1>10. /\ w \in Mem(tree) /\ nx[w] = sentl
       /\ \A z \in Mem(tree), r \in Sides : w \in sub[Ch(tree, z, r)] => Ch(tree, z, r) = nx[z]
  BY <1>8, <1>9 DEF Ends
<1>11. ASSUME NEW x \in Mem(tree), NEW r \in Sides, w \in sub[Ch(tree, x, r)]
       PROVE  On(r, pos, n, x)
  <2>1. Ch(tree, x, r) = Ch(tree, x, SideFor(n, x)) /\ Ch(tree, x, r) # sentl
    BY <1>2, <1>10, <1>11 DEF Shape
  <2>2. Ch(tree, x, r) # Ch(tree, x, Other(r))
    BY <2>1, ShapeFacts
  <2>3. SideFor(n, x) = r
    BY <1>3, <2>1, <2>2, SideCases
  <2> QED BY <2>3
<1> QED BY <1>2, <1>3, <1>10, <1>11 DEF Place

LEMMA SuccessorFacts ==
  ASSUME NEW sub, NEW pos, Shape(tree, sub, pos), IsFiniteSet(Mem(tree)), Distinct(tree, pos),
         NEW n \in Mem(tree), NEW m, m = Successor(n)
  PROVE  Follows(tree, pos, n, m)
<1>1. PICK b : Ch(tree, n, "right") = b
  OBVIOUS
<1>2. CASE b # sentl
  <2>1. b \in Mem(tree)
    BY <1>1, <1>2, SideCases DEF Shape
  <2>2. m = Minimum(b)
    BY <1>1, <1>2, ReadFacts DEF Successor
  <2>3. m \in sub[b] /\ \A a \in sub[b] : a # m => pos[m] < pos[a]
    BY <2>1, <2>2, MinimumFacts
  <2> QED BY <1>1, <1>2, <2>3, NextFacts
<1>3. CASE b = sentl
  <2> DEFINE D == CHOOSE f : f = [y \in Members |->
                    IF Parent(y) # sentl /\ y = Right(Parent(y)) THEN f[Parent(y)] ELSE Parent(y)]
  <2>1. m = D[n]
    BY <1>1, <1>3, ReadFacts DEF Successor
  <2>2. \A y : Parent(y) # sentl /\ y = Right(Parent(y)) <=> IsRight(tree, y)
    BY ReadFacts DEF IsRight
  <2>3. D = [y \in Mem(tree) |-> IF IsRight(tree, y) THEN D[Pa(tree, y)] ELSE Pa(tree, y)]
    <3>1. PICK f : f = [y \in Mem(tree) |->
                          IF IsRight(tree, y) THEN f[Pa(tree, y)] ELSE Pa(tree, y)]
      BY WayUp
    <3>2. f = [y \in Members |->
                 IF Parent(y) # sentl /\ y = Right(Parent(y)) THEN f[Parent(y)] ELSE Parent(y)]
      BY <2>2, <3>1, ReadFacts
    <3>3. D = [y \in Members |->
                 IF Parent(y) # sentl /\ y = Right(Parent(y)) THEN D[Parent(y)] ELSE Parent(y)]
      BY <3>2
    <3> HIDE DEF D
    <3> QED BY <2>2, <3>3, ReadFacts
  <2> HIDE DEF D
  <2>4. IsBeyond(tree, sub, pos, n, m)
    BY <2>1, <2>3, WayUp
  <2> QED BY <1>1, <1>3, <2>4, NextFacts
<1> QED BY <1>2, <1>3

(* Keys do not fall along the order. *)
Sorted(t, pos) == \A a \in Mem(t), b \in Mem(t) : pos[a] < pos[b] => KeyOf[a] <= KeyOf[b]

(* No node of S has the key k, and e is next to where k would be. *)
Near(S, k, e) ==
  \A a \in S : /\ KeyOf[a] # k
               /\ KeyOf[a] < k => KeyOf[a] <= KeyOf[e]
               /\ k < KeyOf[a] => KeyOf[e] <= KeyOf[a]

SideOfKey(k, y) == IF k < KeyOf[y] THEN "left" ELSE "right"

LEMMA SearchEnds ==
  ASSUME NEW t, NEW sub, NEW pos, Shape(t, sub, pos), IsFiniteSet(Mem(t)), Sorted(t, pos),
         NEW k \in Nat, NEW nx,
         \A y \in Mem(t) : nx[y] = IF k = KeyOf[y] THEN sentl ELSE Ch(t, y, SideOfKey(k, y))
  PROVE  /\ Goes(t, nx)
         /\ \A x \in Mem(t) : \A e : Ends(t, sub, nx, x, e) =>
              KeyOf[e] = k \/ Near(sub[x], k, e)
<1>1. \A y : SideOfKey(k, y) \in Sides
  BY DEF SideOfKey, Sides
<1>2. Goes(t, nx)
  BY <1>1 DEF Goes
<1> DEFINE P == {x \in Mem(t) : \E e : Ends(t, sub, nx, x, e) /\ KeyOf[e] # k /\ ~Near(sub[x], k, e)}
<1>3. ASSUME P # {} PROVE FALSE
  <2>1. PICK x \in P : \A s \in Sides : Ch(t, x, s) \notin P
    <3>1. P \in SUBSET Mem(t)
      OBVIOUS
    <3> HIDE DEF P
    <3> QED BY <1>3, <3>1, Lowest
  <2>2. PICK e : Ends(t, sub, nx, x, e) /\ KeyOf[e] # k /\ ~Near(sub[x], k, e)
    BY <2>1
  <2>3. PICK s, o : SideOfKey(k, x) = s /\ Other(s) = o
    OBVIOUS
  <2>4. PICK c, d : Ch(t, x, s) = c /\ Ch(t, x, o) = d
    OBVIOUS
  <2>5. x \in Mem(t) /\ s \in Sides /\ o \in Sides /\ (s = "left" \/ s = "right")
    BY <1>1, <2>1, <2>3, SideCases
  <2>6. /\ sub[x] = {x} \cup sub[c] \cup sub[d] /\ sub[sentl] = {}
        /\ \A b \in sub[c] : On(s, pos, b, x)
        /\ \A b \in sub[d] : On(o, pos, b, x)
    <3>1. sub[x] = {x} \cup sub[Ch(t, x, "left")] \cup sub[Ch(t, x, "right")] /\ sub[sentl] = {}
      BY <2>5 DEF Shape
    <3>2. /\ \A b \in sub[c] : On(s, pos, b, x)
          /\ \A b \in sub[d] : On(o, pos, b, x)
      BY <2>4, <2>5 DEF Shape
    <3> QED BY <2>3, <2>4, <2>5, <3>1, <3>2, SideCases
  <2>7. \A b \in sub[x] : b \in Mem(t) /\ KeyOf[b] \in Nat
    <3>1. \A b \in sub[x] : b \in Mem(t)
      BY <2>5, SubIn
    <3> QED BY <3>1, MemIn, RBTreeAssumption DEF RBTreeAssumption
  <2>8. KeyOf[x] \in Nat /\ e \in sub[x] /\ KeyOf[e] \in Nat
    BY <2>2, <2>6, <2>7 DEF Ends
  <2>9. KeyOf[x] # k
    <3>1. SUFFICES ASSUME KeyOf[x] = k PROVE FALSE
      OBVIOUS
    <3>2. nx[x] = sentl
      BY <2>5, <3>1
    <3>3. e = x
      BY <1>2, <2>2, <2>5, <3>2, EndsStep
    <3> QED BY <2>2, <3>1, <3>3
  <2>10. nx[x] = c
    BY <2>3, <2>4, <2>5, <2>9
  <2>11. /\ c = sentl => e = x
         /\ c # sentl => e \in sub[c] /\ Near(sub[c], k, e)
    <3>1. CASE c = sentl
      BY <1>2, <2>2, <2>5, <2>10, <3>1, EndsStep
    <3>2. CASE c # sentl
      <4>1. c \in Mem(t) /\ Ends(t, sub, nx, c, e)
        BY <1>2, <2>2, <2>5, <2>10, <3>2, EndsStep
      <4>2. c \notin P
        BY <2>1, <2>4, <2>5
      <4>3. Near(sub[c], k, e)
        BY <2>2, <4>1, <4>2
      <4> QED BY <3>2, <4>1, <4>3 DEF Ends
    <3> QED BY <3>1, <3>2
  <2>12. \A a \in sub[c] : KeyOf[a] # k /\ (KeyOf[a] < k => KeyOf[a] <= KeyOf[e])
                           /\ (k < KeyOf[a] => KeyOf[e] <= KeyOf[a])
    <3>1. c = sentl => sub[c] = {}
      BY <2>6
    <3> QED BY <2>11, <3>1 DEF Near
  <2> HIDE DEF P
  <2>13. CASE s = "left"
    <3>1. k < KeyOf[x]
      BY <2>3, <2>13 DEF SideOfKey
    <3>2. o = "right"
      BY <2>3, <2>13, SideCases
    <3>3. \A b \in sub[d] : KeyOf[x] <= KeyOf[b]
      <4>1. \A b \in sub[d] : pos[x] < pos[b] /\ b \in Mem(t)
        BY <2>6, <2>7, <3>2 DEF On
      <4> QED BY <2>5, <4>1 DEF Sorted
    <3>4. KeyOf[e] <= KeyOf[x]
      <4>1. e \in sub[c] => pos[e] < pos[x] /\ e \in Mem(t)
        BY <2>6, <2>7, <2>13 DEF On
      <4>2. e \in sub[c] => KeyOf[e] <= KeyOf[x]
        BY <2>5, <4>1 DEF Sorted
      <4> QED BY <2>8, <2>11, <4>2
    <3>5. ASSUME NEW a \in sub[x] PROVE KeyOf[a] # k /\ (KeyOf[a] < k => KeyOf[a] <= KeyOf[e])
                           /\ (k < KeyOf[a] => KeyOf[e] <= KeyOf[a])
      <4>1. a \in sub[c] \/ KeyOf[x] <= KeyOf[a]
        BY <2>6, <2>8, <3>3
      <4>2. KeyOf[a] \in Nat
        BY <2>7
      <4>3. ~(a \in sub[c]) => ~(KeyOf[a] < k) /\ KeyOf[a] # k /\ KeyOf[e] <= KeyOf[a]
        BY <2>8, <3>1, <3>4, <4>1, <4>2
      <4> QED BY <2>12, <4>3
    <3> QED BY <2>2, <3>5 DEF Near
  <2>14. CASE s = "right"
    <3>1. KeyOf[x] < k
      <4>1. ~(k < KeyOf[x])
        BY <2>3, <2>14 DEF SideOfKey
      <4> QED BY <2>8, <2>9, <4>1
    <3>2. o = "left" /\ s # "left"
      BY <2>3, <2>14, SideCases
    <3>3. \A b \in sub[d] : KeyOf[b] <= KeyOf[x]
      <4>1. \A b \in sub[d] : pos[b] < pos[x] /\ b \in Mem(t)
        BY <2>6, <2>7, <3>2 DEF On
      <4> QED BY <2>5, <4>1 DEF Sorted
    <3>4. KeyOf[x] <= KeyOf[e]
      <4>1. e \in sub[c] => pos[x] < pos[e] /\ e \in Mem(t)
        BY <2>6, <2>7, <3>2 DEF On
      <4>2. e \in sub[c] => KeyOf[x] <= KeyOf[e]
        BY <2>5, <4>1 DEF Sorted
      <4> QED BY <2>8, <2>11, <4>2
    <3>5. ASSUME NEW a \in sub[x] PROVE KeyOf[a] # k /\ (KeyOf[a] < k => KeyOf[a] <= KeyOf[e])
                           /\ (k < KeyOf[a] => KeyOf[e] <= KeyOf[a])
      <4>1. a \in sub[c] \/ KeyOf[a] <= KeyOf[x]
        BY <2>6, <2>8, <3>3
      <4>2. KeyOf[a] \in Nat
        BY <2>7
      <4>3. ~(a \in sub[c]) => ~(k < KeyOf[a]) /\ KeyOf[a] # k /\ KeyOf[a] <= KeyOf[e]
        BY <2>8, <3>1, <3>4, <4>1, <4>2
      <4> QED BY <2>12, <4>3
    <3> QED BY <2>2, <3>5 DEF Near
  <2> QED BY <2>5, <2>13, <2>14
<1> QED BY <1>2, <1>3

LEMMA LocatedFacts ==
  ASSUME NEW sub, NEW pos, Shape(tree, sub, pos), IsFiniteSet(Mem(tree)), Sorted(tree, pos),
         Rt(tree) # sentl, NEW k \in Nat, NEW e, e = Located(k)
  PROVE  e \in Mem(tree) /\ (KeyOf[e] = k \/ Near(Mem(tree), k, e))
<1>1. PICK nx : nx = [y \in Mem(tree) |-> IF k = KeyOf[y] THEN sentl
                                          ELSE Ch(tree, y, SideOfKey(k, y))]
  OBVIOUS
<1>2. \A y \in Mem(tree) : nx[y] = IF k = KeyOf[y] THEN sentl ELSE Ch(tree, y, SideOfKey(k, y))
  BY <1>1
<1>3. /\ Goes(tree, nx)
      /\ \A x \in Mem(tree) : \A z : Ends(tree, sub, nx, x, z) =>
              KeyOf[z] = k \/ Near(sub[x], k, z)
  BY <1>2, SearchEnds
<1> DEFINE C(y) == IF k < KeyOf[y] THEN Left(y) ELSE Right(y)
           D == CHOOSE f : f = [y \in Members |->
                                  IF k = KeyOf[y] \/ C(y) = sentl THEN y ELSE f[C(y)]]
<1>4. e = D[Rt(tree)]
  BY ReadFacts DEF Located
<1>5. \A y : C(y) = Ch(tree, y, SideOfKey(k, y))
  BY ReadFacts DEF SideOfKey
<1> HIDE DEF C
<1>6. \A y \in Mem(tree) : /\ nx[y] = sentl <=> k = KeyOf[y] \/ C(y) = sentl
                           /\ nx[y] # sentl => nx[y] = C(y)
  BY <1>2, <1>5
<1>7. D = [y \in Mem(tree) |-> IF nx[y] = sentl THEN y ELSE D[nx[y]]]
  <2>1. PICK f : f = [y \in Mem(tree) |-> IF nx[y] = sentl THEN y ELSE f[nx[y]]]
    BY <1>3, WayDown
  <2>2. f = [y \in Members |-> IF k = KeyOf[y] \/ C(y) = sentl THEN y ELSE f[C(y)]]
    BY <1>6, <2>1, ReadFacts
  <2>3. D = [y \in Members |-> IF k = KeyOf[y] \/ C(y) = sentl THEN y ELSE D[C(y)]]
    BY <2>2
  <2> HIDE DEF D
  <2> QED BY <1>6, <2>3, ReadFacts
<1> HIDE DEF D
<1>8. Rt(tree) \in Mem(tree) /\ sub[Rt(tree)] = Mem(tree)
  BY DEF Shape
<1>9. Ends(tree, sub, nx, Rt(tree), e)
  BY <1>3, <1>4, <1>7, <1>8, WayDown
<1>10. e \in Mem(tree)
  BY <1>8, <1>9 DEF Ends
<1>11. KeyOf[e] = k \/ Near(sub[Rt(tree)], k, e)
  BY <1>3, <1>8, <1>9
<1> QED BY <1>8, <1>10, <1>11

LEMMA WalkFacts ==
  ASSUME NEW sub, NEW pos, Shape(tree, sub, pos), IsFiniteSet(Mem(tree)),
         NEW q, Ordered(tree, q, pos)
  PROVE  Walk = q
<1>1. PICK l : l = Len(q)
  OBVIOUS
<1>2. /\ l \in Nat /\ q \in Seq(Nodes) /\ Distinct(tree, pos)
      /\ \A j \in 1..l : q[j] \in Mem(tree) /\ pos[q[j]] = j
      /\ \A x \in Mem(tree) : pos[x] \in 1..l /\ q[pos[x]] = x /\ x # sentl
  BY <1>1, OrderedFacts, MemIn DEF Ordered
<1>3. \A x \in Mem(tree) : Successor(x) = IF pos[x] = l THEN sentl ELSE q[pos[x] + 1]
  <2>1. ASSUME NEW x \in Mem(tree)
        PROVE  Successor(x) = IF pos[x] = l THEN sentl ELSE q[pos[x] + 1]
    <3>1. PICK m : m = Successor(x)
      OBVIOUS
    <3>2. Follows(tree, pos, x, m)
      BY <1>2, <3>1, SuccessorFacts
    <3> QED BY <1>1, <3>1, <3>2, OrderedFacts
  <2> QED BY <2>1
<1>4. PICK F : F = [x \in Mem(tree) \cup {sentl} |->
                     IF x = sentl THEN <<>> ELSE SubSeq(q, pos[x], l)]
  OBVIOUS
<1>5. F[sentl] = <<>> /\ \A x \in Mem(tree) : F[x] = SubSeq(q, pos[x], l)
  BY <1>2, <1>4
<1>6. ASSUME NEW x \in Mem(tree) PROVE F[x] = <<x>> \o F[Successor(x)]
  <2>1. pos[x] \in 1..l /\ q[pos[x]] = x /\ l \in pos[x]..l
    BY <1>2
  <2>2. SubSeq(q, pos[x], l) = <<x>> \o SubSeq(q, pos[x] + 1, l)
    <3>1. pos[x] \in 1..Len(q) /\ l \in pos[x]..Len(q) /\ q \in Seq(Nodes)
      BY <1>1, <1>2, <2>1
    <3>2. SubSeq(q, pos[x], l) = <<q[pos[x]]>> \o SubSeq(q, pos[x] + 1, l)
      BY <3>1, SubSeqRecursiveFirst
    <3> QED BY <2>1, <3>2
  <2>3. F[Successor(x)] = SubSeq(q, pos[x] + 1, l)
    <3>1. CASE pos[x] = l
      <4>1. pos[x] + 1 \in Int /\ l \in Int /\ l < pos[x] + 1
        BY <1>2, <2>1, <3>1
      <4>2. SubSeq(q, pos[x] + 1, l) = <<>>
        BY <4>1, SubSeqEmpty
      <4>3. Successor(x) = sentl
        BY <1>3, <3>1
      <4> QED BY <1>5, <4>2, <4>3
    <3>2. CASE pos[x] # l
      <4>1. pos[x] + 1 \in 1..l
        BY <1>2, <2>1, <3>2
      <4>2. Successor(x) = q[pos[x] + 1]
        BY <1>3, <3>2
      <4>3. q[pos[x] + 1] \in Mem(tree) /\ pos[q[pos[x] + 1]] = pos[x] + 1
        BY <1>2, <4>1
      <4> QED BY <1>5, <4>2, <4>3
    <3> QED BY <3>1, <3>2
  <2> QED BY <1>5, <2>2, <2>3
<1> DEFINE D == CHOOSE f : f = [x \in Members \cup {sentl} |->
                                  IF x = sentl THEN <<>> ELSE <<x>> \o f[Successor(x)]]
<1>7. Walk = D[Minimum(tree.root)]
  BY DEF Walk
<1>8. /\ D[sentl] = <<>>
      /\ \A x \in Mem(tree) : D[x] = <<x>> \o D[Successor(x)]
  <2>1. F = [x \in Members \cup {sentl} |->
               IF x = sentl THEN <<>> ELSE <<x>> \o F[Successor(x)]]
    <3>1. \A x \in Members \cup {sentl} :
            F[x] = IF x = sentl THEN <<>> ELSE <<x>> \o F[Successor(x)]
      BY <1>5, <1>6, ReadFacts
    <3> QED BY <1>4, <3>1, ReadFacts
  <2>2. D = [x \in Members \cup {sentl} |->
               IF x = sentl THEN <<>> ELSE <<x>> \o D[Successor(x)]]
    BY <2>1
  <2> HIDE DEF D
  <2>3. \A x \in Mem(tree) \cup {sentl} :
          D[x] = IF x = sentl THEN <<>> ELSE <<x>> \o D[Successor(x)]
    BY <2>2, ReadFacts
  <2> QED BY <1>2, <2>3
<1> HIDE DEF D
<1> DEFINE P == {x \in Mem(tree) : D[x] # F[x]}
<1>9. ASSUME P # {} PROVE FALSE
  <2>1. PICK f : f = [x \in Mem(tree) |-> l - pos[x]]
    OBVIOUS
  <2>2. \A x \in Mem(tree) : f[x] = l - pos[x] /\ f[x] \in Nat
    BY <1>2, <2>1
  <2>3. PICK x \in P : \A y \in P : f[x] <= f[y]
    <3>1. \A x \in P : f[x] \in Nat
      BY <2>2
    <3> HIDE DEF P
    <3> QED BY <1>9, <3>1, LeastBy
  <2>4. x \in Mem(tree) /\ D[x] # F[x]
    BY <2>3
  <2>5. D[Successor(x)] = F[Successor(x)]
    <3>1. CASE pos[x] = l
      BY <1>3, <1>5, <1>8, <2>4, <3>1
    <3>2. CASE pos[x] # l
      <4>1. pos[x] \in 1..l /\ pos[x] + 1 \in 1..l
        BY <1>2, <2>4, <3>2
      <4>2. PICK y : y = Successor(x)
        OBVIOUS
      <4>3. y \in Mem(tree) /\ pos[y] = pos[x] + 1
        BY <1>2, <1>3, <2>4, <3>2, <4>1, <4>2
      <4>4. ~(f[x] <= f[y])
        BY <1>2, <2>2, <2>4, <4>1, <4>3
      <4>5. y \notin P
        BY <2>3, <4>4
      <4> QED BY <4>2, <4>3, <4>5
    <3> QED BY <3>1, <3>2
  <2> QED BY <1>6, <1>8, <2>4, <2>5
<1>10. \A x \in Mem(tree) : D[x] = F[x]
  BY <1>9
<1> HIDE DEF P
<1>11. CASE Rt(tree) = sentl
  <2>1. Mem(tree) = {}
    BY <1>11 DEF Shape
  <2>2. l = 0
    BY <1>2, <2>1
  <2>3. q = <<>>
    <3>1. SubSeq(q, 1, Len(q)) = q
      BY <1>2, SubSeqFull
    <3>2. SubSeq(q, 1, 0) = <<>>
      BY SubSeqEmpty
    <3> QED BY <1>1, <2>2, <3>1, <3>2
  <2>4. Minimum(tree.root) = sentl
    BY <1>11, ReadFacts DEF Minimum
  <2> QED BY <1>7, <1>8, <2>3, <2>4
<1>12. CASE Rt(tree) # sentl
  <2>1. Rt(tree) \in Mem(tree) /\ sub[Rt(tree)] = Mem(tree)
    BY <1>12 DEF Shape
  <2>2. PICK m : m = Minimum(Rt(tree))
    OBVIOUS
  <2>3. m \in Mem(tree) /\ \A a \in Mem(tree) : a # m => pos[m] < pos[a]
    BY <2>1, <2>2, MinimumFacts
  <2>4. pos[m] \in 1..l /\ 1 \in 1..l
    BY <1>2, <2>3
  <2>5. q[1] \in Mem(tree) /\ pos[q[1]] = 1
    BY <1>2, <2>4
  <2>6. pos[m] = 1
    BY <1>2, <2>3, <2>4, <2>5
  <2>7. Walk = SubSeq(q, 1, l)
    BY <1>5, <1>7, <1>10, <2>2, <2>3, <2>6, ReadFacts
  <2> QED BY <1>1, <1>2, <2>7, SubSeqFull
<1> QED BY <1>11, <1>12

LEMMA BlackHeightFacts ==
  ASSUME NEW sub, NEW pos, Shape(tree, sub, pos), IsFiniteSet(Mem(tree)),
         NEW bh, NEW r, Heights(tree, bh, NULL, r)
  PROVE  BlackHeight = {bh[Rt(tree)]}
<1>1. \A x \in Mem(tree) : x # sentl /\ x # NULL /\ x \in Cells
  BY MemIn
<1>2. \A x \in Mem(tree), s \in Sides : /\ bh[x] = bh[Ch(tree, x, s)] + Black(tree, x)
                                        /\ Ch(tree, x, s) \in Mem(tree) \cup {sentl}
  <2>1. \A x \in Mem(tree), s \in Sides :
          /\ bh[x] = bh[Ch(tree, x, s)] + Lost(NULL, r, x, s) + Black(tree, x)
          /\ bh[Ch(tree, x, s)] \in Nat /\ Black(tree, x) \in {0, 1}
    <3>1. \A x \in Mem(tree), s \in Sides :
            bh[Ch(tree, x, s)] \in Nat /\ Black(tree, x) \in {0, 1}
      BY HeightTypes
    <3> QED BY <3>1 DEF Heights
  <2>2. \A x \in Mem(tree), s \in Sides : Lost(NULL, r, x, s) = 0
    BY <1>1 DEF Lost
  <2>3. \A x \in Mem(tree), s \in Sides : bh[x] = bh[Ch(tree, x, s)] + Black(tree, x)
    BY <2>1, <2>2
  <2> QED BY <2>3 DEF Shape
<1>3. "left" \in Sides /\ "right" \in Sides
  BY SideCases
<1> DEFINE B(x) == IF Color(x) = "black" THEN 1 ELSE 0
           D == CHOOSE f : f = [x \in Members \cup {sentl} |->
                  IF x = sentl THEN {0}
                  ELSE {k + (IF Color(x) = "black" THEN 1 ELSE 0) : k \in f[Left(x)] \cup f[Right(x)]}]
<1>4. BlackHeight = D[Rt(tree)]
  BY ReadFacts DEF BlackHeight
<1>5. \A x : (IF Color(x) = "black" THEN 1 ELSE 0) = Black(tree, x)
  BY ReadFacts DEF Black
<1>6. PICK F : F = [x \in Mem(tree) \cup {sentl} |-> {bh[x]}]
  OBVIOUS
<1>7. F[sentl] = {0} /\ \A x \in Mem(tree) : F[x] = {bh[x]}
  <2>1. bh[sentl] = 0
    BY DEF Heights
  <2> QED BY <1>6, <2>1
<1>8. ASSUME NEW x \in Mem(tree)
      PROVE  F[x] = {k + Black(tree, x) : k \in F[Left(x)] \cup F[Right(x)]}
  <2>1. PICK a, b : Ch(tree, x, "left") = a /\ Ch(tree, x, "right") = b
    OBVIOUS
  <2>2. /\ bh[x] = bh[a] + Black(tree, x) /\ bh[x] = bh[b] + Black(tree, x)
        /\ a \in Mem(tree) \cup {sentl} /\ b \in Mem(tree) \cup {sentl}
    BY <1>2, <1>3, <2>1
  <2>3. F[a] = {bh[a]} /\ F[b] = {bh[b]}
    BY <1>6, <2>2
  <2>4. Left(x) = a /\ Right(x) = b
    BY <2>1, ReadFacts
  <2> QED BY <1>7, <2>2, <2>3, <2>4
<1>9. /\ D[sentl] = {0}
      /\ \A x \in Mem(tree) : D[x] = {k + Black(tree, x) : k \in D[Left(x)] \cup D[Right(x)]}
  <2>1. F = [x \in Members \cup {sentl} |->
               IF x = sentl THEN {0}
               ELSE {k + (IF Color(x) = "black" THEN 1 ELSE 0) : k \in F[Left(x)] \cup F[Right(x)]}]
    <3>1. \A x \in Mem(tree) : F[x] =
            {k + (IF Color(x) = "black" THEN 1 ELSE 0) : k \in F[Left(x)] \cup F[Right(x)]}
      BY <1>5, <1>8
    <3>2. \A x \in Members \cup {sentl} : F[x] =
            IF x = sentl THEN {0}
            ELSE {k + (IF Color(x) = "black" THEN 1 ELSE 0) : k \in F[Left(x)] \cup F[Right(x)]}
      BY <1>7, <3>1, ReadFacts
    <3> QED BY <1>6, <3>2, ReadFacts
  <2>2. D = [x \in Members \cup {sentl} |->
               IF x = sentl THEN {0}
               ELSE {k + (IF Color(x) = "black" THEN 1 ELSE 0) : k \in D[Left(x)] \cup D[Right(x)]}]
    BY <2>1
  <2> HIDE DEF D
  <2>3. \A x \in Mem(tree) \cup {sentl} : D[x] =
               IF x = sentl THEN {0}
               ELSE {k + (IF Color(x) = "black" THEN 1 ELSE 0) : k \in D[Left(x)] \cup D[Right(x)]}
    BY <2>2, ReadFacts
  <2>4. D[sentl] = {0}
    BY <2>2
  <2>5. ASSUME NEW x \in Mem(tree)
        PROVE  D[x] = {k + Black(tree, x) : k \in D[Left(x)] \cup D[Right(x)]}
    <3>1. D[x] = {k + (IF Color(x) = "black" THEN 1 ELSE 0) : k \in D[Left(x)] \cup D[Right(x)]}
      BY <1>1, <2>3
    <3>2. (IF Color(x) = "black" THEN 1 ELSE 0) = Black(tree, x)
      BY <1>5
    <3> QED BY <3>1, <3>2
  <2> QED BY <2>4, <2>5
<1> HIDE DEF D
<1> DEFINE P == {x \in Mem(tree) : D[x] # F[x]}
<1>10. ASSUME P # {} PROVE FALSE
  <2>1. PICK x \in P : \A s \in Sides : Ch(tree, x, s) \notin P
    <3>1. P \in SUBSET Mem(tree)
      OBVIOUS
    <3> HIDE DEF P
    <3> QED BY <1>10, <3>1, Lowest
  <2>2. x \in Mem(tree) /\ D[x] # F[x]
    BY <2>1
  <2>3. \A s \in Sides : D[Ch(tree, x, s)] = F[Ch(tree, x, s)]
    BY <1>2, <1>7, <1>9, <2>1, <2>2
  <2>4. D[Left(x)] = F[Left(x)] /\ D[Right(x)] = F[Right(x)]
    BY <1>3, <2>3, ReadFacts
  <2> QED BY <1>8, <1>9, <2>2, <2>4
<1>11. \A x \in Mem(tree) \cup {sentl} : D[x] = F[x]
  BY <1>7, <1>9, <1>10
<1>12. Rt(tree) \in Mem(tree) \cup {sentl}
  BY ShapeFacts
<1> QED BY <1>4, <1>6, <1>11, <1>12

----------------------------------------------------------------------------
(* The inductive invariant: the tree has a shape that keeps the order of   *)
(* the sequence, its colors are balanced but for what the running loop is  *)
(* about to restore, and nothing is answered while a loop runs.            *)

Inv(t, l, k, x, c, q) ==
  /\ \E sub, pos : Shape(t, sub, pos) /\ Ordered(t, q, pos)
  /\ Balanced(t, k, x)
  /\ c \in Mem(t) \cup {sentl}
  /\ l = Cardinality(Mem(t)) - (IF k = "insert" THEN 1 ELSE 0)

IInv ==
  /\ fix = [loop |-> fix.loop, node |-> fix.node]
  /\ fix.loop = "none" => fix = Idle
  /\ fix.loop # "none" => answer = NULL
  /\ Inv(tree, len, fix.loop, fix.node, cursor, seq)

LEMMA FiniteMem ==
  \A t : /\ IsFiniteSet(Mem(t)) /\ Cardinality(Mem(t)) \in Nat
         /\ Cardinality(Mem(t)) <= Cardinality(Nodes) /\ Cardinality(Nodes) \in Nat
<1>1. IsFiniteSet(Nodes)
  BY RBTreeAssumption DEF RBTreeAssumption
<1>2. \A t : Mem(t) \in SUBSET Nodes
  BY MemIn
<1> QED BY <1>1, <1>2, FS_Subset, FS_CardinalityType

LEMMA IdleFacts ==
  ASSUME IInv
  PROVE  /\ fix = Idle <=> fix.loop = "none"
         /\ fix.loop \in {"none", "insert", "remove", "done"}
<1>1. AtWork(tree, fix.loop, fix.node)
  BY DEF IInv, Inv, Balanced, Colored
<1>2. fix = Idle => fix.loop = "none"
  BY DEF Idle
<1> QED BY <1>1, <1>2 DEF IInv, AtWork

(* A turn of a loop keeps the invariant. *)
LEMMA KeepInv ==
  ASSUME IInv, NEW sub, NEW pos, Shape(tree, sub, pos), Ordered(tree, seq, pos),
         Turned(tree, tree', pos), NEW k, NEW x, fix' = [loop |-> k, node |-> x],
         k = "none" => fix' = Idle, Balanced(tree', k, x),
         cursor' = cursor, seq' = seq, answer' = NULL,
         len' = IF fix.loop = "insert" /\ k # "insert" THEN len + 1 ELSE len,
         k = "insert" => fix.loop = "insert"
  PROVE  IInv'
<1>1. PICK sub2 : Shape(tree', sub2, pos) /\ Mem(tree') = Mem(tree)
  BY DEF Turned
<1>2. Ordered(tree', seq', pos)
  BY <1>1 DEF Ordered
<1>3. cursor' \in Mem(tree') \cup {sentl}
  BY <1>1 DEF IInv, Inv
<1>4. len' = Cardinality(Mem(tree')) - (IF k = "insert" THEN 1 ELSE 0)
  <2>1. len = Cardinality(Mem(tree)) - (IF fix.loop = "insert" THEN 1 ELSE 0)
    BY DEF IInv, Inv
  <2>2. Cardinality(Mem(tree)) \in Nat
    BY FiniteMem
  <2> QED BY <1>1, <2>1, <2>2
<1>5. fix'.loop = k /\ fix'.node = x
  OBVIOUS
<1>6. Inv(tree', len', fix'.loop, fix'.node, cursor', seq')
  BY <1>1, <1>2, <1>3, <1>4, <1>5 DEF Inv
<1> QED BY <1>5, <1>6 DEF IInv

(* What Insert() makes of the tree. *)
LEMMA InsertFacts ==
  ASSUME IInv, NEW n \in Nodes, Insert(n)
  PROVE  IInv' /\ \E i \in 1..(Len(seq) + 1) : InPlace(seq, n, i) /\ seq' = Put(seq, i, n)
<1>1. /\ fix = Idle /\ fix.loop = "none" /\ n \in Nodes \ Mem(tree)
      /\ fix' = [loop |-> "insert", node |-> n]
      /\ seq' = With(n) /\ answer' = NULL /\ len' = len /\ cursor' = cursor
  BY IdleFacts, ReadFacts DEF Insert, NoAnswer, Members
<1>2. PICK sub, pos : Shape(tree, sub, pos) /\ Ordered(tree, seq, pos)
  BY DEF IInv, Inv
<1>3. Balanced(tree, "none", fix.node) /\ IsFiniteSet(Mem(tree)) /\ cursor \in Mem(tree) \cup {sentl}
      /\ len = Cardinality(Mem(tree))
  <2>1. /\ Balanced(tree, "none", fix.node) /\ cursor \in Mem(tree) \cup {sentl}
        /\ len = Cardinality(Mem(tree)) - 0
    BY <1>1 DEF IInv, Inv
  <2> QED BY <2>1, FiniteMem
<1>4. PICK i \in 1..(Len(seq) + 1) : InPlace(seq, n, i) /\ seq' = Put(seq, i, n)
  <2>1. \E i \in 1..(Len(seq) + 1) : InPlace(seq, n, i)
    BY <1>2, HasPlace DEF Ordered
  <2>2. PlaceFor(n) \in 1..(Len(seq) + 1) /\ InPlace(seq, n, PlaceFor(n))
    BY <2>1 DEF PlaceFor, InPlace
  <2>3. With(n) = Put(seq, PlaceFor(n), n)
    BY DEF With, Put
  <2> QED BY <1>1, <2>2, <2>3
<1>5. PICK pos2 : /\ Shape(tree, sub, pos2)
                  /\ \A u : Mem(u) = Mem(tree) \cup {n} => Ordered(u, seq', pos2)
                  /\ \A x \in Mem(tree) : On(SideFor(n, x), pos2, n, x)
  BY <1>1, <1>2, <1>4, PutOrdered
<1>6. PICK w, s : w = (IF Rt(tree) = sentl THEN sentl ELSE Leaf(n)) /\ s = SideFor(n, w)
  OBVIOUS
<1>7. Place(tree, sub, pos2, n, w, s)
  <2>1. CASE Rt(tree) = sentl
    BY <1>6, <2>1 DEF Place
  <2>2. CASE Rt(tree) # sentl
    BY <1>1, <1>3, <1>5, <1>6, <2>2, LeafFacts
  <2> QED BY <2>1, <2>2
<1>8. tree' = IF Rt(tree) = sentl THEN WithCell(WithRoot(tree, n), n, Fresh(w))
              ELSE WithCell(WithChild(tree, w, s, n), n, Fresh(w))
  BY <1>6 DEF Insert, Rt, WithCell, WithRoot, WithChild, Fresh
<1>9. Hung(tree, tree', n, w, s)
  <2>1. tree \in Trees
    BY <1>2 DEF Shape
  <2>2. \/ Rt(tree) = sentl /\ w = sentl
        \/ Rt(tree) # sentl /\ w \in Nodes /\ w # n /\ s \in Sides
    BY <1>1, <1>7, MemIn DEF Place
  <2> QED BY <1>8, <2>1, <2>2, HungFacts
<1>10. PICK sub2 : Mem(tree') = Mem(tree) \cup {n} /\ Shape(tree', sub2, pos2)
  BY <1>1, <1>5, <1>7, <1>9, HungShape
<1>11. Balanced(tree', "insert", n)
  BY <1>1, <1>3, <1>5, <1>7, <1>9, HungColors
<1>12. Ordered(tree', seq', pos2)
  BY <1>5, <1>10
<1>13. len' = Cardinality(Mem(tree')) - 1
  <2>1. Cardinality(Mem(tree) \cup {n}) = Cardinality(Mem(tree)) + 1
    BY <1>1, <1>3, FS_AddElement
  <2> QED BY <1>1, <1>3, <1>10, <2>1, FiniteMem
<1>14. Inv(tree', len', fix'.loop, fix'.node, cursor', seq')
  BY <1>1, <1>3, <1>10, <1>11, <1>12, <1>13 DEF Inv
<1> QED BY <1>1, <1>4, <1>14 DEF IInv

(* What _ffrbt_node_rm() and the unlinking of the node make of the tree. *)
LEMMA RemovedFacts ==
  ASSUME NEW sub, NEW pos, Shape(tree, sub, pos), IsFiniteSet(Mem(tree)), Distinct(tree, pos),
         NEW n \in Mem(tree), NEW z, Balanced(tree, "none", z),
         NEW u, u = WithCell(Removed(n).t, n, Unlinked),
         NEW k, k = IF Removed(n).lost = "red" THEN "done" ELSE "remove"
  PROVE  /\ Mem(u) = Mem(tree) \ {n} /\ \E sub2 : Shape(u, sub2, pos)
         /\ Balanced(u, k, Removed(n).x)
<1>1. PICK a, b : Ch(tree, n, "left") = a /\ Ch(tree, n, "right") = b
  OBVIOUS
<1>2. /\ "left" \in Sides /\ "right" \in Sides
      /\ Other("left") = "right" /\ Other("right") = "left"
  BY SideCases
<1>3. ASSUME NEW s \in Sides, NEW c, c = Ch(tree, n, s), Ch(tree, n, Other(s)) = sentl,
             Removed(n) = WithOneChild(n, c)
      PROVE  /\ Mem(u) = Mem(tree) \ {n} /\ \E sub2 : Shape(u, sub2, pos)
             /\ Balanced(u, k, Removed(n).x)
  <2>1. /\ Removed(n).t = RelinkParent(tree, n, c) /\ Removed(n).x = c
        /\ Removed(n).lost = Co(tree, n)
    BY <1>3, ReadFacts DEF WithOneChild
  <2>2. c \in Mem(tree) \cup {sentl} /\ c # n
    BY <1>3, ShapeFacts DEF Shape
  <2>3. u = WithCell(RelinkParent(tree, n, c), n, Unlinked)
    BY <2>1
  <2>4. Spliced(tree, u, n, c)
    BY <2>2, <2>3, SplicedFacts
  <2>5. Mem(u) = Mem(tree) \ {n} /\ \E sub2 : Shape(u, sub2, pos)
    BY <1>3, <2>4, SplicedShape
  <2>6. k = IF Co(tree, n) = "red" THEN "done" ELSE "remove"
    BY <2>1
  <2>7. Balanced(u, k, c)
    BY <1>3, <2>4, <2>6, SplicedColors
  <2> QED BY <2>1, <2>5, <2>7
<1>4. CASE a = sentl
  <2>1. Removed(n) = WithOneChild(n, b)
    BY <1>1, <1>4, ReadFacts DEF Removed
  <2> QED BY <1>1, <1>2, <1>3, <1>4, <2>1
<1>5. CASE a # sentl /\ b = sentl
  <2>1. Removed(n) = WithOneChild(n, a)
    BY <1>1, <1>5, ReadFacts DEF Removed
  <2> QED BY <1>1, <1>2, <1>3, <1>5, <2>1
<1>6. CASE a # sentl /\ b # sentl
  <2>1. Removed(n) = WithSuccessor(n)
    BY <1>1, <1>6, ReadFacts DEF Removed
  <2>2. PICK m : m = Minimum(b)
    OBVIOUS
  <2>3. b \in Mem(tree)
    BY <1>1, <1>2, <1>6 DEF Shape
  <2>4. /\ m \in sub[b] /\ m \in Mem(tree) /\ Ch(tree, m, "left") = sentl
        /\ \A y \in sub[b] : y # m => pos[m] < pos[y]
    BY <2>2, <2>3, MinimumFacts
  <2>5. PICK x : Ch(tree, m, "right") = x
    OBVIOUS
  <2>6. /\ Removed(n).t = Hop(tree, n, m) /\ Removed(n).x = x
        /\ Removed(n).lost = Co(tree, m)
    BY <1>1, <2>1, <2>2, <2>5, ReadFacts DEF WithSuccessor, Hop, WithParent
  <2>7. x \in Mem(tree) \cup {sentl} /\ x # m
    <3>1. x \in Mem(tree) \cup {sentl}
      BY <1>2, <2>4, <2>5 DEF Shape
    <3> QED BY <1>2, <2>4, <2>5, <3>1, ShapeFacts
  <2>8. PICK v : v = WithCell(RelinkParent(tree, m, x), m, Unlinked)
    OBVIOUS
  <2>9. Spliced(tree, v, m, x)
    BY <2>4, <2>7, <2>8, SplicedFacts
  <2>10. x = Ch(tree, m, "right") /\ Ch(tree, m, Other("right")) = sentl
    BY <1>2, <2>4, <2>5
  <2>11. PICK subv : Mem(v) = Mem(tree) \ {m} /\ Shape(v, subv, pos)
    BY <1>2, <2>4, <2>9, <2>10, SplicedShape
  <2>12. k = IF Co(tree, m) = "red" THEN "done" ELSE "remove"
    BY <2>6
  <2>13. Balanced(v, k, x)
    BY <1>2, <2>4, <2>9, <2>10, <2>12, SplicedColors
  <2>14. u = WithCell(Hop(tree, n, m), n, Unlinked)
    BY <2>6
  <2>15. /\ m # n /\ x # n
         /\ Replaced(v, u, n, m)
         /\ Pa(u, x) = IF Pa(v, x) = n THEN m ELSE Pa(v, x)
    BY <1>1, <1>6, <2>4, <2>5, <2>9, <2>14, HopFacts
  <2>16. Follows(tree, pos, n, m)
    BY <1>1, <1>6, <2>4, NextFacts
  <2>17. m # sentl
    BY <2>4, MemIn
  <2>18. pos[n] < pos[m] /\ \A y \in Mem(tree) : pos[n] < pos[y] /\ y # m => pos[m] < pos[y]
    BY <2>16, <2>17 DEF Follows
  <2>19. n \in Mem(v) /\ m \in Nodes \ Mem(v)
    BY <2>4, <2>11, <2>15, MemIn
  <2>20. ASSUME NEW y \in Mem(v) \ {n}
         PROVE  (pos[y] < pos[n] <=> pos[y] < pos[m]) /\ (pos[n] < pos[y] <=> pos[m] < pos[y])
    <3>1. y \in Mem(tree) /\ y # n /\ y # m
      BY <2>11, <2>20
    <3>2. pos[y] # pos[n] /\ pos[y] \in Int /\ pos[n] \in Int /\ pos[m] \in Int
      <4>1. pos \in [Nodes -> Int] /\ y \in Nodes /\ n \in Nodes /\ m \in Nodes
        BY <2>4, <3>1, MemIn DEF Shape
      <4> QED BY <3>1, <4>1 DEF Distinct
    <3> QED BY <2>18, <3>1, <3>2
  <2>21. Mem(u) = (Mem(v) \ {n}) \cup {m} /\ \E sub2 : Shape(u, sub2, pos)
    BY <2>11, <2>15, <2>19, <2>20, ReplacedShape
  <2>22. Balanced(u, k, x)
    <3>1. x \in Mem(v) \cup {sentl} /\ k \in {"remove", "done"}
      BY <2>7, <2>11, <2>12
    <3> QED BY <2>11, <2>13, <2>15, <2>19, <2>21, <3>1, ReplacedColors
  <2> QED BY <2>4, <2>6, <2>11, <2>15, <2>21, <2>22
<1> QED BY <1>4, <1>5, <1>6

LEMMA TakeOutFacts ==
  ASSUME IInv, NEW n \in Nodes, TakeOut(n), cursor' \in Mem(tree) \cup {sentl}, cursor' # n
  PROVE  IInv' /\ n \in Mem(tree)
<1>1. /\ fix = Idle /\ fix.loop = "none" /\ n \in Mem(tree)
      /\ len' = len - 1 /\ seq' = Without(n) /\ answer' = NULL
  BY IdleFacts, ReadFacts DEF TakeOut, NoAnswer, Members
<1>2. PICK sub, pos : Shape(tree, sub, pos) /\ Ordered(tree, seq, pos)
  BY DEF IInv, Inv
<1>3. /\ Balanced(tree, "none", fix.node) /\ IsFiniteSet(Mem(tree)) /\ Distinct(tree, pos)
      /\ len = Cardinality(Mem(tree))
  <2>1. /\ Balanced(tree, "none", fix.node)
        /\ len = Cardinality(Mem(tree)) - 0
    BY <1>1 DEF IInv, Inv
  <2> QED BY <1>2, <2>1, FiniteMem, OrderedFacts
<1>4. PICK k : k = IF Removed(n).lost = "red" THEN "done" ELSE "remove"
  OBVIOUS
<1>5. /\ tree' = WithCell(Removed(n).t, n, Unlinked)
      /\ fix' = [loop |-> k, node |-> Removed(n).x]
  BY <1>4 DEF TakeOut, WithCell
<1>6. PICK sub2 : /\ Mem(tree') = Mem(tree) \ {n} /\ Shape(tree', sub2, pos)
                  /\ Balanced(tree', k, Removed(n).x)
  BY <1>1, <1>2, <1>3, <1>4, <1>5, RemovedFacts
<1>7. Without(n) = Drop(seq, pos[n])
  <2>1. /\ DOMAIN seq = 1..Len(seq) /\ pos[n] \in 1..Len(seq) /\ seq[pos[n]] = n
        /\ \A i \in 1..Len(seq) : pos[seq[i]] = i
    BY <1>1, <1>2, OrderedFacts DEF Ordered
  <2>2. PlaceOf(n) = pos[n]
    BY <2>1 DEF PlaceOf
  <2> QED BY <2>2 DEF Without, Drop
<1>8. PICK pos2 : Shape(tree', sub2, pos2) /\ Ordered(tree', seq', pos2)
  BY <1>1, <1>2, <1>6, <1>7, DropOrdered
<1>9. len' = Cardinality(Mem(tree'))
  <2>1. Cardinality(Mem(tree) \ {n}) = Cardinality(Mem(tree)) - 1
    BY <1>1, <1>3, FS_RemoveElement
  <2> QED BY <1>1, <1>3, <1>6, <2>1
<1>10. k # "insert" /\ k # "none"
  BY <1>4
<1>11. cursor' \in Mem(tree') \cup {sentl}
  BY <1>6
<1>12. len' = Cardinality(Mem(tree')) - 0
  BY <1>9, FiniteMem
<1>13. Inv(tree', len', fix'.loop, fix'.node, cursor', seq')
  BY <1>5, <1>6, <1>8, <1>10, <1>11, <1>12 DEF Inv
<1> QED BY <1>1, <1>5, <1>10, <1>13 DEF IInv

----------------------------------------------------------------------------
(* The turns of the loops keep the invariant. *)

LEMMA InsertRecolorKeeps == IInv /\ InsertRecolor => IInv'
<1> SUFFICES ASSUME IInv, InsertRecolor PROVE IInv'
  OBVIOUS
<1>1. PICK sub, pos : Shape(tree, sub, pos) /\ Ordered(tree, seq, pos)
  BY DEF IInv, Inv
<1>2. PICK x, p, g : x = fix.node /\ p = Pa(tree, x) /\ g = Pa(tree, p)
  OBVIOUS
<1>3. PICK s, y : s = SideIn(tree, p) /\ y = Ch(tree, g, Other(s))
  OBVIOUS
<1>4. /\ Parent(x) = p /\ Grandparent(x) = g /\ ParentSide(x) = s /\ Uncle(x) = y
  BY <1>2, <1>3, ReadFacts DEF Grandparent, ParentSide, Uncle, SideIn, Ch
<1>5. /\ fix.loop = "insert" /\ Balanced(tree, "insert", x) /\ Co(tree, p) = "red"
  BY <1>2, <1>4, ReadFacts DEF InsertRecolor, ParentIsRed, IInv, Inv
<1>6. /\ Co(tree, y) = "red"
      /\ tree' = Paint(Paint(Paint(tree, p, "black"), y, "black"), g, "red")
      /\ fix' = [loop |-> "insert", node |-> g]
      /\ len' = len /\ cursor' = cursor /\ seq' = seq /\ answer' = NULL
  <2>1. /\ Color(Uncle(x)) = "red"
        /\ tree' = Paint(Paint(Paint(tree, Parent(x), "black"), Uncle(x), "black"),
                         Grandparent(x), "red")
        /\ fix' = [fix EXCEPT !.node = Grandparent(x)]
        /\ len' = len /\ cursor' = cursor /\ seq' = seq /\ answer' = NULL
    BY <1>2 DEF InsertRecolor, NoAnswer
  <2>2. fix = [loop |-> "insert", node |-> x]
    BY <1>2, <1>5 DEF IInv
  <2> QED BY <1>4, <2>1, <2>2, ReadFacts
<1>7. Turned(tree, tree', pos) /\ Balanced(tree', "insert", g)
  <2>1. Co(tree, Pa(tree, x)) = "red"
    BY <1>2, <1>5
  <2> QED BY <1>1, <1>2, <1>3, <1>5, <1>6, <2>1, InsertRecolorTurn
<1> QED BY <1>1, <1>5, <1>6, <1>7, KeepInv

LEMMA InsertRotateKeeps == IInv /\ InsertRotate => IInv'
<1> SUFFICES ASSUME IInv, InsertRotate PROVE IInv'
  OBVIOUS
<1>1. PICK sub, pos : Shape(tree, sub, pos) /\ Ordered(tree, seq, pos)
  BY DEF IInv, Inv
<1>2. PICK x, p, g : x = fix.node /\ p = Pa(tree, x) /\ g = Pa(tree, p)
  OBVIOUS
<1>3. PICK s, o, y : s = SideIn(tree, p) /\ o = Other(s) /\ y = Ch(tree, g, o)
  OBVIOUS
<1>4. /\ Parent(x) = p /\ Grandparent(x) = g /\ ParentSide(x) = s /\ Uncle(x) = y
  BY <1>2, <1>3, ReadFacts DEF Grandparent, ParentSide, Uncle, SideIn, Ch
<1>5. /\ fix.loop = "insert" /\ Balanced(tree, "insert", x) /\ Co(tree, p) = "red"
  BY <1>2, <1>4, ReadFacts DEF InsertRotate, ParentIsRed, IInv, Inv
<1>6. PICK t1, a, b : /\ t1 = IF x = Ch(tree, p, o) THEN Rotate(tree, s, p) ELSE tree
                      /\ a = IF x = Ch(tree, p, o) THEN x ELSE p
                      /\ b = IF x = Ch(tree, p, o) THEN p ELSE x
  OBVIOUS
<1>7. PICK v : v = Paint(Paint(t1, a, "black"), g, "red")
  OBVIOUS
<1>8. /\ Co(tree, y) = "black"
      /\ tree' = Rotate(v, o, g)
      /\ fix' = [loop |-> "insert", node |-> b]
      /\ len' = len /\ cursor' = cursor /\ seq' = seq /\ answer' = NULL
  <2>1. fix = [loop |-> "insert", node |-> x]
    BY <1>2, <1>5 DEF IInv
  <2>2. Color(Uncle(x)) = "black"
    BY <1>2 DEF InsertRotate
  <2>3. tree' = Rotate(v, o, g)
    BY <1>2, <1>3, <1>4, <1>6, <1>7 DEF InsertRotate, Ch
  <2>4. fix' = [fix EXCEPT !.node = b]
    BY <1>2, <1>3, <1>4, <1>6 DEF InsertRotate, Ch
  <2>5. len' = len /\ cursor' = cursor /\ seq' = seq /\ answer' = NULL
    BY DEF InsertRotate, NoAnswer
  <2> QED BY <1>4, <2>1, <2>2, <2>3, <2>4, <2>5, ReadFacts
<1>9. Turned(tree, tree', pos) /\ Balanced(tree', "insert", b)
  <2>1. Co(tree, Pa(tree, x)) = "red"
    BY <1>2, <1>5
  <2> QED BY <1>1, <1>2, <1>3, <1>5, <1>6, <1>7, <1>8, <2>1, InsertRotateTurn
<1> QED BY <1>1, <1>5, <1>8, <1>9, KeepInv

LEMMA InsertEndKeeps == IInv /\ InsertEnd => IInv'
<1> SUFFICES ASSUME IInv, InsertEnd PROVE IInv'
  OBVIOUS
<1>1. PICK sub, pos : Shape(tree, sub, pos) /\ Ordered(tree, seq, pos)
  BY DEF IInv, Inv
<1>2. PICK x : x = fix.node
  OBVIOUS
<1>3. /\ fix.loop = "insert" /\ Balanced(tree, "insert", x) /\ Co(tree, Pa(tree, x)) # "red"
  BY <1>2, ReadFacts DEF InsertEnd, ParentIsRed, IInv, Inv
<1>4. /\ tree' = Paint(tree, Rt(tree), "black") /\ len' = len + 1 /\ fix' = Idle
      /\ cursor' = cursor /\ seq' = seq /\ answer' = NULL
  BY ReadFacts DEF InsertEnd, NoAnswer
<1>5. Turned(tree, tree', pos) /\ Balanced(tree', "none", NULL)
  BY <1>1, <1>3, <1>4, InsertEndTurn
<1>6. fix' = [loop |-> "none", node |-> NULL]
  BY <1>4 DEF Idle
<1> QED BY <1>1, <1>3, <1>4, <1>5, <1>6, KeepInv

(* What the turns of the removal's loop read around its node. *)
LEMMA MissingReads ==
  ASSUME IInv, Missing
  PROVE  \E x, p, s, o, y :
           /\ x = fix.node /\ p = Pa(tree, x) /\ s = SideIn(tree, x) /\ o = Other(s)
           /\ y = Ch(tree, p, o)
           /\ Parent(x) = p /\ SideOf(x) = s /\ Sibling(x) = y
           /\ fix = [loop |-> "remove", node |-> x]
           /\ Balanced(tree, "remove", x) /\ x # Rt(tree) /\ Co(tree, x) = "black"
<1>1. PICK x, p : x = fix.node /\ p = Pa(tree, x)
  OBVIOUS
<1>2. PICK s, o, y : s = SideIn(tree, x) /\ o = Other(s) /\ y = Ch(tree, p, o)
  OBVIOUS
<1>3. Parent(x) = p /\ SideOf(x) = s /\ Sibling(x) = y
  BY <1>1, <1>2, ReadFacts DEF SideOf, Sibling, SideIn, Ch
<1>4. /\ fix.loop = "remove" /\ x # Rt(tree) /\ Co(tree, x) = "black"
  BY <1>1, ReadFacts DEF Missing
<1>5. fix = [loop |-> "remove", node |-> x] /\ Balanced(tree, "remove", x)
  BY <1>1, <1>4 DEF IInv, Inv
<1> QED BY <1>1, <1>2, <1>3, <1>4, <1>5

LEMMA RemoveRaiseKeeps == IInv /\ RemoveRaise => IInv'
<1> SUFFICES ASSUME IInv, RemoveRaise PROVE IInv'
  OBVIOUS
<1>1. PICK sub, pos : Shape(tree, sub, pos) /\ Ordered(tree, seq, pos)
  BY DEF IInv, Inv
<1>2. PICK x, p, s, o, y :
        /\ x = fix.node /\ p = Pa(tree, x) /\ s = SideIn(tree, x) /\ o = Other(s)
        /\ y = Ch(tree, p, o)
        /\ Parent(x) = p /\ SideOf(x) = s /\ Sibling(x) = y
        /\ fix = [loop |-> "remove", node |-> x]
        /\ Balanced(tree, "remove", x) /\ x # Rt(tree) /\ Co(tree, x) = "black"
  BY MissingReads DEF RemoveRaise
<1>3. PICK v : v = Paint(Paint(tree, y, "black"), p, "red")
  OBVIOUS
<1>4. /\ Co(tree, y) = "red" /\ tree' = Rotate(v, s, p)
      /\ fix' = [loop |-> "remove", node |-> x]
      /\ len' = len /\ cursor' = cursor /\ seq' = seq /\ answer' = NULL
  BY <1>2, <1>3, ReadFacts DEF RemoveRaise, NoAnswer
<1>5. Turned(tree, tree', pos) /\ Balanced(tree', "remove", x)
  BY <1>1, <1>2, <1>3, <1>4, RaiseTurn
<1>6. fix.loop = "remove"
  BY <1>2
<1> QED BY <1>1, <1>4, <1>5, <1>6, KeepInv

LEMMA RemoveRecolorKeeps == IInv /\ RemoveRecolor => IInv'
<1> SUFFICES ASSUME IInv, RemoveRecolor PROVE IInv'
  OBVIOUS
<1>1. PICK sub, pos : Shape(tree, sub, pos) /\ Ordered(tree, seq, pos)
  BY DEF IInv, Inv
<1>2. PICK x, p, s, o, y :
        /\ x = fix.node /\ p = Pa(tree, x) /\ s = SideIn(tree, x) /\ o = Other(s)
        /\ y = Ch(tree, p, o)
        /\ Parent(x) = p /\ SideOf(x) = s /\ Sibling(x) = y
        /\ fix = [loop |-> "remove", node |-> x]
        /\ Balanced(tree, "remove", x) /\ x # Rt(tree) /\ Co(tree, x) = "black"
  BY MissingReads DEF RemoveRecolor
<1>3. /\ Co(tree, y) = "black" /\ tree' = Paint(tree, y, "red")
      /\ len' = len /\ cursor' = cursor /\ seq' = seq /\ answer' = NULL
  BY <1>2, ReadFacts DEF RemoveRecolor, NoAnswer
<1>4. fix' = [loop |-> "remove", node |-> p]
  BY <1>2 DEF RemoveRecolor
<1>5. \A e \in Sides : Co(tree, Ch(tree, y, e)) # "red"
  <2>1. ~NephewIsRed(x)
    BY <1>2 DEF RemoveRecolor
  <2> QED BY <1>2, <2>1, SideCases, ReadFacts DEF NephewIsRed
<1>6. Turned(tree, tree', pos) /\ Balanced(tree', "remove", p)
  BY <1>1, <1>2, <1>3, <1>5, RecolorTurn
<1>7. fix.loop = "remove"
  BY <1>2
<1> QED BY <1>1, <1>3, <1>4, <1>6, <1>7, KeepInv

LEMMA RemoveRotateKeeps == IInv /\ RemoveRotate => IInv'
<1> SUFFICES ASSUME IInv, RemoveRotate PROVE IInv'
  OBVIOUS
<1>1. PICK sub, pos : Shape(tree, sub, pos) /\ Ordered(tree, seq, pos)
  BY DEF IInv, Inv
<1>2. PICK x, p, s, o, y :
        /\ x = fix.node /\ p = Pa(tree, x) /\ s = SideIn(tree, x) /\ o = Other(s)
        /\ y = Ch(tree, p, o)
        /\ Parent(x) = p /\ SideOf(x) = s /\ Sibling(x) = y
        /\ fix = [loop |-> "remove", node |-> x]
        /\ Balanced(tree, "remove", x) /\ x # Rt(tree) /\ Co(tree, x) = "black"
  BY MissingReads DEF RemoveRotate
<1>3. PICK t1, c : /\ t1 = IF Co(tree, Ch(tree, y, o)) = "black"
                           THEN Rotate(Paint(Paint(tree, Ch(tree, y, s), "black"), y, "red"), o, y)
                           ELSE tree
                   /\ c = Ch(t1, p, o)
  OBVIOUS
<1>4. PICK t2, v : /\ t2 = Paint(Paint(t1, c, Co(tree, p)), p, "black")
                   /\ v = Paint(t2, Ch(t2, c, o), "black")
  OBVIOUS
<1>5. tree' = Rotate(v, s, p)
  BY <1>2, <1>3, <1>4, ReadFacts DEF RemoveRotate, Ch
<1>6. fix' = [loop |-> "remove", node |-> Rt(tree')]
  <2>1. fix' = [fix EXCEPT !.node = Rt(tree')]
    BY DEF RemoveRotate, Rt
  <2> QED BY <1>2, <2>1
<1>7. /\ Co(tree, y) = "black"
      /\ len' = len /\ cursor' = cursor /\ seq' = seq /\ answer' = NULL
  BY <1>2, ReadFacts DEF RemoveRotate, NoAnswer
<1>8. \E e \in Sides : Co(tree, Ch(tree, y, e)) = "red"
  <2>1. NephewIsRed(x)
    BY <1>2 DEF RemoveRotate
  <2> QED BY <1>2, <2>1, SideCases, ReadFacts DEF NephewIsRed
<1>9. Turned(tree, tree', pos) /\ Balanced(tree', "remove", Rt(tree'))
  <2>1. IsFiniteSet(Mem(tree))
    BY FiniteMem
  <2> QED BY <1>1, <1>2, <1>3, <1>4, <1>5, <1>7, <1>8, <2>1, RemoveRotateTurn
<1>10. fix.loop = "remove"
  BY <1>2
<1> QED BY <1>1, <1>6, <1>7, <1>9, <1>10, KeepInv

LEMMA RemoveEndKeeps == IInv /\ RemoveEnd => IInv'
<1> SUFFICES ASSUME IInv, RemoveEnd PROVE IInv'
  OBVIOUS
<1>1. PICK sub, pos : Shape(tree, sub, pos) /\ Ordered(tree, seq, pos)
  BY DEF IInv, Inv
<1>2. PICK k, x : k = fix.loop /\ x = fix.node
  OBVIOUS
<1>3. /\ k \in {"remove", "done"} /\ Balanced(tree, k, x)
      /\ ~(k = "remove" /\ x # Rt(tree) /\ Co(tree, x) = "black")
  BY <1>2, ReadFacts DEF RemoveEnd, Missing, IInv, Inv
<1>4. /\ tree' = Paint(tree, x, "black") /\ len' = len /\ fix' = Idle
      /\ cursor' = cursor /\ seq' = seq /\ answer' = NULL
  BY <1>2 DEF RemoveEnd, NoAnswer
<1>5. Turned(tree, tree', pos) /\ Balanced(tree', "none", NULL)
  BY <1>1, <1>3, <1>4, RemoveEndTurn
<1>6. fix' = [loop |-> "none", node |-> NULL] /\ fix.loop # "insert"
  BY <1>2, <1>3, <1>4 DEF Idle
<1> QED BY <1>1, <1>4, <1>5, <1>6, KeepInv

----------------------------------------------------------------------------
(* The walks and the searches, and the invariant of the program *)

(* The cursor goes to the first node or to the next one. *)
LEMMA CursorFacts ==
  ASSUME IInv
  PROVE  /\ \A n \in Nodes : n \in Mem(tree) <=> \E i \in DOMAIN seq : seq[i] = n
         /\ Minimum(tree.root) = IF seq = <<>> THEN sentl ELSE seq[1]
         /\ \A n \in Mem(tree) :
              /\ PlaceOf(n) \in DOMAIN seq /\ seq[PlaceOf(n)] = n
              /\ Successor(n) = IF PlaceOf(n) = Len(seq) THEN sentl ELSE seq[PlaceOf(n) + 1]
              /\ Successor(n) \in Mem(tree) \cup {sentl} /\ Successor(n) # n
<1>1. PICK sub, pos : Shape(tree, sub, pos) /\ Ordered(tree, seq, pos)
  BY DEF IInv, Inv
<1>2. IsFiniteSet(Mem(tree)) /\ Distinct(tree, pos)
  BY <1>1, FiniteMem, OrderedFacts
<1>3. PICK l : l = Len(seq)
  OBVIOUS
<1>4. /\ l \in Nat /\ DOMAIN seq = 1..l
      /\ \A i \in 1..l : seq[i] \in Mem(tree) /\ pos[seq[i]] = i
      /\ \A x \in Mem(tree) : pos[x] \in 1..l /\ seq[pos[x]] = x
  BY <1>1, <1>3, OrderedFacts DEF Ordered
<1>5. \A n \in Nodes : n \in Mem(tree) <=> \E i \in DOMAIN seq : seq[i] = n
  BY <1>4
<1>6. Minimum(tree.root) = IF seq = <<>> THEN sentl ELSE seq[1]
  <2>1. CASE Rt(tree) = sentl
    <3>1. Mem(tree) = {}
      BY <1>1, <2>1 DEF Shape
    <3>2. seq = <<>>
      <4>1. Len(seq) = 0 /\ seq \in Seq(Nodes)
        BY <1>1, <1>3, <1>4, <3>1 DEF Ordered
      <4>2. SubSeq(seq, 1, Len(seq)) = seq
        BY <4>1, SubSeqFull
      <4>3. SubSeq(seq, 1, 0) = <<>>
        BY SubSeqEmpty
      <4> QED BY <4>1, <4>2, <4>3
    <3> QED BY <2>1, <3>2, ReadFacts DEF Minimum
  <2>2. CASE Rt(tree) # sentl
    <3>1. Rt(tree) \in Mem(tree) /\ sub[Rt(tree)] = Mem(tree)
      BY <1>1, <2>2 DEF Shape
    <3>2. PICK m : m = Minimum(Rt(tree))
      OBVIOUS
    <3>3. m \in Mem(tree) /\ \A a \in Mem(tree) : a # m => pos[m] < pos[a]
      BY <1>1, <1>2, <3>1, <3>2, MinimumFacts
    <3>4. pos[m] \in 1..l /\ 1 \in 1..l
      BY <1>4, <3>3
    <3>5. seq[1] \in Mem(tree) /\ pos[seq[1]] = 1
      BY <1>4, <3>4
    <3>6. m = seq[1]
      BY <1>4, <3>3, <3>4, <3>5
    <3>7. seq # <<>>
      <4>1. 1 \in DOMAIN seq
        BY <1>4, <3>4
      <4> QED BY <4>1
    <3> QED BY <3>2, <3>6, <3>7, ReadFacts
  <2> QED BY <2>1, <2>2
<1>7. ASSUME NEW n \in Mem(tree)
      PROVE  /\ PlaceOf(n) \in DOMAIN seq /\ seq[PlaceOf(n)] = n
             /\ Successor(n) = IF PlaceOf(n) = Len(seq) THEN sentl ELSE seq[PlaceOf(n) + 1]
             /\ Successor(n) \in Mem(tree) \cup {sentl} /\ Successor(n) # n
  <2>1. PlaceOf(n) = pos[n] /\ pos[n] \in 1..l /\ seq[pos[n]] = n
    BY <1>4 DEF PlaceOf
  <2>2. PICK m : m = Successor(n)
    OBVIOUS
  <2>3. Follows(tree, pos, n, m)
    BY <1>1, <1>2, <2>2, SuccessorFacts
  <2>4. m = IF pos[n] = Len(seq) THEN sentl ELSE seq[pos[n] + 1]
    BY <1>1, <2>3, OrderedFacts
  <2>5. m \in Mem(tree) \cup {sentl} /\ m # n
    <3>1. CASE m = sentl
      BY <3>1, MemIn
    <3>2. CASE m # sentl
      <4>1. m \in Mem(tree) /\ pos[n] < pos[m] /\ pos[n] \in 1..l
        BY <2>1, <2>3, <3>2 DEF Follows
      <4> QED BY <1>4, <4>1
    <3> QED BY <3>1, <3>2
  <2> QED BY <1>4, <2>1, <2>2, <2>4, <2>5
<1> QED BY <1>5, <1>6, <1>7

(* A step that changes neither the tree nor the sequence *)
LEMMA ReadOnlyKeeps ==
  ASSUME IInv, UNCHANGED <<tree, len, fix, seq>>, cursor' \in Mem(tree) \cup {sentl},
         fix.loop # "none" => answer' = NULL
  PROVE  IInv'
<1>1. Inv(tree', len', fix'.loop, fix'.node, cursor', seq')
  BY DEF IInv, Inv
<1> QED BY <1>1 DEF IInv

LEMMA InvInit == Init => IInv
<1> SUFFICES ASSUME Init PROVE IInv
  OBVIOUS
<1>1. /\ tree = [root |-> sentl, at |-> [x \in Cells |-> Unlinked]]
      /\ len = 0 /\ fix = Idle /\ cursor = sentl /\ seq = <<>>
  BY DEF Init, Cells
<1>2. Unlinked \in Cell /\ Unlinked.parent = NULL /\ Unlinked.color = "black"
  BY DEF Unlinked, Cell, Ptrs, Colors
<1>3. tree \in Trees /\ Rt(tree) = sentl /\ \A x \in Cells : tree.at[x] = Unlinked
  BY <1>1, <1>2 DEF Trees, Cells, Rt
<1>4. Mem(tree) = {}
  <2>1. \A x \in Nodes : Pa(tree, x) = NULL
    BY <1>2, <1>3 DEF Pa, Cells
  <2> QED BY <2>1 DEF Mem
<1>5. Co(tree, sentl) = "black"
  BY <1>2, <1>3 DEF Co, Cells
<1>6. PICK sub, pos, bh : /\ sub = [x \in Cells |-> {}] /\ pos = [x \in Nodes |-> 0]
                          /\ bh = [x \in Cells |-> 0]
  OBVIOUS
<1>7. Shape(tree, sub, pos)
  <2>1. sub \in [Cells -> SUBSET Mem(tree)] /\ pos \in [Nodes -> Int] /\ sub[sentl] = {}
    BY <1>6 DEF Cells
  <2> QED BY <1>3, <1>4, <2>1 DEF Shape
<1>8. Ordered(tree, seq, pos)
  <2>1. seq \in Seq(Nodes) /\ Len(seq) = 0
    BY <1>1
  <2> QED BY <1>4, <2>1 DEF Ordered
<1>9. fix.loop = "none" /\ fix.node = NULL /\ fix = [loop |-> fix.loop, node |-> fix.node]
  BY <1>1 DEF Idle
<1>10. Balanced(tree, "none", NULL)
  <2>1. Heights(tree, bh, NULL, "left")
    <3>1. bh \in [Cells -> Nat] /\ bh[sentl] = 0
      BY <1>6 DEF Cells
    <3> QED BY <1>4, <3>1 DEF Heights
  <2>2. Hole(tree, "none", NULL, NULL, "left")
    BY DEF Hole
  <2>3. Colored(tree, "none", NULL)
    BY <1>3, <1>4, <1>5 DEF Colored, Reds, RootBlack, AtWork
  <2> QED BY <2>1, <2>2, <2>3 DEF Balanced
<1>11. len = Cardinality(Mem(tree)) - 0
  <2>1. Cardinality(Mem(tree)) = 0
    BY <1>4, FS_EmptySet
  <2> QED BY <1>1, <2>1
<1>12. Inv(tree, len, "none", NULL, cursor, seq)
  BY <1>1, <1>7, <1>8, <1>10, <1>11 DEF Inv
<1> QED BY <1>1, <1>9, <1>12 DEF IInv

LEMMA InvStep == IInv /\ [Next]_vars => IInv'
<1> SUFFICES ASSUME IInv, [Next]_vars PROVE IInv'
  OBVIOUS
<1>1. cursor \in Mem(tree) \cup {sentl} /\ \A n \in Mem(tree) : n \in Nodes
  BY MemIn DEF IInv, Inv
<1>2. CASE UNCHANGED vars
  BY <1>1, <1>2, ReadOnlyKeeps DEF vars, IInv
<1>3. ASSUME NEW n \in Nodes, Insert(n) PROVE IInv'
  BY <1>3, InsertFacts
<1>4. ASSUME NEW n \in Nodes, Remove(n) PROVE IInv'
  BY <1>1, <1>4, TakeOutFacts DEF Remove
<1>5. CASE Turn
  BY <1>5, InsertRecolorKeeps, InsertRotateKeeps, InsertEndKeeps, RemoveRaiseKeeps,
     RemoveRecolorKeeps, RemoveRotateKeeps, RemoveEndKeeps DEF Turn
<1>6. CASE WalkFirst
  <2>1. /\ UNCHANGED <<tree, len, fix, seq>> /\ cursor' = Minimum(tree.root) /\ answer' = NULL
    BY <1>6 DEF WalkFirst, NoAnswer
  <2>2. cursor' \in Mem(tree) \cup {sentl}
    <3>1. CASE seq = <<>>
      BY <2>1, <3>1, CursorFacts
    <3>2. CASE seq # <<>>
      <4>1. PICK sub, pos : Shape(tree, sub, pos) /\ Ordered(tree, seq, pos)
        BY DEF IInv, Inv
      <4>2. seq \in Seq(Nodes) /\ \A i \in 1..Len(seq) : seq[i] \in Mem(tree)
        BY <4>1 DEF Ordered
      <4>3. seq[1] \in Mem(tree)
        BY <3>2, <4>2
      <4> QED BY <2>1, <3>2, <4>3, CursorFacts
    <3> QED BY <3>1, <3>2
  <2> QED BY <2>1, <2>2, ReadOnlyKeeps
<1>7. CASE WalkNext
  <2>1. /\ UNCHANGED <<tree, len, fix, seq>> /\ cursor' = Successor(cursor) /\ answer' = NULL
        /\ cursor \in Mem(tree)
    BY <1>1, <1>7 DEF WalkNext, NoAnswer
  <2> QED BY <2>1, CursorFacts, ReadOnlyKeeps
<1>8. CASE WalkRemove
  <2>1. cursor \in Mem(tree) /\ TakeOut(cursor) /\ cursor' = Successor(cursor)
    BY <1>1, <1>8 DEF WalkRemove
  <2>2. cursor' \in Mem(tree) \cup {sentl} /\ cursor' # cursor
    BY <2>1, CursorFacts
  <2> QED BY <1>1, <2>1, <2>2, TakeOutFacts
<1>9. ASSUME NEW k \in Keys, Find(k) \/ Locate(k) PROVE IInv'
  <2>1. UNCHANGED <<tree, len, fix, cursor, seq>> /\ fix.loop = "none"
    BY <1>9, IdleFacts DEF Find, Locate
  <2> QED BY <1>1, <2>1, ReadOnlyKeeps
<1> QED BY <1>2, <1>3, <1>4, <1>5, <1>6, <1>7, <1>8, <1>9 DEF Next

LEMMA InvHolds == Spec => []IInv
BY InvInit, InvStep, PTL DEF Spec

----------------------------------------------------------------------------
(* The properties *)

LEMMA InvLinks == IInv => LinksAgree
<1> SUFFICES ASSUME IInv PROVE LinksAgree
  OBVIOUS
<1>1. PICK sub, pos : Shape(tree, sub, pos)
  BY DEF IInv, Inv
<1>2. tree \in Trees
  BY <1>1 DEF Shape
<1>3. TypeOK
  <2>1. tree.root \in Nodes \cup {sentl}
    BY <1>2 DEF Trees, Cells
  <2>2. ASSUME NEW x \in Nodes \cup {sentl}
        PROVE  /\ {Left(x), Right(x), Parent(x)} \subseteq Nodes \cup {sentl, NULL}
               /\ Color(x) \in {"red", "black"}
    <3>1. x \in Cells
      BY DEF Cells
    <3>2. /\ \A s \in Sides : Ch(tree, x, s) \in Ptrs
          /\ Pa(tree, x) \in Ptrs /\ Co(tree, x) \in Colors
      BY <1>2, <3>1, FieldTypes
    <3> QED BY <3>2, SideCases, ReadFacts DEF Ptrs, Colors
  <2>3. len \in 0..Cardinality(Nodes)
    <3>1. len = Cardinality(Mem(tree)) - (IF fix.loop = "insert" THEN 1 ELSE 0)
      BY DEF IInv, Inv
    <3>2. fix.loop = "insert" => Cardinality(Mem(tree)) # 0
      <4>1. fix.loop = "insert" => fix.node \in Mem(tree)
        BY DEF IInv, Inv, Balanced, Colored, AtWork
      <4>2. Cardinality(Mem(tree)) = 0 <=> Mem(tree) = {}
        BY FiniteMem, FS_EmptySet
      <4> QED BY <4>1, <4>2
    <3> QED BY <3>1, <3>2, FiniteMem
  <2>4. cursor \in Nodes \cup {sentl}
    BY MemIn DEF IInv, Inv
  <2> QED BY <2>1, <2>2, <2>3, <2>4, IdleFacts DEF TypeOK
<1>4. ASSUME fix = Idle
      PROVE  /\ \A n \in Members : \A c \in {Left(n), Right(n)} : c # sentl => Parent(c) = n
             /\ \A n \in Members : Parent(n) = sentl <=> n = tree.root
             /\ len = Cardinality(Members)
  <2>1. ASSUME NEW n \in Members, NEW c \in {Left(n), Right(n)}, c # sentl PROVE Parent(c) = n
    <3>1. n \in Mem(tree) /\ \E s \in Sides : c = Ch(tree, n, s)
      BY ReadFacts, SideCases
    <3>2. Pa(tree, c) = n
      BY <1>1, <2>1, <3>1 DEF Shape
    <3> QED BY <3>2, ReadFacts
  <2>2. \A n \in Mem(tree) : Pa(tree, n) = sentl <=> n = Rt(tree)
    BY <1>1, ShapeFacts
  <2>3. len = Cardinality(Mem(tree)) - 0
    BY <1>4, IdleFacts DEF IInv, Inv
  <2> QED BY <2>1, <2>2, <2>3, ReadFacts, FiniteMem
<1> QED BY <1>3, <1>4 DEF LinksAgree

LEMMA InvColors == IInv => RedBlack
<1> SUFFICES ASSUME IInv PROVE RedBlack
  OBVIOUS
<1>1. PICK sub, pos : Shape(tree, sub, pos)
  BY DEF IInv, Inv
<1>2. PICK k, x : k = fix.loop /\ x = fix.node
  OBVIOUS
<1>3. Balanced(tree, k, x) /\ Co(tree, sentl) = "black" /\ Reds(tree, k, x) /\ RootBlack(tree, k, x)
  BY <1>2 DEF IInv, Inv, Balanced, Colored
<1>4. ASSUME fix = Idle
      PROVE  /\ Color(tree.root) = "black"
             /\ \A n \in Members :
                  Color(n) = "red" => Color(Left(n)) = "black" /\ Color(Right(n)) = "black"
             /\ Cardinality(BlackHeight) = 1
  <2>1. k = "none"
    BY <1>2, <1>4, IdleFacts
  <2>2. \A c \in Cells : Co(tree, c) = "red" \/ Co(tree, c) = "black"
    <3>1. tree \in Trees
      BY <1>1 DEF Shape
    <3> QED BY <3>1, FieldTypes, ColorNames
  <2>3. Co(tree, Rt(tree)) = "black"
    <3>1. Co(tree, Rt(tree)) # "red"
      BY <1>3, <2>1 DEF RootBlack
    <3>2. Rt(tree) \in Cells
      BY <1>1, ShapeFacts
    <3> QED BY <2>2, <3>1, <3>2
  <2>4. \A n \in Mem(tree), s \in Sides :
          Co(tree, n) = "red" => Co(tree, Ch(tree, n, s)) = "black"
    <3>1. \A n \in Mem(tree), s \in Sides :
            Co(tree, n) = "red" => Co(tree, Ch(tree, n, s)) # "red"
      BY <1>3, <2>1 DEF Reds, Exempt
    <3>2. \A n \in Mem(tree), s \in Sides : Ch(tree, n, s) \in Cells
      BY <1>1, MemIn DEF Shape, Cells
    <3> QED BY <2>2, <3>1, <3>2
  <2>5. PICK bh, r : Heights(tree, bh, NULL, r)
    BY <1>3, <2>1 DEF Balanced, Hole
  <2>6. BlackHeight = {bh[Rt(tree)]}
    BY <1>1, <2>5, FiniteMem, BlackHeightFacts
  <2>7. Cardinality(BlackHeight) = 1
    BY <2>6, FS_Singleton
  <2>8. \A n \in Members :
                  Color(n) = "red" => Color(Left(n)) = "black" /\ Color(Right(n)) = "black"
    BY <2>4, SideCases, ReadFacts
  <2> QED BY <2>3, <2>7, <2>8, ReadFacts
<1> QED BY <1>3, <1>4, ReadFacts DEF RedBlack

LEMMA InvWalk == IInv => WalkIsInOrder
<1> SUFFICES ASSUME IInv PROVE WalkIsInOrder
  OBVIOUS
<1>1. PICK sub, pos : Shape(tree, sub, pos) /\ Ordered(tree, seq, pos)
  BY DEF IInv, Inv
<1> QED BY <1>1, FiniteMem, WalkFacts DEF WalkIsInOrder

(* Between calls a node and its parent always name each other, only the    *)
(* root hangs from the sentinel and tr->len is the number of the nodes,    *)
(* after any insertions and removals (ffrbt_insert(), ffrbt_rm() and the   *)
(* rotations, which write these fields one by one).                        *)
THEOREM LinksAlwaysAgree == Spec => []LinksAgree
<1> QED BY InvHolds, InvLinks, PTL

(* Between calls the tree is always a red-black tree: the loops that run   *)
(* after an insertion and a removal stop only when no red node has a red   *)
(* child and all ways down meet as many black nodes, and the sentinel they *)
(* use as a node never turns red.                                          *)
THEOREM TreeStaysRedBlack == Spec => []RedBlack
<1> QED BY InvHolds, InvColors, PTL

(* FFRBT_WALK always meets every node once, in the order of the keys and,  *)
(* for equal keys, of the insertions, also between the turns of a loop.    *)
THEOREM WalkStaysInOrder == Spec => []WalkIsInOrder
<1> QED BY InvHolds, InvWalk, PTL

----------------------------------------------------------------------------
(* The ordered list *)

LEMMA ListIn == IInv => \A n \in Nodes : List!In(n) <=> n \in Mem(tree)
<1> SUFFICES ASSUME IInv PROVE \A n \in Nodes : List!In(n) <=> n \in Mem(tree)
  OBVIOUS
<1> QED BY CursorFacts DEF List!In

LEMMA ListWithout == \A n : List!Without(n) = Without(n) /\ List!PlaceOf(n) = PlaceOf(n)
BY DEF List!Without, List!PlaceOf, Without, PlaceOf

LEMMA InsertRefines ==
  ASSUME IInv, NEW n \in Nodes, Insert(n)
  PROVE  List!Insert(n)
<1>1. n \notin Mem(tree) /\ answer' = NULL /\ cursor' = cursor
  BY ReadFacts DEF Insert, NoAnswer, Members
<1>2. PICK i \in 1..(Len(seq) + 1) : InPlace(seq, n, i) /\ seq' = Put(seq, i, n)
  BY InsertFacts
<1>3. ~List!In(n)
  BY <1>1, ListIn
<1> QED BY <1>1, <1>2, <1>3 DEF List!Insert, List!NoAnswer, InPlace, Put

LEMMA RemoveRefines ==
  ASSUME IInv, NEW n \in Nodes, Remove(n)
  PROVE  List!Remove(n)
<1>1. n # cursor /\ TakeOut(n) /\ cursor' = cursor
  BY DEF Remove
<1>2. n \in Mem(tree) /\ seq' = Without(n) /\ answer' = NULL
  BY <1>1, ReadFacts DEF TakeOut, NoAnswer, Members
<1> QED BY <1>1, <1>2, ListIn, ListWithout DEF List!Remove, List!NoAnswer

LEMMA CursorRefines ==
  ASSUME IInv
  PROVE  /\ WalkFirst => List!WalkFirst
         /\ WalkNext => List!WalkNext
         /\ WalkRemove => List!WalkRemove
<1>1. cursor # sentl => cursor \in Mem(tree)
  BY DEF IInv, Inv
<1>2. cursor # sentl => Successor(cursor) = List!After(cursor)
  BY <1>1, CursorFacts, ListWithout DEF List!After
<1>3. ASSUME WalkFirst PROVE List!WalkFirst
  <2>1. cursor' = Minimum(tree.root) /\ answer' = NULL /\ seq' = seq
    BY <1>3 DEF WalkFirst, NoAnswer
  <2>2. Minimum(tree.root) = IF seq = <<>> THEN sentl ELSE seq[1]
    BY CursorFacts
  <2> QED BY <2>1, <2>2 DEF List!WalkFirst, List!NoAnswer
<1>4. ASSUME WalkNext PROVE List!WalkNext
  BY <1>2, <1>4 DEF WalkNext, NoAnswer, List!WalkNext, List!NoAnswer
<1>5. ASSUME WalkRemove PROVE List!WalkRemove
  <2>1. cursor # sentl /\ cursor' = Successor(cursor) /\ seq' = Without(cursor) /\ answer' = NULL
    BY <1>5 DEF WalkRemove, TakeOut, NoAnswer
  <2> QED BY <1>2, <2>1, ListWithout DEF List!WalkRemove, List!NoAnswer
<1> QED BY <1>3, <1>4, <1>5

(* What a search returns *)
LEMMA LocatedReads ==
  ASSUME IInv, NEW k \in Keys, NEW e, e = Located(k)
  PROVE  /\ List!Having(k) = {n \in Mem(tree) : KeyOf[n] = k}
         /\ seq = <<>> => e = sentl /\ Mem(tree) = {}
         /\ seq # <<>> => /\ e \in Mem(tree) /\ e # sentl
                          /\ KeyOf[e] = k \/ Near(Mem(tree), k, e)
<1>1. PICK sub, pos : Shape(tree, sub, pos) /\ Ordered(tree, seq, pos)
  BY DEF IInv, Inv
<1>2. List!Having(k) = {n \in Mem(tree) : KeyOf[n] = k}
  BY ListIn, MemIn DEF List!Having
<1>3. Minimum(tree.root) = IF seq = <<>> THEN sentl ELSE seq[1]
  BY CursorFacts
<1>4. k \in Nat
  BY RBTreeAssumption DEF RBTreeAssumption
<1>5. Sorted(tree, pos)
  <2>1. ASSUME NEW a \in Mem(tree), NEW b \in Mem(tree), pos[a] < pos[b]
        PROVE  KeyOf[a] <= KeyOf[b]
    <3>1. /\ pos[a] \in 1..Len(seq) /\ pos[b] \in 1..Len(seq)
          /\ seq[pos[a]] = a /\ seq[pos[b]] = b
      BY <1>1 DEF Ordered
    <3>2. KeyOf[seq[pos[a]]] <= KeyOf[seq[pos[b]]]
      BY <1>1, <2>1, <3>1 DEF Ordered
    <3> QED BY <3>1, <3>2
  <2> QED BY <2>1 DEF Sorted
<1>6. ASSUME seq = <<>> PROVE e = sentl /\ Mem(tree) = {}
  <2>1. Mem(tree) = {}
    BY <1>6, CursorFacts, MemIn
  <2>2. Rt(tree) = sentl
    BY <1>1, <2>1, ShapeFacts
  <2> QED BY <2>1, <2>2, ReadFacts DEF Located
<1>7. ASSUME seq # <<>> PROVE e \in Mem(tree) /\ e # sentl
                              /\ (KeyOf[e] = k \/ Near(Mem(tree), k, e))
  <2>1. seq \in Seq(Nodes) /\ \A i \in 1..Len(seq) : seq[i] \in Mem(tree)
    BY <1>1 DEF Ordered
  <2>2. seq[1] \in Mem(tree)
    BY <1>7, <2>1
  <2>3. Rt(tree) # sentl
    BY <1>1, <2>2 DEF Shape
  <2>4. e \in Mem(tree) /\ (KeyOf[e] = k \/ Near(Mem(tree), k, e))
    BY <1>1, <1>4, <1>5, <2>3, FiniteMem, LocatedFacts
  <2> QED BY <2>4, MemIn
<1> QED BY <1>2, <1>6, <1>7

LEMMA FindRefines ==
  ASSUME IInv, NEW k \in Keys, Find(k)
  PROVE  List!Find(k)
<1>1. answer' = Found(k) /\ UNCHANGED <<seq, cursor>>
  BY DEF Find
<1>2. PICK e : e = Located(k)
  OBVIOUS
<1>3. Found(k) = IF e # sentl /\ KeyOf[e] = k THEN e ELSE NULL
  BY <1>2 DEF Found
<1>4. /\ List!Having(k) = {n \in Mem(tree) : KeyOf[n] = k}
      /\ seq = <<>> => e = sentl /\ Mem(tree) = {}
      /\ seq # <<>> => /\ e \in Mem(tree) /\ e # sentl
                       /\ KeyOf[e] = k \/ Near(Mem(tree), k, e)
  BY <1>2, LocatedReads
<1>5. Found(k) \in IF List!Having(k) = {} THEN {NULL} ELSE List!Having(k)
  <2>1. CASE seq = <<>>
    BY <1>3, <1>4, <2>1
  <2>2. CASE seq # <<>> /\ KeyOf[e] = k
    BY <1>3, <1>4, <2>2
  <2>3. CASE seq # <<>> /\ KeyOf[e] # k
    <3>1. List!Having(k) = {}
      BY <1>4, <2>3 DEF Near
    <3> QED BY <1>3, <2>3, <3>1
  <2> QED BY <2>1, <2>2, <2>3
<1> QED BY <1>1, <1>5 DEF List!Find

LEMMA LocateRefines ==
  ASSUME IInv, NEW k \in Keys, Locate(k)
  PROVE  List!Locate(k)
<1>1. PICK e : answer' = e /\ e = Located(k)
  BY DEF Locate
<1>2. UNCHANGED <<seq, cursor>>
  BY DEF Locate
<1>3. /\ List!Having(k) = {n \in Mem(tree) : KeyOf[n] = k}
      /\ seq = <<>> => e = sentl /\ Mem(tree) = {}
      /\ seq # <<>> => /\ e \in Mem(tree) /\ e # sentl
                       /\ KeyOf[e] = k \/ Near(Mem(tree), k, e)
  BY <1>1, LocatedReads
<1>4. CASE seq = <<>>
  BY <1>1, <1>2, <1>3, <1>4 DEF List!Locate
<1>5. CASE seq # <<>> /\ KeyOf[e] = k
  <2>1. e \in List!Having(k)
    BY <1>3, <1>5
  <2>2. List!Having(k) # {} /\ answer' \in List!Having(k)
    BY <1>1, <2>1
  <2> QED BY <1>2, <2>2 DEF List!Locate
<1>6. CASE seq # <<>> /\ KeyOf[e] # k
  <2>1. e \in Mem(tree) /\ Near(Mem(tree), k, e)
    BY <1>3, <1>6
  <2>2. List!Having(k) = {}
    BY <1>3, <2>1 DEF Near
  <2>3. e \in Nodes /\ List!In(e)
    BY <2>1, MemIn, ListIn
  <2>4. ASSUME NEW m \in Nodes, List!In(m)
        PROVE  /\ KeyOf[m] < k => KeyOf[m] <= KeyOf[e]
               /\ KeyOf[m] > k => KeyOf[m] >= KeyOf[e]
    <3>1. m \in Mem(tree)
      BY <2>4, ListIn
    <3>2. /\ KeyOf[m] < k => KeyOf[m] <= KeyOf[e]
          /\ k < KeyOf[m] => KeyOf[e] <= KeyOf[m]
      BY <2>1, <3>1 DEF Near
    <3>3. KeyOf[m] \in Nat /\ KeyOf[e] \in Nat /\ k \in Nat
      BY <2>3, RBTreeAssumption DEF RBTreeAssumption
    <3> QED BY <3>2, <3>3
  <2> QED BY <1>1, <1>2, <1>6, <2>2, <2>3, <2>4 DEF List!Locate
<1> QED BY <1>4, <1>5, <1>6

LEMMA InitRefines == Init => List!Init
BY DEF Init, List!Init

LEMMA NextRefines == IInv /\ [Next]_vars => [List!Next]_(List!vars)
<1> SUFFICES ASSUME IInv, [Next]_vars PROVE [List!Next]_(List!vars)
  OBVIOUS
<1>1. CASE UNCHANGED vars
  BY <1>1 DEF vars, List!vars
<1>2. ASSUME NEW n \in Nodes, Insert(n) PROVE List!Next
  BY <1>2, InsertRefines DEF List!Next
<1>3. ASSUME NEW n \in Nodes, Remove(n) PROVE List!Next
  BY <1>3, RemoveRefines DEF List!Next
<1>4. CASE Turn
  <2>1. fix.loop # "none"
    BY <1>4 DEF Turn, InsertRecolor, InsertRotate, InsertEnd, ParentIsRed,
                RemoveRaise, RemoveRecolor, RemoveRotate, RemoveEnd, Missing
  <2>2. answer = NULL
    BY <2>1 DEF IInv
  <2>3. seq' = seq /\ cursor' = cursor /\ answer' = NULL
    BY <1>4 DEF Turn, InsertRecolor, InsertRotate, InsertEnd,
                RemoveRaise, RemoveRecolor, RemoveRotate, RemoveEnd, NoAnswer
  <2> QED BY <2>2, <2>3 DEF List!vars
<1>5. CASE WalkFirst \/ WalkNext \/ WalkRemove
  <2>1. List!WalkFirst \/ List!WalkNext \/ List!WalkRemove
    BY <1>5, CursorRefines
  <2> QED BY <2>1 DEF List!Next
<1>6. ASSUME NEW k \in Keys, Find(k) PROVE List!Next
  BY <1>6, FindRefines DEF List!Next
<1>7. ASSUME NEW k \in Keys, Locate(k) PROVE List!Next
  BY <1>7, LocateRefines DEF List!Next
<1> QED BY <1>1, <1>2, <1>3, <1>4, <1>5, <1>6, <1>7 DEF Next

(* The red-black tree is the ordered list of OrderedList: an insertion     *)
(* puts the node behind those with an equal key, a removal takes out that  *)
(* node and no other, a walk that goes on after removals and insertions    *)
(* skips nothing, ffrbt_find() finds a node with the key if and only if    *)
(* there is one, and the turns of the loops are invisible; for any nodes   *)
(* and any keys.                                                           *)
THEOREM TreeIsAnOrderedList == Spec => ImplementsOrderedList
<1> QED
  BY InvHolds, InitRefines, NextRefines, PTL
     DEF Spec, ImplementsOrderedList, List!Spec
==============================================================================
