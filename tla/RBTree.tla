------------------------------- MODULE RBTree -------------------------------
(***************************************************************************)
(* ffrbtree (ffbase/rbtree.h): the red-black tree whose leaves are one     *)
(* sentinel, with parent links.                                            *)
(*                                                                         *)
(* One call runs at a time; the loops that restore the colors are modelled *)
(* turn by turn.  The code that treats left and right alike is written     *)
(* once, for a side and the other side.                                    *)
(***************************************************************************)
EXTENDS Integers, Sequences, FiniteSets

CONSTANTS
  Nodes,  \* the user's nodes
  KeyOf,  \* KeyOf[n]: node->key
  Keys,   \* the keys that are searched for
  sentl,  \* the sentinel &tr->sentl
  NULL

ASSUME RBTreeAssumption ==
  /\ KeyOf \in [Nodes -> Nat] /\ Keys \subseteq Nat
  /\ IsFiniteSet(Nodes) /\ sentl \notin Nodes /\ NULL \notin Nodes \cup {sentl}

VARIABLES
  tree,    \* the root and the fields of the nodes
  len,     \* tr->len
  fix,     \* the locals of the loop that runs
  cursor,  \* the caller's node in a walk
  answer,  \* what a search has just returned
  seq      \* history: the nodes in the order the calls ask for

vars == <<tree, len, fix, cursor, answer, seq>>

Unlinked == [left |-> NULL, right |-> NULL, parent |-> NULL, color |-> "black"]

Idle == [loop |-> "none", node |-> NULL]

(* ffrbt_init() sets the color of the sentinel and leaves its links as     *)
(* they are: NULL stands for an address that must not be followed.         *)
Init ==
  /\ tree = [root |-> sentl, at |-> [x \in Nodes \cup {sentl} |-> Unlinked]]
  /\ len = 0
  /\ fix = Idle
  /\ cursor = sentl
  /\ answer = NULL
  /\ seq = <<>>

----------------------------------------------------------------------------
(* Reading the tree.  Definitions "Wrong..." are what a plausible slip     *)
(* would have made of the definition below them; no specification uses     *)
(* them.                                                                   *)

Left(x) == tree.at[x].left
Right(x) == tree.at[x].right
Parent(x) == tree.at[x].parent
Color(x) == tree.at[x].color

Linked(n) == Parent(n) # NULL
Members == {n \in Nodes : Linked(n)}

(* ffrbt_node_min() *)
Minimum(x) ==
  LET down[y \in Members] == IF Left(y) = sentl THEN y ELSE down[Left(y)]
  IN  IF x = sentl THEN sentl ELSE down[x]

(* Wrong: the way up stops at the first parent. *)
WrongSuccessor(n) ==
  IF Right(n) # sentl THEN Minimum(Right(n)) ELSE Parent(n)

(* ffrbt_node_successor() *)
Successor(n) ==
  LET up[y \in Members] ==
        IF Parent(y) # sentl /\ y = Right(Parent(y)) THEN up[Parent(y)] ELSE Parent(y)
  IN  IF Right(n) # sentl THEN Minimum(Right(n)) ELSE up[n]

(* FFRBT_WALK *)
Walk ==
  LET from[x \in Members \cup {sentl}] ==
        IF x = sentl THEN <<>> ELSE <<x>> \o from[Successor(x)]
  IN  from[Minimum(tree.root)]

(* ffrbt_node_locate(): the last node of the search, the sentinel of an    *)
(* empty tree                                                              *)
Located(k) ==
  LET child(y) == IF k < KeyOf[y] THEN Left(y) ELSE Right(y)
      down[y \in Members] ==
        IF k = KeyOf[y] \/ child(y) = sentl THEN y ELSE down[child(y)]
  IN  IF tree.root = sentl THEN sentl ELSE down[tree.root]

(* ffrbt_find() takes the same way *)
Found(k) ==
  IF Located(k) # sentl /\ KeyOf[Located(k)] = k THEN Located(k) ELSE NULL

----------------------------------------------------------------------------
(* Changing the tree: each of these makes a tree from a tree. *)

(* Everything but a search forgets the answer of the last one. *)
NoAnswer == answer' = NULL

Other(s) == IF s = "left" THEN "right" ELSE "left"

(* _ffrbt_link_leftchild(), _ffrbt_link_rightchild() *)
Link(t, p, s, c) == [t EXCEPT !.at[p][s] = c, !.at[c].parent = p]

(* Wrong: the node does not learn its new parent. *)
WrongRelinkParent(t, old, new) ==
  LET p == t.at[old].parent
      s == IF old = t.at[p].left THEN "left" ELSE "right"
  IN  IF p = sentl THEN [t EXCEPT !.root = new] ELSE [t EXCEPT !.at[p][s] = new]

(* _ffrbt_relink_parent() *)
RelinkParent(t, old, new) ==
  LET p == t.at[old].parent
      s == IF old = t.at[p].left THEN "left" ELSE "right"
  IN  IF p = sentl THEN [t EXCEPT !.root = new, !.at[new].parent = p]
      ELSE Link(t, p, s, new)

(* _ffrbt_left_rotate(), _ffrbt_right_rotate(): n goes down to side s and  *)
(* its child of the other side takes its place.                            *)
Rotate(t, s, n) ==
  LET c == t.at[n][Other(s)]
      t1 == Link(t, n, Other(s), t.at[c][s])
      t2 == RelinkParent(t1, n, c)
  IN  Link(t2, c, s, n)

Paint(t, x, clr) == [t EXCEPT !.at[x].color = clr]

----------------------------------------------------------------------------
(* ffrbt_insert() *)

(* What an insertion and a removal make of the sequence of nodes. *)
PlaceFor(n) ==
  CHOOSE i \in 1..(Len(seq) + 1) :
    \A j \in DOMAIN seq : KeyOf[seq[j]] <= KeyOf[n] <=> j < i
With(n) ==
  SubSeq(seq, 1, PlaceFor(n) - 1) \o <<n>> \o SubSeq(seq, PlaceFor(n), Len(seq))

PlaceOf(n) == CHOOSE i \in DOMAIN seq : seq[i] = n
Without(n) == SubSeq(seq, 1, PlaceOf(n) - 1) \o SubSeq(seq, PlaceOf(n) + 1, Len(seq))

(* Wrong: a node with an equal key goes before the ones that are there. *)
WrongSideFor(n, y) == IF KeyOf[n] <= KeyOf[y] THEN "left" ELSE "right"

(* The node under which _ffrbt_node_insert() ends its way down. *)
SideFor(n, y) == IF KeyOf[n] < KeyOf[y] THEN "left" ELSE "right"
Leaf(n) ==
  LET down[y \in Members] ==
        IF tree.at[y][SideFor(n, y)] = sentl THEN y ELSE down[tree.at[y][SideFor(n, y)]]
  IN  down[tree.root]

Insert(n) ==
  /\ fix = Idle
  /\ ~Linked(n)
  /\ LET new == [left |-> sentl, right |-> sentl, color |-> "red",
                 parent |-> IF tree.root = sentl THEN sentl ELSE Leaf(n)]
     IN  tree' = IF tree.root = sentl THEN [tree EXCEPT !.root = n, !.at[n] = new]
                 ELSE [tree EXCEPT !.at[Leaf(n)][SideFor(n, Leaf(n))] = n, !.at[n] = new]
  /\ fix' = [loop |-> "insert", node |-> n]
  /\ seq' = With(n)
  /\ NoAnswer /\ UNCHANGED <<len, cursor>>

Grandparent(x) == Parent(Parent(x))
ParentSide(x) == IF Parent(x) = Left(Grandparent(x)) THEN "left" ELSE "right"
Uncle(x) == tree.at[Grandparent(x)][Other(ParentSide(x))]

ParentIsRed == fix.loop = "insert" /\ Color(Parent(fix.node)) = "red"

InsertRecolor ==
  /\ ParentIsRed
  /\ Color(Uncle(fix.node)) = "red"
  /\ LET x == fix.node
     IN  /\ tree' = Paint(Paint(Paint(tree, Parent(x), "black"), Uncle(x), "black"),
                          Grandparent(x), "red")
         /\ fix' = [fix EXCEPT !.node = Grandparent(x)]
  /\ NoAnswer /\ UNCHANGED <<len, cursor, seq>>

(* The parent of the node is black afterwards, which ends the loop. *)
InsertRotate ==
  /\ ParentIsRed
  /\ Color(Uncle(fix.node)) = "black"
  /\ LET p == Parent(fix.node)
         gp == Grandparent(fix.node)
         s == ParentSide(fix.node)
         inner == fix.node = tree.at[p][Other(s)]
         t == IF inner THEN Rotate(tree, s, p) ELSE tree
         upper == IF inner THEN fix.node ELSE p
     IN  /\ tree' = Rotate(Paint(Paint(t, upper, "black"), gp, "red"), Other(s), gp)
         /\ fix' = [fix EXCEPT !.node = IF inner THEN p ELSE fix.node]
  /\ NoAnswer /\ UNCHANGED <<len, cursor, seq>>

InsertEnd ==
  /\ fix.loop = "insert"
  /\ ~ParentIsRed
  /\ tree' = Paint(tree, tree.root, "black")
  /\ len' = len + 1
  /\ fix' = Idle
  /\ NoAnswer /\ UNCHANGED <<cursor, seq>>

----------------------------------------------------------------------------
(* ffrbt_rm() *)

(* _ffrbt_node_rm(): the tree without n, x below the place a black node    *)
(* may have left, and the color that was lost there.                       *)
WithOneChild(n, c) ==
  [t |-> RelinkParent(tree, n, c), x |-> c, lost |-> Color(n)]

(* The successor takes the place and the color of n. *)
WithSuccessor(n) ==
  LET next == Minimum(Right(n))
      x == Right(next)
      t1 == IF next = Right(n) THEN [tree EXCEPT !.at[x].parent = next]
            ELSE Link(Link(tree, Parent(next), "left", x), next, "right", Right(n))
      t2 == RelinkParent(Link(t1, next, "left", Left(n)), n, next)
  IN  [t |-> Paint(t2, next, Color(n)), x |-> x, lost |-> Color(next)]

Removed(n) ==
  IF Left(n) = sentl THEN WithOneChild(n, Right(n))
  ELSE IF Right(n) = sentl THEN WithOneChild(n, Left(n))
  ELSE WithSuccessor(n)

(* The color of a removed node is dead. *)
TakeOut(n) ==
  /\ fix = Idle
  /\ Linked(n)
  /\ LET r == Removed(n)
     IN  /\ tree' = [r.t EXCEPT !.at[n] = Unlinked]
         /\ fix' = [loop |-> IF r.lost = "red" THEN "done" ELSE "remove", node |-> r.x]
  /\ len' = len - 1
  /\ seq' = Without(n)
  /\ NoAnswer

Remove(n) == n # cursor /\ TakeOut(n) /\ UNCHANGED cursor

Missing == fix.loop = "remove" /\ fix.node # tree.root /\ Color(fix.node) = "black"

SideOf(x) == IF x = Left(Parent(x)) THEN "left" ELSE "right"
Sibling(x) == tree.at[Parent(x)][Other(SideOf(x))]

(* A red sibling is rotated up first; then the sibling is black. *)
RemoveRaise ==
  /\ Missing
  /\ LET x == fix.node
     IN  /\ Color(Sibling(x)) = "red"
         /\ tree' = Rotate(Paint(Paint(tree, Sibling(x), "black"), Parent(x), "red"),
                           SideOf(x), Parent(x))
  /\ NoAnswer /\ UNCHANGED <<len, cursor, fix, seq>>

NephewIsRed(x) == "red" \in {Color(Left(Sibling(x))), Color(Right(Sibling(x)))}

(* Wrong: the loop stops instead of going up. *)
WrongRemoveRecolor ==
  /\ Missing
  /\ LET x == fix.node
     IN  /\ Color(Sibling(x)) = "black" /\ ~NephewIsRed(x)
         /\ tree' = Paint(tree, Sibling(x), "red")
         /\ fix' = [fix EXCEPT !.node = tree.root]
  /\ NoAnswer /\ UNCHANGED <<len, cursor, seq>>

RemoveRecolor ==
  /\ Missing
  /\ LET x == fix.node
     IN  /\ Color(Sibling(x)) = "black" /\ ~NephewIsRed(x)
         /\ tree' = Paint(tree, Sibling(x), "red")
         /\ fix' = [fix EXCEPT !.node = Parent(x)]
  /\ NoAnswer /\ UNCHANGED <<len, cursor, seq>>

(* The outer nephew has to be red; the rotation of p ends the loop. *)
RemoveRotate ==
  /\ Missing
  /\ LET x == fix.node
         p == Parent(x)
         s == SideOf(x)
         o == Other(s)
         sib == Sibling(x)
         t1 == IF Color(tree.at[sib][o]) = "black"
               THEN Rotate(Paint(Paint(tree, tree.at[sib][s], "black"), sib, "red"), o, sib)
               ELSE tree
         upper == t1.at[p][o]
         t2 == Paint(Paint(t1, upper, Color(p)), p, "black")
         t3 == Rotate(Paint(t2, t2.at[upper][o], "black"), s, p)
     IN  /\ Color(sib) = "black" /\ NephewIsRed(x)
         /\ tree' = t3
         /\ fix' = [fix EXCEPT !.node = t3.root]
  /\ NoAnswer /\ UNCHANGED <<len, cursor, seq>>

RemoveEnd ==
  /\ fix.loop \in {"remove", "done"}
  /\ ~Missing
  /\ tree' = Paint(tree, fix.node, "black")
  /\ fix' = Idle
  /\ NoAnswer /\ UNCHANGED <<len, cursor, seq>>

----------------------------------------------------------------------------
(* The caller's walk and its searches *)

WalkFirst ==
  /\ fix = Idle
  /\ cursor' = Minimum(tree.root)
  /\ NoAnswer /\ UNCHANGED <<tree, len, fix, seq>>

WalkNext ==
  /\ fix = Idle
  /\ cursor # sentl
  /\ cursor' = Successor(cursor)
  /\ NoAnswer /\ UNCHANGED <<tree, len, fix, seq>>

(* FFRBT_FOR: the next node is taken before the removal (test/rbtree.c:65). *)
WalkRemove ==
  /\ cursor # sentl
  /\ TakeOut(cursor)
  /\ cursor' = Successor(cursor)

Find(k) ==
  /\ fix = Idle
  /\ answer' = Found(k)
  /\ UNCHANGED <<tree, len, fix, cursor, seq>>

Locate(k) ==
  /\ fix = Idle
  /\ answer' = Located(k)
  /\ UNCHANGED <<tree, len, fix, cursor, seq>>

Turn ==
  \/ InsertRecolor \/ InsertRotate \/ InsertEnd
  \/ RemoveRaise \/ RemoveRecolor \/ RemoveRotate \/ RemoveEnd

Next ==
  \/ \E n \in Nodes : Insert(n) \/ Remove(n)
  \/ Turn
  \/ WalkFirst \/ WalkNext \/ WalkRemove
  \/ \E k \in Keys : Find(k) \/ Locate(k)

Spec == Init /\ [][Next]_vars

----------------------------------------------------------------------------
(* Properties *)

(* The fields of a node are nodes, the sentinel or unset; the length and   *)
(* the cursor stay in their ranges.                                        *)
TypeOK ==
  /\ tree.root \in Nodes \cup {sentl}
  /\ \A x \in Nodes \cup {sentl} :
       /\ {Left(x), Right(x), Parent(x)} \subseteq Nodes \cup {sentl, NULL}
       /\ Color(x) \in {"red", "black"}
  /\ len \in 0..Cardinality(Nodes)
  /\ fix.loop \in {"none", "insert", "remove", "done"}
  /\ cursor \in Nodes \cup {sentl}

(* Between calls a child and its parent know each other, only the root     *)
(* hangs from the sentinel, and the length counts the nodes.               *)
LinksAgree ==
  /\ TypeOK
  /\ fix = Idle =>
       /\ \A n \in Members : \A c \in {Left(n), Right(n)} : c # sentl => Parent(c) = n
       /\ \A n \in Members : Parent(n) = sentl <=> n = tree.root
       /\ len = Cardinality(Members)

BlackHeight ==
  LET h[x \in Members \cup {sentl}] ==
        IF x = sentl THEN {0}
        ELSE {k + (IF Color(x) = "black" THEN 1 ELSE 0) : k \in h[Left(x)] \cup h[Right(x)]}
  IN  h[tree.root]

(* Between calls no red node has a red child and every way down meets as   *)
(* many black nodes, so no search is longer than twice the shortest; the   *)
(* sentinel, on which the loops also work, stays black throughout.         *)
RedBlack ==
  /\ Color(sentl) = "black"
  /\ fix = Idle =>
       /\ Color(tree.root) = "black"
       /\ \A n \in Members :
            Color(n) = "red" => Color(Left(n)) = "black" /\ Color(Right(n)) = "black"
       /\ Cardinality(BlackHeight) = 1

(* After every call and every turn of the loops the walk meets the nodes   *)
(* in the order of their keys, equal keys in the order of their insertion, *)
(* and none is lost or met twice.                                          *)
WalkIsInOrder == Walk = seq

List == INSTANCE OrderedList WITH nothing <- sentl

(* The tree implements the ordered list: a walk that goes on after what it *)
(* removed, or after others were inserted and removed, skips nothing, and  *)
(* searches find what is there although rotations carry equal keys to both *)
(* sides.                                                                  *)
ImplementsOrderedList == List!Spec
============================================================================
