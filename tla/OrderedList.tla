---------------------------- MODULE OrderedList ----------------------------
(***************************************************************************)
(* What ffrbtree promises its callers: a list of nodes in the order of     *)
(* their keys, nodes with equal keys in the order of their insertion,      *)
(* which is searched by key and walked with a cursor.                      *)
(***************************************************************************)
EXTENDS Integers, Sequences

CONSTANTS Nodes, Keys, KeyOf, nothing, NULL

VARIABLES
  seq,     \* the nodes
  cursor,  \* the node the walk has reached; `nothing` after the last one
  answer   \* what a search has just returned

vars == <<seq, cursor, answer>>

Init == seq = <<>> /\ cursor = nothing /\ answer = NULL

NoAnswer == answer' = NULL

In(n) == \E i \in DOMAIN seq : seq[i] = n

(* The node goes in front of the first one with a greater key. *)
Insert(n) ==
  /\ NoAnswer /\ UNCHANGED cursor
  /\ ~In(n)
  /\ \E i \in 1..(Len(seq) + 1) :
       /\ \A j \in DOMAIN seq : KeyOf[seq[j]] <= KeyOf[n] <=> j < i
       /\ seq' = SubSeq(seq, 1, i - 1) \o <<n>> \o SubSeq(seq, i, Len(seq))

PlaceOf(n) == CHOOSE i \in DOMAIN seq : seq[i] = n
Without(n) == SubSeq(seq, 1, PlaceOf(n) - 1) \o SubSeq(seq, PlaceOf(n) + 1, Len(seq))

Remove(n) ==
  /\ NoAnswer /\ UNCHANGED cursor
  /\ In(n) /\ n # cursor
  /\ seq' = Without(n)

WalkFirst ==
  /\ NoAnswer /\ UNCHANGED seq
  /\ cursor' = IF seq = <<>> THEN nothing ELSE seq[1]

After(n) ==
  IF PlaceOf(n) = Len(seq) THEN nothing ELSE seq[PlaceOf(n) + 1]

WalkNext ==
  /\ NoAnswer /\ UNCHANGED seq
  /\ cursor # nothing
  /\ cursor' = After(cursor)

(* The walk goes on from the node after the one that is removed. *)
WalkRemove ==
  /\ NoAnswer
  /\ cursor # nothing
  /\ cursor' = After(cursor)
  /\ seq' = Without(cursor)

Having(k) == {n \in Nodes : In(n) /\ KeyOf[n] = k}

(* One of the nodes with the key, whichever. *)
Find(k) ==
  /\ UNCHANGED <<seq, cursor>>
  /\ answer' \in IF Having(k) = {} THEN {NULL} ELSE Having(k)

(* Without such a node, one next to where it would be. *)
Locate(k) ==
  /\ UNCHANGED <<seq, cursor>>
  /\ \/ Having(k) # {} /\ answer' \in Having(k)
     \/ /\ Having(k) = {} /\ seq # <<>>
        /\ \E n \in Nodes :
             /\ In(n) /\ answer' = n
             /\ \A m \in Nodes : In(m) =>
                  /\ KeyOf[m] < k => KeyOf[m] <= KeyOf[n]
                  /\ KeyOf[m] > k => KeyOf[m] >= KeyOf[n]
     \/ seq = <<>> /\ answer' = nothing

Next ==
  \/ \E n \in Nodes : Insert(n) \/ Remove(n)
  \/ WalkFirst \/ WalkNext \/ WalkRemove
  \/ \E k \in Keys : Find(k) \/ Locate(k)

Spec == Init /\ [][Next]_vars
============================================================================
