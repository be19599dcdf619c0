------------------------------ MODULE MCRBTree ------------------------------
(* Model-checking instance of RBTree: eight nodes, two of them with the    *)
(* same key.  Trees of three black levels, in which the loop of a removal  *)
(* goes up more than once, need an eighth node.                            *)
EXTENDS RBTree

MCKeyOf == <<1, 2, 3, 4, 4, 5, 6, 7>>
============================================================================
