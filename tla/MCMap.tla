------------------------------- MODULE MCMap -------------------------------
(* Model-checking instance of Map: two keys have two values each, and keys *)
(* collide in the first, a middle and the last slot of tables of 2, 4 and  *)
(* 8 slots.                                                                *)
EXTENDS Map

CONSTANTS k1, k2, k3, v1, w1, v2, w2, v3

MCKeyOf == [v \in Vals |->
  CASE v \in {v1, w1} -> k1 [] v \in {v2, w2} -> k2 [] v = v3 -> k3]

(* Modulo 8 the last key is at home in the last slot and the others before *)
(* the wrap, after it, or with it; k1 and k2 are interchangeable.          *)
MCHashes ==
  {h \in [Keys -> {0, 3, 7}] : h[k1] <= h[k2] /\ h[k3] = 7}
============================================================================
