---------------------------- MODULE MCRingQueue ----------------------------
(* Model-checking instance of RingQueue: the smallest ring the code        *)
(* allocates (two slots), two producers, two consumers and counters that   *)
(* wrap after a few calls.  Threads and items are interchangeable, which   *)
(* the runs that check only safety use.                                    *)
EXTENDS RingQueue, TLC

Symmetry ==
  Permutations(Producers) \cup Permutations(Consumers) \cup Permutations(Items)
============================================================================
