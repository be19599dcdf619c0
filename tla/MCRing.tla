------------------------------- MODULE MCRing -------------------------------
(* Model-checking instance of Ring: a buffer of two bytes, threads that    *)
(* write and read in every mode, and counters that wrap soon.              *)
EXTENDS Ring, TLC

Request(o, h, s) == [op |-> o, how |-> h, size |-> s]

(* A call for one byte is the same in the exact and the maximum modes; the *)
(* exact mode of a read is the one ffring_read_discard() uses.             *)
MCRequests ==
  {Request("write", "EXACT", 1), Request("write", "EXACT", 2),
   Request("write", "MAX1", 2),
   Request("read", "MIN", 1), Request("read", "MAX", 2), Request("read", "MAX1", 2),
   Request("discard", "EXACT", 2)}

Symmetry == Permutations(Threads)
============================================================================
