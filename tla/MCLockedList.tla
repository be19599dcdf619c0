---------------------------- MODULE MCLockedList ----------------------------
(* Model-checking instance of LockedList. *)
EXTENDS LockedList
============================================================================
