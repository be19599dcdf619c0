------------------------------ MODULE SpinLock ------------------------------
(***************************************************************************)
(* fflock (ffbase/lock.h): a lock word taken with a compare-and-swap.      *)
(*                                                                         *)
(* A failed try inside fflock_lock() changes nothing, so the FFLOCK_SPIN   *)
(* tries, the pauses between them and the yield after them are the time a  *)
(* thread stays in "lock".                                                 *)
(***************************************************************************)
EXTENDS Naturals

CONSTANT Threads

VARIABLES
  lock,  \* lk->lock
  at     \* at[t]: outside, inside fflock_lock(), or holding the lock

lockVars == <<lock, at>>

LockInit ==
  /\ lock = 0
  /\ at = [t \in Threads |-> "out"]

Enter(t) == at' = [at EXCEPT ![t] = "in"]

(* Definitions "Wrong..." are what a plausible slip would have made of the *)
(* definition below them; no specification uses them.                      *)

(* Wrong: the result of the swap is not looked at. *)
WrongSwap == lock' = 1

(* ffint_cmpxchg(&lk->lock, 0, 1) that finds 0 *)
Swap == lock = 0 /\ lock' = 1

LockCall(t) ==
  /\ at[t] = "out"
  /\ at' = [at EXCEPT ![t] = "lock"]
  /\ UNCHANGED lock

LockTaken(t) == at[t] = "lock" /\ Swap /\ Enter(t)

(* fflock_trylock(): one try; a failed one leaves the caller outside. *)
TryLock(t) == at[t] = "out" /\ Swap /\ Enter(t)

(* Wrong: the lock word stays set. *)
WrongUnlock(t) ==
  /\ at[t] = "in"
  /\ at' = [at EXCEPT ![t] = "out"]
  /\ UNCHANGED lock

(* fflock_unlock(), called by the holder only *)
Unlock(t) ==
  /\ at[t] = "in"
  /\ lock' = 0
  /\ at' = [at EXCEPT ![t] = "out"]

LockNext ==
  \E t \in Threads : LockCall(t) \/ LockTaken(t) \/ TryLock(t) \/ Unlock(t)

LockSpec == LockInit /\ [][LockNext]_lockVars

----------------------------------------------------------------------------
(* Properties *)

(* The lock word and the places of the threads keep their shape. *)
LockTypeOK ==
  /\ lock \in {0, 1}
  /\ at \in [Threads -> {"out", "lock", "in"}]

(* Two threads never hold the lock at once (lock.h:73-101). *)
MutualExclusion ==
  \A t, u \in Threads : at[t] = "in" /\ at[u] = "in" => t = u

(* A thread that stays in fflock_lock() for ever is starved by another one *)
(* that takes and releases the lock again and again: the lock word is      *)
(* never left taken with nobody to release it.                             *)
StarvedOnlyByOthers ==
  \A t \in Threads :
    <>[](at[t] = "lock") =>
      \E u \in Threads \ {t} : []<>(at[u] = "in") /\ []<>(at[u] = "out")
============================================================================
