----------------------------- MODULE LockedList -----------------------------
(***************************************************************************)
(* fflist (ffbase/list.h, ffbase/chain.h): the doubly-linked list with a   *)
(* sentinel, shared by threads that hold an fflock around each operation.  *)
(*                                                                         *)
(* A step is one _ffchain_link2(), or one of the plain assignments around  *)
(* them, so a thread that got in early would meet a half-linked list.      *)
(***************************************************************************)
EXTENDS SpinLock, SequencesExt

CONSTANTS
  Items,  \* the items that may be linked
  root,   \* the sentinel &list->root
  NULL

ASSUME LockedListAssumption ==
  /\ IsFiniteSet(Items)
  /\ root \notin Items /\ NULL \notin Items \cup {root}

VARIABLES
  next, prev,  \* the links of the items and of the sentinel
  len,         \* list->len
  job,         \* job[t]: the operation of thread t and its item
  anchor,      \* anchor[t]: the argument `after` or `before` of the chain function
  step,        \* step[t]: the next assignment of the operation
  seq          \* history: what the operations started so far make of the list

vars == <<lock, at, next, prev, len, job, anchor, step, seq>>

Nodes == Items \cup {root}

NoJob == [op |-> "none", item |-> NULL]

(* fflist_init(); the links of a new item are NULL. *)
Init ==
  /\ LockInit
  /\ next = [x \in Nodes |-> IF x = root THEN root ELSE NULL]
  /\ prev = [x \in Nodes |-> IF x = root THEN root ELSE NULL]
  /\ len = 0
  /\ job = [t \in Threads |-> NoJob]
  /\ anchor = [t \in Threads |-> NULL]
  /\ step = [t \in Threads |-> "none"]
  /\ seq = <<>>

Goto(t, s) == step' = [step EXCEPT ![t] = s]

Done(t) ==
  /\ Goto(t, "none")
  /\ job' = [job EXCEPT ![t] = NoJob]
  /\ anchor' = [anchor EXCEPT ![t] = NULL]

----------------------------------------------------------------------------
(* What an operation makes of the sequence of linked items. *)

Linked(x) == \E i \in DOMAIN seq : seq[i] = x

Place(x) == CHOOSE i \in DOMAIN seq : seq[i] = x

Without(x) == IF Linked(x) THEN RemoveAt(seq, Place(x)) ELSE seq

Effect(op, x) ==
  CASE op \in {"add", "moveback"}       -> Append(Without(x), x)
    [] op \in {"addfront", "movefront"} -> <<x>> \o Without(x)
    [] op = "rm"                        -> Without(x)

(* A thread in the lock calls an operation: an item is added only when it  *)
(* is in no list, and removed or moved only when it is in this one.        *)
Start(t, op, x) ==
  /\ at[t] = "in" /\ step[t] = "none"
  /\ Linked(x) <=> op \notin {"add", "addfront"}
  /\ job' = [job EXCEPT ![t] = [op |-> op, item |-> x]]
  /\ Goto(t, IF Linked(x) THEN "unlink" ELSE "join")
  /\ seq' = Effect(op, x)
  /\ UNCHANGED <<lockVars, next, prev, len, anchor>>

(* _ffchain_link2(L, R) *)
Link2(L, R) ==
  /\ next' = [next EXCEPT ![L] = R]
  /\ prev' = [prev EXCEPT ![R] = L]

Item(t) == job[t].item

(* ffchain_item_unlink(): _ffchain_link2(item->prev, item->next) *)
Unlink(t) ==
  /\ step[t] = "unlink"
  /\ Link2(prev[Item(t)], next[Item(t)])
  /\ Goto(t, "clear")
  /\ UNCHANGED <<lockVars, len, job, anchor, seq>>

(* Wrong: the item keeps its links. *)
WrongClear(t) ==
  /\ step[t] = "clear"
  /\ Goto(t, IF job[t].op = "rm" THEN "count" ELSE "join")
  /\ UNCHANGED <<lockVars, next, prev, len, job, anchor, seq>>

(* item->prev = item->next = NULL *)
Clear(t) ==
  /\ step[t] = "clear"
  /\ next' = [next EXCEPT ![Item(t)] = NULL]
  /\ prev' = [prev EXCEPT ![Item(t)] = NULL]
  /\ Goto(t, IF job[t].op = "rm" THEN "count" ELSE "join")
  /\ UNCHANGED <<lockVars, len, job, anchor, seq>>

AtBack(t) == job[t].op \in {"add", "moveback"}

(* ffchain_item_append(item, root.prev), ffchain_item_prepend(item,        *)
(* root.next): the first of their two links                                *)
Join(t) ==
  /\ step[t] = "join"
  /\ \/ /\ AtBack(t)
        /\ anchor' = [anchor EXCEPT ![t] = prev[root]]
        /\ Link2(Item(t), next[prev[root]])
     \/ /\ ~AtBack(t)
        /\ anchor' = [anchor EXCEPT ![t] = next[root]]
        /\ Link2(prev[next[root]], Item(t))
  /\ Goto(t, "close")
  /\ UNCHANGED <<lockVars, len, job, seq>>

(* the second one *)
Close(t) ==
  /\ step[t] = "close"
  /\ \/ AtBack(t) /\ Link2(anchor[t], Item(t))
     \/ ~AtBack(t) /\ Link2(Item(t), anchor[t])
  /\ \/ /\ job[t].op \in {"add", "addfront"}
        /\ Goto(t, "count")
        /\ UNCHANGED <<job, anchor>>
     \/ /\ job[t].op \in {"moveback", "movefront"}
        /\ Done(t)
  /\ UNCHANGED <<lockVars, len, seq>>

(* list->len++, list->len-- *)
Count(t) ==
  /\ step[t] = "count"
  /\ len' = IF job[t].op = "rm" THEN len - 1 ELSE len + 1
  /\ Done(t)
  /\ UNCHANGED <<lockVars, next, prev, seq>>

OperationStep(t) == Unlink(t) \/ Clear(t) \/ Join(t) \/ Close(t) \/ Count(t)

----------------------------------------------------------------------------
(* The lock around it *)

GetIn(t) ==
  /\ LockCall(t) \/ LockTaken(t) \/ TryLock(t)
  /\ UNCHANGED <<next, prev, len, job, anchor, step, seq>>

GetOut(t) ==
  /\ step[t] = "none"
  /\ Unlock(t)
  /\ UNCHANGED <<next, prev, len, job, anchor, step, seq>>

Operations == {"add", "addfront", "rm", "movefront", "moveback"}

Next ==
  \E t \in Threads :
    \/ GetIn(t) \/ GetOut(t) \/ OperationStep(t)
    \/ \E op \in Operations, x \in Items : Start(t, op, x)

Spec == Init /\ [][Next]_vars

(* A thread that waits for the lock keeps trying, and one that holds it    *)
(* finishes its operations and lets go; no thread must ask for the lock.   *)
Fairness ==
  \A t \in Threads :
    /\ WF_vars(LockTaken(t) /\ UNCHANGED <<next, prev, len, job, anchor, step, seq>>)
    /\ WF_vars(OperationStep(t))
    /\ SF_vars(GetOut(t))

FairSpec == Spec /\ Fairness

----------------------------------------------------------------------------
(* Properties *)

Steps == {"none", "unlink", "clear", "join", "close", "count"}

(* Links lead to nodes or nowhere, and each thread is at a known step. *)
TypeOK ==
  /\ LockTypeOK
  /\ next \in [Nodes -> Nodes \cup {NULL}]
  /\ prev \in [Nodes -> Nodes \cup {NULL}]
  /\ len \in 0..Cardinality(Items)
  /\ step \in [Threads -> Steps]

(* The sentinel followed by the sequence, as a ring. *)
Ring == <<root>> \o seq

(* Between operations the links in both directions, the length and the     *)
(* items left outside agree with the sequence of the operations: no item   *)
(* is lost, linked twice, or left with a link into the list it was         *)
(* removed from (list.h:51-84).                                            *)
ListIsTheSequence ==
  /\ TypeOK
  /\ (\A t \in Threads : step[t] = "none") =>
       /\ \A i \in DOMAIN Ring :
            LET j == IF i = Len(Ring) THEN 1 ELSE i + 1
            IN  next[Ring[i]] = Ring[j] /\ prev[Ring[j]] = Ring[i]
       /\ \A x \in Items : ~Linked(x) => next[x] = NULL /\ prev[x] = NULL
       /\ len = Len(seq)
============================================================================
