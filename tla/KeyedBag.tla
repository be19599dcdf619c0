------------------------------ MODULE KeyedBag ------------------------------
(***************************************************************************)
(* What ffmap promises its callers: a collection of values found by key,   *)
(* where several values may have the same key.                             *)
(***************************************************************************)
CONSTANTS Vals, Keys, KeyOf, NULL

VARIABLES
  members,  \* the values in the collection
  answer    \* what the last call returned

vars == <<members, answer>>

(* The reply to a call; the argument is kept where the reply depends on it. *)
To(x, r) == [arg |-> x, ret |-> r]

Init == members = {} /\ answer = To(NULL, "done")

Having(k) == {v \in members : KeyOf[v] = k}

Answer(a) == answer' = a /\ UNCHANGED members

Add(v) == members' = members \cup {v} /\ answer' = To(NULL, "added")

NoMemory == Answer(To(NULL, "no memory"))

Reserve == Answer(To(NULL, "done"))

(* The table is freed, or allocated anew whether or not there is memory. *)
Clear == members' = {} /\ answer' \in {To(NULL, "done"), To(NULL, "no memory")}

RemoveVal(v) ==
  \/ /\ v \in members
     /\ members' = members \ {v}
     /\ answer' = To(v, "removed")
  \/ /\ v \notin members
     /\ Answer(To(v, "not found"))

(* One value with the key goes, whichever. *)
RemoveKey(k) ==
  \/ \E v \in Having(k) : members' = members \ {v} /\ answer' = To(k, "removed")
  \/ Having(k) = {} /\ Answer(To(k, "not found"))

Find(k) ==
  \/ \E v \in Having(k) : Answer(To(k, v))
  \/ Having(k) = {} /\ Answer(To(k, NULL))

Next ==
  \/ NoMemory \/ Reserve \/ Clear
  \/ \E v \in Vals : Add(v) \/ RemoveVal(v)
  \/ \E k \in Keys : RemoveKey(k) \/ Find(k)

Spec == Init /\ [][Next]_vars
============================================================================
