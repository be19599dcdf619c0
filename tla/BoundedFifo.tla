---------------------------- MODULE BoundedFifo ----------------------------
(***************************************************************************)
(* What ffringqueue promises its callers: a bounded first-in first-out     *)
(* queue shared by several producers and consumers.                        *)
(*                                                                         *)
(* A place in the queue goes through three stages.  A producer claims it,  *)
(* then publishes its item in it; a consumer takes the item, then releases *)
(* the place.  Items are published in the order of the claims and places   *)
(* are released in the order of the takes.  Calls are refused only when    *)
(* every place is in one of the stages (add) or when no published item is  *)
(* left (fetch).                                                           *)
(***************************************************************************)
EXTENDS Naturals, Sequences

CONSTANTS Producers, Consumers, Items, Capacity, NoItem

VARIABLES
  offer,   \* offer[p]: the item producer p is adding, NoItem outside a call
  claims,  \* the producers that own a place, in the order they got it
  queue,   \* the published items, oldest first
  wants,   \* wants[c]: consumer c is inside a fetch
  takers,  \* the consumers that own an item, in the order they got it
  got      \* got[c]: the item consumer c owns, NoItem if none

vars == <<offer, claims, queue, wants, takers, got>>

Init ==
  /\ offer = [p \in Producers |-> NoItem]
  /\ claims = <<>>
  /\ queue = <<>>
  /\ wants = [c \in Consumers |-> FALSE]
  /\ takers = <<>>
  /\ got = [c \in Consumers |-> NoItem]

Occupied == Len(claims) + Len(queue) + Len(takers)

Member(x, s) == \E i \in DOMAIN s : s[i] = x

----------------------------------------------------------------------------
(* Producers *)

Offer(p, v) ==
  /\ offer[p] = NoItem
  /\ offer' = [offer EXCEPT ![p] = v]
  /\ UNCHANGED <<claims, queue, wants, takers, got>>

Claim(p) ==
  /\ offer[p] # NoItem
  /\ ~Member(p, claims)
  /\ Occupied < Capacity
  /\ claims' = Append(claims, p)
  /\ UNCHANGED <<offer, queue, wants, takers, got>>

Refuse(p) ==
  /\ offer[p] # NoItem
  /\ ~Member(p, claims)
  /\ Occupied = Capacity
  /\ offer' = [offer EXCEPT ![p] = NoItem]
  /\ UNCHANGED <<claims, queue, wants, takers, got>>

Publish ==
  /\ claims # <<>>
  /\ queue' = Append(queue, offer[Head(claims)])
  /\ offer' = [offer EXCEPT ![Head(claims)] = NoItem]
  /\ claims' = Tail(claims)
  /\ UNCHANGED <<wants, takers, got>>

----------------------------------------------------------------------------
(* Consumers *)

Ask(c) ==
  /\ ~wants[c]
  /\ wants' = [wants EXCEPT ![c] = TRUE]
  /\ UNCHANGED <<offer, claims, queue, takers, got>>

Take(c) ==
  /\ wants[c]
  /\ got[c] = NoItem
  /\ queue # <<>>
  /\ got' = [got EXCEPT ![c] = Head(queue)]
  /\ queue' = Tail(queue)
  /\ takers' = Append(takers, c)
  /\ UNCHANGED <<offer, claims, wants>>

Miss(c) ==
  /\ wants[c]
  /\ got[c] = NoItem
  /\ queue = <<>>
  /\ wants' = [wants EXCEPT ![c] = FALSE]
  /\ UNCHANGED <<offer, claims, queue, takers, got>>

Release ==
  /\ takers # <<>>
  /\ got' = [got EXCEPT ![Head(takers)] = NoItem]
  /\ wants' = [wants EXCEPT ![Head(takers)] = FALSE]
  /\ takers' = Tail(takers)
  /\ UNCHANGED <<offer, claims, queue>>

----------------------------------------------------------------------------

Next ==
  \/ \E p \in Producers : Claim(p) \/ Refuse(p) \/ \E v \in Items : Offer(p, v)
  \/ Publish
  \/ \E c \in Consumers : Ask(c) \/ Take(c) \/ Miss(c)
  \/ Release

Spec == Init /\ [][Next]_vars
============================================================================
