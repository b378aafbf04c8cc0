------------------------------- MODULE Relay -------------------------------
(***************************************************************************)
(* What the processes of an interface bridge promise, seen from outside:   *)
(* each takes items in some order and hands them on, each once and in that *)
(* order, until it stops.  It stops for good, and at most the item it was  *)
(* handing on is lost with it.  What happens to an item before it is       *)
(* accepted (a datagram lost in the network, an update overwritten by the  *)
(* next one) is nobody's promise.  IbrProcess implements this.             *)
(***************************************************************************)
EXTENDS Integers, Sequences

CONSTANT Relays

VARIABLES accepted, \* how many items each has accepted; item n is the n-th
          pending,  \* accepted and not yet handed on, oldest first
          delivered,\* handed on, oldest first
          up        \* those that have not stopped

vars == <<accepted, pending, delivered, up>>

Init ==
    /\ accepted = [r \in Relays |-> 0]
    /\ pending = [r \in Relays |-> <<>>]
    /\ delivered = [r \in Relays |-> <<>>]
    /\ up = Relays

Accept(r) ==
    /\ accepted' = [accepted EXCEPT ![r] = @ + 1]
    /\ pending' = [pending EXCEPT ![r] = Append(@, accepted[r] + 1)]
    /\ UNCHANGED <<delivered, up>>

Deliver(r) ==
    /\ r \in up
    /\ pending[r] # <<>>
    /\ delivered' = [delivered EXCEPT ![r] = Append(@, Head(pending[r]))]
    /\ pending' = [pending EXCEPT ![r] = Tail(@)]
    /\ UNCHANGED <<accepted, up>>

\* Some stop, of which some lose the item they had in hand.
Stop(these, losers) ==
    /\ these # {}
    /\ up' = up \ these
    /\ \A r \in losers : pending[r] # <<>>
    /\ pending' = [r \in Relays |-> IF r \in losers THEN Tail(pending[r]) ELSE pending[r]]
    /\ UNCHANGED <<accepted, delivered>>

Next == \/ \E r \in Relays : Accept(r) \/ Deliver(r)
        \/ \E these \in SUBSET up : \E losers \in SUBSET these : Stop(these, losers)

Spec == Init /\ [][Next]_vars

\* What is accepted is handed on, or the relay stops.
Delivery(Items) ==
    \A r \in Relays, n \in Items :
        accepted[r] >= n ~> (r \notin up \/ \E k \in DOMAIN delivered[r] : delivered[r][k] = n)
=============================================================================
