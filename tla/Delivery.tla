------------------------------ MODULE Delivery ------------------------------
(***************************************************************************)
(* What the proxy promises about a client's request, whatever the          *)
(* backends do: it is offered to the cost tiers in order, at most once to  *)
(* each, and it ends exactly once, as an answer, an error or an aborted    *)
(* connection; an answer comes from a tier it was offered to; nothing is   *)
(* offered after the end.  Then its client may send another one.           *)
(***************************************************************************)
EXTENDS Integers, Sequences

CONSTANTS
  Requests,   \* clients with one request at a time
  Tiers       \* the cost tiers, natural numbers in the order of preference

VARIABLES
  outcome,    \* request -> "new", "open", "answered", "failed" or "aborted"
  offers      \* request -> the tiers it was offered to

deliveryVars == <<outcome, offers>>

Ended == {"answered", "failed", "aborted"}

DeliveryInit ==
  /\ outcome = [r \in Requests |-> "new"]
  /\ offers = [r \in Requests |-> <<>>]

Accept(r) ==
  /\ outcome[r] = "new"
  /\ \E o \in {"open", "failed"} : outcome' = [outcome EXCEPT ![r] = o]
  /\ UNCHANGED offers

Offer(r) ==
  /\ outcome[r] = "open"
  /\ \E t \in Tiers :
       /\ \A i \in 1..Len(offers[r]) : offers[r][i] < t
       /\ offers' = [offers EXCEPT ![r] = Append(@, t)]
  /\ UNCHANGED outcome

End(r) ==
  /\ outcome[r] = "open"
  /\ \E o \in Ended :
       /\ o # "failed" => offers[r] # <<>>
       /\ outcome' = [outcome EXCEPT ![r] = o]
  /\ UNCHANGED offers

Again(r) ==
  /\ outcome[r] \in Ended
  /\ outcome' = [outcome EXCEPT ![r] = "new"]
  /\ offers' = [offers EXCEPT ![r] = <<>>]

DeliveryNext ==
  \E r \in Requests : Accept(r) \/ Offer(r) \/ End(r) \/ Again(r)

\* Every request that was accepted ends.
DeliverySpec ==
  /\ DeliveryInit /\ [][DeliveryNext]_deliveryVars
  /\ \A r \in Requests : WF_deliveryVars(End(r))
=============================================================================
