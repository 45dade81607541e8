---------------------------- MODULE RideLifecycle ---------------------------
(***************************************************************************)
(* What a ride promises to the passenger, the drivers and the accountants: *)
(* an offer is taken by one driver at a time, a trip starts only while an  *)
(* offer is taken, and a finished trip is billed at most once.             *)
(* RideService implements it when the requests of a ride do not overlap.   *)
(***************************************************************************)
EXTENDS Naturals, Sequences, FiniteSets

CONSTANTS Drivers, NoDriver

VARIABLES
  offers,  \* one for each publication: [state, taker]
  trips,   \* "in_transit" or "completed", one for each start
  billed   \* invoices sent

vars == <<offers, trips, billed>>

Offer(state, taker) == [state |-> state, taker |-> taker]

Completed == {i \in DOMAIN trips : trips[i] = "completed"}

Init ==
  /\ offers = <<>>
  /\ trips = <<>>
  /\ billed = 0

Publish ==
  /\ offers' = Append(offers, Offer("open", NoDriver))
  /\ UNCHANGED <<trips, billed>>

\* A driver takes an offer nobody holds; a closed one may be taken as well.
Take(i, d) ==
  /\ offers[i].taker = NoDriver
  /\ offers' = [offers EXCEPT ![i] = Offer("taken", d)]
  /\ UNCHANGED <<trips, billed>>

Close(i) ==
  /\ offers' = [offers EXCEPT ![i] = Offer("closed", NoDriver)]
  /\ UNCHANGED <<trips, billed>>

StartTrip ==
  /\ \E i \in DOMAIN offers : offers[i].state = "taken"
  /\ trips' = Append(trips, "in_transit")
  /\ UNCHANGED <<offers, billed>>

FinishTrip(j) ==
  /\ trips[j] = "in_transit"
  /\ trips' = [trips EXCEPT ![j] = "completed"]
  /\ UNCHANGED <<offers, billed>>

Bill ==
  /\ billed < Cardinality(Completed)
  /\ billed' = billed + 1
  /\ UNCHANGED <<offers, trips>>

Next ==
  \/ Publish \/ StartTrip \/ Bill
  \/ \E i \in DOMAIN offers : Close(i) \/ \E d \in Drivers : Take(i, d)
  \/ \E j \in DOMAIN trips : FinishTrip(j)

Spec == Init /\ [][Next]_vars
=============================================================================
