---------------------------- MODULE LatestBundle ----------------------------
(***************************************************************************)
(* What PublishChannel promises to the subscribers of the ROS topics: the  *)
(* register of the latest bundle, of a consumer that may skip bundles, may *)
(* get the two parts of a snapshot from different bundles, may be ahead of *)
(* what is announced and may go back, by one bundle, but ends up with the  *)
(* latest.  Nothing of slots, indices, rings or sequence counters.         *)
(***************************************************************************)
EXTENDS Integers

CONSTANT MaxBundle   \* bound: bundles published

VARIABLES
  made,       \* the number of bundles that publish_bundle was called for
  announced,  \* of those, how many it has announced
  delivered,  \* the bundles of the two parts of the last snapshot published
  clock       \* the bundle of the last /clock published

registerVars == <<made, announced, delivered, clock>>

RegisterInit ==
  /\ made = 0 /\ announced = 0 /\ clock = 0
  /\ delivered = [first |-> 0, last |-> 0]

Make ==
  /\ made < MaxBundle /\ made' = made + 1
  /\ UNCHANGED <<announced, delivered, clock>>

\* A bundle that is made may also be dropped.
Announce ==
  /\ announced < made /\ announced' = announced + 1
  /\ UNCHANGED <<made, delivered, clock>>

OneBackOrLater(n) == {m \in 0..made : m >= n - 1}

Publish ==
  /\ \E first \in OneBackOrLater(delivered.first), last \in OneBackOrLater(delivered.last) :
       delivered' = [first |-> first, last |-> last]
  /\ clock' \in OneBackOrLater(clock)
  /\ UNCHANGED <<made, announced>>

Behind == \E n \in {delivered.first, delivered.last, clock} : n < announced

CatchUp == Behind /\ Publish /\ ~Behind'

RegisterNext == Make \/ Announce \/ Publish

RegisterSafety == RegisterInit /\ [][RegisterNext]_registerVars

RegisterSpec == RegisterSafety /\ WF_registerVars(CatchUp)
=============================================================================
