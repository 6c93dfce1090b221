------------------------------ MODULE MCCredit ------------------------------
(* Two scenes of one small instance of the coordinator.  In a race the     *)
(* owner's switches rest while two requests, two background checks and the *)
(* schedule meet at one unit.  When the owner begins by setting a budget,  *)
(* every owner action and switch interleaves with the schedule and one     *)
(* request or background check at a time.                                  *)
EXTENDS MCCoordinator

\* No owner chooses the ample budget the month opens with.
Racing == limits[1].budget = Ample

Race ==
    /\ UNCHANGED <<stopped, healthy, blocked>>
    /\ limits'[1].traffic = limits[1].traffic

OneByOne ==
    Cardinality({q \in Calls : call'[q] # NoCall} \cup {v \in Checkers : check'[v] # NoCheck}) <= 1

InScene == IF Racing' THEN Race ELSE OneByOne /\ (Racing => Init)
==============================================================================
