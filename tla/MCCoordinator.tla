---------------------------- MODULE MCCoordinator ----------------------------
(* Values of the constants for model checking module Coordinator.          *)
EXTENDS Reserves, TLC

CONSTANTS g1, g2, g3

One == {1}
Two == {1, 2}
OneCampaign == [u \in Units |-> "c"]
OneRelease == [u \in Units |-> "r"]
OwnRelease == [u \in Units |-> u]

Ample == [maxAssignments |-> 9, maxReserved |-> 9, maxInflight |-> 25]
Small == [maxAssignments |-> 9, maxReserved |-> 2, maxInflight |-> 25]
Tight == [maxAssignments |-> 3, maxReserved |-> 2, maxInflight |-> 2]

AmpleMonths == [w \in Months |-> Ample]
SmallMonths == [w \in Months |-> Small]
TightMonths == [w \in Months |-> Tight]

NoBudgets == {}
BudgetChoices == {Closed, Small}

Symmetry == Permutations(Guests) \cup Permutations(Results)
                \cup Permutations(Calls) \cup Permutations(Checkers)
==============================================================================
