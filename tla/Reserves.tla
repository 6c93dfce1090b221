------------------------------ MODULE Reserves -------------------------------
(***************************************************************************)
(* The budget side of module Coordinator: what the limits table promises   *)
(* about capacity and about the trusted replays the platform still owes.   *)
(***************************************************************************)
EXTENDS Coordinator, Totals

LeasedUnits == {u \in Units : unit[u].reserved}
Issued == {a \in Attempts : attempt[a].state # "none"}

Assignments == [w \in Months |-> limits[w].assignments]
Reserved == [w \in Months |-> limits[w].reserved]
Runs == [u \in Units |-> unit[u].runs]
Retries == [u \in Units |-> IF unit[u].runs > 1 THEN unit[u].runs - 1 ELSE 0]

\* The budgets that month w was opened with or that the owner may give it.
BudgetsOf(w) == Budgets \cup {Opening[w]}

\* Simultaneous clients cannot spend the same capacity: the assignments charged
\* are the attempts handed out, and they, the leases in flight and the reserves
\* stay within a budget that was set.  Reserves carried into a month may exceed
\* its budget, so of reserves this speaks of the first month only.
CapacityHeld ==
    /\ Total(Assignments) = Cardinality(Issued)
    /\ \A w \in Months :
            \E b \in BudgetsOf(w) : limits[w].assignments <= b.maxAssignments
    /\ \E b \in BudgetsOf(1) : limits[1].reserved <= b.maxReserved
    /\ \E w \in Months : \E b \in BudgetsOf(w) :
            Cardinality(Inflight) <= b.maxInflight

\* One guest never holds two live leases, whatever it asks concurrently.
OneLeasePerGuest ==
    \A a, b \in Inflight : a[2] = b[2] => a = b

\* Every trusted replay ever started was paid for in some month.
EveryReplayFunded == Total(Runs) <= Total(Reserved)

\* The trusted replays that are owed and charged to the current month.
OwedNow ==
    {u \in Units : /\ unit[u].reserved
                   /\ unit[u].trusted = NoResult
                   /\ unit[u].window = month}

\* A replay that is still owed and charged to the current month is counted
\* in that month's reserve: obligations do carry forward.
ObligationsFunded == Cardinality(OwedNow) <= limits[month].reserved

\* A month takes over the reserve of a unit at most once: it never holds
\* more than one reserve per leased unit and one per extra replay.
CarriedOnce ==
    \A w \in Months :
        limits[w].reserved <= Cardinality(LeasedUnits) + Total(Retries)

==============================================================================
