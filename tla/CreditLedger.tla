---------------------------- MODULE CreditLedger -----------------------------
(***************************************************************************)
(* What the coordinator promises a volunteer: an attempt is answered once, *)
(* a unit gets one verdict, and credit goes to exactly the answers that    *)
(* equal the verdict.  Deliveries, reserves, retries, crashes and owner    *)
(* actions are below this level; module Coordinator implements it.         *)
(***************************************************************************)
EXTENDS FiniteSets

CONSTANTS Work,      \* units
          Entry,     \* attempts
          WorkOf,    \* the unit of an attempt
          Value,     \* results
          Unset      \* no result yet

VARIABLES answer,    \* the result stored for an attempt
          verdict,   \* the trusted result of a unit
          credited   \* attempts holding credit

ledger == <<answer, verdict, credited>>

Start ==
    /\ answer = [e \in Entry |-> Unset]
    /\ verdict = [w \in Work |-> Unset]
    /\ credited = {}

\* The first result stands.
Answer(e, x) ==
    /\ answer[e] = Unset
    /\ answer' = [answer EXCEPT ![e] = x]
    /\ UNCHANGED <<verdict, credited>>

\* One trusted result per unit.
Decide(w, x) ==
    /\ verdict[w] = Unset
    /\ verdict' = [verdict EXCEPT ![w] = x]
    /\ UNCHANGED <<answer, credited>>

Correct(w) == {e \in Entry : WorkOf[e] = w /\ answer[e] = verdict[w]}

\* Every correct answer of the unit is credited, and no other.
Award(w) ==
    /\ verdict[w] # Unset
    /\ credited' = credited \cup Correct(w)
    /\ UNCHANGED <<answer, verdict>>

Step ==
    \/ \E e \in Entry, x \in Value : Answer(e, x)
    \/ \E w \in Work, x \in Value : Decide(w, x)
    \/ \E w \in Work : Award(w)

Promise == Start /\ [][Step]_ledger
==============================================================================
