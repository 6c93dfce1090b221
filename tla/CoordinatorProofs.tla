-------------------------- MODULE CoordinatorProofs --------------------------
(***************************************************************************)
(* Theorems about module Coordinator for every number of guests, units,    *)
(* results, requests, background checks and months: types, credit,         *)
(* receipts, ownership of replays, finality of verdicts, and the promise   *)
(* of module CreditLedger.  Then the budget: capacity is not spent twice,  *)
(* a guest holds one lease, and every trusted replay is paid for and       *)
(* carried from month to month once.                                       *)
(***************************************************************************)
EXTENDS Reserves, TotalsProofs

-----------------------------------------------------------------------------
(* What one UPDATE leaves of a row.                                        *)

LEMMA LeasedRow ==
    ASSUME NEW r \in AttemptRow
    PROVE  /\ Leased(r) \in AttemptRow
           /\ Leased(r).state = "leased"
           /\ Leased(r).live = TRUE
           /\ Leased(r).hash = r.hash
<1> DEFINE r1 == [r EXCEPT !.state = "leased"]
<1>1. /\ r1 \in AttemptRow /\ r1.state = "leased" /\ r1.live = r.live
      /\ r1.hash = r.hash
  BY DEF AttemptRow, AttemptStates
<1> HIDE DEF r1
<1>2. /\ [r1 EXCEPT !.live = TRUE] \in AttemptRow
      /\ [r1 EXCEPT !.live = TRUE].state = "leased"
      /\ [r1 EXCEPT !.live = TRUE].live = TRUE
      /\ [r1 EXCEPT !.live = TRUE].hash = r.hash
  BY <1>1 DEF AttemptRow, AttemptStates
<1> QED BY <1>2, Zenon DEF Leased, r1

LEMMA SubmittedRow ==
    ASSUME NEW r \in AttemptRow, NEW x \in Results, NEW n \in Nat
    PROVE  /\ Submitted(r, x, n) \in AttemptRow
           /\ Submitted(r, x, n).state = "submitted"
           /\ Submitted(r, x, n).hash = x
<1> DEFINE r1 == [r EXCEPT !.state = "submitted"]
<1>1. /\ r1 \in AttemptRow /\ r1.state = "submitted" /\ r1.hash = r.hash
  BY DEF AttemptRow, AttemptStates
<1> HIDE DEF r1
<1> DEFINE r2 == [r1 EXCEPT !.live = FALSE]
<1>2. /\ r2 \in AttemptRow /\ r2.state = "submitted" /\ r2.hash = r.hash
  BY <1>1 DEF AttemptRow, AttemptStates
<1> HIDE DEF r2
<1> DEFINE r3 == [r2 EXCEPT !.hash = x]
<1>3. /\ r3 \in AttemptRow /\ r3.state = "submitted" /\ r3.hash = x
  BY <1>2 DEF AttemptRow, AttemptStates
<1> HIDE DEF r3
<1>4. /\ [r3 EXCEPT !.at = n] \in AttemptRow
      /\ [r3 EXCEPT !.at = n].state = "submitted"
      /\ [r3 EXCEPT !.at = n].hash = x
  BY <1>3 DEF AttemptRow, AttemptStates
<1> QED BY <1>4, Zenon DEF Submitted, r1, r2, r3

LEMMA OwedRow ==
    ASSUME NEW r \in UnitRow, NEW w \in 0..MaxMonth
    PROVE  /\ Owed(r, w) \in UnitRow
           /\ Owed(r, w).state = r.state
           /\ Owed(r, w).trusted = r.trusted
           /\ Owed(r, w).runs = r.runs
           /\ Owed(r, w).reserved = TRUE
           /\ Owed(r, w).window = w
<1> DEFINE r1 == [r EXCEPT !.reserved = TRUE]
<1>1. /\ r1 \in UnitRow /\ r1.state = r.state /\ r1.trusted = r.trusted
      /\ r1.runs = r.runs /\ r1.reserved = TRUE /\ r1.window = r.window
  BY DEF UnitRow, UnitStates
<1> HIDE DEF r1
<1>2. /\ [r1 EXCEPT !.window = w] \in UnitRow
      /\ [r1 EXCEPT !.window = w].state = r.state
      /\ [r1 EXCEPT !.window = w].trusted = r.trusted
      /\ [r1 EXCEPT !.window = w].runs = r.runs
      /\ [r1 EXCEPT !.window = w].reserved = TRUE
      /\ [r1 EXCEPT !.window = w].window = w
  BY <1>1 DEF UnitRow, UnitStates
<1> QED BY <1>2, Zenon DEF Owed, r1

LEMMA ClaimedRow ==
    ASSUME NEW r \in UnitRow
    PROVE  /\ Claimed(r) \in UnitRow
           /\ Claimed(r).state = "checking"
           /\ Claimed(r).trusted = r.trusted
           /\ Claimed(r).runs = r.runs + 1
           /\ Claimed(r).reserved = r.reserved
           /\ Claimed(r).window = r.window
<1> DEFINE r1 == [r EXCEPT !.state = "checking"]
<1>1. /\ r1 \in UnitRow /\ r1.state = "checking"
      /\ r1.trusted = r.trusted /\ r1.runs = r.runs
      /\ r1.reserved = r.reserved /\ r1.window = r.window
  BY DEF UnitRow, UnitStates
<1> HIDE DEF r1
<1> DEFINE r2 == [r1 EXCEPT !.live = TRUE]
<1>2. /\ r2 \in UnitRow /\ r2.state = "checking"
      /\ r2.trusted = r.trusted /\ r2.runs = r.runs
      /\ r2.reserved = r.reserved /\ r2.window = r.window
  BY <1>1 DEF UnitRow, UnitStates
<1> HIDE DEF r2
<1>3. /\ [r2 EXCEPT !.runs = @ + 1] \in UnitRow
      /\ [r2 EXCEPT !.runs = @ + 1].state = "checking"
      /\ [r2 EXCEPT !.runs = @ + 1].trusted = r.trusted
      /\ [r2 EXCEPT !.runs = @ + 1].runs = r.runs + 1
      /\ [r2 EXCEPT !.runs = @ + 1].reserved = r.reserved
      /\ [r2 EXCEPT !.runs = @ + 1].window = r.window
  BY <1>2 DEF UnitRow, UnitStates
<1> QED BY <1>3, Zenon DEF Claimed, r1, r2

LEMMA SavedRow ==
    ASSUME NEW r \in UnitRow, NEW x \in Results
    PROVE  /\ Saved(r, x) \in UnitRow
           /\ Saved(r, x).state = "open"
           /\ Saved(r, x).trusted = x
           /\ Saved(r, x).runs = r.runs
           /\ Saved(r, x).reserved = r.reserved
           /\ Saved(r, x).window = r.window
<1> DEFINE r1 == [r EXCEPT !.state = "open"]
<1>1. /\ r1 \in UnitRow /\ r1.state = "open" /\ r1.trusted = r.trusted
      /\ r1.runs = r.runs /\ r1.reserved = r.reserved
      /\ r1.window = r.window
  BY DEF UnitRow, UnitStates
<1> HIDE DEF r1
<1> DEFINE r2 == [r1 EXCEPT !.live = FALSE]
<1>2. /\ r2 \in UnitRow /\ r2.state = "open" /\ r2.trusted = r.trusted
      /\ r2.runs = r.runs /\ r2.reserved = r.reserved
      /\ r2.window = r.window
  BY <1>1 DEF UnitRow, UnitStates
<1> HIDE DEF r2
<1>3. /\ [r2 EXCEPT !.trusted = x] \in UnitRow
      /\ [r2 EXCEPT !.trusted = x].state = "open"
      /\ [r2 EXCEPT !.trusted = x].trusted = x
      /\ [r2 EXCEPT !.trusted = x].runs = r.runs
      /\ [r2 EXCEPT !.trusted = x].reserved = r.reserved
      /\ [r2 EXCEPT !.trusted = x].window = r.window
  BY <1>2 DEF UnitRow, UnitStates
<1> QED BY <1>3, Zenon DEF Saved, r1, r2

LEMMA FailedRow ==
    ASSUME NEW r \in UnitRow
    PROVE  /\ Failed(r) \in UnitRow
           /\ Failed(r).state = "validation_error"
           /\ Failed(r).trusted = r.trusted
           /\ Failed(r).runs = r.runs
           /\ Failed(r).reserved = r.reserved
           /\ Failed(r).window = r.window
<1> DEFINE r1 == [r EXCEPT !.state = "validation_error"]
<1>1. /\ r1 \in UnitRow /\ r1.state = "validation_error"
      /\ r1.trusted = r.trusted /\ r1.runs = r.runs
      /\ r1.reserved = r.reserved /\ r1.window = r.window
  BY DEF UnitRow, UnitStates
<1> HIDE DEF r1
<1>2. /\ [r1 EXCEPT !.live = FALSE] \in UnitRow
      /\ [r1 EXCEPT !.live = FALSE].state = "validation_error"
      /\ [r1 EXCEPT !.live = FALSE].trusted = r.trusted
      /\ [r1 EXCEPT !.live = FALSE].runs = r.runs
      /\ [r1 EXCEPT !.live = FALSE].reserved = r.reserved
      /\ [r1 EXCEPT !.live = FALSE].window = r.window
  BY <1>1 DEF UnitRow, UnitStates
<1> QED BY <1>2, Zenon DEF Failed, r1

LEMMA ExtendedRow ==
    ASSUME NEW r \in UnitRow
    PROVE  /\ Extended(r) \in UnitRow
           /\ Extended(r).state = "open"
           /\ Extended(r).trusted = r.trusted
           /\ Extended(r).runs = r.runs
           /\ Extended(r).reserved = r.reserved
           /\ Extended(r).window = r.window
<1> DEFINE r1 == [r EXCEPT !.state = "open"]
<1>1. /\ r1 \in UnitRow /\ r1.state = "open" /\ r1.trusted = r.trusted
      /\ r1.runs = r.runs /\ r1.reserved = r.reserved
      /\ r1.window = r.window
  BY DEF UnitRow, UnitStates
<1> HIDE DEF r1
<1>2. /\ [r1 EXCEPT !.limit = @ + 2] \in UnitRow
      /\ [r1 EXCEPT !.limit = @ + 2].state = "open"
      /\ [r1 EXCEPT !.limit = @ + 2].trusted = r.trusted
      /\ [r1 EXCEPT !.limit = @ + 2].runs = r.runs
      /\ [r1 EXCEPT !.limit = @ + 2].reserved = r.reserved
      /\ [r1 EXCEPT !.limit = @ + 2].window = r.window
  BY <1>1 DEF UnitRow, UnitStates
<1> QED BY <1>2, Zenon DEF Extended, r1

LEMMA CarriedRow ==
    ASSUME NEW r \in LimitRow, NEW n \in Nat
    PROVE  /\ Carried(r, n) \in LimitRow
           /\ Carried(r, n).assignments = r.assignments
           /\ Carried(r, n).reserved = r.reserved + n
           /\ Carried(r, n).budget = r.budget
<1> DEFINE r1 == [r EXCEPT !.row = TRUE]
<1>1. /\ r1 \in LimitRow /\ r1.assignments = r.assignments
      /\ r1.reserved = r.reserved /\ r1.budget = r.budget
  BY DEF LimitRow
<1> HIDE DEF r1
<1>2. /\ [r1 EXCEPT !.reserved = @ + n] \in LimitRow
      /\ [r1 EXCEPT !.reserved = @ + n].assignments = r.assignments
      /\ [r1 EXCEPT !.reserved = @ + n].reserved = r.reserved + n
      /\ [r1 EXCEPT !.reserved = @ + n].budget = r.budget
  BY <1>1 DEF LimitRow
<1> QED BY <1>2, Zenon DEF Carried, r1

LEMMA ChargedRow ==
    ASSUME NEW r \in LimitRow, NEW n \in Nat
    PROVE  /\ Charged(r, n) \in LimitRow
           /\ Charged(r, n).assignments = r.assignments + 1
           /\ Charged(r, n).reserved = r.reserved + n
           /\ Charged(r, n).budget = r.budget
<1> DEFINE r1 == [r EXCEPT !.assignments = @ + 1]
<1>1. /\ r1 \in LimitRow /\ r1.assignments = r.assignments + 1
      /\ r1.reserved = r.reserved /\ r1.budget = r.budget
  BY DEF LimitRow
<1> HIDE DEF r1
<1>2. /\ [r1 EXCEPT !.reserved = @ + n] \in LimitRow
      /\ [r1 EXCEPT !.reserved = @ + n].assignments = r.assignments + 1
      /\ [r1 EXCEPT !.reserved = @ + n].reserved = r.reserved + n
      /\ [r1 EXCEPT !.reserved = @ + n].budget = r.budget
  BY <1>1 DEF LimitRow
<1> QED BY <1>2, Zenon DEF Charged, r1

LEMMA RequestedRow ==
    ASSUME NEW r \in LimitRow, NEW t \in BOOLEAN
    PROVE  /\ Requested(r, t) \in LimitRow
           /\ Requested(r, t).assignments = r.assignments
           /\ Requested(r, t).reserved = r.reserved
           /\ Requested(r, t).budget = r.budget
<1> DEFINE r1 == [r EXCEPT !.row = TRUE]
<1>1. /\ r1 \in LimitRow /\ r1.assignments = r.assignments
      /\ r1.reserved = r.reserved /\ r1.budget = r.budget
  BY DEF LimitRow
<1> HIDE DEF r1
<1>2. /\ [r1 EXCEPT !.traffic = t] \in LimitRow
      /\ [r1 EXCEPT !.traffic = t].assignments = r.assignments
      /\ [r1 EXCEPT !.traffic = t].reserved = r.reserved
      /\ [r1 EXCEPT !.traffic = t].budget = r.budget
  BY <1>1 DEF LimitRow
<1> QED BY <1>2, Zenon DEF Requested, r1

LEMMA BudgetedRow ==
    ASSUME NEW r \in LimitRow, NEW b \in Budget
    PROVE  /\ Budgeted(r, b) \in LimitRow
           /\ Budgeted(r, b).assignments = r.assignments
           /\ Budgeted(r, b).reserved = r.reserved
           /\ Budgeted(r, b).budget = b
<1> DEFINE r1 == [r EXCEPT !.row = TRUE]
<1>1. /\ r1 \in LimitRow /\ r1.assignments = r.assignments
      /\ r1.reserved = r.reserved /\ r1.budget = r.budget
  BY DEF LimitRow
<1> HIDE DEF r1
<1>2. /\ [r1 EXCEPT !.budget = b] \in LimitRow
      /\ [r1 EXCEPT !.budget = b].assignments = r.assignments
      /\ [r1 EXCEPT !.budget = b].reserved = r.reserved
      /\ [r1 EXCEPT !.budget = b].budget = b
  BY <1>1 DEF LimitRow
<1> QED BY <1>2, Zenon DEF Budgeted, r1

-----------------------------------------------------------------------------
(* The local variables of a process, from where it is.                     *)

LEMMA CallShape ==
    ASSUME TypeOK, NEW q \in Calls
    PROVE  /\ call[q].pc = "check" => call[q].guest \in Guests
           /\ call[q].pc = "insert"
                => call[q].guest \in Guests /\ call[q].window \in Months
           /\ call[q].pc = "store"
                => call[q].attempt \in Attempts /\ call[q].result \in Results
BY DEF TypeOK, CallState, Idle

LEMMA CheckShape ==
    ASSUME TypeOK, NEW v \in Validators
    PROVE  /\ check[v].pc \in {"begin", "claim", "unfunded"}
                => /\ check[v].unit \in Units
                   /\ check[v] = [pc |-> check[v].pc, unit |-> check[v].unit]
           /\ check[v].pc = "replay"
                => check[v].unit \in Units /\ check[v].token \in Nat
           /\ check[v].pc = "judge"
                => check[v].unit \in Units /\ check[v].trusted \in Results
BY DEF TypeOK, CheckState, Idle

-----------------------------------------------------------------------------
(* Tables.                                                                 *)

LEMMA FiniteTables ==
    /\ IsFiniteSet(Units) /\ IsFiniteSet(Attempts)
    /\ \A S \in SUBSET Units : Cardinality(S) \in Nat
    /\ \A S \in SUBSET Attempts : Cardinality(S) \in Nat
<1>1. IsFiniteSet(Units) /\ IsFiniteSet(Attempts)
  BY ConstantsOK, FS_Product DEF Attempts
<1> QED BY <1>1, FS_Subset, FS_CardinalityType

\* reserveWindow writes only the window of a unit.
LEMMA WindowTable ==
    ASSUME TypeOK, NEW w \in Months, ReserveWindow(w)
    PROVE  /\ unit' \in [Units -> UnitRow]
           /\ limits' \in [Months -> LimitRow]
           /\ \A u \in Units : /\ unit'[u].state = unit[u].state
                              /\ unit'[u].trusted = unit[u].trusted
                              /\ unit'[u].runs = unit[u].runs
<1>1. Cardinality(Obligations(w)) \in Nat
  BY FiniteTables DEF Obligations
<1>2. w \in 0..MaxMonth
  BY ConstantsOK DEF Months
<1>3. limits' \in [Months -> LimitRow]
  BY <1>1, CarriedRow DEF TypeOK, ReserveWindow
<1>4. unit' \in [Units -> UnitRow]
  BY <1>2 DEF TypeOK, ReserveWindow, UnitRow
<1>5. ASSUME NEW u \in Units
      PROVE  /\ unit'[u].state = unit[u].state
             /\ unit'[u].trusted = unit[u].trusted
             /\ unit'[u].runs = unit[u].runs
  BY DEF TypeOK, ReserveWindow, UnitRow
<1> QED BY <1>3, <1>4, <1>5

-----------------------------------------------------------------------------
(* Types.                                                                  *)

LEMMA TypeInit == Init => TypeOK
<1> SUFFICES ASSUME Init PROVE TypeOK
  OBVIOUS
<1>1. attempt \in [Attempts -> AttemptRow]
  BY DEF Init, AttemptRow, AttemptStates
<1>2. unit \in [Units -> UnitRow]
  BY ConstantsOK DEF Init, UnitRow, UnitStates
<1>3. limits \in [Months -> LimitRow]
  BY ConstantsOK DEF Init, LimitRow
<1>4. month \in Months
  BY ConstantsOK DEF Init, Months
<1>5. call \in [Calls -> CallState] /\ check \in [Validators -> CheckState]
  BY DEF Init, CallState, CheckState, NoCall, NoCheck, Idle
<1> QED BY <1>1, <1>2, <1>3, <1>4, <1>5 DEF Init, TypeOK

\* Requests.
LEMMA TypeCall ==
    ASSUME TypeOK, NEW q \in Calls,
           CallBegins(q) \/ CallStep(q) \/ CallLost(q)
    PROVE  TypeOK'
<1>1. ASSUME NEW g \in Guests, LeaseStart(q, g) PROVE TypeOK'
  <2>1. month \in Months
    BY DEF TypeOK
  <2>2. unit' \in [Units -> UnitRow] /\ limits' \in [Months -> LimitRow]
    BY <1>1, <2>1, WindowTable DEF LeaseStart
  <2>3. call' \in [Calls -> CallState]
    BY <1>1 DEF LeaseStart, TypeOK, CallState
  <2> QED BY <1>1, <2>2, <2>3 DEF LeaseStart, TypeOK, env
<1>2. CASE LeaseCheck(q)
  <2>1. call' \in [Calls -> CallState]
    BY <1>2, CallShape DEF LeaseCheck, TypeOK, CallState, NoCall, Idle
  <2> QED BY <1>2, <2>1 DEF LeaseCheck, TypeOK, tables, env
<1>3. CASE LeaseInsert(q)
  <2> DEFINE g == call[q].guest
             w == call[q].window
  <2>1. g \in Guests /\ w \in Months /\ w \in 0..MaxMonth
    BY <1>3, CallShape, ConstantsOK DEF LeaseInsert, Months
  <2>2. ASSUME NEW u \in Units, Insert(g, w, u)
        PROVE  /\ attempt' \in [Attempts -> AttemptRow]
               /\ unit' \in [Units -> UnitRow]
               /\ limits' \in [Months -> LimitRow]
    BY <2>1, <2>2, LeasedRow, OwedRow, ChargedRow
       DEF Insert, TypeOK, Attempts, Cost
  <2>3. /\ attempt' \in [Attempts -> AttemptRow]
        /\ unit' \in [Units -> UnitRow]
        /\ limits' \in [Months -> LimitRow]
    BY <1>3, <2>2 DEF LeaseInsert, Assignable, TypeOK
  <2>4. call' \in [Calls -> CallState]
    BY <1>3 DEF LeaseInsert, TypeOK, CallState, NoCall, Idle
  <2> QED BY <1>3, <2>3, <2>4 DEF LeaseInsert, TypeOK, env
<1>4. ASSUME NEW a \in Attempts, NEW r \in Results, SubmitStart(q, a, r)
      PROVE  TypeOK'
  <2>1. call' \in [Calls -> CallState]
    BY <1>4 DEF SubmitStart, TypeOK, CallState
  <2> QED BY <1>4, <2>1 DEF SubmitStart, TypeOK, tables, env
<1>5. CASE SubmitStore(q)
  <2> DEFINE a == call[q].attempt
             r == call[q].result
  <2>1. a \in Attempts /\ r \in Results
    BY <1>5, CallShape DEF SubmitStore
  <2>2. Cardinality(Answered) + 1 \in Nat
    BY FiniteTables DEF Answered
  <2>3. attempt' \in [Attempts -> AttemptRow]
    BY <1>5, <2>1, <2>2, SubmittedRow DEF SubmitStore, Stored, TypeOK
  <2>4. call' \in [Calls -> CallState]
    BY <1>5 DEF SubmitStore, TypeOK, CallState, NoCall, Idle
  <2>5. ack' \in [Attempts -> SUBSET Results]
    BY <1>5, <2>1 DEF SubmitStore, TypeOK
  <2> QED BY <1>5, <2>3, <2>4, <2>5 DEF SubmitStore, TypeOK, env
<1>6. CASE CallLost(q)
  <2>1. call' \in [Calls -> CallState]
    BY <1>6 DEF CallLost, TypeOK, CallState, NoCall, Idle
  <2> QED BY <1>6, <2>1 DEF CallLost, TypeOK, tables, env
<1> QED BY <1>1, <1>2, <1>3, <1>4, <1>5, <1>6 DEF CallBegins, CallStep

\* Result checks and maintenance runs.
LEMMA TypeCheck ==
    ASSUME TypeOK, NEW v \in Validators, ValidateStep(v) \/ CheckLost(v)
    PROVE  TypeOK'
<1> DEFINE u == check[v].unit
<1>1. CASE CheckBegin(v)
  <2>1. month \in Months /\ u \in Units
    BY <1>1, CheckShape DEF TypeOK, CheckBegin
  <2>2. unit' \in [Units -> UnitRow] /\ limits' \in [Months -> LimitRow]
    BY <1>1, <2>1, WindowTable DEF CheckBegin, TypeOK
  <2>3. unit[u].trusted \in Results \cup {NoResult}
    BY <2>1 DEF TypeOK, UnitRow
  <2>4. check' \in [Validators -> CheckState]
    <3>1. CASE check' = [check EXCEPT ![v] = NoCheck]
      BY <3>1 DEF TypeOK, CheckState, NoCheck, Idle
    <3>2. CASE /\ unit[u].trusted # NoResult
               /\ check' = [check EXCEPT ![v] =
                    [pc |-> "judge", unit |-> u, trusted |-> unit[u].trusted]]
      BY <3>2, <2>1, <2>3 DEF TypeOK, CheckState
    <3>3. CASE check' = [check EXCEPT ![v].pc = "claim"]
      BY <1>1, <3>3, <2>1, CheckShape DEF CheckBegin, TypeOK, CheckState
    <3> QED BY <1>1, <3>1, <3>2, <3>3 DEF CheckBegin, NeedsReplay
  <2> QED BY <1>1, <2>2, <2>4 DEF CheckBegin, TypeOK, env
<1>2. CASE CheckClaim(v)
  <2>1. month \in Months /\ u \in Units /\ unit[u] \in UnitRow
    BY <1>2, CheckShape DEF TypeOK, CheckClaim
  <2>2. unit[u].runs \in Nat
    BY <2>1 DEF UnitRow
  <2>3. unit' \in [Units -> UnitRow]
    BY <1>2, <2>1, ClaimedRow DEF CheckClaim, TypeOK
  <2>4. limits' \in [Months -> LimitRow]
    BY <1>2, <2>1 DEF CheckClaim, RetryCharge, TypeOK, LimitRow
  <2>5. check' \in [Validators -> CheckState]
    BY <1>2, <2>1, <2>2, CheckShape DEF CheckClaim, TypeOK, CheckState
  <2> QED BY <1>2, <2>3, <2>4, <2>5 DEF CheckClaim, TypeOK, env
<1>3. CASE CheckUnfunded(v)
  <2>1. unit' \in [Units -> UnitRow]
    BY <1>3, CheckShape DEF CheckUnfunded, TypeOK, UnitRow, UnitStates
  <2>2. check' \in [Validators -> CheckState]
    BY <1>3 DEF CheckUnfunded, TypeOK, CheckState, NoCheck, Idle
  <2> QED BY <1>3, <2>1, <2>2 DEF CheckUnfunded, TypeOK, env
<1>4. ASSUME NEW r \in Results, CheckSave(v, r) PROVE TypeOK'
  <2>1. u \in Units
    BY <1>4, CheckShape DEF CheckSave
  <2>2. unit' \in [Units -> UnitRow]
    BY <1>4, <2>1, SavedRow DEF CheckSave, TypeOK
  <2>3. check' \in [Validators -> CheckState]
    BY <1>4, <2>1 DEF CheckSave, TypeOK, CheckState, NoCheck, Idle
  <2> QED BY <1>4, <2>2, <2>3 DEF CheckSave, TypeOK, env
<1>5. CASE CheckFail(v)
  <2>1. u \in Units
    BY <1>5, CheckShape DEF CheckFail
  <2>2. unit' \in [Units -> UnitRow]
    BY <1>5, <2>1, FailedRow DEF CheckFail, TypeOK
  <2>3. check' \in [Validators -> CheckState]
    BY <1>5 DEF CheckFail, TypeOK, CheckState, NoCheck, Idle
  <2> QED BY <1>5, <2>2, <2>3 DEF CheckFail, TypeOK, env
<1>6. CASE CheckJudge(v)
  <2>1. u \in Units /\ CampaignOf[u] \in Campaigns
    BY <1>6, CheckShape, ConstantsOK DEF CheckJudge
  <2>2. attempt' \in [Attempts -> AttemptRow]
    BY <1>6, SMTT(30) DEF CheckJudge, Judged, TypeOK, AttemptRow, AttemptStates
  <2>3. unit' \in [Units -> UnitRow]
    BY <1>6, <2>1 DEF CheckJudge, TypeOK, UnitRow, UnitStates
  <2>4. credit' \subseteq Attempts
    BY <1>6 DEF CheckJudge, Credited, CheckedIn, TypeOK
  <2>5. campaign' \in [Campaigns -> {"draft", "active", "paused", "completed"}]
    BY <1>6, <2>1 DEF CheckJudge, CampaignsAfter, TypeOK
  <2>6. check' \in [Validators -> CheckState]
    BY <1>6 DEF CheckJudge, TypeOK, CheckState, NoCheck, Idle
  <2> QED BY <1>6, <2>2, <2>3, <2>4, <2>5, <2>6 DEF CheckJudge, TypeOK, env
<1>7. CASE CheckLost(v)
  <2>1. check' \in [Validators -> CheckState]
    BY <1>7 DEF CheckLost, TypeOK, CheckState, NoCheck, Idle
  <2> QED BY <1>7, <2>1 DEF CheckLost, TypeOK, tables, env
<1> QED BY <1>1, <1>2, <1>3, <1>4, <1>5, <1>6, <1>7 DEF ValidateStep

LEMMA TypeMaintain ==
    ASSUME TypeOK,
           \/ Maintain
           \/ \E v \in Checkers, u \in Units : CheckStart(v, u)
    PROVE  TypeOK'
<1>0. Scheduler \in Validators /\ Checkers \subseteq Validators
  BY DEF Validators
<1>1. CASE MaintainExhaust
  <2>1. unit' \in [Units -> UnitRow]
    BY <1>1 DEF MaintainExhaust, TypeOK, UnitRow, UnitStates
  <2>2. check' \in [Validators -> CheckState]
    BY <1>0, <1>1 DEF MaintainExhaust, TypeOK, CheckState
  <2> QED BY <1>1, <2>1, <2>2 DEF MaintainExhaust, TypeOK, env
<1>2. CASE MaintainPick
  <2>1. \A a \in Pending : a[1] \in Units
    BY DEF Pending, Attempts
  <2>2. check' \in [Validators -> CheckState]
    BY <1>0, <1>2, <2>1 DEF MaintainPick, TypeOK, CheckState, NoCheck, Idle
  <2> QED BY <1>2, <2>2 DEF MaintainPick, TypeOK, tables, env
<1>3. ASSUME NEW v \in Checkers, NEW u \in Units, CheckStart(v, u)
      PROVE  TypeOK'
  <2>1. check' \in [Validators -> CheckState]
    BY <1>0, <1>3 DEF CheckStart, TypeOK, CheckState
  <2> QED BY <1>3, <2>1 DEF CheckStart, TypeOK, tables, env
<1> QED BY <1>1, <1>2, <1>3 DEF Maintain

LEMMA TypeTime == ASSUME TypeOK, Time PROVE TypeOK'
<1>0. month \in Months
  BY DEF TypeOK
<1>1. ASSUME NEW a \in Attempts, LeaseExpires(a) PROVE TypeOK'
  <2>1. attempt' \in [Attempts -> AttemptRow]
    BY <1>1, ZenonT(60) DEF LeaseExpires, TypeOK, AttemptRow
  <2> QED BY <1>1, <2>1 DEF LeaseExpires, TypeOK, env, procs
<1>2. ASSUME NEW u \in Units, ClaimExpires(u) PROVE TypeOK'
  <2>1. unit' \in [Units -> UnitRow]
    BY <1>2, ZenonT(60) DEF ClaimExpires, TypeOK, UnitRow
  <2> QED BY <1>2, <2>1 DEF ClaimExpires, TypeOK, env, procs
<1>3. CASE MonthEnds
  <2>1. month' \in Months
    BY <1>0, <1>3, ConstantsOK DEF MonthEnds, Months
  <2> QED BY <1>3, <2>1 DEF MonthEnds, TypeOK, tables, procs
<1>4. CASE RecordRequest
  <2>1. limits[month] \in LimitRow
    BY <1>0 DEF TypeOK
  <2>2. \A more \in {TRUE, FALSE} : (limits[month].traffic /\ more) \in BOOLEAN
    OBVIOUS
  <2>3. limits' \in [Months -> LimitRow]
    BY <1>0, <1>4, <2>1, <2>2, RequestedRow DEF RecordRequest, TypeOK
  <2> QED BY <1>4, <2>3 DEF RecordRequest, TypeOK, env, procs
<1>5. CASE HealthChanges
  BY <1>5 DEF HealthChanges, TypeOK, tables, procs
<1> QED BY <1>1, <1>2, <1>3, <1>4, <1>5 DEF Time

LEMMA TypeOwner == ASSUME TypeOK, Owner PROVE TypeOK'
<1>1. ASSUME NEW b \in BOOLEAN, Control(b) PROVE TypeOK'
  BY <1>1 DEF Control, TypeOK, tables, procs
<1>2. ASSUME NEW w \in Months, NEW b \in Budgets, SetBudget(w, b)
      PROVE  TypeOK'
  <2>1. limits' \in [Months -> LimitRow]
    BY <1>2, BudgetedRow, ConstantsOK DEF SetBudget, TypeOK
  <2> QED BY <1>2, <2>1 DEF SetBudget, TypeOK, env, procs
<1>3. ASSUME NEW g \in Moderated, Moderate(g) PROVE TypeOK'
  <2>1. blocked' \subseteq Guests
    BY <1>3, ConstantsOK DEF Moderate, TypeOK
  <2> QED BY <1>3, <2>1 DEF Moderate, TypeOK, tables, procs
<1>4. ASSUME NEW P \in SUBSET Manuscript, Pause(P)
      PROVE  campaign' \in [Campaigns ->
                {"draft", "active", "paused", "completed"}]
  BY <1>4 DEF Pause, TypeOK
<1>5. ASSUME NEW P \in SUBSET Manuscript, WithdrawReport(P) PROVE TypeOK'
  BY <1>4, <1>5 DEF WithdrawReport, TypeOK, env, procs
<1>6. ASSUME NEW x \in Releases, NEW P \in SUBSET Manuscript,
             RevokeRelease(x, P)
      PROVE  TypeOK'
  <2>1. release' \in [Releases -> {"approved", "revoked"}]
    BY <1>6 DEF RevokeRelease, TypeOK
  <2> QED BY <1>4, <1>6, <2>1 DEF RevokeRelease, TypeOK, env, procs
<1>7. ASSUME NEW c \in Campaigns, NEW s \in {"active", "paused"},
             SetCampaign(c, s)
      PROVE  TypeOK'
  <2>1. campaign' \in [Campaigns ->
                {"draft", "active", "paused", "completed"}]
    BY <1>7 DEF SetCampaign, TypeOK
  <2> QED BY <1>7, <2>1 DEF SetCampaign, TypeOK, env, procs
<1>8. ASSUME NEW u \in Units, RetryValidation(u) PROVE TypeOK'
  <2>1. unit' \in [Units -> UnitRow]
    BY <1>8 DEF RetryValidation, TypeOK, UnitRow, UnitStates
  <2> QED BY <1>8, <2>1 DEF RetryValidation, TypeOK, env, procs
<1>9. ASSUME NEW u \in Units, ExtendDelivery(u) PROVE TypeOK'
  <2>1. unit' \in [Units -> UnitRow]
    BY <1>9, ExtendedRow DEF ExtendDelivery, TypeOK
  <2> QED BY <1>9, <2>1 DEF ExtendDelivery, TypeOK, env, procs
<1> QED BY <1>1, <1>2, <1>3, <1>5, <1>6, <1>7, <1>8, <1>9 DEF Owner

LEMMA TypeNext == TypeOK /\ [Next]_vars => TypeOK'
<1> SUFFICES ASSUME TypeOK, [Next]_vars PROVE TypeOK'
  OBVIOUS
<1>1. CASE UNCHANGED vars
  BY <1>1 DEF vars, tables, env, procs, TypeOK
<1>2. CASE Next
  BY <1>2, TypeCall, TypeCheck, TypeMaintain, TypeTime, TypeOwner DEF Next
<1> QED BY <1>1, <1>2

\* Every table, request and check of the coordinator keeps its type, with
\* any number of guests, units and processes.
THEOREM TypeCorrect == Spec => []TypeOK
BY TypeInit, TypeNext, PTL DEF Spec

-----------------------------------------------------------------------------
(* The inductive invariant.  The safety properties say nothing about what  *)
(* a request or a check remembers between two of its steps; the parts      *)
(* below do.                                                               *)

\* An attempt has a result exactly when it was submitted.
HashMatchesState ==
    \A a \in Attempts :
        attempt[a].hash = NoResult <=> attempt[a].state \in {"none", "leased"}

\* A request that is about to store a result has an attempt to store it in.
StoresHaveRows ==
    \A q \in Calls :
        call[q].pc = "store" => attempt[call[q].attempt].state # "none"

\* A check about to judge remembers the trusted result that is stored.
JudgesAgree ==
    \A v \in Validators :
        check[v].pc = "judge"
            => check[v].trusted = unit[check[v].unit].trusted

\* The number of a claim was issued by its unit.
TokensIssued ==
    \A v \in Validators :
        check[v].pc = "replay"
            => check[v].token <= unit[check[v].unit].runs

Inv ==
    /\ TypeOK
    /\ HashMatchesState /\ StoresHaveRows /\ JudgesAgree /\ TokensIssued
    /\ OneOwner /\ ReceiptsStand /\ CreditIsEarned

-----------------------------------------------------------------------------
(* Steps that neither answer, judge, claim nor decide.                     *)

Quiet ==
    \/ \E q \in Calls : CallBegins(q) \/ LeaseCheck(q) \/ CallLost(q)
    \/ \E v \in Checkers, u \in Units : CheckStart(v, u)
    \/ \E v \in Validators :
        CheckBegin(v) \/ CheckUnfunded(v) \/ CheckFail(v) \/ CheckLost(v)
    \/ Maintain
    \/ Time
    \/ Owner

SameAnswers ==
    \A a \in Attempts : /\ attempt'[a].hash = attempt[a].hash
                        /\ attempt'[a].state = attempt[a].state
SameUnits ==
    \A u \in Units : /\ unit'[u].trusted = unit[u].trusted
                     /\ unit'[u].runs = unit[u].runs
\* A request keeps what it remembers, or remembers an attempt that exists.
CallsKeep ==
    \A q \in Calls :
        call'[q].pc = "store"
            => \/ call'[q] = call[q]
               \/ /\ call'[q].attempt \in Attempts
                  /\ attempt[call'[q].attempt].state # "none"
\* No new claim, and a new judge has just read the trusted result.
ChecksKeep ==
    \A v \in Validators :
        /\ check'[v].pc = "replay" => check'[v] = check[v]
        /\ check'[v].pc = "judge"
            => \/ check'[v] = check[v]
               \/ /\ check'[v].unit \in Units
                  /\ check'[v].trusted = unit[check'[v].unit].trusted
Frame ==
    /\ SameAnswers /\ SameUnits /\ CallsKeep /\ ChecksKeep
    /\ UNCHANGED <<credit, ack>>

LEMMA QuietFrame == ASSUME TypeOK, Quiet PROVE Frame
<1> USE DEF Frame, SameAnswers
<1>1. ASSUME NEW q \in Calls, NEW g \in Guests, LeaseStart(q, g)
      PROVE  Frame
  <2>1. month \in Months
    BY DEF TypeOK
  <2>2. SameUnits
    BY <1>1, <2>1, WindowTable DEF LeaseStart, SameUnits
  <2>3. CallsKeep
    BY <1>1 DEF LeaseStart, CallsKeep, TypeOK
  <2> QED BY <1>1, <2>2, <2>3 DEF LeaseStart, ChecksKeep
<1>2. ASSUME NEW q \in Calls, NEW a \in Attempts, NEW r \in Results,
             SubmitStart(q, a, r)
      PROVE  Frame
  <2>1. CallsKeep
    BY <1>2 DEF SubmitStart, CallsKeep, TypeOK
  <2> QED BY <1>2, <2>1 DEF SubmitStart, ChecksKeep, SameUnits, tables
<1>3. ASSUME NEW q \in Calls, LeaseCheck(q) PROVE Frame
  <2>1. CallsKeep
    BY <1>3 DEF LeaseCheck, CallsKeep, TypeOK, NoCall, Idle
  <2> QED BY <1>3, <2>1 DEF LeaseCheck, ChecksKeep, SameUnits, tables
<1>4. ASSUME NEW q \in Calls, CallLost(q) PROVE Frame
  <2>1. CallsKeep
    BY <1>4 DEF CallLost, CallsKeep, TypeOK, NoCall, Idle
  <2> QED BY <1>4, <2>1 DEF CallLost, ChecksKeep, SameUnits, tables
<1>5. ASSUME NEW v \in Checkers, NEW u \in Units, CheckStart(v, u)
      PROVE  Frame
  <2>1. ChecksKeep
    BY <1>5 DEF CheckStart, ChecksKeep, TypeOK
  <2> QED BY <1>5, <2>1 DEF CheckStart, CallsKeep, SameUnits, tables
<1>6. ASSUME NEW v \in Validators, CheckBegin(v) PROVE Frame
  <2>1. month \in Months /\ check[v].unit \in Units
    BY <1>6, CheckShape DEF TypeOK, CheckBegin
  <2>2. SameUnits
    BY <1>6, <2>1, WindowTable DEF CheckBegin, SameUnits
  <2>3. ChecksKeep
    BY <1>6, <2>1, CheckShape
       DEF CheckBegin, ChecksKeep, TypeOK, NoCheck, Idle
  <2> QED BY <1>6, <2>2, <2>3 DEF CheckBegin, CallsKeep
<1>7. ASSUME NEW v \in Validators, CheckUnfunded(v) PROVE Frame
  <2>1. SameUnits
    BY <1>7, CheckShape DEF CheckUnfunded, SameUnits, TypeOK, UnitRow
  <2>2. ChecksKeep
    BY <1>7 DEF CheckUnfunded, ChecksKeep, TypeOK, NoCheck, Idle
  <2> QED BY <1>7, <2>1, <2>2 DEF CheckUnfunded, CallsKeep
<1>8. ASSUME NEW v \in Validators, CheckFail(v) PROVE Frame
  <2>1. check[v].unit \in Units
    BY <1>8, CheckShape DEF CheckFail
  <2>2. SameUnits
    BY <1>8, <2>1, FailedRow DEF CheckFail, SameUnits, TypeOK
  <2>3. ChecksKeep
    BY <1>8 DEF CheckFail, ChecksKeep, TypeOK, NoCheck, Idle
  <2> QED BY <1>8, <2>2, <2>3 DEF CheckFail, CallsKeep
<1>9. ASSUME NEW v \in Validators, CheckLost(v) PROVE Frame
  <2>1. ChecksKeep
    BY <1>9 DEF CheckLost, ChecksKeep, TypeOK, NoCheck, Idle
  <2> QED BY <1>9, <2>1 DEF CheckLost, CallsKeep, SameUnits, tables
<1>10. CASE MaintainExhaust
  <2>1. SameUnits
    BY <1>10 DEF MaintainExhaust, SameUnits, TypeOK, UnitRow
  <2>2. ChecksKeep
    BY <1>10 DEF MaintainExhaust, ChecksKeep, TypeOK
  <2> QED BY <1>10, <2>1, <2>2 DEF MaintainExhaust, CallsKeep
<1>11. CASE MaintainPick
  <2>1. ChecksKeep
    BY <1>11 DEF MaintainPick, ChecksKeep, TypeOK, NoCheck, Idle
  <2> QED BY <1>11, <2>1 DEF MaintainPick, CallsKeep, SameUnits, tables
<1>12. CASE Time
  <2>1. ASSUME NEW a \in Attempts, LeaseExpires(a) PROVE SameAnswers
    BY <2>1 DEF LeaseExpires, TypeOK, AttemptRow
  <2>2. ASSUME NEW u \in Units, ClaimExpires(u) PROVE SameUnits
    BY <2>2 DEF ClaimExpires, SameUnits, TypeOK, UnitRow
  <2>3. SameAnswers
    BY <1>12, <2>1 DEF Time, ClaimExpires, MonthEnds, RecordRequest,
       HealthChanges, tables
  <2>4. SameUnits
    BY <1>12, <2>2 DEF Time, LeaseExpires, MonthEnds, RecordRequest,
       HealthChanges, tables, SameUnits
  <2> QED BY <1>12, <2>3, <2>4 DEF Time, LeaseExpires, ClaimExpires,
      MonthEnds, RecordRequest, HealthChanges, tables, procs, CallsKeep,
      ChecksKeep
<1>13. CASE Owner
  <2>1. ASSUME NEW u \in Units, RetryValidation(u) PROVE SameUnits
    BY <2>1 DEF RetryValidation, SameUnits, TypeOK, UnitRow
  <2>2. ASSUME NEW u \in Units, ExtendDelivery(u) PROVE SameUnits
    BY <2>2, ExtendedRow DEF ExtendDelivery, SameUnits, TypeOK
  <2>3. SameUnits
    BY <1>13, <2>1, <2>2 DEF Owner, Control, SetBudget, Moderate,
       WithdrawReport, RevokeRelease, SetCampaign, tables, SameUnits
  <2> QED BY <1>13, <2>3 DEF Owner, Control, SetBudget, Moderate,
      WithdrawReport, RevokeRelease, SetCampaign, RetryValidation,
      ExtendDelivery, tables, procs, CallsKeep, ChecksKeep
<1> QED BY <1>1, <1>2, <1>3, <1>4, <1>5, <1>6, <1>7, <1>8, <1>9, <1>10,
    <1>11, <1>12, <1>13 DEF Quiet, CallBegins, Maintain

-----------------------------------------------------------------------------
(* The invariant holds at first and every step keeps it.                   *)

LEMMA InvInit == Init => Inv
<1> SUFFICES ASSUME Init PROVE Inv
  OBVIOUS
<1>1. TypeOK
  BY TypeInit
<1>2. HashMatchesState /\ CreditIsEarned /\ ReceiptsStand
  BY DEF Init, HashMatchesState, CreditIsEarned, ReceiptsStand
<1>3. StoresHaveRows /\ JudgesAgree /\ TokensIssued /\ OneOwner
  BY DEF Init, StoresHaveRows, JudgesAgree, TokensIssued, OneOwner,
         NoCall, NoCheck, Idle
<1> QED BY <1>1, <1>2, <1>3 DEF Inv

LEMMA QuietKeeps == ASSUME Inv, Quiet, TypeOK' PROVE Inv'
<1>1. Frame
  BY QuietFrame DEF Inv
<1>2. HashMatchesState' /\ CreditIsEarned' /\ ReceiptsStand'
  BY <1>1 DEF Inv, Frame, SameAnswers, SameUnits, HashMatchesState,
     CreditIsEarned, ReceiptsStand, Attempts
<1>3. StoresHaveRows'
  BY <1>1, CallShape DEF Inv, Frame, SameAnswers, CallsKeep, StoresHaveRows
<1>4. \A v \in Validators :
        check[v].pc \in {"judge", "replay"} => check[v].unit \in Units
  BY CheckShape DEF Inv
<1>5. JudgesAgree'
  <2> SUFFICES ASSUME NEW v \in Validators, check'[v].pc = "judge"
               PROVE  check'[v].trusted = unit'[check'[v].unit].trusted
    BY DEF JudgesAgree
  <2>1. CASE check'[v] = check[v]
    BY <1>1, <1>4, <2>1 DEF Inv, Frame, SameUnits, JudgesAgree
  <2>2. CASE check'[v] # check[v]
    BY <1>1, <2>2 DEF Frame, SameUnits, ChecksKeep
  <2> QED BY <2>1, <2>2
<1>6. \A v \in Validators : check'[v].pc = "replay" => check'[v] = check[v]
  BY <1>1 DEF Frame, ChecksKeep
<1>7. TokensIssued'
  <2> SUFFICES ASSUME NEW v \in Validators, check'[v].pc = "replay"
               PROVE  check'[v].token <= unit'[check'[v].unit].runs
    BY DEF TokensIssued
  <2> QED BY <1>1, <1>4, <1>6 DEF Inv, Frame, SameUnits, TokensIssued
<1>8. OneOwner'
  BY <1>6 DEF Inv, OneOwner
<1> QED BY <1>2, <1>3, <1>5, <1>7, <1>8 DEF Inv

\* What every check remembers of a unit of its own.
LEMMA ChecksRemember ==
    ASSUME Inv
    PROVE  /\ \A v \in Validators : check[v].pc = "judge"
                => /\ check[v].unit \in Units
                   /\ unit[check[v].unit].trusted = check[v].trusted
                   /\ check[v].trusted # NoResult
           /\ \A v \in Validators : check[v].pc = "replay"
                => /\ check[v].unit \in Units /\ check[v].token \in Nat
                   /\ unit[check[v].unit].runs \in Nat
                   /\ check[v].token <= unit[check[v].unit].runs
<1>1. \A u \in Units : unit[u].runs \in Nat
  BY DEF Inv, TypeOK, UnitRow
<1> QED BY <1>1, CheckShape, ConstantsOK DEF Inv, JudgesAgree, TokensIssued

\* Checks that stop keep these parts, if no unit changes what matters.
LEMMA StoppingKeeps ==
    ASSUME Inv, SameUnits,
           \A v \in Validators :
                \/ check'[v] = check[v]
                \/ check'[v].pc \notin {"replay", "judge"}
    PROVE  JudgesAgree' /\ TokensIssued' /\ OneOwner'
<1>1. JudgesAgree'
  <2> SUFFICES ASSUME NEW v \in Validators, check'[v].pc = "judge"
               PROVE  check'[v].trusted = unit'[check'[v].unit].trusted
    BY DEF JudgesAgree
  <2> QED BY ChecksRemember DEF SameUnits
<1>2. TokensIssued'
  <2> SUFFICES ASSUME NEW v \in Validators, check'[v].pc = "replay"
               PROVE  check'[v].token <= unit'[check'[v].unit].runs
    BY DEF TokensIssued
  <2> QED BY ChecksRemember DEF SameUnits
<1>3. OneOwner'
  BY DEF Inv, OneOwner
<1> QED BY <1>1, <1>2, <1>3

LEMMA InsertKeeps ==
    ASSUME Inv, NEW q \in Calls, LeaseInsert(q), TypeOK'
    PROVE  Inv'
<1> DEFINE g == call[q].guest
           w == call[q].window
<1>1. TypeOK /\ g \in Guests /\ w \in 0..MaxMonth
  BY CallShape, ConstantsOK DEF Inv, LeaseInsert, Months
<1>2. ASSUME NEW u \in Assignable(g, w), Insert(g, w, u)
      PROVE  /\ SameUnits
             /\ \A a \in Attempts :
                    /\ attempt'[a].hash = attempt[a].hash
                    /\ \/ attempt'[a].state = attempt[a].state
                       \/ /\ attempt[a].state = "none"
                          /\ attempt'[a].state = "leased"
  <2>1. u \in Units /\ attempt[<<u, g>>].state = "none"
    BY DEF Assignable
  <2>2. SameUnits
    <3>1. /\ Owed(unit[u], w).trusted = unit[u].trusted
          /\ Owed(unit[u], w).runs = unit[u].runs
      BY <1>1, <2>1, OwedRow DEF TypeOK
    <3> QED BY <1>1, <1>2, <2>1, <3>1 DEF Insert, SameUnits, TypeOK
  <2>3. <<u, g>> \in Attempts /\ attempt[<<u, g>>] \in AttemptRow
    BY <1>1, <2>1 DEF TypeOK, Attempts
  <2>4. /\ Leased(attempt[<<u, g>>]).state = "leased"
        /\ Leased(attempt[<<u, g>>]).hash = attempt[<<u, g>>].hash
    BY <2>3, LeasedRow
  <2> QED BY <1>1, <1>2, <2>1, <2>2, <2>3, <2>4 DEF Insert, TypeOK
<1>3. /\ SameUnits
      /\ \A a \in Attempts :
            /\ attempt'[a].hash = attempt[a].hash
            /\ \/ attempt'[a].state = attempt[a].state
               \/ attempt[a].state = "none" /\ attempt'[a].state = "leased"
  BY <1>2 DEF LeaseInsert, SameUnits
<1>4. HashMatchesState' /\ CreditIsEarned' /\ ReceiptsStand'
  BY <1>1, <1>3 DEF Inv, LeaseInsert, SameUnits, HashMatchesState,
     CreditIsEarned, ReceiptsStand, Attempts
<1>5. StoresHaveRows'
  BY <1>1, <1>3, CallShape DEF Inv, LeaseInsert, StoresHaveRows, TypeOK,
     NoCall, Idle
<1>6. JudgesAgree' /\ TokensIssued' /\ OneOwner'
  BY <1>3, StoppingKeeps DEF LeaseInsert
<1> QED BY <1>4, <1>5, <1>6 DEF Inv

LEMMA StoreKeeps ==
    ASSUME Inv, NEW q \in Calls, SubmitStore(q), TypeOK'
    PROVE  Inv'
<1> DEFINE a == call[q].attempt
           r == call[q].result
<1>1. TypeOK /\ a \in Attempts /\ r \in Results /\ attempt[a].state # "none"
  BY CallShape DEF Inv, SubmitStore, StoresHaveRows
<1>2. /\ attempt[a] \in AttemptRow
      /\ Cardinality(Answered) + 1 \in Nat
  BY <1>1, FiniteTables DEF TypeOK, Answered
<1>3. /\ \A b \in Attempts : b # a => attempt'[b] = attempt[b]
      /\ attempt[a].hash # NoResult => attempt' = attempt
      /\ attempt[a].hash = NoResult
            => attempt'[a].state = "submitted" /\ attempt'[a].hash = r
  BY <1>1, <1>2, SubmittedRow DEF SubmitStore, Stored, TypeOK
<1>4. r # NoResult
  BY <1>1, ConstantsOK
<1>5. HashMatchesState'
  BY <1>1, <1>3, <1>4 DEF Inv, HashMatchesState
<1>6. CreditIsEarned'
  BY <1>1, <1>3 DEF Inv, SubmitStore, HashMatchesState, CreditIsEarned
<1>7. ReceiptsStand'
  <2>1. \A b \in Attempts : b # a => ack'[b] = ack[b]
    BY <1>1 DEF SubmitStore, TypeOK
  <2>2. ack'[a] \subseteq {attempt'[a].hash}
    <3>1. CASE attempt[a].hash = NoResult
      <4>1. ack[a] = {}
        BY <1>1, <3>1, ConstantsOK DEF Inv, ReceiptsStand, TypeOK
      <4> QED BY <1>1, <1>3, <3>1, <4>1 DEF SubmitStore, TypeOK
    <3>2. CASE attempt[a].hash # NoResult
      BY <1>1, <1>3, <3>2
         DEF Inv, SubmitStore, Stored, Confirmed, ReceiptsStand, TypeOK
    <3> QED BY <3>1, <3>2
  <2> QED BY <1>3, <2>1, <2>2 DEF Inv, ReceiptsStand
<1>8. StoresHaveRows'
  BY <1>1, <1>3, CallShape DEF Inv, SubmitStore, StoresHaveRows, TypeOK,
     NoCall, Idle
<1>9. JudgesAgree' /\ TokensIssued' /\ OneOwner'
  BY DEF Inv, SubmitStore, JudgesAgree, TokensIssued, OneOwner
<1> QED BY <1>5, <1>6, <1>7, <1>8, <1>9 DEF Inv

LEMMA ClaimKeeps ==
    ASSUME Inv, NEW v \in Validators, CheckClaim(v), TypeOK'
    PROVE  Inv'
<1> DEFINE u == check[v].unit
           n == unit[u].runs
<1>1. TypeOK /\ u \in Units /\ unit[u] \in UnitRow /\ n \in Nat
  BY CheckShape DEF Inv, CheckClaim, TypeOK, UnitRow
<1>2. /\ \A x \in Units : /\ unit'[x].trusted = unit[x].trusted
                          /\ x # u => unit'[x] = unit[x]
      /\ \/ unit' = unit
         \/ unit'[u].runs = n + 1
  BY <1>1, ClaimedRow DEF CheckClaim, TypeOK
<1>3. \A x \in Units : unit[x].runs \in Nat /\ unit[x].runs <= unit'[x].runs
  BY <1>1, <1>2 DEF TypeOK, UnitRow
<1>4. /\ \A x \in Validators : x # v => check'[x] = check[x]
      /\ \/ check'[v].pc = "unfunded"
         \/ /\ check'[v] = [pc |-> "replay", unit |-> u, token |-> n + 1]
            /\ unit'[u].runs = n + 1
  <2>1. CASE Claimable(u)
    <3>1. Claimed(unit[u]).runs = n + 1
      BY <1>1, ClaimedRow
    <3> QED BY <1>1, <2>1, <3>1 DEF CheckClaim, TypeOK
  <2>2. CASE ~Claimable(u)
    <3>1. check[v] = [pc |-> "claim", unit |-> u]
      BY <1>1, CheckShape DEF CheckClaim
    <3> QED BY <1>1, <2>2, <3>1 DEF CheckClaim, TypeOK
  <2> QED BY <2>1, <2>2
<1>5. HashMatchesState' /\ CreditIsEarned' /\ ReceiptsStand' /\ StoresHaveRows'
  BY <1>2 DEF Inv, CheckClaim, HashMatchesState, CreditIsEarned,
     ReceiptsStand, StoresHaveRows, Attempts
<1>6. JudgesAgree'
  <2> SUFFICES ASSUME NEW x \in Validators, check'[x].pc = "judge"
               PROVE  check'[x].trusted = unit'[check'[x].unit].trusted
    BY DEF JudgesAgree
  <2>1. check'[x] = check[x]
    BY <1>4
  <2> QED BY <1>2, <2>1, ChecksRemember
<1>7. TokensIssued'
  <2> SUFFICES ASSUME NEW x \in Validators, check'[x].pc = "replay"
               PROVE  check'[x].token <= unit'[check'[x].unit].runs
    BY DEF TokensIssued
  <2>1. CASE x = v
    BY <1>1, <1>4, <2>1
  <2>2. CASE x # v
    <3>1. /\ check[x].unit \in Units /\ check[x].token \in Nat
          /\ check[x].token <= unit[check[x].unit].runs
      BY <1>4, <2>2, ChecksRemember
    <3>2. unit'[check[x].unit].runs \in Nat
      BY <1>1, <1>2, <3>1 DEF TypeOK, UnitRow
    <3> QED BY <1>3, <1>4, <2>2, <3>1, <3>2
  <2> QED BY <2>1, <2>2
<1>8. OneOwner'
  <2>1. \A x \in Validators :
            (x # v /\ check'[x].pc = "replay" /\ check'[x].unit = u)
                => check'[x].token <= n /\ check'[x].token \in Nat
    BY <1>4, ChecksRemember
  <2> QED BY <1>1, <1>4, <2>1 DEF Inv, OneOwner
<1> QED BY <1>5, <1>6, <1>7, <1>8 DEF Inv

LEMMA SaveKeeps ==
    ASSUME Inv, NEW v \in Validators, NEW r \in Results, CheckSave(v, r),
           TypeOK'
    PROVE  Inv'
<1> DEFINE u == check[v].unit
<1>1. TypeOK /\ u \in Units /\ unit[u] \in UnitRow
  BY CheckShape DEF Inv, CheckSave, TypeOK
<1>2. CASE ~Owns(v)
  <2>1. \A x \in Validators : check'[x] = check[x] \/ check'[x].pc = Idle
    BY <1>1, <1>2 DEF CheckSave, TypeOK, NoCheck
  <2> QED BY <1>2, <2>1 DEF Inv, CheckSave, HashMatchesState, CreditIsEarned,
      ReceiptsStand, StoresHaveRows, JudgesAgree, TokensIssued, OneOwner, Idle
<1>3. CASE Owns(v)
  <2>1. /\ unit[u].trusted = NoResult
        /\ \A x \in Units : /\ unit'[x].runs = unit[x].runs
                            /\ x # u => unit'[x] = unit[x]
        /\ unit'[u].trusted = r
    BY <1>1, <1>3, SavedRow DEF CheckSave, Owns, TypeOK
  <2>2. /\ \A x \in Validators : x # v => check'[x] = check[x]
        /\ check'[v] = [pc |-> "judge", unit |-> u, trusted |-> r]
    BY <1>1, <1>3 DEF CheckSave, TypeOK
  <2>3. HashMatchesState' /\ ReceiptsStand' /\ StoresHaveRows'
    BY DEF Inv, CheckSave, HashMatchesState, ReceiptsStand, StoresHaveRows
  <2>4. CreditIsEarned'
    <3>1. \A a \in Attempts :
            a[1] = u => attempt[a].state \notin {"checked", "disagreed"}
      BY <2>1 DEF Inv, CreditIsEarned
    <3> QED BY <2>1, <3>1 DEF Inv, CheckSave, CreditIsEarned, Attempts
  <2>5. JudgesAgree'
    <3>1. \A x \in Validators :
            check[x].pc = "judge" => check[x].unit \in Units \ {u}
      BY <2>1, ChecksRemember
    <3>2. ASSUME NEW x \in Validators, check'[x].pc = "judge"
          PROVE  check'[x].trusted = unit'[check'[x].unit].trusted
      BY <2>1, <2>2, <3>1, <3>2, ChecksRemember
    <3> QED BY <3>2 DEF JudgesAgree
  <2>6. \A x \in Validators : check'[x].pc = "replay" => check'[x] = check[x]
    BY <2>2
  <2>7. ASSUME NEW x \in Validators, check'[x].pc = "replay"
        PROVE  check'[x].token <= unit'[check'[x].unit].runs
    BY <2>1, <2>6, <2>7, ChecksRemember
  <2>8. TokensIssued' /\ OneOwner'
    BY <2>6, <2>7 DEF Inv, TokensIssued, OneOwner
  <2> QED BY <2>3, <2>4, <2>5, <2>8 DEF Inv
<1> QED BY <1>2, <1>3

\* What the comparison does to each attempt of the unit.
LEMMA JudgeEffect ==
    ASSUME Inv, NEW v \in Validators, CheckJudge(v)
    PROVE  LET u == check[v].unit IN
           /\ u \in Units /\ unit[u].trusted \in Results
           /\ SameUnits
           /\ \A a \in Attempts :
                /\ attempt'[a].hash = attempt[a].hash
                /\ \/ attempt'[a] = attempt[a]
                   \/ /\ a[1] = u /\ Approved(u)
                      /\ attempt[a].state = "submitted"
                      /\ attempt'[a].state =
                            IF attempt[a].hash = unit[u].trusted
                            THEN "checked" ELSE "disagreed"
           /\ Approved(u) => \A a \in Attempts :
                a[1] = u => attempt'[a].state # "submitted"
           /\ \A a \in Attempts :
                a \in credit' <=> \/ a \in credit
                                 \/ /\ a[1] = u /\ Approved(u)
                                    /\ attempt'[a].state = "checked"
<1> DEFINE u == check[v].unit
<1>1. /\ TypeOK /\ u \in Units /\ unit[u].trusted \in Results
      /\ check[v].trusted = unit[u].trusted
  BY CheckShape DEF Inv, CheckJudge, JudgesAgree
<1>2. SameUnits
  BY <1>1 DEF CheckJudge, SameUnits, TypeOK, UnitRow
<1>3. ASSUME NEW a \in Attempts
      PROVE  /\ attempt'[a].hash = attempt[a].hash
             /\ \/ attempt'[a] = attempt[a]
                \/ /\ a[1] = u /\ Approved(u)
                   /\ attempt[a].state = "submitted"
                   /\ attempt'[a].state =
                        IF attempt[a].hash = unit[u].trusted
                        THEN "checked" ELSE "disagreed"
             /\ Approved(u) /\ a[1] = u => attempt'[a].state # "submitted"
  BY <1>1 DEF CheckJudge, Judged, TypeOK, AttemptRow
<1>4. \A a \in Attempts :
        a \in credit' <=> \/ a \in credit
                         \/ /\ a[1] = u /\ Approved(u)
                            /\ attempt'[a].state = "checked"
  BY DEF CheckJudge, Credited, CheckedIn
<1> QED BY <1>1, <1>2, <1>3, <1>4

LEMMA JudgeKeeps ==
    ASSUME Inv, NEW v \in Validators, CheckJudge(v), TypeOK'
    PROVE  Inv'
<1> DEFINE u == check[v].unit
<1>1. HashMatchesState'
  BY JudgeEffect, ConstantsOK DEF Inv, HashMatchesState
<1>2. ReceiptsStand'
  BY JudgeEffect DEF Inv, ReceiptsStand, CheckJudge
<1>3. StoresHaveRows'
  <2> SUFFICES ASSUME NEW q \in Calls, call[q].pc = "store"
               PROVE  attempt'[call[q].attempt].state # "none"
    BY DEF StoresHaveRows, CheckJudge
  <2>1. call[q].attempt \in Attempts /\ attempt[call[q].attempt].state # "none"
    BY CallShape DEF Inv, StoresHaveRows
  <2> QED BY <2>1, JudgeEffect
<1>4. CreditIsEarned'
  <2> SUFFICES ASSUME NEW a \in Attempts
               PROVE  /\ a \in credit' <=> attempt'[a].state = "checked"
                      /\ attempt'[a].state \in {"checked", "disagreed"}
                            => unit'[a[1]].trusted # NoResult
                      /\ attempt'[a].state = "checked"
                            => attempt'[a].hash = unit'[a[1]].trusted
                      /\ attempt'[a].state = "disagreed"
                            => attempt'[a].hash # unit'[a[1]].trusted
    BY DEF CreditIsEarned
  <2>1. a[1] \in Units /\ unit'[a[1]].trusted = unit[a[1]].trusted
    BY JudgeEffect DEF Attempts, SameUnits
  <2>2. CASE attempt'[a] = attempt[a]
    BY <2>1, <2>2, JudgeEffect DEF Inv, CreditIsEarned
  <2>3. CASE attempt'[a] # attempt[a]
    BY <2>1, <2>3, JudgeEffect, ConstantsOK DEF Inv, CreditIsEarned
  <2> QED BY <2>2, <2>3
<1>5. \A x \in Validators : check'[x] = check[x] \/ check'[x].pc = Idle
  BY DEF Inv, CheckJudge, TypeOK, NoCheck
<1>6. JudgesAgree' /\ TokensIssued' /\ OneOwner'
  BY <1>5, JudgeEffect, StoppingKeeps DEF Idle
<1> QED BY <1>1, <1>2, <1>3, <1>4, <1>6 DEF Inv

\* A step is quiet or one of five.
LEMMA StepCases ==
    ASSUME Next
    PROVE  \/ Quiet
           \/ \E q \in Calls : LeaseInsert(q) \/ SubmitStore(q)
           \/ \E v \in Validators :
                \/ CheckClaim(v) \/ CheckJudge(v)
                \/ \E r \in Results : CheckSave(v, r)
BY DEF Next, Quiet, CallStep, ValidateStep

LEMMA InvNext == Inv /\ [Next]_vars => Inv'
<1> SUFFICES ASSUME Inv, [Next]_vars PROVE Inv'
  OBVIOUS
<1>1. TypeOK'
  BY TypeNext DEF Inv
<1>2. CASE UNCHANGED vars
  BY <1>1, <1>2 DEF vars, tables, env, procs, Inv, HashMatchesState,
     StoresHaveRows, JudgesAgree, TokensIssued, OneOwner, ReceiptsStand,
     CreditIsEarned
<1>3. CASE Next
  BY <1>1, <1>3, StepCases, QuietKeeps, InsertKeeps, StoreKeeps, ClaimKeeps,
     SaveKeeps, JudgeKeeps
<1> QED BY <1>2, <1>3

\* What the invariants rest on holds in every state, whoever is lost and whatever the owner does.
THEOREM Invariance == Spec => []Inv
BY InvInit, InvNext, PTL DEF Spec

\* Credit goes to exactly the attempts whose result equals the trusted one,
\* and no verdict exists before the trusted result.
THEOREM CreditCorrect == Spec => []CreditIsEarned
<1>1. Inv => CreditIsEarned
  BY DEF Inv
<1> QED BY <1>1, Invariance, PTL

\* A receipt is never contradicted: the acknowledged result stays stored.
THEOREM ReceiptsCorrect == Spec => []ReceiptsStand
<1>1. Inv => ReceiptsStand
  BY DEF Inv
<1> QED BY <1>1, Invariance, PTL

\* Among any number of overlapping replays of a unit, at most one owns it.
THEOREM OwnershipCorrect == Spec => []OneOwner
<1>1. Inv => OneOwner
  BY DEF Inv
<1> QED BY <1>1, Invariance, PTL

-----------------------------------------------------------------------------
(* Finality.                                                               *)

UnitsFinal ==
    \A u \in Units :
        /\ unit[u].trusted # NoResult => unit'[u].trusted = unit[u].trusted
        /\ unit[u].state = "complete" => unit'[u].state = "complete"
CampaignsFinal ==
    \A c \in Campaigns : campaign[c] = "completed" => campaign'[c] = "completed"
AttemptsFinal ==
    \A a \in Attempts : attempt[a].state \in {"checked", "disagreed"}
                            => attempt'[a] = attempt[a]

\* Until a verdict, no unit completes and no attempt is checked; an attempt
\* is handed out only for an active campaign.
Judging == \E v \in Validators : CheckJudge(v)
UnitsRest ==
    \A u \in Units :
        /\ unit[u].trusted # NoResult => unit'[u].trusted = unit[u].trusted
        /\ unit'[u].state = "complete" <=> unit[u].state = "complete"
AttemptsRest ==
    \A a \in Attempts :
        /\ attempt[a].state \in {"checked", "disagreed"}
                => attempt'[a] = attempt[a]
        /\ attempt'[a].state = "checked" => attempt[a].state = "checked"
        /\ attempt'[a].state # "none"
                => \/ attempt[a].state # "none"
                   \/ campaign[CampaignOf[a[1]]] = "active"

LEMMA UnitsRestStep ==
    ASSUME Inv, Next, ~Judging PROVE UnitsRest
<1>0. TypeOK /\ month \in Months
  BY DEF Inv, TypeOK
<1>1. CASE UNCHANGED unit
  BY <1>1 DEF UnitsRest
<1>2. ASSUME NEW w \in Months, ReserveWindow(w) PROVE UnitsRest
  BY <1>0, <1>2, WindowTable DEF UnitsRest
<1>3. ASSUME NEW q \in Calls, LeaseInsert(q) PROVE UnitsRest
  <2>1. call[q].window \in 0..MaxMonth
    BY <1>0, <1>3, CallShape, ConstantsOK DEF LeaseInsert, Months
  <2>2. ASSUME NEW u \in Units, Insert(call[q].guest, call[q].window, u)
        PROVE  UnitsRest
    <3>1. /\ Owed(unit[u], call[q].window).trusted = unit[u].trusted
          /\ Owed(unit[u], call[q].window).state = unit[u].state
      BY <1>0, <2>1, OwedRow DEF TypeOK
    <3> QED BY <1>0, <2>2, <3>1 DEF Insert, UnitsRest, TypeOK
  <2> QED BY <1>1, <1>3, <2>2 DEF LeaseInsert, Assignable
<1>4. CASE MaintainExhaust
  BY <1>0, <1>4
     DEF MaintainExhaust, Exhausted, UsedUp, UnitsRest, TypeOK, UnitRow
<1>5. ASSUME NEW v \in Validators, CheckClaim(v) PROVE UnitsRest
  <2>1. check[v].unit \in Units /\ unit[check[v].unit] \in UnitRow
    BY <1>0, <1>5, CheckShape DEF CheckClaim, TypeOK
  <2> QED BY <1>0, <1>5, <2>1, ClaimedRow
          DEF CheckClaim, Claimable, UnitsRest, TypeOK
<1>6. ASSUME NEW v \in Validators, CheckUnfunded(v) PROVE UnitsRest
  BY <1>0, <1>6, CheckShape DEF CheckUnfunded, UnitsRest, TypeOK, UnitRow
<1>7. ASSUME NEW v \in Validators, NEW r \in Results, CheckSave(v, r)
      PROVE  UnitsRest
  <2>1. check[v].unit \in Units /\ unit[check[v].unit] \in UnitRow
    BY <1>0, <1>7, CheckShape DEF CheckSave, TypeOK
  <2> QED BY <1>0, <1>7, <2>1, SavedRow DEF CheckSave, Owns, UnitsRest, TypeOK
<1>8. ASSUME NEW v \in Validators, CheckFail(v) PROVE UnitsRest
  <2>1. check[v].unit \in Units /\ unit[check[v].unit] \in UnitRow
    BY <1>0, <1>8, CheckShape DEF CheckFail, TypeOK
  <2> QED BY <1>0, <1>8, <2>1, FailedRow DEF CheckFail, Owns, UnitsRest, TypeOK
<1>10. ASSUME NEW u \in Units, ClaimExpires(u) PROVE UnitsRest
  BY <1>0, <1>10 DEF ClaimExpires, UnitsRest, TypeOK, UnitRow
<1>11. ASSUME NEW u \in Units, RetryValidation(u) PROVE UnitsRest
  BY <1>0, <1>11 DEF RetryValidation, UnitsRest, TypeOK, UnitRow
<1>12. ASSUME NEW u \in Units, ExtendDelivery(u) PROVE UnitsRest
  BY <1>0, <1>12, ExtendedRow DEF ExtendDelivery, UnitsRest, TypeOK
<1>13. ASSUME NEW v \in Validators, CheckBegin(v) PROVE UnitsRest
  BY <1>0, <1>1, <1>2, <1>13 DEF CheckBegin
<1>14. ASSUME NEW q \in Calls, CallBegins(q) PROVE UnitsRest
  BY <1>0, <1>1, <1>2, <1>14 DEF CallBegins, LeaseStart, SubmitStart, tables
<1>15. ASSUME NEW q \in Calls, CallStep(q) \/ CallLost(q) PROVE UnitsRest
  BY <1>1, <1>3, <1>15 DEF CallStep, CallLost, LeaseCheck, SubmitStore, tables
<1>16. ASSUME NEW v \in Validators, ValidateStep(v) \/ CheckLost(v)
       PROVE  UnitsRest
  BY <1>1, <1>5, <1>6, <1>7, <1>8, <1>13, <1>16
     DEF Judging, ValidateStep, CheckLost, tables
<1>17. CASE Maintain \/ \E v \in Checkers, u \in Units : CheckStart(v, u)
  BY <1>1, <1>4, <1>17 DEF Maintain, MaintainPick, CheckStart, tables
<1>18. CASE Time
  BY <1>1, <1>10, <1>18 DEF Time, LeaseExpires, MonthEnds, RecordRequest,
     HealthChanges, tables
<1>19. CASE Owner
  BY <1>1, <1>11, <1>12, <1>19 DEF Owner, Control, SetBudget, Moderate,
     WithdrawReport, RevokeRelease, SetCampaign, tables
<1> QED BY <1>14, <1>15, <1>16, <1>17, <1>18, <1>19 DEF Next

LEMMA UnitsFinalStep == ASSUME Inv, Next PROVE UnitsFinal
<1>1. CASE ~Judging
  BY <1>1, UnitsRestStep DEF UnitsRest, UnitsFinal
<1>2. ASSUME NEW v \in Validators, CheckJudge(v) PROVE UnitsFinal
  BY <1>2, CheckShape DEF Inv, CheckJudge, UnitsFinal, TypeOK, UnitRow
<1> QED BY <1>1, <1>2 DEF Judging

LEMMA CampaignsFinalStep == ASSUME Inv, Next PROVE CampaignsFinal
<1>0. TypeOK
  BY DEF Inv
<1>1. CASE UNCHANGED campaign
  BY <1>1 DEF CampaignsFinal
<1>2. ASSUME NEW v \in Validators, CheckJudge(v) PROVE CampaignsFinal
  BY <1>0, <1>2 DEF CheckJudge, CampaignsAfter, CampaignsFinal, TypeOK
<1>3. ASSUME NEW P \in SUBSET Manuscript, Pause(P) PROVE CampaignsFinal
  BY <1>0, <1>3 DEF Pause, CampaignsFinal
<1>4. ASSUME NEW c \in Campaigns, NEW s \in {"active", "paused"},
             SetCampaign(c, s)
      PROVE  CampaignsFinal
  BY <1>0, <1>4 DEF SetCampaign, CampaignsFinal, TypeOK
<1>5. CASE Owner
  BY <1>1, <1>3, <1>4, <1>5 DEF Owner, Control, SetBudget, Moderate,
     WithdrawReport, RevokeRelease, RetryValidation, ExtendDelivery, tables
<1>6. ASSUME NEW v \in Validators, ValidateStep(v) PROVE CampaignsFinal
  BY <1>1, <1>2, <1>6 DEF ValidateStep, CheckBegin, CheckClaim,
     CheckUnfunded, CheckSave, CheckFail
<1>7. CASE Time
  BY <1>1, <1>7 DEF Time, LeaseExpires, ClaimExpires, MonthEnds,
     RecordRequest, HealthChanges, tables
<1> QED BY <1>1, <1>5, <1>6, <1>7 DEF Next, CallBegins, CallStep, LeaseStart,
    LeaseCheck, LeaseInsert, SubmitStart, SubmitStore, CallLost, CheckStart,
    CheckLost, Maintain, MaintainExhaust, MaintainPick, tables

LEMMA AttemptsRestStep ==
    ASSUME Inv, Next, ~Judging PROVE AttemptsRest
<1>0. TypeOK
  BY DEF Inv
<1>1. CASE UNCHANGED attempt
  BY <1>1 DEF AttemptsRest
<1>2. ASSUME NEW q \in Calls, LeaseInsert(q) PROVE AttemptsRest
  <2>1. ASSUME NEW u \in Assignable(call[q].guest, call[q].window),
               Insert(call[q].guest, call[q].window, u)
        PROVE  AttemptsRest
    <3> DEFINE a == <<u, call[q].guest>>
    <3>1. /\ u \in Units /\ call[q].guest \in Guests /\ a \in Attempts
          /\ attempt[a] \in AttemptRow /\ attempt[a].state = "none"
          /\ campaign[CampaignOf[a[1]]] = "active"
      BY <1>0, <1>2, <2>1, CallShape
         DEF LeaseInsert, Assignable, TypeOK, Attempts
    <3>2. Leased(attempt[a]).state = "leased"
      BY <3>1, LeasedRow
    <3>3. attempt' = [attempt EXCEPT ![a] = Leased(attempt[a])]
      BY <2>1 DEF Insert
    <3> HIDE DEF a
    <3> QED BY <1>0, <3>1, <3>2, <3>3 DEF AttemptsRest, TypeOK
  <2> QED BY <1>1, <1>2, <2>1 DEF LeaseInsert
<1>3. ASSUME NEW q \in Calls, SubmitStore(q) PROVE AttemptsRest
  <2> DEFINE a == call[q].attempt
             r == call[q].result
  <2>1. a \in Attempts /\ r \in Results /\ attempt[a].state # "none"
    BY <1>0, <1>3, CallShape DEF Inv, SubmitStore, StoresHaveRows
  <2>2. Cardinality(Answered) + 1 \in Nat
    BY FiniteTables DEF Answered
  <2>3. Submitted(attempt[a], r, Cardinality(Answered) + 1).state = "submitted"
    BY <1>0, <2>1, <2>2, SubmittedRow DEF TypeOK
  <2>4. \A b \in Attempts :
            \/ attempt'[b] = attempt[b]
            \/ /\ b = a /\ attempt[a].hash = NoResult
               /\ attempt'[a].state = "submitted"
    BY <1>0, <1>3, <2>1, <2>3 DEF SubmitStore, Stored, TypeOK
  <2> QED BY <2>1, <2>4 DEF Inv, HashMatchesState, AttemptsRest
<1>5. ASSUME NEW a \in Attempts, LeaseExpires(a) PROVE AttemptsRest
  BY <1>0, <1>5 DEF LeaseExpires, Live, AttemptsRest, TypeOK
<1>6. CASE Owner
  BY <1>1, <1>6 DEF Owner, Control, SetBudget, Moderate, WithdrawReport,
     RevokeRelease, SetCampaign, RetryValidation, ExtendDelivery, tables
<1>7. ASSUME NEW v \in Validators, ValidateStep(v) PROVE AttemptsRest
  BY <1>1, <1>7 DEF Judging, ValidateStep, CheckBegin, CheckClaim,
     CheckUnfunded, CheckSave, CheckFail
<1>8. CASE Time
  BY <1>1, <1>5, <1>8 DEF Time, ClaimExpires, MonthEnds, RecordRequest,
     HealthChanges, tables
<1>9. ASSUME NEW q \in Calls, CallBegins(q) \/ CallStep(q) \/ CallLost(q)
      PROVE  AttemptsRest
  BY <1>1, <1>2, <1>3, <1>9 DEF CallBegins, CallStep, LeaseStart, LeaseCheck,
     SubmitStart, CallLost, tables
<1> QED BY <1>1, <1>6, <1>7, <1>8, <1>9 DEF Next, CheckStart, CheckLost,
    Maintain, MaintainExhaust, MaintainPick, tables

LEMMA AttemptsFinalStep == ASSUME Inv, Next PROVE AttemptsFinal
<1>1. CASE ~Judging
  BY <1>1, AttemptsRestStep DEF AttemptsRest, AttemptsFinal
<1>2. ASSUME NEW v \in Validators, CheckJudge(v) PROVE AttemptsFinal
  BY <1>2 DEF CheckJudge, Judged, AttemptsFinal
<1> QED BY <1>1, <1>2 DEF Judging

\* Trusted results, complete units, completed campaigns and judged attempts
\* are final under every interleaving of requests, checks and owner actions.
THEOREM VerdictsFinal == Spec => VerdictsStand
<1>1. Inv /\ [Next]_vars => [Final]_vars
  <2> SUFFICES ASSUME Inv, Next PROVE Final
    OBVIOUS
  <2> QED BY UnitsFinalStep, CampaignsFinalStep, AttemptsFinalStep
          DEF Final, UnitsFinal, CampaignsFinal, AttemptsFinal
<1> QED BY <1>1, Invariance, PTL DEF Spec, VerdictsStand

-----------------------------------------------------------------------------
(* A replay that lost its claim.                                           *)

Stale(v) == check[v].pc = "replay" /\ check[v].token # unit[check[v].unit].runs

\* Only its own steps move a process, and only saving, failing or dying end a
\* replay; the first two then find that the claim is not theirs.
LEMMA StaleStep ==
    ASSUME TypeOK, Next, NEW v \in Validators, Stale(v), check'[v] # check[v]
    PROVE  UNCHANGED tables
<1>0. check \in [Validators -> CheckState] /\ Idle # "replay"
  BY DEF TypeOK, Idle
<1>1. ASSUME NEW w \in Validators, ValidateStep(w) \/ CheckLost(w)
      PROVE  UNCHANGED tables
  <2>1. \A x \in Validators \ {w} : check'[x] = check[x]
    BY <1>0, <1>1 DEF ValidateStep, CheckBegin, CheckClaim, CheckUnfunded,
       CheckSave, CheckFail, CheckJudge, CheckLost
  <2>2. w = v
    BY <2>1
  <2>3. ~Owns(v)
    BY DEF Stale, Owns
  <2> QED BY <1>1, <2>2, <2>3 DEF Stale, ValidateStep, CheckBegin, CheckClaim,
      CheckUnfunded, CheckSave, CheckFail, CheckJudge, CheckLost, tables
<1>2. ASSUME NEW w \in Checkers, NEW u \in Units, CheckStart(w, u)
      PROVE  FALSE
  BY <1>0, <1>2 DEF CheckStart, Stale
<1>3. ASSUME Maintain PROVE FALSE
  BY <1>0, <1>3 DEF Maintain, MaintainExhaust, MaintainPick, Alone,
     NoExclusive, Stale
<1>4. ASSUME \E q \in Calls : CallBegins(q) \/ CallStep(q) \/ CallLost(q)
      PROVE  FALSE
  BY <1>4 DEF CallBegins, CallStep, CallLost, LeaseStart, LeaseCheck,
     LeaseInsert, SubmitStart, SubmitStore
<1>5. ASSUME Time PROVE FALSE
  BY <1>5 DEF Time, LeaseExpires, ClaimExpires, MonthEnds, RecordRequest,
     HealthChanges, procs
<1>6. ASSUME Owner PROVE FALSE
  BY <1>6 DEF Owner, Control, SetBudget, Moderate, WithdrawReport,
     RevokeRelease, SetCampaign, RetryValidation, ExtendDelivery, procs
<1> QED BY <1>1, <1>2, <1>3, <1>4, <1>5, <1>6 DEF Next

\* A replay whose unit was claimed again meanwhile ends without writing any
\* table: the claim number fences the late UPDATE.
THEOREM StaleReplayCorrect == Spec => StaleReplayIsSilent
<1>1. TypeOK /\ [Next]_vars =>
        [\A v \in Validators :
            (/\ check[v].pc = "replay"
             /\ check[v].token # unit[check[v].unit].runs
             /\ check'[v] # check[v]) => UNCHANGED tables]_vars
  BY StaleStep DEF Stale
<1> QED BY <1>1, TypeCorrect, PTL DEF Spec, StaleReplayIsSilent

-----------------------------------------------------------------------------
(* Completion.                                                             *)

\* A campaign that was never active has handed out nothing.
DraftsUntouched ==
    \A a \in Attempts :
        campaign[CampaignOf[a[1]]] = "draft" => attempt[a].state = "none"

CompletionInv == CompletionAgrees /\ DraftsUntouched

LEMMA CompletionInit == Init => CompletionInv
<1> SUFFICES ASSUME Init PROVE CompletionInv
  OBVIOUS
<1>1. ASSUME NEW u \in Units
      PROVE  unit[u].state # "complete" /\ ~(Cardinality(CheckedIn(attempt, u)) >= Copies)
  <2>1. CheckedIn(attempt, u) = {} /\ unit[u].state = "open"
    BY DEF Init, CheckedIn
  <2> QED BY <2>1, FS_EmptySet DEF Copies
<1>2. \A c \in Campaigns : campaign[c] # "completed" /\ ~Completed(unit, c)
  BY <1>1 DEF Init, Completed, UnitsOf
<1>3. DraftsUntouched
  BY DEF Init, DraftsUntouched
<1> QED BY <1>1, <1>2, <1>3 DEF CompletionInv, CompletionAgrees

\* What the steps that are no verdict do to campaigns: one that is set to a
\* new state is completed if its units are.
CampaignsRest ==
    \A c \in Campaigns :
        /\ campaign'[c] = "draft" => campaign[c] = "draft"
        /\ \/ campaign'[c] = "completed" <=> campaign[c] = "completed"
           \/ campaign'[c] = "completed" <=> Completed(unit, c)

LEMMA CampaignsRestStep == ASSUME Inv, Next, ~Judging PROVE CampaignsRest
<1>0. TypeOK
  BY DEF Inv
<1>1. CASE UNCHANGED campaign
  BY <1>1 DEF CampaignsRest
<1>2. ASSUME NEW P \in SUBSET Manuscript, Pause(P) PROVE CampaignsRest
  BY <1>0, <1>2 DEF Pause, CampaignsRest
<1>3. ASSUME NEW c \in Campaigns, NEW s \in {"active", "paused"},
             SetCampaign(c, s)
      PROVE  CampaignsRest
  BY <1>0, <1>3 DEF SetCampaign, CampaignsRest, TypeOK
<1>4. CASE Owner
  BY <1>1, <1>2, <1>3, <1>4 DEF Owner, Control, SetBudget, Moderate,
     WithdrawReport, RevokeRelease, RetryValidation, ExtendDelivery, tables
<1>5. ASSUME NEW v \in Validators, ValidateStep(v) PROVE CampaignsRest
  BY <1>1, <1>5 DEF Judging, ValidateStep, CheckBegin, CheckClaim,
     CheckUnfunded, CheckSave, CheckFail
<1>6. CASE Time
  BY <1>1, <1>6 DEF Time, LeaseExpires, ClaimExpires, MonthEnds,
     RecordRequest, HealthChanges, tables
<1> QED BY <1>1, <1>4, <1>5, <1>6 DEF Next, CallBegins, CallStep, LeaseStart,
    LeaseCheck, LeaseInsert, SubmitStart, SubmitStore, CallLost, CheckStart,
    CheckLost, Maintain, MaintainExhaust, MaintainPick, tables

LEMMA RestCompletes ==
    ASSUME Inv, TypeOK', CompletionInv, UnitsRest, AttemptsRest, CampaignsRest
    PROVE  CompletionInv'
<1>1. ASSUME NEW u \in Units PROVE CheckedIn(attempt', u) = CheckedIn(attempt, u)
  BY DEF AttemptsRest, CheckedIn
<1>2. ASSUME NEW c \in Campaigns PROVE Completed(unit', c) <=> Completed(unit, c)
  BY DEF UnitsRest, Completed, UnitsOf
<1>3. ASSUME NEW u \in Units
      PROVE  unit'[u].state = "complete"
                <=> Cardinality(CheckedIn(attempt', u)) >= Copies
  BY <1>1 DEF CompletionInv, CompletionAgrees, UnitsRest
<1>4. ASSUME NEW c \in Campaigns
      PROVE  campaign'[c] = "completed" <=> Completed(unit', c)
  BY <1>2 DEF CompletionInv, CompletionAgrees, CampaignsRest
<1>5. ASSUME NEW a \in Attempts, campaign'[CampaignOf[a[1]]] = "draft"
      PROVE  attempt'[a].state = "none"
  <2>1. CampaignOf[a[1]] \in Campaigns
    BY ConstantsOK DEF Attempts
  <2>2. campaign[CampaignOf[a[1]]] = "draft"
    BY <1>5, <2>1 DEF CampaignsRest
  <2> QED BY <2>2 DEF AttemptsRest, CompletionInv, DraftsUntouched
<1> QED BY <1>3, <1>4, <1>5 DEF CompletionInv, CompletionAgrees, DraftsUntouched

LEMMA JudgeCompletes ==
    ASSUME Inv, TypeOK', CompletionInv, NEW v \in Validators, CheckJudge(v)
    PROVE  CompletionInv'
<1> DEFINE u == check[v].unit
           c == CampaignOf[u]
<1>1. /\ TypeOK /\ u \in Units /\ c \in Campaigns
      /\ \A a \in Attempts :
            /\ a[1] # u => attempt'[a] = attempt[a]
            /\ attempt[a].state = "checked" => attempt'[a].state = "checked"
            /\ attempt'[a].state = "checked"
                    => attempt[a].state \in {"checked", "submitted"}
            /\ attempt[a].state = "none" => attempt'[a].state = "none"
  BY JudgeEffect, ConstantsOK DEF Inv
<1> HIDE DEF u
<1>2. ASSUME NEW x \in Units, x # u
      PROVE  unit'[x] = unit[x] /\ CheckedIn(attempt', x) = CheckedIn(attempt, x)
  <2>1. unit'[x] = unit[x]
    BY <1>1, <1>2 DEF CheckJudge, TypeOK, u
  <2> QED BY <1>1, <1>2, <2>1 DEF CheckedIn
<1>3. /\ CheckedIn(attempt, u) \subseteq CheckedIn(attempt', u)
      /\ IsFiniteSet(CheckedIn(attempt', u))
      /\ Cardinality(CheckedIn(attempt, u)) \in Nat
      /\ Cardinality(CheckedIn(attempt', u)) \in Nat
      /\ Cardinality(CheckedIn(attempt, u)) <= Cardinality(CheckedIn(attempt', u))
  <2>1. CheckedIn(attempt, u) \subseteq CheckedIn(attempt', u)
    BY <1>1 DEF CheckedIn
  <2>2. CheckedIn(attempt, u) \subseteq Attempts /\ CheckedIn(attempt', u) \subseteq Attempts
    BY DEF CheckedIn
  <2>3. IsFiniteSet(CheckedIn(attempt', u))
    BY <2>2, FiniteTables, FS_Subset
  <2> QED BY <2>1, <2>2, <2>3, FiniteTables, FS_Subset
<1>4. unit'[u].state = "complete"
            <=> Cardinality(CheckedIn(attempt', u)) >= Copies
  <2>1. CASE Cardinality(CheckedIn(attempt', u)) >= Copies
    <3>1. unit' = [unit EXCEPT ![u].state = "complete"]
      BY <2>1, Zenon DEF CheckJudge, u
    <3>2. unit'[u].state = "complete"
      BY <1>1, <3>1 DEF TypeOK, UnitRow
    <3> QED
      BY <2>1, <3>2
  <2>2. CASE ~(Cardinality(CheckedIn(attempt', u)) >= Copies)
    <3>1. unit'[u] = unit[u]
      BY <2>2 DEF CheckJudge, u
    <3>2. ~(Cardinality(CheckedIn(attempt, u)) >= Copies)
      BY <1>3, <2>2 DEF Copies
    <3> QED BY <1>1, <2>2, <3>1, <3>2 DEF CompletionInv, CompletionAgrees
  <2> QED BY <2>1, <2>2
<1>5. ASSUME NEW x \in Units
      PROVE  unit'[x].state = "complete"
                <=> Cardinality(CheckedIn(attempt', x)) >= Copies
  BY <1>2, <1>4 DEF CompletionInv, CompletionAgrees
<1>6. unit[u].state = "complete" => unit'[u].state = "complete"
  BY <1>1, <1>3, <1>4 DEF CompletionInv, CompletionAgrees, Copies
<1>7. ASSUME campaign[c] = "draft" PROVE ~Completed(unit', c)
  <2>1. CheckedIn(attempt', u) = {}
    BY <1>1, <1>7 DEF CheckedIn, CompletionInv, DraftsUntouched
  <2>2. unit'[u].state # "complete"
    BY <1>4, <2>1, FS_EmptySet DEF Copies
  <2> QED BY <1>1, <2>2 DEF Completed, UnitsOf
<1>8. ASSUME NEW d \in Campaigns
      PROVE  campaign'[d] = "completed" <=> Completed(unit', d)
  <2>1. Completed(unit, d) => Completed(unit', d)
    BY <1>2, <1>6 DEF Completed, UnitsOf
  <2>2. campaign[d] = "completed" <=> Completed(unit, d)
    BY DEF CompletionInv, CompletionAgrees
  <2>3. CASE d # c
    <3>1. Completed(unit', d) <=> Completed(unit, d)
      BY <1>2, <2>3 DEF Completed, UnitsOf
    <3>2. campaign'[d] = campaign[d]
      BY <1>1, <2>3 DEF CheckJudge, CampaignsAfter, TypeOK, u
    <3> QED BY <2>2, <3>1, <3>2
  <2>4. CASE d = c
    <3>1. campaign[c] \in {"draft", "active", "paused", "completed"}
      BY <1>1 DEF TypeOK
    <3>2. campaign' = CampaignsAfter(unit', c)
      BY DEF CheckJudge, u
    <3>3. CASE campaign[c] \in {"active", "paused"} /\ Completed(unit', c)
      BY <1>1, <2>4, <3>2, <3>3 DEF CampaignsAfter, TypeOK
    <3>4. CASE ~(campaign[c] \in {"active", "paused"} /\ Completed(unit', c))
      <4>1. campaign'[c] = campaign[c]
        BY <3>2, <3>4 DEF CampaignsAfter
      <4> QED BY <1>7, <2>1, <2>2, <2>4, <3>1, <3>4, <4>1
    <3> QED BY <3>3, <3>4
  <2> QED BY <2>3, <2>4
<1>9. DraftsUntouched'
  <2>1. \A d \in Campaigns : campaign'[d] = "draft" => campaign[d] = "draft"
    BY <1>1 DEF CheckJudge, CampaignsAfter, TypeOK
  <2>2. \A a \in Attempts : CampaignOf[a[1]] \in Campaigns
    BY ConstantsOK DEF Attempts
  <2> QED BY <1>1, <2>1, <2>2 DEF CompletionInv, DraftsUntouched
<1> QED BY <1>5, <1>8, <1>9 DEF CompletionInv, CompletionAgrees

\* A unit is complete exactly when two of its attempts are checked, and a
\* campaign exactly when all its units are: CheckJudge leaves neither behind.
THEOREM CompletionCorrect == Spec => []CompletionAgrees
<1>1. Inv /\ CompletionInv /\ [Next]_vars => CompletionInv'
  <2> SUFFICES ASSUME Inv, CompletionInv, [Next]_vars PROVE CompletionInv'
    OBVIOUS
  <2>1. TypeOK'
    BY TypeNext DEF Inv
  <2>2. CASE UNCHANGED vars
    BY <2>2 DEF vars, tables, CompletionInv, CompletionAgrees, DraftsUntouched
  <2>3. CASE Next /\ ~Judging
    BY <2>1, <2>3, UnitsRestStep, AttemptsRestStep, CampaignsRestStep,
       RestCompletes
  <2>4. CASE Judging
    BY <2>1, <2>4, JudgeCompletes DEF Judging
  <2> QED BY <2>2, <2>3, <2>4
<1>2. Spec => []CompletionInv
  BY <1>1, CompletionInit, Invariance, PTL DEF Spec
<1>3. CompletionInv => CompletionAgrees
  BY DEF CompletionInv
<1> QED BY <1>2, <1>3, PTL

-----------------------------------------------------------------------------
(* Refinement: a step answers, decides, awards, or changes nothing that    *)
(* module CreditLedger knows of.                                           *)

LEMMA LedgerStart == Init => Ledger!Start
BY DEF Init, Ledger!Start

\* A step that leaves the results, the trusted results and credit alone.
LEMMA LedgerStutter ==
    ASSUME \A a \in Attempts : attempt'[a].hash = attempt[a].hash,
           \A u \in Units : unit'[u].trusted = unit[u].trusted,
           UNCHANGED credit
    PROVE  UNCHANGED Ledger!ledger
<1>1. [a \in Attempts |-> attempt[a].hash]'
        = [a \in Attempts |-> attempt[a].hash]
  OBVIOUS
<1>2. [u \in Units |-> unit[u].trusted]' = [u \in Units |-> unit[u].trusted]
  OBVIOUS
<1> QED BY <1>1, <1>2 DEF Ledger!ledger

LEMMA LedgerQuiet == ASSUME Inv, Quiet PROVE UNCHANGED Ledger!ledger
<1>1. Frame
  BY QuietFrame DEF Inv
<1> QED BY <1>1, LedgerStutter DEF Frame, SameAnswers, SameUnits

LEMMA LedgerInsert ==
    ASSUME Inv, NEW q \in Calls, LeaseInsert(q)
    PROVE  UNCHANGED Ledger!ledger
<1> DEFINE g == call[q].guest
           w == call[q].window
<1>1. TypeOK /\ g \in Guests /\ w \in 0..MaxMonth
  BY CallShape, ConstantsOK DEF Inv, LeaseInsert, Months
<1>2. ASSUME NEW u \in Units, Insert(g, w, u)
      PROVE  /\ \A a \in Attempts : attempt'[a].hash = attempt[a].hash
             /\ \A x \in Units : unit'[x].trusted = unit[x].trusted
  <2>1. <<u, g>> \in Attempts /\ attempt[<<u, g>>] \in AttemptRow
    BY <1>1 DEF TypeOK, Attempts
  <2>2. Leased(attempt[<<u, g>>]).hash = attempt[<<u, g>>].hash
    BY <2>1, LeasedRow
  <2>3. \A a \in Attempts : attempt'[a].hash = attempt[a].hash
    BY <1>1, <1>2, <2>1, <2>2 DEF Insert, TypeOK
  <2>4. Owed(unit[u], w).trusted = unit[u].trusted
    BY <1>1, OwedRow DEF TypeOK
  <2>5. \A x \in Units : unit'[x].trusted = unit[x].trusted
    BY <1>1, <2>4, <1>2 DEF Insert, TypeOK
  <2> QED BY <2>3, <2>5
<1>3. /\ \A a \in Attempts : attempt'[a].hash = attempt[a].hash
      /\ \A x \in Units : unit'[x].trusted = unit[x].trusted
  BY <1>2 DEF LeaseInsert, Assignable
<1> QED BY <1>3, LedgerStutter DEF LeaseInsert

LEMMA LedgerClaim ==
    ASSUME Inv, NEW v \in Validators, CheckClaim(v)
    PROVE  UNCHANGED Ledger!ledger
<1>1. TypeOK /\ check[v].unit \in Units /\ unit[check[v].unit] \in UnitRow
  BY CheckShape DEF Inv, CheckClaim, TypeOK
<1>2. \A x \in Units : unit'[x].trusted = unit[x].trusted
  BY <1>1, ClaimedRow DEF CheckClaim, TypeOK
<1> QED BY <1>2, LedgerStutter DEF CheckClaim

LEMMA LedgerStore ==
    ASSUME Inv, NEW q \in Calls, SubmitStore(q)
    PROVE  \/ \E a \in Attempts, r \in Results : Ledger!Answer(a, r)
           \/ UNCHANGED Ledger!ledger
<1>1. TypeOK /\ call[q].attempt \in Attempts /\ call[q].result \in Results
  BY CallShape DEF Inv, SubmitStore
<1>2. PICK a \in Attempts, r \in Results :
            call[q].attempt = a /\ call[q].result = r
  BY <1>1
<1>3. CASE attempt[a].hash = NoResult
  <2>1. attempt[a] \in AttemptRow /\ Cardinality(Answered) + 1 \in Nat
    BY <1>1, FiniteTables DEF TypeOK, Answered
  <2>2. /\ attempt'[a].hash = r
        /\ \A b \in Attempts \ {a} : attempt'[b].hash = attempt[b].hash
    BY <1>1, <1>2, <1>3, <2>1, SubmittedRow DEF SubmitStore, Stored, TypeOK
  <2>3. [b \in Attempts |-> attempt[b].hash]'
            = [[b \in Attempts |-> attempt[b].hash] EXCEPT ![a] = r]
    BY <2>2
  <2>4. Ledger!Answer(a, r)
    BY <1>3, <2>3 DEF SubmitStore, Ledger!Answer
  <2> QED BY <2>4
<1>4. CASE attempt[a].hash # NoResult
  BY <1>2, <1>4, LedgerStutter DEF SubmitStore, Stored
<1> QED BY <1>3, <1>4

LEMMA LedgerSave ==
    ASSUME Inv, NEW v \in Validators, NEW r \in Results, CheckSave(v, r)
    PROVE  \/ \E u \in Units : Ledger!Decide(u, r)
           \/ UNCHANGED Ledger!ledger
<1> DEFINE u == check[v].unit
<1>1. TypeOK /\ u \in Units /\ unit[u] \in UnitRow
  BY CheckShape DEF Inv, CheckSave, TypeOK
<1>2. CASE Owns(v)
  <2>1. /\ unit'[u].trusted = r
        /\ \A x \in Units \ {u} : unit'[x].trusted = unit[x].trusted
    BY <1>1, <1>2, SavedRow DEF CheckSave, TypeOK
  <2>2. [x \in Units |-> unit[x].trusted]'
            = [[x \in Units |-> unit[x].trusted] EXCEPT ![u] = r]
    BY <1>1, <2>1
  <2>3. Ledger!Decide(u, r)
    BY <1>1, <1>2, <2>2 DEF CheckSave, Owns, Ledger!Decide
  <2> QED BY <1>1, <2>3
<1>3. CASE ~Owns(v)
  BY <1>3, LedgerStutter DEF CheckSave
<1> QED BY <1>2, <1>3

LEMMA LedgerJudge ==
    ASSUME Inv, NEW v \in Validators, CheckJudge(v)
    PROVE  \/ \E u \in Units : Ledger!Award(u)
           \/ UNCHANGED Ledger!ledger
<1> DEFINE u == check[v].unit
<1>1. /\ u \in Units /\ unit[u].trusted # NoResult
      /\ \A a \in Attempts : attempt'[a].hash = attempt[a].hash
      /\ \A x \in Units : unit'[x].trusted = unit[x].trusted
  BY JudgeEffect, ConstantsOK DEF SameUnits
<1>2. /\ [a \in Attempts |-> attempt[a].hash]'
            = [a \in Attempts |-> attempt[a].hash]
      /\ [x \in Units |-> unit[x].trusted]'
            = [x \in Units |-> unit[x].trusted]
  BY <1>1
<1>3. CASE Approved(u)
  <2>1. ASSUME NEW a \in Attempts, a[1] = u
        PROVE  attempt'[a].state = "checked"
                    <=> attempt[a].hash = unit[u].trusted
    <3>1. attempt[a].state \in AttemptStates
      BY DEF Inv, TypeOK, AttemptRow
    <3>2. attempt[a].hash = NoResult <=> attempt[a].state \in {"none", "leased"}
      BY DEF Inv, HashMatchesState
    <3>3. /\ attempt[a].state = "checked" => attempt[a].hash = unit[u].trusted
          /\ attempt[a].state = "disagreed" => attempt[a].hash # unit[u].trusted
      BY <2>1 DEF Inv, CreditIsEarned
    <3>4. CASE attempt[a].state = "submitted"
      BY <1>3, <2>1, <3>4, JudgeEffect
    <3>5. CASE attempt[a].state # "submitted"
      <4>1. attempt'[a] = attempt[a]
        BY <3>5, JudgeEffect
      <4> QED BY <1>1, <3>1, <3>2, <3>3, <3>5, <4>1 DEF AttemptStates
    <3> QED BY <3>4, <3>5
  <2>2. credit \subseteq Attempts /\ credit' \subseteq Attempts
    BY DEF Inv, TypeOK, CheckJudge, Credited, CheckedIn
  <2>3. \A a \in Attempts : a \in credit' <=>
            a \in credit \/ (a[1] = u /\ attempt[a].hash = unit[u].trusted)
    BY <1>3, <2>1, JudgeEffect
  <2>4. Ledger!Correct(u)
            = {a \in Attempts : a[1] = u /\ attempt[a].hash = unit[u].trusted}
    BY <1>1 DEF Ledger!Correct
  <2>5. credit' = credit \cup Ledger!Correct(u)
    BY <2>2, <2>3, <2>4
  <2>6. Ledger!Award(u)
    BY <1>1, <1>2, <2>5 DEF Ledger!Award
  <2> QED BY <1>1, <2>6
<1>4. CASE ~Approved(u)
  <2>1. credit' = credit
    BY <1>4 DEF CheckJudge, Credited
  <2> QED BY <1>1, <2>1, LedgerStutter
<1> QED BY <1>3, <1>4

LEMMA LedgerStep == Inv /\ [Next]_vars => [Ledger!Step]_(Ledger!ledger)
<1> SUFFICES ASSUME Inv, [Next]_vars
             PROVE  Ledger!Step \/ UNCHANGED Ledger!ledger
  OBVIOUS
<1>1. CASE UNCHANGED vars
  BY <1>1, LedgerStutter DEF vars, tables
<1>2. CASE Quiet
  BY <1>2, LedgerQuiet
<1>3. ASSUME NEW q \in Calls, LeaseInsert(q) \/ SubmitStore(q)
      PROVE  Ledger!Step \/ UNCHANGED Ledger!ledger
  BY <1>3, LedgerInsert, LedgerStore DEF Ledger!Step
<1>4. ASSUME NEW v \in Validators,
             \/ CheckClaim(v) \/ CheckJudge(v)
             \/ \E r \in Results : CheckSave(v, r)
      PROVE  Ledger!Step \/ UNCHANGED Ledger!ledger
  BY <1>4, LedgerClaim, LedgerJudge, LedgerSave DEF Ledger!Step
<1> QED BY <1>1, <1>2, <1>3, <1>4, StepCases

\* The coordinator keeps the promise of module CreditLedger: one answer per
\* attempt, one verdict per unit, credit for exactly the correct answers.
THEOREM PromiseKept == Spec => KeepsPromise
BY LedgerStart, LedgerStep, Invariance, PTL DEF Spec, KeepsPromise,
   Ledger!Promise

-----------------------------------------------------------------------------
(* The numbers of the tables.                                              *)

LEMMA TableNumbers ==
    ASSUME TypeOK
    PROVE  /\ Assignments \in [Months -> Nat] /\ Reserved \in [Months -> Nat]
           /\ Runs \in [Units -> Nat] /\ Retries \in [Units -> Nat]
           /\ month \in Months
<1>1. \A u \in Units : unit[u].runs \in Nat
  BY DEF TypeOK, UnitRow
<1>2. \A w \in Months : limits[w].assignments \in Nat /\ limits[w].reserved \in Nat
  BY DEF TypeOK, LimitRow
<1>3. \A u \in Units :
        (IF unit[u].runs > 1 THEN unit[u].runs - 1 ELSE 0) \in Nat
  BY <1>1
<1> QED BY <1>1, <1>2, <1>3 DEF Assignments, Reserved, Runs, Retries, TypeOK

LEMMA TableNumbersNext ==
    ASSUME TypeOK'
    PROVE  /\ Assignments' \in [Months -> Nat] /\ Reserved' \in [Months -> Nat]
           /\ Runs' \in [Units -> Nat] /\ Retries' \in [Units -> Nat]
           /\ month' \in Months
<1>1. \A u \in Units : unit'[u].runs \in Nat
  BY DEF TypeOK, UnitRow
<1>2. \A w \in Months : limits'[w].assignments \in Nat /\ limits'[w].reserved \in Nat
  BY DEF TypeOK, LimitRow
<1>3. \A u \in Units :
        (IF unit'[u].runs > 1 THEN unit'[u].runs - 1 ELSE 0) \in Nat
  BY <1>1
<1> QED BY <1>1, <1>2, <1>3 DEF Assignments, Reserved, Runs, Retries, TypeOK

LEMMA FiniteMonths == IsFiniteSet(Months)
<1>1. 1 \in Int /\ MaxMonth \in Int
  BY ConstantsOK
<1> QED BY <1>1, FS_Interval DEF Months

\* reserveWindow adds the obligations to the month and stamps them.
LEMMA CarryEffect ==
    ASSUME TypeOK, NEW w \in Months, ReserveWindow(w)
    PROVE  /\ \A u \in Units :
                /\ unit'[u].reserved = unit[u].reserved
                /\ unit'[u].runs = unit[u].runs
                /\ unit'[u].trusted = unit[u].trusted
                /\ unit'[u].window
                    = IF u \in Obligations(w) THEN w ELSE unit[u].window
           /\ \A x \in Months :
                /\ limits'[x].assignments = limits[x].assignments
                /\ limits'[x].reserved = limits[x].reserved
                    + IF x = w THEN Cardinality(Obligations(w)) ELSE 0
                /\ limits'[x].budget = limits[x].budget
           /\ Cardinality(Obligations(w)) \in Nat
<1>1. Cardinality(Obligations(w)) \in Nat
  BY FiniteTables DEF Obligations
<1>2. \A u \in Units :
        /\ unit'[u].reserved = unit[u].reserved
        /\ unit'[u].runs = unit[u].runs
        /\ unit'[u].trusted = unit[u].trusted
        /\ unit'[u].window = IF u \in Obligations(w) THEN w ELSE unit[u].window
  BY DEF TypeOK, ReserveWindow, UnitRow
<1>3. ASSUME NEW x \in Months
      PROVE  /\ limits'[x].assignments = limits[x].assignments
             /\ limits'[x].reserved = limits[x].reserved
                    + IF x = w THEN Cardinality(Obligations(w)) ELSE 0
             /\ limits'[x].budget = limits[x].budget
  <2>1. limits[x] \in LimitRow /\ limits[x].reserved \in Nat
    BY DEF TypeOK, LimitRow
  <2>2. CASE x = w
    <3>1. limits'[x] = Carried(limits[x], Cardinality(Obligations(w)))
      BY <2>2 DEF ReserveWindow, TypeOK
    <3> DEFINE n == Cardinality(Obligations(w))
    <3>2. /\ Carried(limits[x], n).assignments = limits[x].assignments
          /\ Carried(limits[x], n).reserved = limits[x].reserved + n
          /\ Carried(limits[x], n).budget = limits[x].budget
      BY <1>1, <2>1, CarriedRow
    <3> QED BY <2>2, <3>1, <3>2
  <2>3. CASE x # w
    <3>1. limits'[x] = limits[x]
      BY <2>3 DEF ReserveWindow, TypeOK
    <3> QED BY <2>1, <2>3, <3>1
  <2> QED BY <2>2, <2>3
<1> QED BY <1>1, <1>2, <1>3

\* An insert hands out one attempt and charges its cost to its window.
LEMMA InsertEffect ==
    ASSUME TypeOK, NEW g \in Guests, NEW w \in Months,
           NEW u \in Assignable(g, w), Insert(g, w, u)
    PROVE  /\ u \in Units /\ <<u, g>> \in Attempts
           /\ \A x \in Units : x # u => unit'[x] = unit[x]
           /\ unit'[u].reserved = TRUE /\ unit'[u].window = w
           /\ unit'[u].runs = unit[u].runs
           /\ unit'[u].trusted = unit[u].trusted
           /\ \A x \in Months :
                /\ limits'[x].assignments
                    = limits[x].assignments + IF x = w THEN 1 ELSE 0
                /\ limits'[x].reserved
                    = limits[x].reserved + IF x = w THEN Cost(u) ELSE 0
                /\ limits'[x].budget = limits[x].budget
           /\ attempt[<<u, g>>].state = "none"
           /\ attempt'[<<u, g>>].state = "leased"
           /\ \A a \in Attempts : a # <<u, g>> => attempt'[a] = attempt[a]
           /\ Cost(u) \in Nat
<1>1. u \in Units /\ <<u, g>> \in Attempts /\ attempt[<<u, g>>].state = "none"
  BY DEF Assignable, Attempts
<1>2. Cost(u) \in Nat
  BY DEF Cost
<1>3. w \in 0..MaxMonth /\ unit[u] \in UnitRow /\ attempt[<<u, g>>] \in AttemptRow
  BY <1>1, ConstantsOK DEF Months, TypeOK
<1>4. unit'[u] = Owed(unit[u], w) /\ \A x \in Units : x # u => unit'[x] = unit[x]
  BY <1>1 DEF Insert, TypeOK
<1>5. /\ attempt'[<<u, g>>] = Leased(attempt[<<u, g>>])
      /\ \A a \in Attempts : a # <<u, g>> => attempt'[a] = attempt[a]
  BY <1>1 DEF Insert, TypeOK
<1>6. ASSUME NEW x \in Months
      PROVE  /\ limits'[x].assignments
                    = limits[x].assignments + IF x = w THEN 1 ELSE 0
             /\ limits'[x].reserved
                    = limits[x].reserved + IF x = w THEN Cost(u) ELSE 0
             /\ limits'[x].budget = limits[x].budget
  <2>1. /\ limits[x] \in LimitRow /\ limits[x].reserved \in Nat
        /\ limits[x].assignments \in Nat
    BY DEF TypeOK, LimitRow
  <2>2. CASE x = w
    <3>1. limits'[x] = Charged(limits[x], Cost(u))
      BY <2>2 DEF Insert, TypeOK
    <3>2. /\ Charged(limits[x], Cost(u)).assignments = limits[x].assignments + 1
          /\ Charged(limits[x], Cost(u)).reserved = limits[x].reserved + Cost(u)
          /\ Charged(limits[x], Cost(u)).budget = limits[x].budget
      BY <1>2, <2>1, ChargedRow
    <3> QED BY <1>2, <2>1, <2>2, <3>1, <3>2
  <2>3. CASE x # w
    <3>1. limits'[x] = limits[x]
      BY <2>3 DEF Insert, TypeOK
    <3> QED BY <2>1, <2>3, <3>1
  <2> QED BY <2>2, <2>3
<1>7. /\ unit'[u].reserved = TRUE /\ unit'[u].window = w
      /\ unit'[u].runs = unit[u].runs /\ unit'[u].trusted = unit[u].trusted
  <2>1. /\ Owed(unit[u], w).reserved = TRUE /\ Owed(unit[u], w).window = w
        /\ Owed(unit[u], w).runs = unit[u].runs
        /\ Owed(unit[u], w).trusted = unit[u].trusted
    BY <1>3, OwedRow
  <2> QED BY <1>4, <2>1
<1>8. \A x \in Months :
        /\ limits'[x].assignments
                = limits[x].assignments + IF x = w THEN 1 ELSE 0
        /\ limits'[x].reserved
                = limits[x].reserved + IF x = w THEN Cost(u) ELSE 0
        /\ limits'[x].budget = limits[x].budget
  BY <1>6
<1>9. attempt'[<<u, g>>].state = "leased"
  BY <1>3, <1>5, LeasedRow, Zenon
<1> QED BY <1>1, <1>2, <1>4, <1>5, <1>7, <1>8, <1>9, Zenon

\* A claim counts a run, and charges it to the month unless it is the first.
LEMMA ClaimEffect ==
    ASSUME TypeOK, NEW v \in Validators, CheckClaim(v), Claimable(check[v].unit)
    PROVE  LET u == check[v].unit IN
           /\ u \in Units
           /\ \A x \in Units : x # u => unit'[x] = unit[x]
           /\ unit'[u].runs = unit[u].runs + 1
           /\ unit'[u].reserved = unit[u].reserved
           /\ unit'[u].window = unit[u].window
           /\ unit'[u].trusted = unit[u].trusted
           /\ unit[u].reserved
           /\ \A x \in Months :
                /\ limits'[x].assignments = limits[x].assignments
                /\ limits'[x].reserved
                    = limits[x].reserved + IF x = month THEN RetryCharge(u) ELSE 0
                /\ limits'[x].budget = limits[x].budget
           /\ RetryCharge(u) \in Nat
<1> DEFINE u == check[v].unit
<1>1. u \in Units
  BY CheckShape DEF CheckClaim
<1>2. unit[u] \in UnitRow
  BY <1>1 DEF TypeOK
<1>3. unit'[u] = Claimed(unit[u]) /\ \A x \in Units : x # u => unit'[x] = unit[x]
  BY <1>1 DEF CheckClaim, TypeOK
<1>4. RetryCharge(u) \in Nat
  BY DEF RetryCharge
<1>5. ASSUME NEW x \in Months
      PROVE  /\ limits'[x].assignments = limits[x].assignments
             /\ limits'[x].reserved
                    = limits[x].reserved + IF x = month THEN RetryCharge(u) ELSE 0
             /\ limits'[x].budget = limits[x].budget
  <2>1. /\ limits[x] \in LimitRow /\ limits[x].reserved \in Nat
    BY DEF TypeOK, LimitRow
  <2>2. limits' = [limits EXCEPT ![month].reserved = @ + RetryCharge(u)]
    BY DEF CheckClaim
  <2> QED BY <1>4, <2>1, <2>2 DEF TypeOK, LimitRow
<1>6. unit[u].reserved
  BY DEF Claimable
<1>7. /\ unit'[u].runs = unit[u].runs + 1
      /\ unit'[u].reserved = unit[u].reserved
      /\ unit'[u].window = unit[u].window
      /\ unit'[u].trusted = unit[u].trusted
  BY <1>2, <1>3, ClaimedRow, Zenon
<1> QED BY <1>1, <1>3, <1>4, <1>5, <1>6, <1>7

-----------------------------------------------------------------------------
(* Steps that move no reserve and hand out nothing.                        *)

\* Rows and requests that keep what the budget counts.
SameUnit(u) ==
    /\ unit'[u].reserved = unit[u].reserved
    /\ unit'[u].window = unit[u].window
    /\ unit'[u].runs = unit[u].runs
    /\ unit'[u].trusted = NoResult => unit[u].trusted = NoResult
SameLimit(w) ==
    /\ limits'[w].assignments = limits[w].assignments
    /\ limits'[w].reserved = limits[w].reserved
    /\ limits'[w].budget \in Budgets \cup {limits[w].budget}
SameAttempt(a) ==
    /\ attempt'[a].state = "none" <=> attempt[a].state = "none"
    /\ attempt'[a].state = "leased" /\ attempt'[a].live
            => attempt[a].state = "leased" /\ attempt[a].live
SteadyCall(q) ==
    /\ call'[q].pc = "check" => call[q].pc = "check"
    /\ call'[q].pc = "insert"
            => /\ call[q].pc \in {"check", "insert"}
               /\ call'[q] = call[q] \/ call'[q].window = month

Steady ==
    /\ \A u \in Units : SameUnit(u)
    /\ \A w \in Months : SameLimit(w)
    /\ \A a \in Attempts : SameAttempt(a)
    /\ \A q \in Calls : SteadyCall(q)
    /\ month' = month

\* The steps the lemma below leaves to lemmas of their own.
Moves ==
    \/ \E q \in Calls, g \in Guests : LeaseStart(q, g)
    \/ \E q \in Calls : LeaseInsert(q)
    \/ \E v \in Validators :
        \/ CheckBegin(v) /\ ReserveWindow(month)
        \/ CheckClaim(v) /\ Claimable(check[v].unit)
    \/ MonthEnds

LEMMA SteadyRequests ==
    ASSUME Inv, NEW q \in Calls,
           \/ \E a \in Attempts, r \in Results : SubmitStart(q, a, r)
           \/ LeaseCheck(q) \/ SubmitStore(q) \/ CallLost(q)
    PROVE  Steady
<1> USE DEF Inv
<1>1. ASSUME NEW a \in Attempts, NEW r \in Results, SubmitStart(q, a, r)
      PROVE  Steady
  <2>1. \A p \in Calls : SteadyCall(p)
    BY <1>1 DEF SubmitStart, SteadyCall, TypeOK
  <2> QED BY <1>1, <2>1
        DEF Steady, SubmitStart, tables, env, SameUnit, SameLimit, SameAttempt
<1>2. CASE LeaseCheck(q)
  <2>1. \A p \in Calls : SteadyCall(p)
    BY <1>2 DEF LeaseCheck, SteadyCall, TypeOK, NoCall, Idle
  <2> QED BY <1>2, <2>1
        DEF Steady, LeaseCheck, tables, env, SameUnit, SameLimit, SameAttempt
<1>3. CASE CallLost(q)
  <2>1. \A p \in Calls : SteadyCall(p)
    BY <1>3 DEF CallLost, SteadyCall, TypeOK, NoCall, Idle
  <2> QED BY <1>3, <2>1
        DEF Steady, CallLost, tables, env, SameUnit, SameLimit, SameAttempt
<1>4. CASE SubmitStore(q)
  <2> DEFINE a == call[q].attempt
             r == call[q].result
  <2>1. a \in Attempts /\ r \in Results /\ attempt[a].state # "none"
    BY <1>4, CallShape DEF SubmitStore, StoresHaveRows
  <2>2. Cardinality(Answered) + 1 \in Nat
    BY FiniteTables DEF Answered
  <2>3. Submitted(attempt[a], r, Cardinality(Answered) + 1).state = "submitted"
    BY <2>1, <2>2, SubmittedRow DEF TypeOK
  <2>4. ASSUME NEW b \in Attempts PROVE SameAttempt(b)
    <3>1. attempt'[b] = attempt[b] \/ (b = a /\ attempt'[b].state = "submitted")
      BY <1>4, <2>1, <2>3 DEF SubmitStore, Stored, TypeOK
    <3> QED BY <2>1, <3>1 DEF SameAttempt
  <2>5. \A p \in Calls : SteadyCall(p)
    BY <1>4 DEF SubmitStore, SteadyCall, TypeOK, NoCall, Idle
  <2> QED BY <1>4, <2>4, <2>5 DEF Steady, SubmitStore, env, SameUnit, SameLimit
<1> QED BY <1>1, <1>2, <1>3, <1>4

LEMMA SteadyChecks ==
    ASSUME Inv, NEW v \in Validators, ValidateStep(v) \/ CheckLost(v), ~Moves
    PROVE  Steady
<1> DEFINE u == check[v].unit
<1> USE DEF Inv
<1>1. CASE CheckBegin(v)
  BY <1>1 DEF Steady, CheckBegin, Moves, env, SameUnit, SameLimit,
     SameAttempt, SteadyCall
<1>2. CASE CheckClaim(v)
  BY <1>2 DEF Steady, CheckClaim, Moves, env, SameUnit, SameLimit,
     SameAttempt, SteadyCall
<1>3. CASE CheckUnfunded(v)
  <2>1. \A x \in Units : SameUnit(x)
    BY <1>3, CheckShape DEF CheckUnfunded, SameUnit, TypeOK, UnitRow
  <2> QED BY <1>3, <2>1 DEF Steady, CheckUnfunded, env, SameLimit,
      SameAttempt, SteadyCall
<1>4. ASSUME NEW r \in Results, CheckSave(v, r) PROVE Steady
  <2>1. u \in Units /\ unit[u] \in UnitRow
    BY <1>4, CheckShape DEF CheckSave, TypeOK
  <2>2. /\ Saved(unit[u], r).trusted = r /\ Saved(unit[u], r).runs = unit[u].runs
        /\ Saved(unit[u], r).reserved = unit[u].reserved
        /\ Saved(unit[u], r).window = unit[u].window
    BY <2>1, SavedRow
  <2>3. ASSUME NEW x \in Units PROVE SameUnit(x)
    <3>1. unit'[x] = unit[x] \/ (x = u /\ unit'[x] = Saved(unit[u], r))
      BY <1>4, <2>1 DEF CheckSave, TypeOK
    <3> QED BY <2>2, <3>1, ConstantsOK DEF SameUnit
  <2> QED BY <1>4, <2>3 DEF Steady, CheckSave, env, SameLimit,
      SameAttempt, SteadyCall
<1>5. CASE CheckFail(v)
  <2>1. u \in Units /\ unit[u] \in UnitRow
    BY <1>5, CheckShape DEF CheckFail, TypeOK
  <2>2. /\ Failed(unit[u]).trusted = unit[u].trusted
        /\ Failed(unit[u]).runs = unit[u].runs
        /\ Failed(unit[u]).reserved = unit[u].reserved
        /\ Failed(unit[u]).window = unit[u].window
    BY <2>1, FailedRow
  <2>3. ASSUME NEW x \in Units PROVE SameUnit(x)
    <3>1. unit'[x] = unit[x] \/ (x = u /\ unit'[x] = Failed(unit[u]))
      BY <1>5, <2>1 DEF CheckFail, TypeOK
    <3> QED BY <2>2, <3>1 DEF SameUnit
  <2> QED BY <1>5, <2>3 DEF Steady, CheckFail, env, SameLimit,
      SameAttempt, SteadyCall
<1>6. CASE CheckJudge(v)
  <2>1. \A x \in Units : SameUnit(x)
    BY <1>6, CheckShape DEF CheckJudge, SameUnit, TypeOK, UnitRow
  <2>2. \A a \in Attempts : SameAttempt(a)
    BY <1>6 DEF CheckJudge, Judged, SameAttempt, TypeOK, AttemptRow
  <2> QED BY <1>6, <2>1, <2>2 DEF Steady, CheckJudge, env, SameLimit,
      SteadyCall
<1>7. CASE CheckLost(v)
  BY <1>7 DEF Steady, CheckLost, tables, env, SameUnit, SameLimit,
     SameAttempt, SteadyCall
<1> QED BY <1>1, <1>2, <1>3, <1>4, <1>5, <1>6, <1>7 DEF ValidateStep

LEMMA SteadyMaintain ==
    ASSUME Inv,
           Maintain \/ \E v \in Checkers, u \in Units : CheckStart(v, u)
    PROVE  Steady
<1> USE DEF Inv
<1>1. CASE MaintainExhaust
  <2>1. \A x \in Units : SameUnit(x)
    BY <1>1 DEF MaintainExhaust, SameUnit, TypeOK, UnitRow
  <2> QED BY <1>1, <2>1 DEF Steady, MaintainExhaust, env, SameLimit,
      SameAttempt, SteadyCall
<1>2. CASE MaintainPick
  BY <1>2 DEF Steady, MaintainPick, tables, env, SameUnit, SameLimit,
     SameAttempt, SteadyCall
<1>3. ASSUME NEW v \in Checkers, NEW u \in Units, CheckStart(v, u) PROVE Steady
  BY <1>3 DEF Steady, CheckStart, tables, env, SameUnit, SameLimit,
     SameAttempt, SteadyCall
<1> QED BY <1>1, <1>2, <1>3 DEF Maintain

LEMMA SteadyTime == ASSUME Inv, Time, ~MonthEnds PROVE Steady
<1> USE DEF Inv
<1>1. ASSUME NEW a \in Attempts, LeaseExpires(a) PROVE Steady
  <2>1. \A b \in Attempts : SameAttempt(b)
    BY <1>1 DEF LeaseExpires, SameAttempt, TypeOK, AttemptRow
  <2> QED BY <1>1, <2>1 DEF Steady, LeaseExpires, env, procs, SameUnit,
      SameLimit, SteadyCall
<1>2. ASSUME NEW u \in Units, ClaimExpires(u) PROVE Steady
  <2>1. \A x \in Units : SameUnit(x)
    BY <1>2 DEF ClaimExpires, SameUnit, TypeOK, UnitRow
  <2> QED BY <1>2, <2>1 DEF Steady, ClaimExpires, env, procs, SameLimit,
      SameAttempt, SteadyCall
<1>3. CASE RecordRequest
  <2>1. PICK more \in {TRUE, FALSE} :
            limits' = [limits EXCEPT ![month] = Requested(@, @.traffic /\ more)]
    BY <1>3 DEF RecordRequest
  <2>2. limits[month] \in LimitRow /\ (limits[month].traffic /\ more) \in BOOLEAN
    BY DEF TypeOK
  <2> DEFINE r == Requested(limits[month], limits[month].traffic /\ more)
  <2>3. /\ r.assignments = limits[month].assignments
        /\ r.reserved = limits[month].reserved
        /\ r.budget = limits[month].budget
    BY <2>2, RequestedRow
  <2>4. ASSUME NEW w \in Months PROVE SameLimit(w)
    <3>1. limits'[w] = limits[w] \/ (w = month /\ limits'[w] = r)
      BY <2>1 DEF TypeOK
    <3> QED BY <2>3, <3>1 DEF SameLimit
  <2> QED BY <1>3, <2>4 DEF Steady, RecordRequest, env, procs, SameUnit,
      SameAttempt, SteadyCall
<1>4. CASE HealthChanges
  BY <1>4 DEF Steady, HealthChanges, tables, procs, SameUnit, SameLimit,
     SameAttempt, SteadyCall
<1> QED BY <1>1, <1>2, <1>3, <1>4 DEF Time

LEMMA SteadyOwner == ASSUME Inv, Owner PROVE Steady
<1> USE DEF Inv
<1>1. ASSUME NEW w \in Months, NEW b \in Budgets, SetBudget(w, b) PROVE Steady
  <2>1. limits[w] \in LimitRow /\ b \in Budget
    BY ConstantsOK DEF TypeOK
  <2>2. /\ Budgeted(limits[w], b).assignments = limits[w].assignments
        /\ Budgeted(limits[w], b).reserved = limits[w].reserved
        /\ Budgeted(limits[w], b).budget = b
    BY <2>1, BudgetedRow
  <2>3. ASSUME NEW x \in Months PROVE SameLimit(x)
    <3>1. limits'[x] = limits[x] \/ (x = w /\ limits'[x] = Budgeted(limits[w], b))
      BY <1>1 DEF SetBudget, TypeOK
    <3> QED BY <2>2, <3>1 DEF SameLimit
  <2> QED BY <1>1, <2>3 DEF Steady, SetBudget, env, procs, SameUnit,
      SameAttempt, SteadyCall
<1>2. ASSUME NEW u \in Units, RetryValidation(u) PROVE Steady
  <2>1. \A x \in Units : SameUnit(x)
    BY <1>2 DEF RetryValidation, SameUnit, TypeOK, UnitRow
  <2> QED BY <1>2, <2>1 DEF Steady, RetryValidation, env, procs, SameLimit,
      SameAttempt, SteadyCall
<1>3. ASSUME NEW u \in Units, ExtendDelivery(u) PROVE Steady
  <2>1. /\ Extended(unit[u]).trusted = unit[u].trusted
        /\ Extended(unit[u]).runs = unit[u].runs
        /\ Extended(unit[u]).reserved = unit[u].reserved
        /\ Extended(unit[u]).window = unit[u].window
    BY ExtendedRow DEF TypeOK
  <2>2. ASSUME NEW x \in Units PROVE SameUnit(x)
    <3>1. unit'[x] = unit[x] \/ (x = u /\ unit'[x] = Extended(unit[u]))
      BY <1>3 DEF ExtendDelivery, TypeOK
    <3> QED BY <2>1, <3>1 DEF SameUnit
  <2> QED BY <1>3, <2>2 DEF Steady, ExtendDelivery, env, procs, SameLimit,
      SameAttempt, SteadyCall
<1>4. ASSUME UNCHANGED <<attempt, unit, limits, month, call>> PROVE Steady
  BY <1>4 DEF Steady, SameUnit, SameLimit, SameAttempt, SteadyCall
<1>5. ASSUME \/ \E b \in BOOLEAN : Control(b)
             \/ \E g \in Moderated : Moderate(g)
             \/ \E P \in SUBSET Manuscript : WithdrawReport(P)
             \/ \E x \in Releases, P \in SUBSET Manuscript : RevokeRelease(x, P)
             \/ \E c \in Campaigns, t \in {"active", "paused"} : SetCampaign(c, t)
      PROVE  UNCHANGED <<attempt, unit, limits, month, call>>
  BY <1>5 DEF Control, Moderate, WithdrawReport, RevokeRelease, SetCampaign,
     tables, env, procs
<1> QED BY <1>1, <1>2, <1>3, <1>4, <1>5 DEF Owner

\* Every other step is steady.
LEMMA StepIsSteady == ASSUME Inv, [Next]_vars, ~Moves PROVE Steady
<1>1. CASE UNCHANGED vars
  BY <1>1 DEF Steady, vars, tables, env, procs, SameUnit, SameLimit,
     SameAttempt, SteadyCall
<1>2. CASE Next
  <2>1. ASSUME NEW q \in Calls, CallBegins(q) \/ CallStep(q) \/ CallLost(q)
        PROVE  Steady
    BY <2>1, SteadyRequests DEF CallBegins, CallStep, Moves
  <2>2. CASE Time
    BY <2>2, SteadyTime DEF Moves
  <2> QED BY <1>2, <2>1, <2>2, SteadyChecks, SteadyMaintain, SteadyOwner DEF Next
<1> QED BY <1>1, <1>2

-----------------------------------------------------------------------------
(* What funds a replay, and what capacity is left.                         *)

\* A unit is charged to a month that has begun, and so is a lease request.
WindowsPast ==
    /\ \A u \in Units : unit[u].reserved => unit[u].window \in 1..month
    /\ \A q \in Calls : call[q].pc = "insert" => call[q].window <= month

\* Only a unit with a reserve is replayed.
RunsOwed == \A u \in Units : unit[u].runs > 0 => unit[u].reserved

\* The reserves taken cover the replays started and the first replays owed.
Unspent == {u \in Units : unit[u].reserved /\ unit[u].runs = 0}
Funded == Total(Runs) + Cardinality(Unspent) <= Total(Reserved)

\* The budget of a month is one that was set.
BudgetsSet == \A w \in Months : limits[w].budget \in BudgetsOf(w)

FundInv ==
    /\ WindowsPast /\ RunsOwed /\ Funded /\ BudgetsSet
    /\ CapacityHeld /\ OneLeasePerGuest

LEMMA FundInit == Init => FundInv
<1> SUFFICES ASSUME Init PROVE FundInv
  OBVIOUS
<1>1. TypeOK
  BY TypeInit
<1>2. WindowsPast /\ RunsOwed
  BY DEF Init, WindowsPast, RunsOwed, NoCall, Idle
<1>3. Total(Runs) = 0 /\ Total(Reserved) = 0 /\ Total(Assignments) = 0
  <2>1. (\A u \in Units : Runs[u] = 0) /\ \A w \in Months :
            Reserved[w] = 0 /\ Assignments[w] = 0
    BY DEF Init, Runs, Reserved, Assignments
  <2> QED BY <1>1, <2>1, TableNumbers, TotalZero
<1>4. Unspent = {} /\ Issued = {} /\ Inflight = {}
  BY DEF Init, Unspent, Issued, Inflight, Live
<1>5. Cardinality({}) = 0
  BY FS_EmptySet
<1>6. ASSUME NEW w \in Months PROVE Opening[w] \in BudgetsOf(w) /\ Opening[w] \in Budget
  BY ConstantsOK DEF BudgetsOf
<1>7. 1 \in Months
  BY ConstantsOK DEF Months
<1>8. \A b \in Budget : b.maxAssignments >= 0 /\ b.maxReserved >= 0 /\ b.maxInflight >= 0
  BY DEF Budget
<1>9. \A w \in Months : limits[w].assignments = 0 /\ limits[w].reserved = 0
  BY DEF Init
<1>10. CapacityHeld
  <2>1. Total(Assignments) = Cardinality(Issued)
    BY <1>3, <1>4, <1>5
  <2>2. \A w \in Months :
            \E b \in BudgetsOf(w) : limits[w].assignments <= b.maxAssignments
    BY <1>6, <1>8, <1>9
  <2>3. \E b \in BudgetsOf(1) : limits[1].reserved <= b.maxReserved
    BY <1>6, <1>7, <1>8, <1>9
  <2>4. \E w \in Months : \E b \in BudgetsOf(w) :
            Cardinality(Inflight) <= b.maxInflight
    BY <1>4, <1>5, <1>6, <1>7, <1>8
  <2> QED BY <2>1, <2>2, <2>3, <2>4 DEF CapacityHeld
<1>11. OneLeasePerGuest
  BY <1>4 DEF OneLeasePerGuest
<1>12. BudgetsSet
  BY DEF Init, BudgetsSet, BudgetsOf
<1> QED BY <1>2, <1>3, <1>4, <1>5, <1>10, <1>11, <1>12 DEF FundInv, Funded

\* What steps that hand out nothing leave of capacity: the assignments are as
\* they were, no lease comes back, and the first month reserves no more.
LEMMA CapacityRests ==
    ASSUME TypeOK, TypeOK', CapacityHeld, OneLeasePerGuest,
           \A w \in Months : limits'[w].assignments = limits[w].assignments,
           limits'[1].reserved = limits[1].reserved,
           \A a \in Attempts : SameAttempt(a)
    PROVE  CapacityHeld' /\ OneLeasePerGuest'
<1>1. Inflight' \subseteq Inflight /\ Issued' = Issued
  BY DEF SameAttempt, Inflight, Live, Issued
<1>2. Assignments' = Assignments
  BY DEF Assignments
<1>3. /\ IsFiniteSet(Inflight) /\ Cardinality(Inflight') <= Cardinality(Inflight)
      /\ Cardinality(Inflight) \in Nat /\ Cardinality(Inflight') \in Nat
  BY <1>1, FiniteTables, FS_Subset, FS_CardinalityType DEF Inflight
<1>4. OneLeasePerGuest'
  BY <1>1 DEF OneLeasePerGuest
<1>5. Total(Assignments)' = Cardinality(Issued)'
  BY <1>1, <1>2 DEF CapacityHeld, Total
<1>6. \A w \in Months : \A b \in BudgetsOf(w) : b.maxInflight \in Nat
  BY ConstantsOK DEF BudgetsOf, Budget
<1>7. \E w \in Months : \E b \in BudgetsOf(w) :
            Cardinality(Inflight') <= b.maxInflight
  BY <1>3, <1>6 DEF CapacityHeld
<1>8. \A w \in Months :
        \E b \in BudgetsOf(w) : limits'[w].assignments <= b.maxAssignments
  BY DEF CapacityHeld
<1>9. \E b \in BudgetsOf(1) : limits'[1].reserved <= b.maxReserved
  BY DEF CapacityHeld
<1> QED BY <1>4, <1>5, <1>7, <1>8, <1>9 DEF CapacityHeld, BudgetsOf

LEMMA SteadyFunds ==
    ASSUME TypeOK, TypeOK', FundInv, Steady
    PROVE  FundInv'
<1>1. Runs' = Runs /\ Unspent' = Unspent /\ Reserved' = Reserved
  BY DEF Steady, SameUnit, SameLimit, Runs, Unspent, Reserved
<1>2. Funded'
  BY <1>1 DEF FundInv, Funded, Total
<1>3. WindowsPast' /\ RunsOwed'
  <2>1. \A u \in Units : unit'[u].reserved => unit'[u].window \in 1..month'
    BY DEF Steady, SameUnit, FundInv, WindowsPast
  <2>2. \A q \in Calls : call'[q].pc = "insert" => call'[q].window <= month'
    <3>1. month \in Nat /\ month <= month
      BY DEF TypeOK, Months
    <3> QED BY <3>1 DEF Steady, SteadyCall, FundInv, WindowsPast
  <2>3. RunsOwed'
    BY DEF Steady, SameUnit, FundInv, RunsOwed
  <2> QED BY <2>1, <2>2, <2>3 DEF WindowsPast
<1>4. 1 \in Months
  BY ConstantsOK DEF Months
<1>5. CapacityHeld' /\ OneLeasePerGuest'
  BY <1>4, CapacityRests DEF Steady, SameLimit, FundInv
<1>6. BudgetsSet'
  BY DEF Steady, SameLimit, FundInv, BudgetsSet, BudgetsOf
<1> QED BY <1>2, <1>3, <1>5, <1>6 DEF FundInv

\* Carrying obligations: the month takes them over, and no older one forgets.
LEMMA CarryFunds ==
    ASSUME TypeOK, TypeOK', FundInv, ReserveWindow(month),
           attempt' = attempt, month' = month,
           \A q \in Calls : call'[q].pc = "insert" => call'[q] = call[q]
    PROVE  FundInv'
<1>0. month \in Months /\ month \in 1..month /\ 1 \in Months
  BY ConstantsOK DEF TypeOK, Months
<1>1. /\ \A u \in Units :
            /\ unit'[u].reserved = unit[u].reserved
            /\ unit'[u].runs = unit[u].runs
            /\ unit'[u].window
                = IF u \in Obligations(month) THEN month ELSE unit[u].window
      /\ \A x \in Months :
            /\ limits'[x].assignments = limits[x].assignments
            /\ limits'[x].reserved = limits[x].reserved
                + IF x = month THEN Cardinality(Obligations(month)) ELSE 0
            /\ limits'[x].budget = limits[x].budget
      /\ Cardinality(Obligations(month)) \in Nat
  BY <1>0, CarryEffect
<1>2. Runs' = Runs /\ Unspent' = Unspent
  BY <1>1 DEF Runs, Unspent
<1>3. Total(Reserved) <= Total(Reserved')
  <2>1. Reserved \in [Months -> Nat] /\ Reserved' \in [Months -> Nat]
    BY TableNumbers, TableNumbersNext
  <2>2. \A x \in Months : Reserved[x] <= Reserved'[x]
    <3>1. \A x \in Months : limits[x].reserved \in Nat
      BY DEF TypeOK, LimitRow
    <3> QED BY <1>1, <3>1 DEF Reserved
  <2> QED BY <2>1, <2>2, FiniteMonths, TotalGrows
<1>4. Funded'
  <2>1. Total(Runs) \in Nat /\ Total(Reserved) \in Nat /\ Total(Reserved') \in Nat
    BY TableNumbers, TableNumbersNext, FiniteMonths, FiniteTables, PairsFinite
  <2>2. Cardinality(Unspent) \in Nat
    BY FiniteTables DEF Unspent
  <2>3. Total(Runs) + Cardinality(Unspent) <= Total(Reserved)
    BY DEF FundInv, Funded
  <2>4. Total(Runs) + Cardinality(Unspent) <= Total(Reserved')
    BY <1>3, <2>1, <2>2, <2>3
  <2> QED BY <1>2, <2>4 DEF Funded, Total
<1>5. WindowsPast'
  BY <1>0, <1>1 DEF FundInv, WindowsPast
<1>6. RunsOwed' /\ BudgetsSet'
  BY <1>1 DEF FundInv, RunsOwed, BudgetsSet, BudgetsOf
<1>7. limits'[1].reserved = limits[1].reserved
  <2>1. ASSUME month = 1 PROVE Cardinality(Obligations(month)) = 0
    <3>1. Obligations(month) = {}
      BY <2>1 DEF Obligations, FundInv, WindowsPast
    <3> QED BY <3>1, FS_EmptySet
  <2>2. limits[1].reserved \in Nat
    BY <1>0 DEF TypeOK, LimitRow
  <2> QED BY <1>0, <1>1, <2>1, <2>2
<1>8. CapacityHeld' /\ OneLeasePerGuest'
  BY <1>1, <1>7, CapacityRests DEF SameAttempt, FundInv
<1> QED BY <1>4, <1>5, <1>6, <1>8 DEF FundInv

\* The month ends.
LEMMA MonthFunds ==
    ASSUME TypeOK, TypeOK', FundInv, MonthEnds
    PROVE  FundInv'
<1>1. month \in Nat /\ month' = month + 1
  BY DEF MonthEnds, TypeOK, Months
<1>2. Runs' = Runs /\ Unspent' = Unspent /\ Reserved' = Reserved
  BY DEF MonthEnds, tables, Runs, Unspent, Reserved
<1>3. Funded'
  BY <1>2 DEF FundInv, Funded, Total
<1>4. WindowsPast'
  <2>1. \A u \in Units : unit[u].window \in Nat
    BY DEF TypeOK, UnitRow
  <2>2. \A q \in Calls : call[q].pc = "insert" => call[q].window \in Nat
    BY CallShape DEF Months
  <2> QED BY <1>1, <2>1, <2>2 DEF MonthEnds, tables, procs, FundInv, WindowsPast
<1>5. RunsOwed' /\ BudgetsSet'
  BY DEF MonthEnds, tables, FundInv, RunsOwed, BudgetsSet, BudgetsOf
<1>6. CapacityHeld' /\ OneLeasePerGuest'
  BY CapacityRests DEF MonthEnds, tables, SameAttempt, FundInv
<1> QED BY <1>3, <1>4, <1>5, <1>6 DEF FundInv

\* A lease request that finds a unit.
LEMMA HandOutFunds ==
    ASSUME TypeOK, TypeOK', FundInv, NEW g \in Guests, NEW w \in Months,
           w <= month, NEW u \in Assignable(g, w), Insert(g, w, u),
           month' = month,
           \A q \in Calls : call'[q].pc = "insert" => call'[q] = call[q]
    PROVE  FundInv'
<1> DEFINE a == <<u, g>>
<1>1. /\ u \in Units /\ a \in Attempts
      /\ \A x \in Units : x # u => unit'[x] = unit[x]
      /\ unit'[u].reserved = TRUE /\ unit'[u].window = w
      /\ unit'[u].runs = unit[u].runs
      /\ unit'[u].trusted = unit[u].trusted
      /\ \A x \in Months :
            /\ limits'[x].assignments = limits[x].assignments + IF x = w THEN 1 ELSE 0
            /\ limits'[x].reserved = limits[x].reserved + IF x = w THEN Cost(u) ELSE 0
            /\ limits'[x].budget = limits[x].budget
      /\ attempt[a].state = "none"
      /\ attempt'[a].state = "leased"
      /\ \A b \in Attempts : b # a => attempt'[b] = attempt[b]
      /\ Cost(u) \in Nat
  BY InsertEffect
<1>2. /\ limits[w].assignments < limits[w].budget.maxAssignments
      /\ limits[w].reserved + Cost(u) <= limits[w].budget.maxReserved
      /\ Cardinality(Inflight) < limits[w].budget.maxInflight
      /\ \A b \in Inflight : b[2] # g
  BY DEF Assignable, Room, FreeGuest
<1>3. \A x \in Months :
        /\ limits[x].assignments \in Nat /\ limits[x].reserved \in Nat
        /\ limits[x].budget.maxAssignments \in Nat
        /\ limits[x].budget.maxInflight \in Nat
  BY DEF TypeOK, LimitRow, Budget
<1>4. Runs' = Runs
  BY <1>1 DEF Runs
<1>5. Total(Reserved') = Total(Reserved) + Cost(u)
  <2>1. Reserved \in [Months -> Nat] /\ Reserved' \in [Months -> Nat]
    BY TableNumbers, TableNumbersNext
  <2>2. /\ Reserved'[w] = Reserved[w] + Cost(u)
        /\ \A x \in Months \ {w} : Reserved'[x] = Reserved[x]
    BY <1>1, <1>3 DEF Reserved
  <2>3. w \in Months /\ Cost(u) \in Nat
    BY <1>1
  <2> QED BY <2>1, <2>2, <2>3, FiniteMonths, TotalAdds
<1>6. /\ Cardinality(Unspent') \in Nat /\ Cardinality(Unspent) \in Nat
      /\ Cardinality(Unspent') <= Cardinality(Unspent) + Cost(u)
  <2>1. Unspent \subseteq Units /\ Unspent' \subseteq Units
    BY DEF Unspent
  <2>2. /\ IsFiniteSet(Unspent)
        /\ Cardinality(Unspent') \in Nat /\ Cardinality(Unspent) \in Nat
    BY <2>1, FiniteTables, FS_Subset
  <2>3. CASE unit[u].reserved
    <3>1. Unspent' = Unspent
      BY <1>1, <2>3 DEF Unspent
    <3> QED BY <1>1, <2>2, <3>1
  <2>4. CASE ~unit[u].reserved
    <3>1. unit[u].runs = 0
      <4>1. unit[u].runs \in Nat
        BY <1>1 DEF TypeOK, UnitRow
      <4> QED BY <1>1, <2>4, <4>1 DEF FundInv, RunsOwed
    <3>2. Unspent' = Unspent \cup {u} /\ u \notin Unspent
      BY <1>1, <2>4, <3>1 DEF Unspent
    <3>3. Cost(u) = 1
      BY <2>4 DEF Cost
    <3>4. Cardinality(Unspent \cup {u}) = Cardinality(Unspent) + 1
      BY <2>2, <3>2, FS_AddElement
    <3>5. Cardinality(Unspent') = Cardinality(Unspent) + 1
      BY <3>2, <3>4
    <3> QED BY <2>2, <3>3, <3>5
  <2> QED BY <2>3, <2>4
<1>7. Funded'
  <2>1. Total(Runs) \in Nat /\ Total(Reserved) \in Nat
    BY TableNumbers, FiniteMonths, FiniteTables, PairsFinite
  <2>2. Total(Runs) + Cardinality(Unspent) <= Total(Reserved)
    BY DEF FundInv, Funded
  <2>3. Total(Runs) + Cardinality(Unspent') <= Total(Reserved')
    BY <1>1, <1>5, <1>6, <2>1, <2>2
  <2> QED BY <1>4, <2>3 DEF Funded, Total
<1>8. WindowsPast' /\ RunsOwed' /\ BudgetsSet'
  <2>1. w \in 1..month
    BY DEF Months, TypeOK
  <2>2. WindowsPast'
    BY <1>1, <2>1 DEF FundInv, WindowsPast
  <2> QED BY <1>1, <2>2 DEF FundInv, RunsOwed, BudgetsSet, BudgetsOf
<1>9. /\ Issued' = Issued \cup {a} /\ a \notin Issued
      /\ Inflight' \subseteq Inflight \cup {a}
  BY <1>1 DEF Issued, Inflight, Live
<1>10. Total(Assignments') = Cardinality(Issued')
  <2>1. Assignments \in [Months -> Nat] /\ Assignments' \in [Months -> Nat]
    BY TableNumbers, TableNumbersNext
  <2>2. /\ Assignments'[w] = Assignments[w] + 1
        /\ \A x \in Months \ {w} : Assignments'[x] = Assignments[x]
    BY <1>1, <1>3 DEF Assignments
  <2>3. Total(Assignments') = Total(Assignments) + 1
    BY <2>1, <2>2, FiniteMonths, TotalAdds
  <2>4. IsFiniteSet(Issued)
    BY FiniteTables, FS_Subset DEF Issued
  <2>5. Cardinality(Issued') = Cardinality(Issued) + 1
    BY <1>9, <2>4, FS_AddElement
  <2> QED BY <2>3, <2>5 DEF FundInv, CapacityHeld
<1>11. Cardinality(Inflight') <= limits[w].budget.maxInflight
  <2>1. IsFiniteSet(Inflight) /\ Cardinality(Inflight) \in Nat
    BY FiniteTables, FS_Subset DEF Inflight
  <2>2. /\ IsFiniteSet(Inflight \cup {a})
        /\ Cardinality(Inflight \cup {a}) \in {Cardinality(Inflight), Cardinality(Inflight) + 1}
    BY <2>1, FS_AddElement
  <2>3. /\ Cardinality(Inflight') <= Cardinality(Inflight \cup {a})
        /\ Cardinality(Inflight') \in Nat
    BY <1>9, <2>2, FS_Subset, FS_CardinalityType
  <2> QED BY <1>2, <1>3, <2>1, <2>2, <2>3
<1>12. CapacityHeld'
  <2>1. limits[w].budget \in BudgetsOf(w)
    BY DEF FundInv, BudgetsSet
  <2>2. ASSUME NEW x \in Months
        PROVE  \E b \in BudgetsOf(x) : limits'[x].assignments <= b.maxAssignments
    <3>1. CASE x = w
      <4>1. limits'[w].assignments <= limits[w].budget.maxAssignments
        BY <1>1, <1>2, <1>3
      <4> QED BY <2>1, <3>1, <4>1
    <3>2. CASE x # w
      BY <1>1, <1>3, <3>2 DEF FundInv, CapacityHeld
    <3> QED BY <3>1, <3>2
  <2>3. \E b \in BudgetsOf(1) : limits'[1].reserved <= b.maxReserved
    <3>1. 1 \in Months
      BY ConstantsOK DEF Months
    <3>2. CASE w = 1
      BY <1>1, <1>2, <2>1, <3>1, <3>2
    <3>3. CASE w # 1
      BY <1>1, <1>3, <3>1, <3>3 DEF FundInv, CapacityHeld
    <3> QED BY <3>2, <3>3
  <2>4. \E x \in Months : \E b \in BudgetsOf(x) :
            Cardinality(Inflight') <= b.maxInflight
    BY <1>11, <2>1
  <2> QED BY <1>10, <2>2, <2>3, <2>4 DEF CapacityHeld, BudgetsOf, Total
<1>13. OneLeasePerGuest'
  <2>1. ASSUME NEW b \in Inflight', NEW c \in Inflight', b[2] = c[2] PROVE b = c
    <3>1. a[2] = g
      OBVIOUS
    <3>2. (b \in Inflight \/ b = a) /\ (c \in Inflight \/ c = a)
      BY <1>9
    <3> HIDE DEF a
    <3>3. CASE b \in Inflight /\ c \in Inflight
      BY <2>1, <3>3 DEF FundInv, OneLeasePerGuest
    <3> QED BY <1>2, <2>1, <3>1, <3>2, <3>3
  <2> QED BY <2>1 DEF OneLeasePerGuest
<1> QED BY <1>7, <1>8, <1>12, <1>13 DEF FundInv

LEMMA InsertFunds ==
    ASSUME TypeOK, TypeOK', FundInv, NEW q \in Calls, LeaseInsert(q)
    PROVE  FundInv'
<1> DEFINE g == call[q].guest
           w == call[q].window
<1>1. g \in Guests /\ w \in Months /\ w <= month
  BY CallShape DEF LeaseInsert, FundInv, WindowsPast
<1>2. /\ month' = month
      /\ \A p \in Calls : call'[p].pc \in {"check", "insert"} => call'[p] = call[p]
  BY DEF LeaseInsert, env, TypeOK, NoCall, Idle
<1>3. CASE UNCHANGED <<attempt, limits, unit>>
  <2>1. Steady
    BY <1>2, <1>3 DEF Steady, SameUnit, SameLimit, SameAttempt, SteadyCall
  <2> QED BY <2>1, SteadyFunds
<1>4. ASSUME NEW u \in Assignable(g, w), Insert(g, w, u) PROVE FundInv'
  BY <1>1, <1>2, <1>4, HandOutFunds
<1> QED BY <1>3, <1>4 DEF LeaseInsert

\* A claim: the first replay spends the reserve of its unit, a later one is
\* charged to the month.
LEMMA ClaimFunds ==
    ASSUME TypeOK, TypeOK', FundInv, NEW v \in Validators,
           CheckClaim(v), Claimable(check[v].unit)
    PROVE  FundInv'
<1> DEFINE u == check[v].unit
<1>0. month \in Months /\ 1 \in Months /\ month' = month /\ call' = call
      /\ attempt' = attempt
  BY ConstantsOK DEF TypeOK, Months, CheckClaim, env
<1>1. /\ u \in Units
      /\ \A x \in Units : x # u => unit'[x] = unit[x]
      /\ unit'[u].runs = unit[u].runs + 1
      /\ unit'[u].reserved = unit[u].reserved
      /\ unit'[u].window = unit[u].window
      /\ unit'[u].trusted = unit[u].trusted
      /\ unit[u].reserved
      /\ \A x \in Months :
            /\ limits'[x].assignments = limits[x].assignments
            /\ limits'[x].reserved
                = limits[x].reserved + IF x = month THEN RetryCharge(u) ELSE 0
            /\ limits'[x].budget = limits[x].budget
      /\ RetryCharge(u) \in Nat
  BY ClaimEffect
<1> HIDE DEF u
<1>2. /\ \A x \in Units : unit[x].runs \in Nat
      /\ \A x \in Months : limits[x].reserved \in Nat
  BY DEF TypeOK, UnitRow, LimitRow
<1>3. Total(Runs') = Total(Runs) + 1
  <2>1. Runs \in [Units -> Nat] /\ Runs' \in [Units -> Nat]
    BY TableNumbers, TableNumbersNext
  <2>2. Runs'[u] = Runs[u] + 1 /\ \A x \in Units \ {u} : Runs'[x] = Runs[x]
    BY <1>1, <1>2 DEF Runs
  <2>3. u \in Units
    BY <1>1
  <2> QED BY <2>1, <2>2, <2>3, FiniteTables, TotalAdds
<1>4. Total(Reserved') = Total(Reserved) + RetryCharge(u)
  <2>1. Reserved \in [Months -> Nat] /\ Reserved' \in [Months -> Nat]
    BY TableNumbers, TableNumbersNext
  <2>2. /\ Reserved'[month] = Reserved[month] + RetryCharge(u)
        /\ \A x \in Months \ {month} : Reserved'[x] = Reserved[x]
    BY <1>0, <1>1, <1>2 DEF Reserved
  <2>3. month \in Months /\ RetryCharge(u) \in Nat
    BY <1>0, <1>1
  <2> QED BY <2>1, <2>2, <2>3, FiniteMonths, TotalAdds
<1>5. /\ Cardinality(Unspent) \in Nat /\ Cardinality(Unspent') \in Nat
      /\ Cardinality(Unspent') + 1 = Cardinality(Unspent) + RetryCharge(u)
  <2>1. Unspent \subseteq Units /\ Unspent' \subseteq Units
    BY DEF Unspent
  <2>2. /\ IsFiniteSet(Unspent)
        /\ Cardinality(Unspent') \in Nat /\ Cardinality(Unspent) \in Nat
    BY <2>1, FiniteTables, FS_Subset
  <2>3. CASE unit[u].runs = 0
    <3>1. Unspent' = Unspent \ {u} /\ u \in Unspent
      BY <1>1, <1>2, <2>3 DEF Unspent
    <3>2. Cardinality(Unspent \ {u}) = Cardinality(Unspent) - 1
      BY <2>2, <3>1, FS_RemoveElement
    <3>3. Cardinality(Unspent') = Cardinality(Unspent) - 1
      BY <3>1, <3>2
    <3>4. RetryCharge(u) = 0
      BY <2>3 DEF RetryCharge
    <3> QED BY <2>2, <3>3, <3>4
  <2>4. CASE unit[u].runs # 0
    <3>1. Unspent' = Unspent
      BY <1>1, <1>2, <2>4 DEF Unspent
    <3>2. RetryCharge(u) = 1
      BY <1>1, <1>2, <2>4 DEF RetryCharge
    <3> QED BY <2>2, <3>1, <3>2
  <2> QED BY <2>3, <2>4
<1>6. Funded'
  <2>1. Total(Runs) \in Nat /\ Total(Reserved) \in Nat
    BY TableNumbers, FiniteMonths, FiniteTables, PairsFinite
  <2>2. Total(Runs) + Cardinality(Unspent) <= Total(Reserved)
    BY DEF FundInv, Funded
  <2>3. Total(Runs') + Cardinality(Unspent') <= Total(Reserved')
    BY <1>1, <1>3, <1>4, <1>5, <2>1, <2>2
  <2> QED BY <2>3 DEF Funded, Total
<1>7. WindowsPast' /\ RunsOwed' /\ BudgetsSet'
  BY <1>0, <1>1, <1>2 DEF FundInv, WindowsPast, RunsOwed, BudgetsSet, BudgetsOf
<1>8. CapacityHeld' /\ OneLeasePerGuest'
  <2>1. CASE month = 1 /\ RetryCharge(u) # 0
    <3>1. limits'[1].reserved <= limits[1].budget.maxReserved
      <4>1. RetryCharge(u) = 1 /\ unit[u].runs # 0
        BY <1>1, <1>2, <2>1 DEF RetryCharge
      <4>2. limits[1].reserved + 1 <= limits[1].budget.maxReserved
        BY <2>1, <4>1 DEF Claimable, Fits, u
      <4> QED BY <1>0, <1>1, <2>1, <4>1, <4>2
    <3>2. \E b \in BudgetsOf(1) : limits'[1].reserved <= b.maxReserved
      BY <1>0, <3>1 DEF FundInv, BudgetsSet
    <3>3. Assignments' = Assignments /\ Issued' = Issued /\ Inflight' = Inflight
      BY <1>0, <1>1 DEF Assignments, Issued, Inflight, Live
    <3>4. CapacityHeld'
      BY <1>1, <3>2, <3>3 DEF FundInv, CapacityHeld, BudgetsOf, Total
    <3> QED BY <3>3, <3>4 DEF FundInv, OneLeasePerGuest
  <2>2. CASE month # 1 \/ RetryCharge(u) = 0
    <3>1. limits'[1].reserved = limits[1].reserved
      BY <1>0, <1>1, <1>2, <2>2
    <3> QED BY <1>0, <1>1, <3>1, CapacityRests DEF SameAttempt, FundInv
  <2> QED BY <2>1, <2>2
<1> QED BY <1>6, <1>7, <1>8 DEF FundInv

LEMMA FundNext == ASSUME Inv, TypeOK', FundInv, [Next]_vars PROVE FundInv'
<1>0. TypeOK
  BY DEF Inv
<1>1. CASE ~Moves
  BY <1>0, <1>1, StepIsSteady, SteadyFunds
<1>2. ASSUME NEW q \in Calls, NEW g \in Guests, LeaseStart(q, g) PROVE FundInv'
  <2>1. \A p \in Calls : call'[p].pc = "insert" => call'[p] = call[p]
    BY <1>0, <1>2 DEF LeaseStart, TypeOK
  <2> QED BY <1>0, <1>2, <2>1, CarryFunds DEF LeaseStart, env
<1>3. ASSUME NEW q \in Calls, LeaseInsert(q) PROVE FundInv'
  BY <1>0, <1>3, InsertFunds
<1>4. ASSUME NEW v \in Validators, CheckBegin(v), ReserveWindow(month)
      PROVE  FundInv'
  BY <1>0, <1>4, CarryFunds DEF CheckBegin, env
<1>5. ASSUME NEW v \in Validators, CheckClaim(v), Claimable(check[v].unit)
      PROVE  FundInv'
  BY <1>0, <1>5, ClaimFunds
<1>6. CASE MonthEnds
  BY <1>0, <1>6, MonthFunds
<1> QED BY <1>1, <1>2, <1>3, <1>4, <1>5, <1>6 DEF Moves

\* Months hold their charges in order, and what ran or is owed was reserved, in every state.
THEOREM FundInvariance == Spec => []FundInv
<1>1. Inv /\ FundInv /\ [Next]_vars => Inv' /\ FundInv'
  <2> SUFFICES ASSUME Inv, FundInv, [Next]_vars PROVE Inv' /\ FundInv'
    OBVIOUS
  <2>1. Inv'
    BY InvNext
  <2>2. TypeOK'
    BY <2>1 DEF Inv
  <2> QED BY <2>1, <2>2, FundNext
<1> QED BY <1>1, InvInit, FundInit, PTL DEF Spec

\* Simultaneous clients never spend the same capacity (coordinator.ts lease).
THEOREM CapacityCorrect == Spec => []CapacityHeld
<1>1. FundInv => CapacityHeld
  BY DEF FundInv
<1> QED BY <1>1, FundInvariance, PTL

\* However many requests it makes at once, a guest never holds two live leases (lease).
THEOREM LeasesCorrect == Spec => []OneLeasePerGuest
<1>1. FundInv => OneLeasePerGuest
  BY DEF FundInv
<1> QED BY <1>1, FundInvariance, PTL

\* Every trusted replay that ever started was reserved in some month (reserveWindow, validateUnit).
THEOREM ReplaysFunded == Spec => []EveryReplayFunded
<1>1. TypeOK /\ FundInv => EveryReplayFunded
  <2> SUFFICES ASSUME TypeOK, FundInv PROVE EveryReplayFunded
    OBVIOUS
  <2>1. Total(Runs) \in Nat /\ Total(Reserved) \in Nat
    BY TableNumbers, FiniteMonths, FiniteTables, PairsFinite
  <2>2. Cardinality(Unspent) \in Nat
    BY FiniteTables DEF Unspent
  <2> QED BY <2>1, <2>2 DEF FundInv, Funded, EveryReplayFunded
<1> QED BY <1>1, FundInvariance, TypeCorrect, PTL

-----------------------------------------------------------------------------
(* Reserves that follow the months.  That a lease request charges the month *)
(* it is answered in needs QuietRollover: without it a request may still    *)
(* charge the month that has just ended.                                    *)

\* Requests work on the current month, which owes nothing to earlier ones
\* while they do, and no later month has a reserve yet.
Current ==
    /\ \A q \in Calls : call[q].pc = "insert" => call[q].window = month
    /\ \A q \in Calls :
            call[q].pc \in {"check", "insert"} => Obligations(month) = {}
    /\ \A w \in Months : w > month => limits[w].reserved = 0

\* The month holds one reserve per unit charged to it and per extra replay.
ChargedNow == {u \in Units : unit[u].reserved /\ unit[u].window = month}
CarriedNow ==
    limits[month].reserved <= Cardinality(ChargedNow) + Total(Retries)

RollInv == Current /\ CarriedNow /\ CarriedOnce /\ ObligationsFunded

LEMMA RollInit == Init => RollInv
<1> SUFFICES ASSUME Init PROVE RollInv
  OBVIOUS
<1>1. TypeOK
  BY TypeInit
<1>2. Current
  BY DEF Init, Current, NoCall, Idle
<1>3. OwedNow = {}
  BY DEF Init, OwedNow
<1>4. \A w \in Months : limits[w].reserved = 0
  BY DEF Init
<1>5. /\ Cardinality(OwedNow) = 0 /\ Cardinality(ChargedNow) \in Nat
      /\ Cardinality(LeasedUnits) \in Nat /\ Total(Retries) \in Nat
      /\ month \in Months
  BY <1>1, <1>3, FS_EmptySet, FiniteTables, TableNumbers, PairsFinite
     DEF ChargedNow, LeasedUnits
<1>6. CarriedNow /\ CarriedOnce /\ ObligationsFunded
  BY <1>4, <1>5 DEF CarriedNow, CarriedOnce, ObligationsFunded
<1> QED BY <1>2, <1>6 DEF RollInv

\* The numbers of a step that charges k to the month: for the units S that are
\* newly charged to it, and for r more retries.
LEMMA MonthCharged ==
    ASSUME TypeOK, TypeOK', RollInv, month' = month,
           NEW k \in Nat, NEW r \in Nat, NEW S \in SUBSET Units,
           \A x \in Months : limits'[x].reserved
                = limits[x].reserved + IF x = month THEN k ELSE 0,
           k <= Cardinality(S) + r, Cardinality(S) <= k,
           S \cap ChargedNow = {}, ChargedNow \cup S \subseteq ChargedNow',
           OwedNow' \subseteq OwedNow \cup S,
           LeasedUnits \subseteq LeasedUnits',
           Total(Retries') = Total(Retries) + r
    PROVE  CarriedNow' /\ CarriedOnce' /\ ObligationsFunded'
<1>1. /\ month \in Months /\ Total(Retries) \in Nat /\ Total(Retries') \in Nat
      /\ \A x \in Months : limits[x].reserved \in Nat
  BY TableNumbers, TableNumbersNext, FiniteTables, PairsFinite DEF TypeOK, LimitRow
<1>2. /\ ChargedNow \subseteq Units /\ OwedNow \subseteq Units
      /\ LeasedUnits' \subseteq Units /\ ChargedNow' \subseteq LeasedUnits'
      /\ ChargedNow' \subseteq Units
  BY DEF ChargedNow, OwedNow, LeasedUnits
<1>3. /\ IsFiniteSet(ChargedNow) /\ IsFiniteSet(OwedNow) /\ IsFiniteSet(S)
      /\ IsFiniteSet(LeasedUnits') /\ IsFiniteSet(ChargedNow')
      /\ Cardinality(ChargedNow) \in Nat /\ Cardinality(OwedNow) \in Nat
      /\ Cardinality(S) \in Nat /\ Cardinality(LeasedUnits') \in Nat
      /\ Cardinality(ChargedNow') \in Nat
  BY <1>2, FiniteTables, FS_Subset, FS_CardinalityType
<1>4. Cardinality(ChargedNow) + Cardinality(S) <= Cardinality(ChargedNow')
  <2>1. Cardinality(ChargedNow \cap S) = 0
    <3>1. ChargedNow \cap S = {}
      OBVIOUS
    <3> QED BY <3>1, FS_EmptySet
  <2>2. Cardinality(ChargedNow \cup S) = Cardinality(ChargedNow) + Cardinality(S)
    <3>1. Cardinality(ChargedNow \cup S)
            = Cardinality(ChargedNow) + Cardinality(S) - Cardinality(ChargedNow \cap S)
      BY <1>3, FS_Union
    <3> QED BY <1>3, <2>1, <3>1
  <2>3. Cardinality(ChargedNow \cup S) <= Cardinality(ChargedNow')
    BY <1>3, FS_Subset
  <2> QED BY <2>2, <2>3
<1>5. Cardinality(OwedNow') <= Cardinality(OwedNow) + Cardinality(S)
  <2>1. /\ IsFiniteSet(OwedNow \cup S)
        /\ Cardinality(OwedNow \cup S) <= Cardinality(OwedNow) + Cardinality(S)
    <3>1. Cardinality(OwedNow \cap S) \in Nat
      <4>1. OwedNow \cap S \subseteq Units
        OBVIOUS
      <4> QED BY <4>1, FiniteTables
    <3>2. /\ IsFiniteSet(OwedNow \cup S)
          /\ Cardinality(OwedNow \cup S)
                = Cardinality(OwedNow) + Cardinality(S) - Cardinality(OwedNow \cap S)
      BY <1>3, FS_Union
    <3> QED BY <1>3, <3>1, <3>2
  <2>2. /\ Cardinality(OwedNow') <= Cardinality(OwedNow \cup S)
        /\ Cardinality(OwedNow \cup S) \in Nat /\ Cardinality(OwedNow') \in Nat
    BY <2>1, FS_Subset, FS_CardinalityType
  <2> QED BY <1>3, <2>1, <2>2
<1>6. Cardinality(OwedNow') \in Nat
  BY FiniteTables DEF OwedNow
<1>7. CarriedNow'
  <2>1. limits[month].reserved <= Cardinality(ChargedNow) + Total(Retries)
    BY DEF RollInv, CarriedNow
  <2>2. limits'[month].reserved <= Cardinality(ChargedNow') + Total(Retries')
    BY <1>1, <1>3, <1>4, <2>1
  <2> QED BY <2>2 DEF CarriedNow, Total
<1>8. ObligationsFunded'
  <2>1. Cardinality(OwedNow) <= limits[month].reserved
    BY DEF RollInv, ObligationsFunded
  <2>2. Cardinality(OwedNow') <= limits'[month].reserved
    BY <1>1, <1>3, <1>5, <1>6, <2>1
  <2> QED BY <2>2 DEF ObligationsFunded
<1>9. CarriedOnce'
  <2>1. Cardinality(LeasedUnits) \in Nat
        /\ Cardinality(LeasedUnits) <= Cardinality(LeasedUnits')
        /\ Cardinality(ChargedNow') <= Cardinality(LeasedUnits')
    BY <1>2, <1>3, FS_Subset, FiniteTables DEF LeasedUnits
  <2>2. ASSUME NEW w \in Months
        PROVE  limits'[w].reserved <= Cardinality(LeasedUnits') + Total(Retries')
    <3>1. CASE w = month
      <4>1. limits'[month].reserved <= Cardinality(ChargedNow') + Total(Retries')
        BY <1>7 DEF CarriedNow, Total
      <4>2. limits'[month].reserved \in Nat
        BY <1>1
      <4> QED BY <1>1, <1>3, <2>1, <3>1, <4>1, <4>2
    <3>2. CASE w # month
      <4>1. limits[w].reserved <= Cardinality(LeasedUnits) + Total(Retries)
        BY DEF RollInv, CarriedOnce
      <4> QED BY <1>1, <1>3, <2>1, <3>2, <4>1
    <3> QED BY <3>1, <3>2
  <2> QED BY <2>2 DEF CarriedOnce, Total
<1> QED BY <1>7, <1>8, <1>9

LEMMA SteadyRolls ==
    ASSUME TypeOK, TypeOK', FundInv, RollInv, Steady PROVE RollInv'
<1>1. /\ ChargedNow' = ChargedNow /\ OwedNow' \subseteq OwedNow
      /\ LeasedUnits' = LeasedUnits /\ Retries' = Retries
      /\ Obligations(month)' \subseteq Obligations(month)
  BY DEF Steady, SameUnit, ChargedNow, OwedNow, LeasedUnits, Retries, Obligations
<1>2. Current'
  BY <1>1 DEF Steady, SteadyCall, SameLimit, RollInv, Current
<1>3. Cardinality({}) = 0
  BY FS_EmptySet
<1>4. \A x \in Months : limits'[x].reserved
            = limits[x].reserved + IF x = month THEN 0 ELSE 0
  <2>1. \A x \in Months : limits[x].reserved \in Nat
    BY DEF TypeOK, LimitRow
  <2> QED BY <2>1 DEF Steady, SameLimit
<1>5. Total(Retries') = Total(Retries) + 0
  BY <1>1, TableNumbers, FiniteTables, PairsFinite
<1>6. CarriedNow' /\ CarriedOnce' /\ ObligationsFunded'
  BY <1>1, <1>3, <1>4, <1>5, MonthCharged DEF Steady
<1> QED BY <1>2, <1>6 DEF RollInv

LEMMA CarryRolls ==
    ASSUME TypeOK, TypeOK', FundInv, RollInv, ReserveWindow(month),
           month' = month,
           \A q \in Calls : call'[q].pc = "insert" => call'[q] = call[q]
    PROVE  RollInv'
<1> DEFINE S == Obligations(month)
<1>1. month \in Months /\ S \subseteq Units
  BY DEF TypeOK, Obligations
<1>2. /\ \A u \in Units :
            /\ unit'[u].reserved = unit[u].reserved
            /\ unit'[u].runs = unit[u].runs
            /\ unit'[u].trusted = unit[u].trusted
            /\ unit'[u].window
                = IF u \in Obligations(month) THEN month ELSE unit[u].window
      /\ \A x \in Months :
            /\ limits'[x].assignments = limits[x].assignments
            /\ limits'[x].reserved = limits[x].reserved
                + IF x = month THEN Cardinality(Obligations(month)) ELSE 0
            /\ limits'[x].budget = limits[x].budget
      /\ Cardinality(Obligations(month)) \in Nat
  BY <1>1, CarryEffect
<1>3. Obligations(month)' = {}
  BY <1>2 DEF Obligations
<1>4. Current'
  <2>1. \A w \in Months : w > month => limits'[w].reserved = limits[w].reserved
    <3>1. \A w \in Months : limits[w].reserved \in Nat
      BY DEF TypeOK, LimitRow
    <3> QED BY <1>2, <3>1 DEF TypeOK, Months
  <2> QED BY <1>3, <2>1 DEF RollInv, Current
<1>5. /\ S \cap ChargedNow = {} /\ ChargedNow \cup S \subseteq ChargedNow'
      /\ OwedNow' \subseteq OwedNow \cup S
      /\ LeasedUnits' = LeasedUnits /\ Retries' = Retries
  BY <1>2 DEF Obligations, ChargedNow, OwedNow, LeasedUnits, Retries
<1>6. Total(Retries') = Total(Retries) + 0
  BY <1>5, TableNumbers, FiniteTables, PairsFinite
<1>7. CarriedNow' /\ CarriedOnce' /\ ObligationsFunded'
  BY <1>1, <1>2, <1>5, <1>6, MonthCharged
<1> QED BY <1>4, <1>7 DEF RollInv

LEMMA HandOutRolls ==
    ASSUME TypeOK, TypeOK', FundInv, RollInv, NEW g \in Guests,
           NEW u \in Assignable(g, month), Insert(g, month, u),
           Obligations(month) = {}, month' = month,
           \A q \in Calls :
                call'[q].pc \in {"check", "insert"} => call'[q] = call[q]
    PROVE  RollInv'
<1> DEFINE S == IF unit[u].reserved THEN {} ELSE {u}
           a == <<u, g>>
<1>0. month \in Months
  BY DEF TypeOK
<1>1. /\ u \in Units /\ a \in Attempts
      /\ \A x \in Units : x # u => unit'[x] = unit[x]
      /\ unit'[u].reserved = TRUE /\ unit'[u].window = month
      /\ unit'[u].runs = unit[u].runs
      /\ unit'[u].trusted = unit[u].trusted
      /\ \A x \in Months :
            /\ limits'[x].assignments
                = limits[x].assignments + IF x = month THEN 1 ELSE 0
            /\ limits'[x].reserved
                = limits[x].reserved + IF x = month THEN Cost(u) ELSE 0
            /\ limits'[x].budget = limits[x].budget
      /\ attempt[a].state = "none"
      /\ attempt'[a].state = "leased"
      /\ \A b \in Attempts : b # a => attempt'[b] = attempt[b]
      /\ Cost(u) \in Nat
  BY <1>0, InsertEffect
<1>2. Obligations(month)' = {}
  BY <1>1 DEF Obligations
<1>3. Current'
  <2>1. \A w \in Months : w > month => limits'[w].reserved = limits[w].reserved
    <3>1. \A w \in Months : limits[w].reserved \in Nat
      BY DEF TypeOK, LimitRow
    <3> QED BY <1>1, <3>1 DEF TypeOK, Months
  <2> QED BY <1>2, <2>1 DEF RollInv, Current
<1>4. Cardinality(S) = Cost(u) /\ S \subseteq Units
  BY <1>1, FS_EmptySet, FS_Singleton, ZenonT(60) DEF Cost
<1>5. /\ S \cap ChargedNow = {} /\ ChargedNow \cup S \subseteq ChargedNow'
      /\ LeasedUnits \subseteq LeasedUnits'
  BY <1>1 DEF ChargedNow, LeasedUnits
<1>6. OwedNow' \subseteq OwedNow \cup S
  <2>1. ASSUME NEW x \in OwedNow', x \notin S PROVE x \in OwedNow
    <3>1. CASE x = u
      <4>1. unit[u].reserved /\ unit[u].trusted = NoResult
        BY <1>1, <2>1, <3>1 DEF OwedNow
      <4> QED BY <1>1, <3>1, <4>1 DEF OwedNow, Obligations
    <3>2. CASE x # u
      BY <1>1, <2>1, <3>2 DEF OwedNow
    <3> QED BY <3>1, <3>2
  <2> QED BY <2>1
<1>7. Retries' = Retries
  BY <1>1 DEF Retries
<1>8. Total(Retries') = Total(Retries) + 0
  BY <1>7, TableNumbers, FiniteTables, PairsFinite
<1>9. CarriedNow' /\ CarriedOnce' /\ ObligationsFunded'
  <2>1. Cost(u) <= Cardinality(S) + 0 /\ Cardinality(S) <= Cost(u)
    BY <1>1, <1>4
  <2>2. \A x \in Months : limits'[x].reserved
            = limits[x].reserved + IF x = month THEN Cost(u) ELSE 0
    BY <1>1
  <2> HIDE DEF S
  <2> QED BY <1>1, <1>4, <1>5, <1>6, <1>8, <2>1, <2>2, MonthCharged
<1> QED BY <1>3, <1>9 DEF RollInv

LEMMA InsertRolls ==
    ASSUME TypeOK, TypeOK', FundInv, RollInv, NEW q \in Calls, LeaseInsert(q)
    PROVE  RollInv'
<1> DEFINE g == call[q].guest
           w == call[q].window
<1>1. g \in Guests /\ w = month /\ Obligations(month) = {}
  BY CallShape DEF LeaseInsert, RollInv, Current
<1>2. /\ month' = month
      /\ \A p \in Calls : call'[p].pc \in {"check", "insert"} => call'[p] = call[p]
  BY DEF LeaseInsert, env, TypeOK, NoCall, Idle
<1>3. CASE UNCHANGED <<attempt, limits, unit>>
  <2>1. Steady
    BY <1>2, <1>3 DEF Steady, SameUnit, SameLimit, SameAttempt, SteadyCall
  <2> QED BY <2>1, SteadyRolls
<1>4. ASSUME NEW u \in Assignable(g, w), Insert(g, w, u) PROVE RollInv'
  <2>1. u \in Assignable(g, month) /\ Insert(g, month, u)
    BY <1>1, <1>4
  <2> QED BY <1>1, <1>2, <2>1, HandOutRolls
<1> QED BY <1>3, <1>4 DEF LeaseInsert

LEMMA ClaimRolls ==
    ASSUME TypeOK, TypeOK', FundInv, RollInv, NEW v \in Validators,
           CheckClaim(v), Claimable(check[v].unit)
    PROVE  RollInv'
<1> DEFINE u == check[v].unit
<1>0. month \in Months /\ month' = month /\ call' = call
  BY DEF TypeOK, CheckClaim, env
<1>1. /\ u \in Units
      /\ \A x \in Units : x # u => unit'[x] = unit[x]
      /\ unit'[u].runs = unit[u].runs + 1
      /\ unit'[u].reserved = unit[u].reserved
      /\ unit'[u].window = unit[u].window
      /\ unit'[u].trusted = unit[u].trusted
      /\ unit[u].reserved
      /\ \A x \in Months :
            /\ limits'[x].assignments = limits[x].assignments
            /\ limits'[x].reserved
                = limits[x].reserved + IF x = month THEN RetryCharge(u) ELSE 0
            /\ limits'[x].budget = limits[x].budget
      /\ RetryCharge(u) \in Nat
  BY ClaimEffect
<1> HIDE DEF u
<1>2. /\ \A x \in Units : unit[x].runs \in Nat
      /\ \A x \in Months : limits[x].reserved \in Nat
  BY DEF TypeOK, UnitRow, LimitRow
<1>3. /\ ChargedNow' = ChargedNow /\ OwedNow' = OwedNow
      /\ LeasedUnits' = LeasedUnits /\ Obligations(month)' = Obligations(month)
  <2>1. \A x \in Units : /\ unit'[x].reserved = unit[x].reserved
                         /\ unit'[x].window = unit[x].window
                         /\ unit'[x].trusted = unit[x].trusted
    BY <1>1
  <2> QED BY <1>0, <2>1 DEF ChargedNow, OwedNow, LeasedUnits, Obligations
<1>4. Current'
  <2>1. \A w \in Months : w > month => limits'[w].reserved = limits[w].reserved
    BY <1>0, <1>1, <1>2 DEF Months
  <2> QED BY <1>0, <1>3, <2>1 DEF RollInv, Current
<1>5. Total(Retries') = Total(Retries) + RetryCharge(u)
  <2>1. Retries \in [Units -> Nat] /\ Retries' \in [Units -> Nat]
    BY TableNumbers, TableNumbersNext
  <2>2. /\ Retries'[u] = Retries[u] + RetryCharge(u)
        /\ \A x \in Units \ {u} : Retries'[x] = Retries[x]
    BY <1>1, <1>2 DEF Retries, RetryCharge
  <2>3. u \in Units /\ RetryCharge(u) \in Nat
    BY <1>1
  <2> QED BY <2>1, <2>2, <2>3, FiniteTables, TotalAdds
<1>6. CarriedNow' /\ CarriedOnce' /\ ObligationsFunded'
  <2>1. Cardinality({}) = 0 /\ RetryCharge(u) <= 0 + RetryCharge(u)
    BY <1>1, FS_EmptySet
  <2>2. \A x \in Months : limits'[x].reserved
            = limits[x].reserved + IF x = month THEN RetryCharge(u) ELSE 0
    BY <1>1
  <2> QED BY <1>0, <1>1, <1>3, <1>5, <2>1, <2>2, MonthCharged
<1> QED BY <1>4, <1>6 DEF RollInv

LEMMA MonthRolls ==
    ASSUME TypeOK, TypeOK', FundInv, RollInv, QuietRollover, MonthEnds
    PROVE  RollInv'
<1>1. month \in Nat /\ month' = month + 1 /\ month' \in Months
  BY DEF MonthEnds, TypeOK, Months
<1>2. Current'
  BY <1>1 DEF MonthEnds, tables, procs, RollInv, Current, Months
<1>3. OwedNow' = {}
  BY <1>1 DEF MonthEnds, tables, OwedNow, FundInv, WindowsPast
<1>4. limits'[month'].reserved = 0
  BY <1>1, <1>2 DEF MonthEnds, tables, RollInv, Current, Months
<1>5. /\ Cardinality(OwedNow') = 0 /\ Cardinality(ChargedNow') \in Nat
      /\ Total(Retries') \in Nat
  BY <1>3, FS_EmptySet, FiniteTables, TableNumbersNext, PairsFinite
     DEF ChargedNow
<1>6. CarriedNow' /\ ObligationsFunded'
  BY <1>4, <1>5 DEF CarriedNow, ObligationsFunded, Total
<1>7. CarriedOnce'
  <2>1. LeasedUnits' = LeasedUnits /\ Retries' = Retries
    BY DEF MonthEnds, tables, LeasedUnits, Retries
  <2> QED BY <2>1 DEF MonthEnds, tables, RollInv, CarriedOnce, Total
<1> QED BY <1>2, <1>6, <1>7 DEF RollInv

LEMMA RollNext ==
    ASSUME QuietRollover, Inv, TypeOK', FundInv, RollInv, [Next]_vars
    PROVE  RollInv'
<1>0. TypeOK
  BY DEF Inv
<1>1. CASE ~Moves
  BY <1>0, <1>1, StepIsSteady, SteadyRolls
<1>2. ASSUME NEW q \in Calls, NEW g \in Guests, LeaseStart(q, g) PROVE RollInv'
  <2>1. \A p \in Calls : call'[p].pc = "insert" => call'[p] = call[p]
    BY <1>0, <1>2 DEF LeaseStart, TypeOK
  <2> QED BY <1>0, <1>2, <2>1, CarryRolls DEF LeaseStart, env
<1>3. ASSUME NEW q \in Calls, LeaseInsert(q) PROVE RollInv'
  BY <1>0, <1>3, InsertRolls
<1>4. ASSUME NEW v \in Validators, CheckBegin(v), ReserveWindow(month)
      PROVE  RollInv'
  BY <1>0, <1>4, CarryRolls DEF CheckBegin, env
<1>5. ASSUME NEW v \in Validators, CheckClaim(v), Claimable(check[v].unit)
      PROVE  RollInv'
  BY <1>0, <1>5, ClaimRolls
<1>6. CASE MonthEnds
  BY <1>0, <1>6, MonthRolls
<1> QED BY <1>1, <1>2, <1>3, <1>4, <1>5, <1>6 DEF Moves

\* When no lease request straddles the end of a month, reserves are carried over whole, once.
THEOREM RollInvariance == ASSUME QuietRollover PROVE Spec => []RollInv
<1>1. Inv /\ FundInv /\ RollInv /\ [Next]_vars => Inv' /\ FundInv' /\ RollInv'
  <2> SUFFICES ASSUME Inv, FundInv, RollInv, [Next]_vars
               PROVE  Inv' /\ FundInv' /\ RollInv'
    OBVIOUS
  <2>1. Inv'
    BY InvNext
  <2>2. TypeOK'
    BY <2>1 DEF Inv
  <2> QED BY <2>1, <2>2, FundNext, RollNext
<1> QED BY <1>1, InvInit, FundInit, RollInit, PTL DEF Spec

\* When lease requests do not run over the end of a month, what is still owed
\* is in the reserve of the current month (coordinator.ts reserveWindow).
THEOREM ObligationsCarried == ASSUME QuietRollover PROVE Spec => []ObligationsFunded
<1>1. RollInv => ObligationsFunded
  BY DEF RollInv
<1> QED BY <1>1, RollInvariance, PTL

\* And no month ever takes a unit's reserve over twice.
THEOREM CarriedOnceCorrect == ASSUME QuietRollover PROVE Spec => []CarriedOnce
<1>1. RollInv => CarriedOnce
  BY DEF RollInv
<1> QED BY <1>1, RollInvariance, PTL

==============================================================================
