----------------------------- MODULE Coordinator -----------------------------
(***************************************************************************)
(* The work coordinator (platform/src/lib/server/coordinator.ts) with the  *)
(* owner actions that touch the same tables (owner.ts).                    *)
(*                                                                         *)
(* The database is the queue: each D1 statement or batch is one atomic     *)
(* step, and an HTTP request, a result check or a maintenance run is a     *)
(* process that other processes overtake at each await.  A process keeps   *)
(* only what the code keeps in local variables between its awaits; any of  *)
(* them may be lost at any await (the Worker invocation ends).             *)
(*                                                                         *)
(* Time is abstracted to what the guards ask of it: a lease or a replay    *)
(* claim is live until a step of its own says it expired, and the month is *)
(* a number.  Reserves are counted in replays, because owner.ts:20 fixes   *)
(* reserve_ms to one value for every unit.  An attempt is the pair of its  *)
(* unit and its guest, which the unique index on attempts makes a key.     *)
(*                                                                         *)
(* Every process holds an execution guard (module Maintenance): requests   *)
(* and background checks share it, the scheduled run and the owner hold it *)
(* alone, so an owner action is one step.                                  *)
(***************************************************************************)
EXTENDS Naturals, FiniteSets

CONSTANTS
    Guests,        \* guest sessions
    Units,         \* work units, numbered in the order (created_at, id)
    Results,       \* identities of scientific results
    NoResult,      \* SQL NULL in a result column
    Campaigns,     \* campaigns
    Manuscript,    \* the campaigns that depend on recovery evidence
    Releases,      \* worker releases
    CampaignOf,    \* the campaign of a unit
    ReleaseOf,     \* the release of a unit
    Calls,         \* HTTP requests that may be in flight together
    Checkers,      \* background result checks that may run together
    Scheduler,     \* the scheduled maintenance run
    AttemptLimit,  \* the initial units.attempt_limit (6 in the schema)
    LimitCap,      \* extend-delivery stops here (20 in the code)
    Budgets,       \* the monthly budgets the owner may set
    Opening,       \* the budget the owner gave each month beforehand
    MaxMonth,      \* bound: months that pass
    MaxRuns,       \* bound: replays of one unit that may be disturbed
    Moderated,     \* bound: guests the owner may block
    Events,        \* bound: interventions a run explores, by name
    QuietRollover  \* TRUE: no lease request is in flight when a month ends

Idle == "idle"
Copies == 2                      \* checked results that complete a unit
Attempts == Units \X Guests
Months == 1..MaxMonth
Validators == Checkers \cup {Scheduler}
Budget == [maxAssignments: Nat, maxReserved: Nat, maxInflight: Nat]
Closed == [maxAssignments |-> 0, maxReserved |-> 0, maxInflight |-> 25]

ASSUME ConstantsOK ==
    /\ IsFiniteSet(Guests) /\ Guests # {}
    /\ Units \subseteq Nat \ {0} /\ IsFiniteSet(Units) /\ Units # {}
    /\ NoResult \notin Results
    /\ Manuscript \subseteq Campaigns
    /\ CampaignOf \in [Units -> Campaigns]
    /\ ReleaseOf \in [Units -> Releases]
    /\ Scheduler \notin Checkers
    /\ AttemptLimit \in Nat /\ LimitCap \in Nat
    /\ MaxMonth \in Nat \ {0} /\ MaxRuns \in Nat \ {0}
    /\ Budgets \subseteq Budget /\ Opening \in [Months -> Budget]
    /\ Moderated \subseteq Guests
    /\ QuietRollover \in BOOLEAN

VARIABLES
    attempt,   \* table attempts
    unit,      \* table units
    limits,    \* table limits, a row per month
    credit,    \* table credit: the attempts that hold a credit row
    campaign,  \* campaigns.status
    release,   \* releases.state
    stopped,   \* controls.stopped
    healthy,   \* operation_health says scheduled maintenance is fresh
    blocked,   \* guests.blocked
    month,     \* the current month
    call,      \* HTTP requests in flight
    check,     \* result checks and maintenance runs in flight
    ack        \* history: the results whose receipt a guest was told

tables == <<attempt, unit, limits, credit, campaign, release>>
env == <<stopped, healthy, blocked, month>>
procs == <<call, check, ack>>
vars == <<tables, env, procs>>

-----------------------------------------------------------------------------
(* Rows.                                                                   *)

AttemptStates == {"none", "leased", "submitted", "checked", "disagreed"}
UnitStates ==
    {"open", "checking", "validation_error", "delivery_exhausted", "complete"}

AttemptRow ==
    [state: AttemptStates, live: BOOLEAN, hash: Results \cup {NoResult},
     at: Nat]
UnitRow ==
    [state: UnitStates, live: BOOLEAN, trusted: Results \cup {NoResult},
     runs: Nat, reserved: BOOLEAN, window: 0..MaxMonth, limit: Nat]
LimitRow ==
    [row: BOOLEAN, assignments: Nat, reserved: Nat, traffic: BOOLEAN,
     budget: Budget]
CallState ==
    [pc: {Idle}]
    \cup [pc: {"check"}, guest: Guests]
    \cup [pc: {"insert"}, guest: Guests, window: Months]
    \cup [pc: {"store"}, attempt: Attempts, result: Results]
CheckState ==
    [pc: {Idle, "pick"}]
    \cup [pc: {"begin", "claim", "unfunded"}, unit: Units]
    \cup [pc: {"replay"}, unit: Units, token: Nat]
    \cup [pc: {"judge"}, unit: Units, trusted: Results]

\* What one UPDATE does to a row.  An operator whose comment or name says what
\* it forgets, here and below, is a mutant of the operator after it: the runs
\* are repeated with it to see the property fail.
Leased(r) == [r EXCEPT !.state = "leased", !.live = TRUE]
Submitted(r, x, n) ==
    [r EXCEPT !.state = "submitted", !.live = FALSE, !.hash = x, !.at = n]
Owed(r, w) == [r EXCEPT !.reserved = TRUE, !.window = w]
Claimed(r) == [r EXCEPT !.state = "checking", !.live = TRUE, !.runs = @ + 1]
Saved(r, x) == [r EXCEPT !.state = "open", !.live = FALSE, !.trusted = x]
Failed(r) == [r EXCEPT !.state = "validation_error", !.live = FALSE]
Extended(r) == [r EXCEPT !.state = "open", !.limit = @ + 2]
CarriedUncounted(r, n) == [r EXCEPT !.row = TRUE]
Carried(r, n) == [r EXCEPT !.row = TRUE, !.reserved = @ + n]
Charged(r, n) == [r EXCEPT !.assignments = @ + 1, !.reserved = @ + n]
Requested(r, t) == [r EXCEPT !.row = TRUE, !.traffic = t]
Budgeted(r, b) == [r EXCEPT !.row = TRUE, !.budget = b]

TypeOK ==
    /\ attempt \in [Attempts -> AttemptRow]
    /\ unit \in [Units -> UnitRow]
    /\ limits \in [Months -> LimitRow]
    /\ credit \subseteq Attempts
    /\ campaign \in [Campaigns -> {"draft", "active", "paused", "completed"}]
    /\ release \in [Releases -> {"approved", "revoked"}]
    /\ stopped \in BOOLEAN /\ healthy \in BOOLEAN
    /\ blocked \subseteq Guests
    /\ month \in Months
    /\ call \in [Calls -> CallState]
    /\ check \in [Validators -> CheckState]
    /\ ack \in [Attempts -> SUBSET Results]

-----------------------------------------------------------------------------
(* Queries.                                                                *)

Approved(u) == release[ReleaseOf[u]] = "approved"
IssuedOf(u) == {a \in Attempts : a[1] = u /\ attempt[a].state # "none"}
Live(a) == attempt[a].state = "leased" /\ attempt[a].live
Inflight == {a \in Attempts : Live(a)}
OccupiedOf(u) ==
    {a \in Attempts : a[1] = u
        /\ (attempt[a].state \in {"submitted", "checked"} \/ Live(a))}
CheckedIn(table, u) ==
    {a \in Attempts : a[1] = u /\ table[a].state = "checked"}
SubmittedOf(u) == {a \in Attempts : a[1] = u /\ attempt[a].state = "submitted"}
Answered == {a \in Attempts : attempt[a].hash # NoResult}
UnitsOf(c) == {u \in Units : CampaignOf[u] = c}

\* A unit of reserve still fits in month w.
Fits(w) == limits[w].reserved + 1 <= limits[w].budget.maxReserved
\* Reserves that month w has not yet taken over from an earlier month.
Obligations(w) ==
    {u \in Units : /\ unit[u].reserved
                   /\ unit[u].trusted = NoResult
                   /\ unit[u].window # w}

ReserveWindowUnstamped(w) ==
    /\ limits' = [limits EXCEPT ![w] = Carried(@, Cardinality(Obligations(w)))]
    /\ UNCHANGED unit

\* reserveWindow: one batch that opens the month and carries obligations.
ReserveWindow(w) ==
    /\ limits' = [limits EXCEPT ![w] = Carried(@, Cardinality(Obligations(w)))]
    /\ unit' = [u \in Units |->
            IF u \in Obligations(w) THEN [unit[u] EXCEPT !.window = w]
                                    ELSE unit[u]]

\* The execution guard: ordinary work may begin, exclusive work may begin.
NoExclusive == check[Scheduler].pc = Idle
NoOrdinary ==
    /\ \A q \in Calls : call[q].pc = Idle
    /\ \A v \in Checkers : check[v].pc = Idle
Alone == NoExclusive /\ NoOrdinary

-----------------------------------------------------------------------------
(* lease(): read the switches and carry reserves, look for the guest's own *)
(* live lease, then insert the attempt and charge the budget in one batch. *)

NoCall == [pc |-> Idle]

\* The answer "stopped", "unhealthy" or "blocked" changes nothing.
LeaseStart(q, g) ==
    /\ call[q].pc = Idle /\ NoExclusive
    /\ g \notin blocked /\ ~stopped /\ healthy
    /\ ReserveWindow(month)
    /\ call' = [call EXCEPT ![q] = [pc |-> "check", guest |-> g]]
    /\ UNCHANGED <<attempt, credit, campaign, release, env, check, ack>>

\* The month is read a second time here, after the await.
LeaseCheck(q) ==
    LET held == {a \in Inflight : /\ a[2] = call[q].guest
                                  /\ Approved(a[1])
                                  /\ campaign[CampaignOf[a[1]]] = "active"}
    IN  /\ call[q].pc = "check"
        /\ call' = [call EXCEPT ![q] =
                IF held # {} THEN NoCall
                ELSE [pc |-> "insert", guest |-> @.guest, window |-> month]]
        /\ UNCHANGED <<tables, env, check, ack>>

\* The first lease of a unit reserves its trusted replay.
Cost(u) == IF unit[u].reserved THEN 0 ELSE 1

\* Room for one more assignment; the mutant is off by one.
RoomForOneMore(w) == limits[w].assignments <= limits[w].budget.maxAssignments
Room(w) == limits[w].assignments < limits[w].budget.maxAssignments

\* The guest has no live lease; the mutant relies on the earlier read.
FreeAsRead(g) == TRUE
FreeGuest(g) == \A a \in Inflight : a[2] # g

Assignable(g, w) ==
    {u \in Units :
        /\ ~stopped /\ healthy
        /\ campaign[CampaignOf[u]] = "active" /\ Approved(u)
        /\ unit[u].state \in {"open", "checking"}
        /\ Room(w)
        /\ limits[w].reserved + Cost(u) <= limits[w].budget.maxReserved
        /\ limits[w].traffic
        /\ Cardinality(Inflight) < limits[w].budget.maxInflight
        /\ Cardinality(IssuedOf(u)) < unit[u].limit
        /\ Cardinality(OccupiedOf(u)) < Copies
        /\ attempt[<<u, g>>].state = "none"
        /\ FreeGuest(g)}

Insert(g, w, u) ==
    /\ attempt' = [attempt EXCEPT ![<<u, g>>] = Leased(@)]
    /\ limits' = [limits EXCEPT ![w] = Charged(@, Cost(u))]
    /\ unit' = [unit EXCEPT ![u] = Owed(@, w)]

LeaseInsert(q) ==
    LET g == call[q].guest
        w == call[q].window
        U == Assignable(g, w)
    IN  /\ call[q].pc = "insert"
        /\ IF U = {} THEN UNCHANGED <<attempt, limits, unit>>
           ELSE \E u \in U : (\A x \in U : u <= x) /\ Insert(g, w, u)
        /\ call' = [call EXCEPT ![q] = NoCall]
        /\ UNCHANGED <<credit, campaign, release, env, check, ack>>

-----------------------------------------------------------------------------
(* submit(): the release and any earlier result are read first; the UPDATE *)
(* then tests only that no result is stored, and the row is read again.    *)

SubmitStart(q, a, r) ==
    /\ call[q].pc = Idle /\ NoExclusive
    /\ attempt[a].state # "none"
    /\ Approved(a[1])
    /\ attempt[a].hash \in {NoResult, r}
    /\ call' = [call EXCEPT ![q] = [pc |-> "store", attempt |-> a,
                                         result |-> r]]
    /\ UNCHANGED <<tables, env, check, ack>>

Stored(a, r) ==
    IF attempt[a].hash = NoResult
    THEN [attempt EXCEPT ![a] = Submitted(@, r, Cardinality(Answered) + 1)]
    ELSE attempt

\* A receipt is sent only when the row, read again, holds the result submitted.
ConfirmedUnread(a, r) == TRUE
Confirmed(a, r) == Stored(a, r)[a].hash = r

SubmitStore(q) ==
    LET a == call[q].attempt
        r == call[q].result
    IN  /\ call[q].pc = "store"
        /\ attempt' = Stored(a, r)
        /\ ack' = IF Confirmed(a, r)
                  THEN [ack EXCEPT ![a] = @ \cup {r}] ELSE ack
        /\ call' = [call EXCEPT ![q] = NoCall]
        /\ UNCHANGED <<unit, limits, credit, campaign, release, env, check>>

\* The invocation dies between two steps of a request.  Its guard is cleared
\* once the operator has verified that; until then fewer steps are possible.
CallLost(q) ==
    /\ "loss" \in Events
    /\ call[q].pc # Idle
    /\ call' = [call EXCEPT ![q] = NoCall]
    /\ UNCHANGED <<tables, env, check, ack>>

-----------------------------------------------------------------------------
(* validateUnit() and maintain().                                          *)

NoCheck == [pc |-> Idle]

\* The result endpoint starts a background check after a receipt, unless
\* exclusive work is running.
CheckStart(v, u) ==
    /\ check[v].pc = Idle /\ NoExclusive
    /\ \E a \in Answered : a[1] = u
    /\ check' = [check EXCEPT ![v] = [pc |-> "begin", unit |-> u]]
    /\ UNCHANGED <<tables, env, call, ack>>

\* Deliveries that are used up; the mutant waits for expired leases, too.
UsedUp(u) ==
    /\ unit[u].state = "open"
    /\ Cardinality(IssuedOf(u)) >= unit[u].limit
    /\ Cardinality(CheckedIn(attempt, u)) < Copies
    /\ SubmittedOf(u) = {}
ExhaustedOnReturn ==
    {u \in Units :
        UsedUp(u) /\ \A a \in IssuedOf(u) : attempt[a].state # "leased"}
Exhausted == {u \in Units : UsedUp(u) /\ \A a \in Inflight : a[1] # u}

\* maintain(), first statement.
MaintainExhaust ==
    /\ Alone
    /\ unit' = [u \in Units |-> IF u \in Exhausted
            THEN [unit[u] EXCEPT !.state = "delivery_exhausted"] ELSE unit[u]]
    /\ check' = [check EXCEPT ![Scheduler] = [pc |-> "pick"]]
    /\ UNCHANGED <<attempt, limits, credit, campaign, release, env, call, ack>>

\* Submitted attempts whose unit maintain() may check now; the mutant does not
\* look at the release.
Checkable(u) ==
    \/ unit[u].state \in {"open", "complete", "delivery_exhausted"}
    \/ unit[u].state = "checking" /\ ~unit[u].live
PendingAnyRelease ==
    {a \in Attempts : attempt[a].state = "submitted" /\ Checkable(a[1])}
Pending ==
    {a \in Attempts :
        attempt[a].state = "submitted" /\ Checkable(a[1]) /\ Approved(a[1])}

\* maintain(), second statement: the unit of the oldest pending result.
MaintainPick ==
    /\ check[Scheduler].pc = "pick"
    /\ IF Pending = {} THEN check' = [check EXCEPT ![Scheduler] = NoCheck]
       ELSE \E a \in Pending :
            /\ \A b \in Pending : attempt[a].at <= attempt[b].at
            /\ check' = [check EXCEPT ![Scheduler] =
                            [pc |-> "begin", unit |-> a[1]]]
    /\ UNCHANGED <<tables, env, call, ack>>

\* The mutant takes a unit that was replayed once for one that has a result.
NeedsFirstReplay(u) == unit[u].runs = 0
NeedsReplay(u) == unit[u].trusted = NoResult

\* Read the unit and its release; without a trusted result carry reserves.
CheckBegin(v) ==
    LET u == check[v].unit IN
    /\ check[v].pc = "begin"
    /\ \/ /\ ~Approved(u)
          /\ check' = [check EXCEPT ![v] = NoCheck]
          /\ UNCHANGED <<unit, limits>>
       \/ /\ Approved(u) /\ ~NeedsReplay(u)
          /\ check' = [check EXCEPT ![v] =
                [pc |-> "judge", unit |-> u, trusted |-> unit[u].trusted]]
          /\ UNCHANGED <<unit, limits>>
       \/ /\ Approved(u) /\ NeedsReplay(u)
          /\ check' = [check EXCEPT ![v].pc = "claim"]
          /\ ReserveWindow(month)
    /\ UNCHANGED <<attempt, credit, campaign, release, env, call, ack>>

\* A replay may be claimed: no trusted result, no live claim, and either the
\* first run (paid when the unit was first leased) or a funded retry.
Claimable(u) ==
    /\ unit[u].trusted = NoResult
    /\ unit[u].reserved
    /\ \/ unit[u].state \in {"open", "delivery_exhausted"}
       \/ unit[u].state = "checking" /\ ~unit[u].live
    /\ unit[u].runs = 0 \/ Fits(month)

\* A retry takes another reserve; the mutant gives the first retry away.
RetryChargeLate(u) == IF unit[u].runs + 1 > 2 THEN 1 ELSE 0
RetryCharge(u) == IF unit[u].runs + 1 > 1 THEN 1 ELSE 0

\* The claim number fences every later write of this replay.
CheckClaim(v) ==
    LET u == check[v].unit IN
    /\ check[v].pc = "claim"
    /\ IF Claimable(u)
       THEN /\ unit' = [unit EXCEPT ![u] = Claimed(@)]
            /\ limits' = [limits EXCEPT ![month].reserved = @ + RetryCharge(u)]
            /\ check' = [check EXCEPT ![v] =
                [pc |-> "replay", unit |-> u, token |-> unit[u].runs + 1]]
       ELSE /\ check' = [check EXCEPT ![v].pc = "unfunded"]
            /\ UNCHANGED <<unit, limits>>
    /\ UNCHANGED <<attempt, credit, campaign, release, env, call, ack>>

\* The claim failed: an open unit without retry money waits for the owner.
CheckUnfunded(v) ==
    LET u == check[v].unit IN
    /\ check[v].pc = "unfunded"
    /\ unit' = IF /\ unit[u].state = "open" /\ unit[u].trusted = NoResult
                  /\ unit[u].runs > 0
                  /\ limits[month].row /\ ~Fits(month)
               THEN [unit EXCEPT ![u].state = "validation_error"] ELSE unit
    /\ check' = [check EXCEPT ![v] = NoCheck]
    /\ UNCHANGED <<attempt, limits, credit, campaign, release, env, call, ack>>

\* This replay still owns its unit; the mutants drop every condition, or the
\* claim number.
OwnsAlways(v) == TRUE
OwnsUnfenced(v) ==
    LET u == check[v].unit IN
    unit[u].state = "checking" /\ unit[u].trusted = NoResult
Owns(v) ==
    LET u == check[v].unit IN
    /\ unit[u].runs = check[v].token
    /\ unit[u].state = "checking"
    /\ unit[u].trusted = NoResult

CheckSave(v, r) ==
    LET u == check[v].unit IN
    /\ check[v].pc = "replay"
    /\ IF Owns(v)
       THEN /\ unit' = [unit EXCEPT ![u] = Saved(@, r)]
            /\ check' = [check EXCEPT ![v] =
                [pc |-> "judge", unit |-> u, trusted |-> r]]
       ELSE /\ check' = [check EXCEPT ![v] = NoCheck]
            /\ UNCHANGED unit
    /\ UNCHANGED <<attempt, limits, credit, campaign, release, env, call, ack>>

CheckFail(v) ==
    LET u == check[v].unit IN
    /\ check[v].pc = "replay"
    /\ unit' = IF Owns(v) THEN [unit EXCEPT ![u] = Failed(@)] ELSE unit
    /\ check' = [check EXCEPT ![v] = NoCheck]
    /\ UNCHANGED <<attempt, limits, credit, campaign, release, env, call, ack>>

\* The attempts of u after the comparison with the trusted result t.
Judged(u, t) ==
    [a \in Attempts |->
        IF a[1] = u /\ attempt[a].state = "submitted" /\ Approved(u)
        THEN [attempt[a] EXCEPT !.state =
                IF attempt[a].hash = t THEN "checked" ELSE "disagreed"]
        ELSE attempt[a]]

Completed(table, c) ==
    /\ UnitsOf(c) # {}
    /\ \A u \in UnitsOf(c) : table[u].state = "complete"

\* Credit after the batch; the mutant rewards a result for having come in.
CreditedEarly(table, u) ==
    credit \cup {a \in Attempts : /\ a[1] = u /\ Approved(u)
                                 /\ table[a].hash # NoResult}
Credited(table, u) == credit \cup {a \in CheckedIn(table, u) : Approved(u)}

\* Campaigns after the batch; the mutant leaves a paused one behind.
CampaignsActive(table, c) ==
    IF campaign[c] = "active" /\ Completed(table, c)
    THEN [campaign EXCEPT ![c] = "completed"] ELSE campaign
CampaignsAfter(table, c) ==
    IF campaign[c] \in {"active", "paused"} /\ Completed(table, c)
    THEN [campaign EXCEPT ![c] = "completed"] ELSE campaign

CheckJudge(v) ==
    LET u == check[v].unit
        c == CampaignOf[u]
    IN  /\ check[v].pc = "judge"
        /\ attempt' = Judged(u, check[v].trusted)
        /\ credit' = Credited(attempt', u)
        /\ unit' = IF Cardinality(CheckedIn(attempt', u)) >= Copies
                   THEN [unit EXCEPT ![u].state = "complete"] ELSE unit
        /\ campaign' = CampaignsAfter(unit', c)
        /\ check' = [check EXCEPT ![v] = NoCheck]
        /\ UNCHANGED <<limits, release, env, call, ack>>

\* The invocation running a check dies; nothing it left behind is undone.
CheckLost(v) ==
    /\ "loss" \in Events
    /\ check[v].pc # Idle
    /\ check[v].pc = "replay" => unit[check[v].unit].runs < MaxRuns
    /\ check' = [check EXCEPT ![v] = NoCheck]
    /\ UNCHANGED <<tables, env, call, ack>>

-----------------------------------------------------------------------------
(* Time.                                                                   *)

LeaseExpires(a) ==
    /\ "expiry" \in Events
    /\ Live(a)
    /\ attempt' = [attempt EXCEPT ![a].live = FALSE]
    /\ UNCHANGED <<unit, limits, credit, campaign, release, env, procs>>

ClaimExpires(u) ==
    /\ unit[u].state = "checking" /\ unit[u].live
    /\ unit[u].runs < MaxRuns
    /\ unit' = [unit EXCEPT ![u].live = FALSE]
    /\ UNCHANGED <<attempt, limits, credit, campaign, release, env, procs>>

MonthEnds ==
    /\ month < MaxMonth
    /\ QuietRollover => \A q \in Calls : call[q].pc \notin {"check", "insert"}
    /\ month' = month + 1
    /\ UNCHANGED <<tables, stopped, healthy, blocked, procs>>

\* recordRequest: the row exists; the traffic reserve may now be reached.
\* Each request counts itself, whatever it then asks for, in this step of its
\* own; an owner's request does so too, before the owner action.
RecordRequest ==
    /\ "traffic" \in Events /\ NoExclusive
    /\ \E more \in {TRUE, FALSE} :
        limits' = [limits EXCEPT ![month] = Requested(@, @.traffic /\ more)]
    /\ UNCHANGED <<attempt, unit, credit, campaign, release, env, procs>>

\* The success of the scheduled run ages; a run of its own renews it.
HealthChanges ==
    /\ "health" \in Events
    /\ healthy \/ NoOrdinary
    /\ healthy' = ~healthy
    /\ UNCHANGED <<tables, stopped, blocked, month, procs>>

-----------------------------------------------------------------------------
(* ownerAction(), under its exclusive guard.                               *)

Control(b) ==
    /\ "control" \in Events /\ Alone
    /\ stopped' = b
    /\ UNCHANGED <<tables, healthy, blocked, month, procs>>

SetBudget(w, b) ==
    /\ Alone
    /\ limits' = [limits EXCEPT ![w] = Budgeted(@, b)]
    /\ UNCHANGED <<attempt, unit, credit, campaign, release, env, procs>>

Moderate(g) ==
    /\ Alone
    /\ blocked' = IF g \in blocked THEN blocked \ {g} ELSE blocked \cup {g}
    /\ UNCHANGED <<tables, stopped, healthy, month, procs>>

\* Manuscript campaigns pause when the evidence they rest on is withdrawn;
\* which ones is decided by the reports, which this module leaves open.
Pause(P) ==
    campaign' = [c \in Campaigns |->
        IF c \in P /\ campaign[c] = "active" THEN "paused" ELSE campaign[c]]

WithdrawReport(P) ==
    /\ Alone
    /\ Pause(P)
    /\ UNCHANGED <<attempt, unit, limits, credit, release, env, procs>>

RevokeRelease(x, P) ==
    /\ "revoke" \in Events /\ Alone
    /\ release' = [release EXCEPT ![x] = "revoked"]
    /\ Pause(P)
    /\ UNCHANGED <<attempt, unit, limits, credit, env, procs>>

SetCampaign(c, s) ==
    /\ Alone
    /\ s = "paused" => "pause" \in Events
    /\ campaign[c] # "completed"
    /\ s = "active" => \E u \in UnitsOf(c) : Approved(u)
    /\ campaign' = [campaign EXCEPT
            ![c] = IF Completed(unit, c) THEN "completed" ELSE s]
    /\ UNCHANGED <<attempt, unit, limits, credit, release, env, procs>>

RetryAnything(u) ==
    /\ "retry" \in Events /\ Alone
    /\ unit[u].runs < MaxRuns
    /\ unit' = [unit EXCEPT ![u].state = "open"]
    /\ UNCHANGED <<attempt, limits, credit, campaign, release, env, procs>>

RetryValidation(u) ==
    /\ "retry" \in Events /\ Alone
    /\ unit[u].state = "validation_error" /\ unit[u].runs < MaxRuns
    /\ unit' = [unit EXCEPT ![u].state = "open"]
    /\ UNCHANGED <<attempt, limits, credit, campaign, release, env, procs>>

ExtendDelivery(u) ==
    /\ Alone
    /\ unit[u].state = "delivery_exhausted" /\ unit[u].limit < LimitCap
    /\ unit' = [unit EXCEPT ![u] = Extended(@)]
    /\ UNCHANGED <<attempt, limits, credit, campaign, release, env, procs>>

-----------------------------------------------------------------------------

Init ==
    /\ attempt = [a \in Attempts |-> [state |-> "none", live |-> FALSE,
                                      hash |-> NoResult, at |-> 0]]
    /\ unit = [u \in Units |-> [state |-> "open", live |-> FALSE,
            trusted |-> NoResult, runs |-> 0, reserved |-> FALSE,
            window |-> 0, limit |-> AttemptLimit]]
    /\ limits = [w \in Months |-> [row |-> Opening[w] # Closed,
            assignments |-> 0, reserved |-> 0, traffic |-> TRUE,
            budget |-> Opening[w]]]
    /\ credit = {}
    /\ campaign = [c \in Campaigns |-> "draft"]
    /\ release = [x \in Releases |-> "approved"]
    /\ stopped = FALSE /\ healthy = TRUE /\ blocked = {}
    /\ month = 1
    /\ call = [q \in Calls |-> NoCall]
    /\ check = [v \in Validators |-> NoCheck]
    /\ ack = [a \in Attempts |-> {}]

CallBegins(q) ==
    \/ \E g \in Guests : LeaseStart(q, g)
    \/ \E a \in Attempts, r \in Results : SubmitStart(q, a, r)

CallStep(q) ==
    \/ LeaseCheck(q)
    \/ LeaseInsert(q)
    \/ SubmitStore(q)

\* One step of validateUnit once it has been entered.
ValidateStep(v) ==
    \/ CheckBegin(v)
    \/ CheckClaim(v)
    \/ CheckUnfunded(v)
    \/ \E r \in Results : CheckSave(v, r)
    \/ CheckFail(v)
    \/ CheckJudge(v)

Maintain == MaintainExhaust \/ MaintainPick

Time ==
    \/ \E a \in Attempts : LeaseExpires(a)
    \/ \E u \in Units : ClaimExpires(u)
    \/ MonthEnds
    \/ RecordRequest
    \/ HealthChanges

Owner ==
    \/ \E b \in BOOLEAN : Control(b)
    \/ \E w \in Months, b \in Budgets : SetBudget(w, b)
    \/ \E g \in Moderated : Moderate(g)
    \/ \E P \in SUBSET Manuscript : WithdrawReport(P)
    \/ \E x \in Releases, P \in SUBSET Manuscript : RevokeRelease(x, P)
    \/ \E c \in Campaigns, s \in {"active", "paused"} : SetCampaign(c, s)
    \/ \E u \in Units : RetryValidation(u) \/ ExtendDelivery(u)

Next ==
    \/ \E q \in Calls : CallBegins(q) \/ CallStep(q) \/ CallLost(q)
    \/ \E v \in Checkers, u \in Units : CheckStart(v, u)
    \/ \E v \in Validators : ValidateStep(v) \/ CheckLost(v)
    \/ Maintain
    \/ Time
    \/ Owner

Spec == Init /\ [][Next]_vars

(* A request or a check that was begun ends, by itself or by dying, and a   *)
(* scheduled run is not killed at the same await for ever.  The schedule   *)
(* fires every five minutes; the guard has no queue, so the owner guide    *)
(* asks for traffic that leaves it room: again and again no ordinary work  *)
(* is in flight (Lulls).  Deadlines and months pass.  Nothing is assumed   *)
(* of volunteers, background checks or the owner.                          *)
Replayed(v) == CheckFail(v) \/ \E r \in Results : CheckSave(v, r)

Fairness ==
    /\ SF_vars(MaintainExhaust)
    /\ SF_vars(MaintainPick)
    /\ SF_vars(CheckBegin(Scheduler))
    /\ SF_vars(CheckClaim(Scheduler))
    /\ SF_vars(CheckUnfunded(Scheduler))
    /\ SF_vars(CheckJudge(Scheduler))
    /\ SF_vars(Replayed(Scheduler))
    /\ \A v \in Checkers : WF_vars(ValidateStep(v))
    /\ \A q \in Calls : WF_vars(CallStep(q))
    /\ \A a \in Attempts : WF_vars(LeaseExpires(a))
    /\ \A u \in Units : WF_vars(ClaimExpires(u))
    /\ SF_vars(MonthEnds)

Lulls == []<>NoOrdinary

FairSpec == Spec /\ Fairness /\ Lulls

-----------------------------------------------------------------------------
(* Credit and verdicts.                                                    *)

\* An attempt holds credit exactly when it was checked; a checked result is
\* the trusted result of its unit and a disagreed one differs from it, so an
\* operational failure never counts for or against a volunteer.
CreditIsEarned ==
    \A a \in Attempts :
        /\ a \in credit <=> attempt[a].state = "checked"
        /\ attempt[a].state \in {"checked", "disagreed"}
                => unit[a[1]].trusted # NoResult
        /\ attempt[a].state = "checked" => attempt[a].hash = unit[a[1]].trusted
        /\ attempt[a].state = "disagreed"
                => attempt[a].hash # unit[a[1]].trusted

\* Whatever result a guest holds a receipt for is the one that is stored:
\* conflicting submissions that race cannot both be accepted.
ReceiptsStand == \A a \in Attempts : ack[a] \subseteq {attempt[a].hash}

\* A unit is complete when two of its attempts are checked, and a campaign
\* when all its units are; neither waits for a later event.
CompletionAgrees ==
    /\ \A u \in Units : unit[u].state = "complete"
            <=> Cardinality(CheckedIn(attempt, u)) >= Copies
    /\ \A c \in Campaigns : campaign[c] = "completed" <=> Completed(unit, c)

\* Trusted results, completed units and campaigns, and judged attempts are
\* final, whatever late results, stale replays or owner actions follow.
Final ==
    /\ \A u \in Units :
        /\ unit[u].trusted # NoResult => unit'[u].trusted = unit[u].trusted
        /\ unit[u].state = "complete" => unit'[u].state = "complete"
    /\ \A c \in Campaigns :
        campaign[c] = "completed" => campaign'[c] = "completed"
    /\ \A a \in Attempts :
        attempt[a].state \in {"checked", "disagreed"}
            => attempt'[a] = attempt[a]
VerdictsStand == [][Final]_vars

\* Every claim has a number of its own, so at most one of the replays that
\* are still running, expired ones included, owns the unit.
OneOwner ==
    \A v, w \in Validators :
        (/\ v # w /\ check[v].pc = "replay" /\ check[w].pc = "replay"
         /\ check[v].unit = check[w].unit)
            => check[v].token # check[w].token

\* A replay that lost its claim to a newer one ends without a trace.
StaleReplayIsSilent ==
    [][\A v \in Validators :
        (/\ check[v].pc = "replay"
         /\ check[v].token # unit[check[v].unit].runs
         /\ check'[v] # check[v]) => UNCHANGED tables]_vars

\* The coordinator keeps the promise of module CreditLedger.
Ledger == INSTANCE CreditLedger WITH
    Work <- Units, Entry <- Attempts, Value <- Results, Unset <- NoResult,
    WorkOf <- [a \in Attempts |-> a[1]],
    answer <- [a \in Attempts |-> attempt[a].hash],
    verdict <- [u \in Units |-> unit[u].trusted],
    credited <- credit
KeepsPromise == Ledger!Promise

-----------------------------------------------------------------------------
(* Scheduled checking.                                                     *)

Waiting(a) == attempt[a].state = "submitted" /\ Approved(a[1])

\* Maintenance alone, without any background check, gets every submitted
\* result judged, unless its release is revoked or its replay failed and
\* waits for the owner.
ResultsAreChecked ==
    \A a \in Attempts :
        Waiting(a) ~> (~Waiting(a) \/ unit[a[1]].state = "validation_error")

\* A result whose first replay is already paid for is not starved by other
\* pending work.
ChecksAreNotStarved ==
    \A a \in Attempts :
        (Waiting(a) /\ unit[a[1]].runs = 0)
            ~> (~Waiting(a) \/ unit[a[1]].runs > 0)

\* A unit whose deliveries are used up without enough correct results does
\* not stay open for ever.
DeliveriesEnd ==
    \A u \in Units :
        (/\ unit[u].state = "open"
         /\ Cardinality(IssuedOf(u)) >= unit[u].limit)
            ~> (unit[u].state # "open" \/ ~Approved(u))

==============================================================================
