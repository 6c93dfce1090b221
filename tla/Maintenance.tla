----------------------------- MODULE Maintenance -----------------------------
(***************************************************************************)
(* Execution guards and operational evidence: maintenance-guard.ts,        *)
(* maintenance.ts and health.ts, with the callers that take the guard      *)
(* (hooks.server.ts, the v1 results endpoint, worker.ts, the GitHub        *)
(* endpoint and the owner's backup and restore).                           *)
(*                                                                         *)
(* The guard is a row of maintenance_runs.  Requests and background checks *)
(* share it; the owner and the schedule hold it alone.  A row whose        *)
(* process died stays until the operator clears it: there is no timeout.   *)
(***************************************************************************)
EXTENDS Naturals, Sequences, SequencesExt

CONSTANTS
    Requests,      \* ordinary HTTP requests
    Checks,        \* background checks that requests leave behind
    Owners,        \* owner requests
    Deliveries,    \* invocations of the scheduled endpoint or trigger
    Rehearsals,    \* the deliveries that are manual dispatches or reruns
    RunOf,         \* the invocation id a delivery carries (it may repeat)
    Nobody         \* no run recorded

Procs == Requests \cup Checks \cup Owners \cup Deliveries
\* Requests, checks and owners use a fresh id, named here by the process.
IdOf(p) == IF p \in Deliveries THEN RunOf[p] ELSE p
Ids == {IdOf(p) : p \in Procs}
\* The operations recorded here; the health row of a backup opens nothing.
Names == {"scheduled-maintenance", "maintenance-rehearsal"}
\* A manual run is recorded apart; the mutant confuses it with the schedule.
NameOfAny(d) == "scheduled-maintenance"
NameOf(d) == IF d \in Rehearsals THEN "maintenance-rehearsal"
                                 ELSE "scheduled-maintenance"
Parts == {"backup", "check"}     \* the siblings of a maintenance run

ASSUME MaintenanceConstantsOK ==
    /\ Owners \cap Deliveries = {}
    /\ (Owners \cup Deliveries) \cap (Requests \cup Checks) = {}
    /\ Rehearsals \subseteq Deliveries
    /\ \A d, e \in Deliveries : RunOf[d] = RunOf[e]
            => (d \in Rehearsals <=> e \in Rehearsals)
    /\ \A d \in Deliveries : RunOf[d] \notin Procs \ Deliveries
    /\ Nobody \notin Ids

VARIABLES
    rows,     \* table maintenance_runs
    health,   \* table operation_health
    pc,       \* where each process is
    part,     \* how far the siblings of a maintenance run are
    hasty,    \* whether the operator also clears guards of live work
    entered,  \* history: deliveries that were admitted
    begun,    \* history: scheduled runs in the order they were recorded
    outcome   \* history: how the recorded run of a delivery ended

hist == <<entered, begun, outcome>>
vars == <<rows, health, pc, part, hasty, hist>>

Running(i) == rows[i].state = "running"
Inside == {p \in Procs : pc[p] \in {"inside", "working", "ending"}}
Exclusive == Owners \cup Deliveries
Healthy ==
    /\ health["scheduled-maintenance"].fresh
    /\ ~health["scheduled-maintenance"].error

TypeOK ==
    /\ rows \in [Ids -> [state: {"none", "running", "succeeded", "failed"},
                         mode: {"shared", "exclusive"}]]
    /\ health \in [Names -> [run: Ids \cup {Nobody}, fresh: BOOLEAN,
                             error: BOOLEAN]]
    /\ pc \in [Procs -> {"idle", "spawned", "preflight", "between", "inside",
                         "working", "ending", "done", "dead"}]
    /\ part \in [Deliveries -> [Parts -> {"todo", "ok", "failed"}]]
    /\ entered \subseteq Deliveries
    /\ begun \in Seq(Deliveries)
    /\ outcome \in [Deliveries -> {"none", "ok", "failed"}]
    /\ hasty \in BOOLEAN

-----------------------------------------------------------------------------
(* The guard.                                                              *)

\* Nothing is in the way; the mutant lets the exclusive overtake the shared.
FreeOfExclusive(mode) ==
    ~\E i \in Ids : Running(i) /\ rows[i].mode = "exclusive"
Free(mode) ==
    ~\E i \in Ids : Running(i) /\ "exclusive" \in {mode, rows[i].mode}

\* One INSERT: refused when work is in the way or when the id was ever used.
Admits(p, mode) == Free(mode) /\ rows[IdOf(p)].state = "none"

\* A refused process answers 409 and is done.
Enter(p, mode, place) ==
    IF Admits(p, mode)
    THEN /\ rows' = [rows EXCEPT ![IdOf(p)] =
                        [state |-> "running", mode |-> mode]]
         /\ pc' = [pc EXCEPT ![p] = place]
         /\ entered' = entered \cup ({p} \cap Deliveries)
    ELSE /\ pc' = [pc EXCEPT ![p] = "done"]
         /\ UNCHANGED <<rows, entered>>

\* The row of i is deleted; the mutant's DELETE misses its id.
RemovedShared(i) ==
    [j \in Ids |-> IF rows[j].mode = "shared"
                   THEN [rows[j] EXCEPT !.state = "none"] ELSE rows[j]]
Removed(i) == [rows EXCEPT ![i].state = "none"]

\* Scheduled rows stay as evidence, unless the operator has ended them; the
\* others are deleted.  The mutant deletes all.
ClosedForgetting(p) == Removed(IdOf(p))
Closed(p) ==
    IF p \notin Deliveries THEN Removed(p)
    ELSE IF ~Running(IdOf(p)) THEN rows
    ELSE [rows EXCEPT ![IdOf(p)].state =
            IF \E s \in Parts : part[p][s] = "failed"
            THEN "failed" ELSE "succeeded"]

Finish(p) ==
    /\ \/ p \in Requests \cup Checks /\ pc[p] = "inside"
       \/ p \in Exclusive /\ pc[p] = "ending"
    /\ rows' = Closed(p)
    /\ pc' = [pc EXCEPT ![p] = "done"]
    /\ UNCHANGED <<health, part, hist>>

-----------------------------------------------------------------------------
(* Ordinary work.                                                          *)

RequestEnters(p) ==
    /\ p \in Requests /\ pc[p] = "idle"
    /\ Enter(p, "shared", "inside")
    /\ UNCHANGED <<health, part, begun, outcome>>

\* waitUntil(...) with unscopedEnv: the check takes a guard of its own.
RequestSpawns(p, c) ==
    /\ p \in Requests /\ pc[p] = "inside"
    /\ c \in Checks /\ pc[c] = "idle"
    /\ pc' = [pc EXCEPT ![c] = "spawned"]
    /\ UNCHANGED <<rows, health, part, hist>>

CheckEnters(c) ==
    /\ c \in Checks /\ pc[c] = "spawned"
    /\ Enter(c, "shared", "inside")
    /\ UNCHANGED <<health, part, begun, outcome>>

-----------------------------------------------------------------------------
(* The owner: a shared preflight that is released, then exclusive work.    *)

OwnerPreflight(o) ==
    /\ o \in Owners /\ pc[o] = "idle"
    /\ Enter(o, "shared", "preflight")
    /\ UNCHANGED <<health, part, begun, outcome>>

OwnerAuthenticated(o) ==
    /\ pc[o] = "preflight"
    /\ rows' = Removed(o)
    /\ \E place \in {"between", "done"} : pc' = [pc EXCEPT ![o] = place]
    /\ UNCHANGED <<health, part, hist>>

OwnerEnters(o) ==
    /\ pc[o] = "between"
    /\ Enter(o, "exclusive", "inside")
    /\ UNCHANGED <<health, part, begun, outcome>>

\* A mutation, check or backup, which inherits the guard, or a refusal.
OwnerWorks(o) ==
    /\ o \in Owners /\ pc[o] = "inside"
    /\ pc' = [pc EXCEPT ![o] = "ending"]
    /\ UNCHANGED <<rows, health, part, hist>>

\* restoreSnapshot inherits the guard.  Its batch forgets operational
\* evidence; maintenance_runs is not part of a snapshot and survives.
Forgotten == [n \in Names |-> [run |-> Nobody, fresh |-> FALSE,
                               error |-> FALSE]]
OwnerRestores(o) ==
    /\ o \in Owners /\ pc[o] = "inside"
    /\ health' = Forgotten
    /\ begun' = <<>>
    /\ pc' = [pc EXCEPT ![o] = "ending"]
    /\ UNCHANGED <<rows, part, entered, outcome>>

-----------------------------------------------------------------------------
(* recordOperation(): the newest run of a name owns its row.               *)

Started(h, n, i) == [h EXCEPT ![n].run = i]
\* The mutant lets any run write.
EndedUnowned(h, n, i, ok) ==
    IF ok THEN [h EXCEPT ![n].fresh = TRUE, ![n].error = FALSE]
    ELSE [h EXCEPT ![n].error = TRUE]
Ended(h, n, i, ok) ==
    IF h[n].run # i THEN h
    ELSE [h EXCEPT ![n] = [run |-> i, fresh |-> ok \/ @.fresh, error |-> ~ok]]

-----------------------------------------------------------------------------
(* runMaintenance().                                                       *)

ScheduleFires(d) ==
    /\ d \in Deliveries /\ pc[d] = "idle"
    /\ Enter(d, "exclusive", "inside")
    /\ UNCHANGED <<health, part, begun, outcome>>

RecordStart(d) ==
    /\ d \in Deliveries /\ pc[d] = "inside"
    /\ health' = Started(health, NameOf(d), IdOf(d))
    /\ begun' = IF d \in Rehearsals THEN begun ELSE Append(begun, d)
    /\ pc' = [pc EXCEPT ![d] = "working"]
    /\ UNCHANGED <<rows, part, entered, outcome>>

\* dailyBackup() or maintain() settles; module Coordinator has the latter.
PartSettles(d, s, ok) ==
    /\ d \in Deliveries /\ pc[d] = "working"
    /\ part[d][s] = "todo"
    /\ part' = [part EXCEPT ![d][s] = IF ok THEN "ok" ELSE "failed"]
    /\ UNCHANGED <<rows, health, pc, hist>>

\* Promise.allSettled: both siblings have ended, well or not.
RecordEnd(d) ==
    LET ok == \A s \in Parts : part[d][s] = "ok" IN
    /\ d \in Deliveries /\ pc[d] = "working"
    /\ \A s \in Parts : part[d][s] # "todo"
    /\ health' = Ended(health, NameOf(d), IdOf(d), ok)
    /\ outcome' = [outcome EXCEPT ![d] = IF ok THEN "ok" ELSE "failed"]
    /\ pc' = [pc EXCEPT ![d] = "ending"]
    /\ UNCHANGED <<rows, part, entered, begun>>

-----------------------------------------------------------------------------
(* Time, death and the operator.                                           *)

SuccessAges ==
    /\ health' = [health EXCEPT !["scheduled-maintenance"].fresh = FALSE]
    /\ UNCHANGED <<rows, pc, part, hist>>

\* Dying without a guard is the same as never going on.
Dies(p) ==
    /\ p \in Inside \/ pc[p] = "preflight"
    /\ pc' = [pc EXCEPT ![p] = "dead"]
    /\ UNCHANGED <<rows, health, part, hist>>

\* The failure of an interrupted invocation is recorded by hand, once its
\* termination is verified.
OperatorClears(p) ==
    /\ Running(IdOf(p))
    /\ \/ pc[p] = "dead"
       \/ hasty /\ p \in Inside
    /\ rows' = [rows EXCEPT ![IdOf(p)].state = "failed"]
    /\ UNCHANGED <<health, pc, part, hist>>

Init ==
    /\ rows = [i \in Ids |-> [state |-> "none", mode |-> "shared"]]
    /\ health = Forgotten
    /\ pc = [p \in Procs |-> "idle"]
    /\ part = [d \in Deliveries |-> [s \in Parts |-> "todo"]]
    /\ entered = {} /\ begun = <<>>
    /\ outcome = [d \in Deliveries |-> "none"]
    /\ hasty \in BOOLEAN

\* One step of a process, of time or of the operator.
Step ==
    \/ \E p \in Requests : \/ RequestEnters(p)
                           \/ \E c \in Checks : RequestSpawns(p, c)
    \/ \E c \in Checks : CheckEnters(c)
    \/ \E o \in Owners : \/ OwnerPreflight(o) \/ OwnerAuthenticated(o)
                         \/ OwnerEnters(o) \/ OwnerWorks(o) \/ OwnerRestores(o)
    \/ \E d \in Deliveries : ScheduleFires(d) \/ RecordStart(d) \/ RecordEnd(d)
    \/ \E d \in Deliveries, s \in Parts, ok \in BOOLEAN : PartSettles(d, s, ok)
    \/ \E p \in Procs : Finish(p) \/ Dies(p) \/ OperatorClears(p)
    \/ SuccessAges

Next == Step /\ UNCHANGED hasty

Spec == Init /\ [][Next]_vars

-----------------------------------------------------------------------------
(* Properties.                                                             *)

\* Unless the operator clears live work, owner mutations, restores and
\* maintenance runs overlap nothing, not even the preflight of another owner
\* request or a check a request left behind.
ExclusiveRunsAlone ==
    ~hasty => \A p \in Inside \cap Exclusive :
        \A q \in Inside \cup {o \in Owners : pc[o] = "preflight"} : p = q

\* Unless the operator removes it, work never goes on without its row: neither a duplicate delivery, nor a
\* restore, nor the end of a request releases the guard of someone else.
GuardCoversWork ==
    ~hasty => \A p \in Procs : p \in Inside \/ pc[p] = "preflight" => Running(IdOf(p))

\* An invocation id runs at most once, however often it is delivered and
\* whatever crashes, restores and manual repairs happen in between.
RunsOnce == \A d, e \in entered : RunOf[d] = RunOf[e] => d = e

\* Leases open only on the evidence of a scheduled run whose siblings both
\* succeeded, never on a rehearsal, a restore or half a run.
OpeningNeedsSuccess ==
    [][~Healthy /\ Healthy' =>
        \E d \in Deliveries \ Rehearsals :
            /\ pc[d] = "working" /\ pc'[d] = "ending"
            /\ \A s \in Parts : part[d][s] = "ok"]_vars

\* Even when live work lost its guard: a run that ends late does not make
\* the platform healthy again after the newest recorded run has failed.
LateSuccessHidesNothing ==
    Healthy => /\ begun # <<>>
               /\ outcome[Last(begun)] # "failed"
               /\ \E d \in Deliveries : outcome[d] = "ok"

==============================================================================
