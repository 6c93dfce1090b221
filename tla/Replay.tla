------------------------------- MODULE Replay -------------------------------
(***************************************************************************)
(* The audit directory of `panel.py replay`: every recorded result, and on *)
(* request every supplemental one, is computed again and compared.  Audits *)
(* are files; the failed ones stay, and a further attempt gets a numbered  *)
(* file of its own.  A replay looks at the worker's lock once, when it     *)
(* starts, so runners and retries may start again while it reads.          *)
(***************************************************************************)
EXTENDS Panel, Sequences

CONSTANTS
  Replayers,    \* the processes that run `replay`
  ReplayScores, \* the results an execution by a replay can return
  Kernels,      \* the executables a replay may be run with (--binary)
  ReplayOptions, \* the command lines: --retry-operational, --supplemental-retries, --binary
  MaxReplays    \* bound: how often these processes are started in all

ASSUME ReplayAssumption ==
  /\ ReplayOptions \subseteq [retry : BOOLEAN, supplemental : BOOLEAN, kernel : Kernels]
  /\ Scores \subseteq ReplayScores
  /\ ReplayScores \subseteq Nat
  /\ MaxReplays \in Nat
  /\ NoOne \notin Replayers

VARIABLES
  audits,        \* audits[t]: the audit files of target t, in order
  auditLock,     \* output/.running: the process that holds it, or NoOne
  replayReport,  \* output/replay-report.json, or NoReport
  replayer,      \* replayer[v]: what process v is doing
  replays,       \* how many processes were started
  rejected       \* history: the targets with an execution whose output did not validate

replayVars == <<audits, auditLock, replayReport, replayer, replays, rejected>>

-----------------------------------------------------------------------------
\* Audits, and the rows of a report.

\* What an execution by a replay can yield.
Outputs == Failures \cup {[status |-> "complete", result |-> r] : r \in ReplayScores}

Targets == {"original", "supplemental"} \X Jobs

AuditStatus(actual, expected) ==
  CASE actual \in Failures          -> "replay-operational-failure"
    [] actual = expected            -> "exact-replay"
    [] OTHER                        -> "scientific-output-mismatch"

Audit(kernel, expected, actual) ==
  [kernel |-> kernel, expected |-> expected, actual |-> actual,
   status |-> AuditStatus(actual, expected)]

Audits ==
  [kernel : Kernels, expected : Successes, actual : Outputs,
   status : {"replay-operational-failure", "exact-replay", "scientific-output-mismatch"}]
NoAudit == [status |-> "none"]
LastAudit(t) == IF audits[t] = <<>> THEN NoAudit ELSE audits[t][Len(audits[t])]

\* What a replay says of one search: the original it read, the supplemental
\* attempt it read, the statuses it lists and the audit it rests on.
Row(original, attempt, status, extra, audit) ==
  [original |-> original, attempt |-> attempt, status |-> status, extra |-> extra, audit |-> audit]

Rows ==
  [original : Records \cup {Absent}, attempt : Attempts \cup {NoAttempt},
   status : {"original-not-recorded", "original-operational-failure", "exact-replay"},
   extra : {"none", "supplemental-not-recorded", "supplemental-operational-failure", "exact-replay"},
   audit : Audits \cup {NoAudit}]

Reports == [written : {TRUE}, rows : Seq(Rows), fault : BOOLEAN, requested : BOOLEAN]
NoReport == [written |-> FALSE]

\* rows stop before the search at which a replay failed.
Report(v) ==
  [written |-> TRUE, rows |-> replayer[v].rows, fault |-> replayer[v].fault,
   requested |-> replayer[v].options.supplemental]

\* No exception, and every planned search was looked at; the mutant trusts the rows
\* that are there.
ExaminedRows(report) == ~ report.fault
Examined(report) == ~ report.fault /\ Len(report.rows) = Searches

AllReproduced(report) ==
  /\ report.written
  /\ Examined(report)
  /\ \A k \in DOMAIN report.rows :
       report.rows[k].status \in {"exact-replay", "original-operational-failure"}

SupplementalReproduced(report) ==
  /\ report.written
  /\ report.requested
  /\ Examined(report)
  /\ \A k \in DOMAIN report.rows : report.rows[k].status = "original-operational-failure" =>
       report.rows[k].extra \in {"exact-replay", "supplemental-operational-failure"}

-----------------------------------------------------------------------------
\* One process.

Resting == [pc |-> "idle"]

\* What a process knows: its command line from the start, its rows while it holds
\* the audit lock, and the target it executes.
ReplayerStates ==
  [pc : {"idle", "unlock", "dead"}]
  \cup [pc : {"opening"}, options : ReplayOptions]
  \cup [pc : {"scan", "report"}, options : ReplayOptions, at : 1 .. Searches + 1, rows : Seq(Rows), fault : BOOLEAN]
  \cup [pc : {"execute"}, options : ReplayOptions, at : Jobs, rows : Seq(Rows), fault : {FALSE}, target : Targets]

ReplayTypeOK ==
  /\ audits \in [Targets -> Seq(Audits)]
  /\ auditLock \in Replayers \cup {NoOne}
  /\ replayReport \in Reports \cup {NoReport}
  /\ replayer \in [Replayers -> ReplayerStates]
  /\ replays \in 0 .. MaxReplays
  /\ rejected \subseteq Targets

Active(v, pcs) == replayer[v].pc \in pcs

ReplayInit ==
  /\ audits = [t \in Targets |-> <<>>]
  /\ auditLock = NoOne
  /\ replayReport = NoReport
  /\ replayer = [v \in Replayers |-> Resting]
  /\ replays = 0
  /\ rejected = {}

\* The worker's lock is looked at here and never again.
StartReplay(v, options) ==
  /\ Active(v, {"idle"})
  /\ replays < MaxReplays
  /\ lock = NoOne
  /\ replayer' = [replayer EXCEPT ![v] =
       [pc |-> "opening", options |-> options]]
  /\ replays' = replays + 1
  /\ UNCHANGED <<audits, auditLock, replayReport, rejected>>

\* The audit lock is created exclusively; whoever finds one ends at once.
OpenAudits(v) ==
  /\ Active(v, {"opening"})
  /\ IF auditLock = NoOne
       THEN /\ auditLock' = v
            /\ replayer' = [replayer EXCEPT ![v] =
                 [pc |-> "scan", options |-> replayer[v].options, at |-> 1, rows |-> <<>>, fault |-> FALSE]]
       ELSE /\ replayer' = [replayer EXCEPT ![v] = Resting]
            /\ UNCHANGED auditLock
  /\ UNCHANGED <<audits, replayReport, replays, rejected>>

At(v) == replayer[v].at
Reading(v) == Active(v, {"scan"}) /\ At(v) \in Jobs

\* Does the replay look into the supplemental attempt of search j?
Asks(v, j) == replayer[v].options.supplemental /\ runs[j] \in Failures /\ supplemental[j] # NoAttempt

\* The target to reproduce at search j, if there is a result to reproduce.
Due(v, j) ==
  CASE runs[j] \in Successes                                            -> {<<"original", j>>}
    [] Asks(v, j) /\ ~ Foreign(j) /\ supplemental[j].execution \in Successes -> {<<"supplemental", j>>}
    [] OTHER                                                            -> {}

Expected(t) == IF t[1] = "original" THEN runs[t[2]] ELSE supplemental[t[2]].execution

Belongs(v, t, audit) == audit.kernel = replayer[v].options.kernel /\ audit.expected = Expected(t)

\* --retry-operational tries again where the last attempt gave no output; the mutant
\* tries whatever was tried.
RetriableAlways(v, t) ==
  /\ LastAudit(t) # NoAudit
  /\ replayer[v].options.retry
Retriable(v, t) ==
  /\ LastAudit(t) # NoAudit
  /\ LastAudit(t).status = "replay-operational-failure"
  /\ replayer[v].options.retry

\* v lists a row and goes on with the next search.
Lists(v, pc, row) ==
  replayer' = [replayer EXCEPT ![v] =
    [pc |-> pc, options |-> replayer[v].options, at |-> At(v) + 1,
     rows |-> Append(replayer[v].rows, row), fault |-> FALSE]]

\* v stops at an exception and will report it.
Faults(v) ==
  replayer' = [replayer EXCEPT ![v] =
    [pc |-> "report", options |-> replayer[v].options, at |-> At(v), rows |-> replayer[v].rows, fault |-> TRUE]]

ReplayedRow(t, audit) ==
  IF t[1] = "original"
    THEN Row(runs[t[2]], NoAttempt, audit.status, "none", audit)
    ELSE Row(runs[t[2]], supplemental[t[2]], "original-operational-failure", audit.status, audit)

\* The row of a search without a result to reproduce.
PassedRow(v, j) ==
  LET listed(attempt, extra) == Row(runs[j], attempt, "original-operational-failure", extra, NoAudit) IN
  IF runs[j] = Absent THEN Row(Absent, NoAttempt, "original-not-recorded", "none", NoAudit)
  ELSE IF ~ replayer[v].options.supplemental THEN listed(NoAttempt, "none")
  ELSE IF supplemental[j] = NoAttempt THEN listed(NoAttempt, "supplemental-not-recorded")
  ELSE listed(supplemental[j], "supplemental-operational-failure")

\* Nothing to reproduce here.
PassOver(v) ==
  LET j == At(v) IN
  /\ Reading(v)
  /\ Due(v, j) = {}
  /\ ~ (Asks(v, j) /\ Foreign(j))
  /\ Lists(v, "scan", PassedRow(v, j))
  /\ UNCHANGED <<audits, auditLock, replayReport, replays, rejected>>

\* An audit of an earlier replay settles the search.
Accept(v) ==
  /\ Reading(v)
  /\ \E t \in Due(v, At(v)) :
       /\ LastAudit(t) # NoAudit
       /\ Belongs(v, t, LastAudit(t))
       /\ LastAudit(t).status = "exact-replay"
       /\ Lists(v, "scan", ReplayedRow(t, LastAudit(t)))
  /\ UNCHANGED <<audits, auditLock, replayReport, replays, rejected>>

StageReplay(v) ==
  /\ Reading(v)
  /\ \E t \in Due(v, At(v)) :
       /\ LastAudit(t) # NoAudit => Belongs(v, t, LastAudit(t)) /\ Retriable(v, t)
       /\ replayer' = [replayer EXCEPT ![v] =
            [pc |-> "execute", options |-> replayer[v].options, at |-> At(v), rows |-> replayer[v].rows,
             fault |-> FALSE, target |-> t]]
  /\ UNCHANGED <<audits, auditLock, replayReport, replays, rejected>>

\* An exception while scanning or executing ends the replay without an audit: an
\* earlier audit differs, failed, or belongs to another executable or record (such
\* a search is neither accepted nor staged), an attempt names another original,
\* or the operator presses Ctrl-C.
FailReplay(v) ==
  /\ Reading(v) \/ Active(v, {"execute"})
  /\ Faults(v)
  /\ UNCHANGED <<audits, auditLock, replayReport, replays, rejected>>

\* The execution ended and its audit is saved; --limit may stop the replay here.
Replayed(v, actual) ==
  LET t == replayer[v].target
      audit == Audit(replayer[v].options.kernel, Expected(t), actual) IN
  /\ Active(v, {"execute"})
  /\ audits' = [audits EXCEPT ![t] = Append(@, audit)]
  /\ IF audit.status = "exact-replay"
       THEN \E pc \in {"scan", "report"} : Lists(v, pc, ReplayedRow(t, audit))
       ELSE Faults(v)
  /\ UNCHANGED <<auditLock, replayReport, replays, rejected>>

\* The execution exits with 0 and its output does not validate: execute() raises
\* before an audit is saved.
RejectReplay(v) ==
  /\ Active(v, {"execute"})
  /\ rejected' = rejected \cup {replayer[v].target}
  /\ Faults(v)
  /\ UNCHANGED <<audits, auditLock, replayReport, replays>>

\* The finally clause: the report is written, then the lock is removed.
WriteReport(v) ==
  /\ \/ Active(v, {"report"})
     \/ Active(v, {"scan"}) /\ At(v) = Searches + 1
  /\ replayReport' = Report(v)
  /\ replayer' = [replayer EXCEPT ![v] = [pc |-> "unlock"]]
  /\ UNCHANGED <<audits, auditLock, replays, rejected>>

Unlock(v) ==
  /\ Active(v, {"unlock"})
  /\ auditLock' = NoOne
  /\ replayer' = [replayer EXCEPT ![v] = Resting]
  /\ UNCHANGED <<audits, replayReport, replays, rejected>>

KillReplay(v) ==
  /\ Active(v, {"scan", "execute", "report", "unlock"})
  /\ replayer' = [replayer EXCEPT ![v] = [pc |-> "dead"]]
  /\ UNCHANGED <<audits, auditLock, replayReport, replays, rejected>>

\* The operator removes the lock of a process found dead.
ClearAuditLock(v) ==
  /\ Active(v, {"dead"})
  /\ auditLock = v
  /\ auditLock' = NoOne
  /\ replayer' = [replayer EXCEPT ![v] = Resting]
  /\ UNCHANGED <<audits, replayReport, replays, rejected>>

ReplayStep(v) ==
  /\ \/ \E options \in ReplayOptions : StartReplay(v, options)
     \/ OpenAudits(v)
     \/ PassOver(v)
     \/ Accept(v)
     \/ StageReplay(v)
     \/ FailReplay(v)
     \/ \E actual \in Outputs : Replayed(v, actual)
     \/ RejectReplay(v)
     \/ WriteReport(v)
     \/ Unlock(v)
     \/ KillReplay(v)
     \/ ClearAuditLock(v)
  /\ UNCHANGED panelVars

-----------------------------------------------------------------------------
\* Properties.

\* A scientific mismatch cannot be retried away: an audit is followed by another
\* only if it was an attempt without output, all attempts compare with what is
\* recorded, and a search with a recorded mismatch is in no report of full
\* reproduction (replay_one, replay_panel).  The supplemental claim of a report
\* counts only beside that of the originals: it is also true, of nothing, when
\* the originals were not recorded yet.
MismatchesStand ==
  \A t \in Targets :
    /\ \A k \in DOMAIN audits[t] :
         /\ audits[t][k].expected = Expected(t)
         /\ k < Len(audits[t]) => audits[t][k].status = "replay-operational-failure"
    /\ LastAudit(t).status = "scientific-output-mismatch" =>
         ~ (AllReproduced(replayReport) /\ (t[1] = "supplemental" => SupplementalReproduced(replayReport)))

\* A report of full reproduction is true of the files as they are now, whatever
\* ran since it was written: all originals are the ones it read, and each success
\* has an exact audit of that very result (replay_panel).
ReportsAreTrue ==
  AllReproduced(replayReport) =>
    /\ Len(replayReport.rows) = Searches
    /\ \A j \in Jobs :
      /\ runs[j] = replayReport.rows[j].original
      /\ runs[j] \in Records
      /\ runs[j] \in Successes =>
           /\ LastAudit(<<"original", j>>).status = "exact-replay"
           /\ LastAudit(<<"original", j>>).actual = runs[j]

\* "A mismatch retains the complete differing output and an incomplete report"
\* (PANEL.md): a replay whose output was refused is not followed by a report that
\* everything was reproduced.
RefusedOutputsStand ==
  \A j \in Jobs : <<"original", j>> \in rejected => ~ AllReproduced(replayReport)
=============================================================================
