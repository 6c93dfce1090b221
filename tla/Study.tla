-------------------------------- MODULE Study --------------------------------
(***************************************************************************)
(* The whole frozen study: runners, retries and replays (Panel, Replay),   *)
(* the evaluation report of panel.py and the archive of bundle.py.  The    *)
(* evaluation takes no lock and reads one record after the other; the      *)
(* archive looks at the locks once, reads the two reports, copies the      *)
(* files one after the other and then checks what it copied.               *)
(***************************************************************************)
EXTENDS Replay, FiniteSets

CONSTANTS
  Budgets,         \* the registered budgets: how many of the first searches count
  MaxEvaluations,  \* bound: how often `evaluate` is started
  MaxArchives      \* bound: how often `bundle.py build` gets past its first checks

\* The searches are the starts of one case and algorithm, in order.
ASSUME StudyAssumption ==
  /\ Budgets \subseteq Jobs
  /\ Searches \in Budgets
  /\ MaxEvaluations \in Nat
  /\ MaxArchives \in Nat

VARIABLES
  evaluation,   \* the report of the last `evaluate`, or NoEvaluation
  evaluator,    \* what `evaluate` is doing: how it reads on, and what it read
  evaluations,  \* how often it was started
  archive,      \* the archive of the last `build`, or NoArchive
  bundler,      \* what `build` is doing, and the reports it loaded
  bundles       \* how often it found the reports ready

studyVars == <<evaluation, evaluator, evaluations, archive, bundler, bundles>>
vars == <<panelVars, replayVars, studyVars>>

-----------------------------------------------------------------------------
\* The evaluation.

NoEvaluation == [written |-> FALSE]

Recorded(ledger, budget) == {j \in 1 .. budget : ledger[j] # Absent}
Completed(ledger, budget) == {j \in 1 .. budget : ledger[j] \in Successes}

\* The highest score wins and the earliest start breaks a tie, the latest in the
\* mutant; 0 if nothing completed.
PreferredLatest(ledger, i, j) ==
  \/ ledger[i].result > ledger[j].result
  \/ ledger[i].result = ledger[j].result /\ i >= j
Preferred(ledger, i, j) ==
  \/ ledger[i].result > ledger[j].result
  \/ ledger[i].result = ledger[j].result /\ i <= j

Best(ledger, budget) ==
  LET completed == Completed(ledger, budget) IN
  IF completed = {} THEN 0
  ELSE CHOOSE i \in completed : \A j \in completed : Preferred(ledger, i, j)

\* Every registered budget has all its outcomes, failures included; one of them is
\* enough for the mutant.
CoveredOnce(ledger) == \E b \in Budgets : Cardinality(Recorded(ledger, b)) = b
Covered(ledger) == \A b \in Budgets : Cardinality(Recorded(ledger, b)) = b

EvaluationOf(ledger) ==
  [written    |-> TRUE,
   ledger     |-> ledger,
   best       |-> [b \in Budgets |-> Best(ledger, b)],
   successful |-> Cardinality(Completed(ledger, Searches)),
   failed     |-> Cardinality(Recorded(ledger, Searches)) - Cardinality(Completed(ledger, Searches)),
   complete   |-> Covered(ledger)]

\* Each start reads from the beginning; a killed one leaves nothing behind.
StartEvaluation ==
  /\ evaluations < MaxEvaluations
  /\ evaluator' = [running |-> TRUE, ledger |-> <<>>]
  /\ evaluations' = evaluations + 1
  /\ UNCHANGED evaluation

ReadRecord ==
  /\ evaluator.running
  /\ Len(evaluator.ledger) < Searches
  /\ evaluator' = [evaluator EXCEPT !.ledger = Append(@, runs[Len(@) + 1])]
  /\ UNCHANGED <<evaluation, evaluations>>

WriteEvaluation ==
  /\ evaluator.running
  /\ Len(evaluator.ledger) = Searches
  /\ evaluation' = EvaluationOf(evaluator.ledger)
  /\ evaluator' = [running |-> FALSE, ledger |-> <<>>]
  /\ UNCHANGED evaluations

EvaluateStep ==
  /\ StartEvaluation \/ ReadRecord \/ WriteEvaluation
  /\ UNCHANGED <<panelVars, replayVars, archive, bundler, bundles>>

-----------------------------------------------------------------------------
\* The archive.

\* The checksums of the originals a replay report binds.
Ledger(report) == [k \in DOMAIN report.rows |-> report.rows[k].original]

FailedRows(report) == {j \in Jobs : report.rows[j].status = "original-operational-failure"}
ExactRows(report) == {j \in Jobs : report.rows[j].status = "exact-replay"}

\* validate_ready: complete coverage, full reproduction, the same originals.  The
\* mutant does not ask for the supplemental attempts.
ReadyOriginals(report, replay) ==
  /\ report.written
  /\ report.complete
  /\ AllReproduced(replay)
  /\ report.ledger = Ledger(replay)
Ready(report, replay) ==
  /\ report.written
  /\ report.complete
  /\ AllReproduced(replay)
  /\ SupplementalReproduced(replay)
  /\ report.ledger = Ledger(replay)
  /\ Cardinality(ExactRows(replay)) = report.successful
  /\ Cardinality(FailedRows(replay)) = report.failed

\* The audit file a row names is in the archive, unchanged.
Holds(files, t, audit) == \E k \in DOMAIN files.audits[t] : files.audits[t][k] = audit

\* verify_evidence_hashes: the archived bytes are those the reports bind.
Bound(report, replay, files) ==
  /\ \A j \in Jobs : files.runs[j] = report.ledger[j]
  /\ \A j \in ExactRows(replay) : Holds(files, <<"original", j>>, replay.rows[j].audit)
  /\ \A j \in Jobs :
       IF j \in FailedRows(replay)
         THEN /\ files.supplemental[j] = replay.rows[j].attempt
              /\ replay.rows[j].extra = "exact-replay" =>
                   Holds(files, <<"supplemental", j>>, replay.rows[j].audit)
         ELSE files.supplemental[j] = NoAttempt

NoArchive == [verified |-> FALSE]
Closed == [pc |-> "idle"]

\* The locks are looked at here and never again.
StartBundle ==
  /\ bundler.pc = "idle"
  /\ bundles < MaxArchives
  /\ lock = NoOne
  /\ auditLock = NoOne
  /\ bundler' = [pc |-> "load"]
  /\ archive' = NoArchive
  /\ UNCHANGED bundles

\* The reports are loaded and checked; the output directory is new.
LoadReports ==
  /\ bundler.pc = "load"
  /\ Ready(evaluation, replayReport)
  /\ bundler' = [pc |-> "audits", report |-> evaluation, replay |-> replayReport]
  /\ bundles' = bundles + 1
  /\ UNCHANGED archive

\* The trees are copied one after the other, in the order of their names; numbered
\* and supplemental audits, which sort after the report, go with the other audits.
\* Files that appear after the trees were listed go in here and stay out in the
\* code, but there are none once the reports are ready.
Copied(from, to, file, content) ==
  /\ bundler.pc = from
  /\ bundler' = [bundler EXCEPT !.pc = to]
  /\ archive' = [f \in DOMAIN archive \cup {file} |-> IF f = file THEN content ELSE archive[f]]
  /\ UNCHANGED bundles

\* The evaluation report must still be the one that was loaded.
CopyReport ==
  /\ bundler.pc = "evaluation"
  /\ evaluation = bundler.report
  /\ Copied("evaluation", "attempts", "report", evaluation)

CopyFiles ==
  \/ Copied("audits", "audit-report", "audits", audits)
  \/ Copied("audit-report", "evaluation", "replay", replayReport)
  \/ CopyReport
  \/ Copied("attempts", "runs", "supplemental", supplemental)
  \/ Copied("runs", "verify", "runs", runs)

\* The loaded reports are held against the copies, then the archive is read back
\* and its own reports are checked and held against it; only then is it verified.
Verify ==
  /\ bundler.pc = "verify"
  /\ Bound(bundler.report, bundler.replay, archive)
  /\ Ready(archive.report, archive.replay)
  /\ Bound(archive.report, archive.replay, archive)
  /\ archive' = [archive EXCEPT !.verified = TRUE]
  /\ bundler' = Closed
  /\ UNCHANGED bundles

\* Any check that fails, or the death of the process: the candidate that stays
\* behind has no receipt and nothing reads it.
Abandon ==
  /\ bundler.pc # "idle"
  /\ bundler' = Closed
  /\ archive' = NoArchive
  /\ UNCHANGED bundles

BundleStep ==
  /\ StartBundle \/ LoadReports \/ CopyFiles \/ Verify \/ Abandon
  /\ UNCHANGED <<panelVars, replayVars, evaluation, evaluator, evaluations>>

-----------------------------------------------------------------------------
Init ==
  /\ PanelInit
  /\ ReplayInit
  /\ evaluation = NoEvaluation
  /\ evaluator = [running |-> FALSE, ledger |-> <<>>]
  /\ evaluations = 0
  /\ archive = NoArchive
  /\ bundler = Closed
  /\ bundles = 0

PanelStep ==
  /\ \E w \in Workers : WorkerStep(w)
  /\ UNCHANGED <<replayVars, studyVars>>

AuditStep ==
  /\ \E v \in Replayers : ReplayStep(v)
  /\ UNCHANGED studyVars

Next == PanelStep \/ AuditStep \/ EvaluateStep \/ BundleStep

Spec == Init /\ [][Next]_vars

-----------------------------------------------------------------------------
\* Properties.

\* A complete evaluation is the last word: later evaluations, whatever was run,
\* retried or replayed in between, write the same report again, so supplemental
\* attempts never enter the primary results (evaluate_panel).
EvaluationIsFinal ==
  [][evaluation.written /\ evaluation.complete => evaluation' = evaluation]_vars

\* More starts never make the reported result worse, and with an equal score the
\* earlier start stays the reported one (evaluate_panel).
EarliestBestStands ==
  evaluation.written =>
    \A b, c \in Budgets : b < c /\ evaluation.best[b] # 0 =>
      /\ evaluation.best[c] # 0
      /\ \/ evaluation.best[c] = evaluation.best[b]
         \/ evaluation.ledger[evaluation.best[c]].result > evaluation.ledger[evaluation.best[b]].result

\* A verified archive is the closed study: every original as it still is, each
\* success with its exact audit, each failure with its supplemental attempt, and
\* two reports that speak of these very records (build_bundle, verify_archive).
ArchiveIsClosed ==
  archive.verified =>
    /\ archive.runs = runs
    /\ archive.report.ledger = runs
    /\ AllReproduced(archive.replay)
    /\ \A j \in Jobs :
         \/ /\ runs[j] \in Successes
            /\ \E k \in DOMAIN archive.audits[<<"original", j>>] :
                 archive.audits[<<"original", j>>][k].actual = runs[j]
         \/ /\ runs[j] \in Failures
            /\ archive.supplemental[j].of = runs[j]
            /\ archive.supplemental[j].execution \in Successes =>
                 \E k \in DOMAIN archive.audits[<<"supplemental", j>>] :
                   archive.audits[<<"supplemental", j>>][k].actual = archive.supplemental[j].execution
=============================================================================
