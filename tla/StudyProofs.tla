----------------------------- MODULE StudyProofs -----------------------------
(***************************************************************************)
(* Theorems about the recovery panel's records, its evaluation, replays    *)
(* and the archive, for any number of searches, results, executables,      *)
(* processes and restarts.                                                 *)
(***************************************************************************)
EXTENDS Study, FiniteSetTheorems, TLAPS

-----------------------------------------------------------------------------
(* The panel.  Everything rests on the lock: a process that is at work, or *)
(* died at work, is the one the lock names, so what it found when it       *)
(* staged a search is still so when it saves.                              *)

\* Whoever is not idle is named by the lock.
LockNames == \A w \in Workers : worker[w].pc # "idle" => lock = w

\* What is being executed is not recorded yet, and the original failure a retry
\* has read is the recorded one.
StagedIsOpen ==
  \A w \in Workers : worker[w].pc = "execute" =>
    LET j == worker[w].at IN
    /\ j \in Jobs
    /\ \/ worker[w].tool = "run" /\ runs[j] = Absent
       \/ /\ worker[w].tool = "retry"
          /\ runs[j] \in Failures
          /\ worker[w].seen = runs[j]
          /\ supplemental[j] = NoAttempt

PanelInv == PanelTypeOK /\ LockNames /\ StagedIsOpen /\ AttemptsBelong

\* An absent record is none of those a search leaves behind.
LEMMA AbsentIsNoRecord ==
  /\ Absent \notin Records
  /\ Failures \subseteq Records
  /\ [status |-> "execution_error", result |-> 0] \in Failures
<1>1. ASSUME NEW r \in Records PROVE r.status # "absent"
  BY PanelAssumption DEF Records, Failures, Successes
<1>2. Absent.status = "absent"
  BY DEF Absent
<1>3. [status |-> "execution_error", result |-> 0] \in Failures
  BY PanelAssumption DEF Failures
<1> QED
  BY <1>1, <1>2, <1>3 DEF Records

\* An attempt has an original failure, so it is not the missing attempt.
LEMMA NoAttemptIsNoAttempt == NoAttempt \notin Attempts
<1>1. NoAttempt.of = Absent
  BY DEF NoAttempt
<1>2. ASSUME NEW a \in Attempts PROVE a.of \in Failures
  BY DEF Attempts
<1> QED
  BY <1>1, <1>2, AbsentIsNoRecord

LEMMA PanelInitInv == PanelInit => PanelInv
<1> SUFFICES ASSUME PanelInit PROVE PanelInv
  OBVIOUS
<1> USE DEF PanelInit
<1>1. Idle \in WorkerType
  BY PanelAssumption DEF Idle, WorkerType, Tools
<1>2. PanelTypeOK
  BY <1>1, PanelAssumption DEF PanelTypeOK
<1>3. LockNames /\ StagedIsOpen
  BY DEF LockNames, StagedIsOpen, Idle
<1>4. AttemptsBelong
  BY DEF AttemptsBelong
<1> QED
  BY <1>2, <1>3, <1>4 DEF PanelInv

\* Where a step of w only moves w, to a state that is not "execute", and leaves the
\* records alone, the invariant needs the type of the new state and the lock.
LEMMA MoveKeepsInv ==
  ASSUME PanelInv, NEW w \in Workers, NEW state \in WorkerType,
         worker' = [worker EXCEPT ![w] = state],
         state.pc # "execute",
         \/ lock = w /\ lock' = lock
         \/ lock = NoOne /\ lock' = w
         \/ lock = w /\ lock' = NoOne /\ state.pc = "idle",
         starts' \in 0 .. MaxStarts,
         UNCHANGED <<runs, supplemental>>
  PROVE  PanelInv'
<1>1. PanelTypeOK'
  BY DEF PanelInv, PanelTypeOK
<1>2. ASSUME NEW x \in Workers, x # w PROVE worker'[x] = worker[x]
  BY <1>2 DEF PanelInv, PanelTypeOK
<1>3. worker'[w] = state
  BY DEF PanelInv, PanelTypeOK
<1>4. ASSUME NEW x \in Workers, x # w PROVE worker[x].pc = "idle"
  BY <1>4, PanelAssumption DEF PanelInv, LockNames
<1>5. LockNames'
  BY <1>2, <1>3, <1>4 DEF LockNames
<1>6. StagedIsOpen'
  BY <1>2, <1>3, <1>4 DEF StagedIsOpen
<1>7. AttemptsBelong'
  BY DEF PanelInv, AttemptsBelong
<1> QED
  BY <1>1, <1>5, <1>6, <1>7 DEF PanelInv

\* Each step keeps the invariant.
LEMMA WorkerStepInv ==
  ASSUME PanelInv, NEW w \in Workers, WorkerStep(w)
  PROVE  PanelInv'
<1> USE PanelAssumption
<1>t. worker[w] \in WorkerType /\ PanelTypeOK
  BY DEF PanelInv, PanelTypeOK
<1>l. worker[w].pc # "idle" => lock = w
  BY DEF PanelInv, LockNames
<1>1. ASSUME NEW tool \in Tools, StartTool(w, tool) PROVE PanelInv'
  <2> DEFINE state == [tool |-> tool, pc |-> "scan", at |-> 1, seen |-> Absent]
  <2>1. state \in WorkerType
    BY DEF WorkerType
  <2>2. starts' \in 0 .. MaxStarts
    BY <1>1, <1>t DEF StartTool, PanelTypeOK
  <2> QED
    BY <1>1, <2>1, <2>2, MoveKeepsInv DEF StartTool, Acquired
<1>2. ASSUME Skip(w) PROVE PanelInv'
  <2> DEFINE state == [tool |-> worker[w].tool, pc |-> "scan", at |-> worker[w].at + 1, seen |-> Absent]
  <2>1. state \in WorkerType
    BY <1>2, <1>t DEF WorkerType, Skip, Scanning, Jobs
  <2>2. starts' \in 0 .. MaxStarts /\ lock = w
    BY <1>2, <1>t, <1>l DEF Skip, Scanning, PanelTypeOK
  <2> QED
    BY <1>2, <2>1, <2>2, MoveKeepsInv DEF Skip, Goes
<1>3. ASSUME Stage(w) PROVE PanelInv'
  <2> DEFINE j == worker[w].at
             state == [tool |-> worker[w].tool, pc |-> "execute", at |-> j, seen |-> runs[j]]
  <2>1. j \in Jobs /\ lock = w
    BY <1>3, <1>l DEF Stage, Scanning
  <2>2. \/ worker[w].tool = "run" /\ runs[j] = Absent
        \/ worker[w].tool = "retry" /\ runs[j] \in Failures /\ supplemental[j] = NoAttempt
    BY <1>3 DEF Stage, Open
  <2>3. state \in WorkerType
    BY <1>t, <2>2 DEF WorkerType
  <2>4. worker' = [worker EXCEPT ![w] = state]
    BY <1>3 DEF Stage
  <2>5. worker'[w] = state /\ \A x \in Workers : x # w => worker'[x] = worker[x]
    BY <2>4, <1>t DEF PanelTypeOK
  <2>6. PanelTypeOK'
    BY <1>3, <1>t, <2>3, <2>4 DEF Stage, PanelTypeOK
  <2>7. LockNames'
    BY <1>3, <2>1, <2>5 DEF Stage, PanelInv, LockNames
  <2>8. StagedIsOpen'
    BY <1>3, <2>1, <2>2, <2>5 DEF Stage, PanelInv, StagedIsOpen
  <2>9. AttemptsBelong'
    BY <1>3 DEF Stage, PanelInv, AttemptsBelong
  <2> QED
    BY <2>6, <2>7, <2>8, <2>9 DEF PanelInv
<1>4. ASSUME NEW outcome \in Records, Record(w, outcome) PROVE PanelInv'
  <2> DEFINE j == worker[w].at
  <2>1. /\ lock = w
        /\ j \in Jobs
        /\ \/ worker[w].tool = "run" /\ runs[j] = Absent
           \/ /\ worker[w].tool = "retry"
              /\ runs[j] \in Failures
              /\ worker[w].seen = runs[j]
    BY <1>4, <1>l DEF Record, PanelInv, StagedIsOpen
  <2>2. PICK state \in WorkerType :
          worker' = [worker EXCEPT ![w] = state] /\ state.pc \in {"scan", "finish"}
    <3> DEFINE on(pc, at) == [tool |-> worker[w].tool, pc |-> pc, at |-> at, seen |-> Absent]
    <3>1. on("scan", j + 1) \in WorkerType /\ on("finish", j) \in WorkerType
      BY <2>1, <1>t DEF WorkerType, Jobs
    <3>2. \/ worker' = [worker EXCEPT ![w] = on("scan", j + 1)]
          \/ worker' = [worker EXCEPT ![w] = on("finish", j)]
      BY <1>4 DEF Record, Goes
    <3> QED
      BY <3>1, <3>2
  <2>3. worker'[w] = state /\ \A x \in Workers : x # w => worker'[x] = worker[x]
    BY <2>2, <1>t DEF PanelTypeOK
  <2>4. \A x \in Workers : x # w => worker[x].pc = "idle"
    BY <2>1 DEF PanelInv, LockNames
  <2>5. LockNames'
    BY <1>4, <2>1, <2>3, <2>4 DEF Record, LockNames
  <2>6. StagedIsOpen'
    BY <2>2, <2>3, <2>4 DEF StagedIsOpen
  <2>7. CASE worker[w].tool = "run"
    <3>1. runs' = [runs EXCEPT ![j] = outcome] /\ UNCHANGED <<supplemental, lock, starts>>
      BY <1>4, <2>7 DEF Record
    <3>2. supplemental[j] = NoAttempt
      BY <2>1, <2>7, AbsentIsNoRecord DEF PanelInv, AttemptsBelong
    <3>3. PanelTypeOK'
      BY <3>1, <2>2, <1>t DEF PanelTypeOK
    <3>4. AttemptsBelong'
      BY <3>1, <3>2, <1>t DEF PanelInv, AttemptsBelong, PanelTypeOK
    <3> QED
      BY <3>3, <3>4, <2>5, <2>6 DEF PanelInv
  <2>8. CASE worker[w].tool = "retry"
    <3> DEFINE attempt == [of |-> runs[j], execution |-> outcome]
    <3>1. /\ supplemental' = [supplemental EXCEPT ![j] = attempt]
          /\ runs[j] \in Failures
          /\ UNCHANGED <<runs, lock, starts>>
      BY <1>4, <2>1, <2>8 DEF Record
    <3>2. attempt \in Attempts
      BY <3>1 DEF Attempts
    <3>3. PanelTypeOK'
      BY <3>1, <3>2, <2>2, <1>t DEF PanelTypeOK
    <3>4. AttemptsBelong'
      BY <3>1, <1>t DEF PanelInv, AttemptsBelong, PanelTypeOK
    <3> QED
      BY <3>3, <3>4, <2>5, <2>6 DEF PanelInv
  <2> QED
    BY <2>1, <2>7, <2>8
<1>5. ASSUME Raise(w) PROVE PanelInv'
  <2> DEFINE state == [tool |-> worker[w].tool, pc |-> "finish", at |-> worker[w].at, seen |-> Absent]
  <2>1. state \in WorkerType
    BY <1>t DEF WorkerType
  <2>2. starts' \in 0 .. MaxStarts /\ lock = w
    BY <1>5, <1>t, <1>l DEF Raise, PanelTypeOK
  <2> QED
    BY <1>5, <2>1, <2>2, MoveKeepsInv DEF Raise, Goes
<1>i. Idle \in WorkerType /\ Idle.pc = "idle"
  BY DEF Idle, WorkerType, Tools
<1>6. ASSUME End(w) PROVE PanelInv'
  <2>1. starts' \in 0 .. MaxStarts /\ lock = w
    BY <1>6, <1>t, <1>l DEF End, PanelTypeOK
  <2> QED
    BY <1>6, <1>i, <2>1, MoveKeepsInv DEF End
<1>7. ASSUME Kill(w) PROVE PanelInv'
  <2> DEFINE gone == IF worker[w].pc = "execute" THEN "dead-staged" ELSE "dead"
             state == [worker[w] EXCEPT !.pc = gone]
  <2>1. state \in WorkerType /\ state.pc \notin {"execute", "idle"}
    BY <1>t DEF WorkerType
  <2>2. worker' = [worker EXCEPT ![w] = state]
    BY <1>7 DEF Kill
  <2>3. starts' \in 0 .. MaxStarts /\ lock = w
    BY <1>7, <1>t, <1>l DEF Kill, PanelTypeOK
  <2> QED
    BY <1>7, <2>1, <2>2, <2>3, MoveKeepsInv DEF Kill
<1>8. ASSUME ClearLock(w) PROVE PanelInv'
  <2>1. starts' \in 0 .. MaxStarts
    BY <1>8, <1>t DEF ClearLock, Cleared, PanelTypeOK
  <2> QED
    BY <1>8, <1>i, <2>1, MoveKeepsInv DEF ClearLock, Cleared
<1>9. ASSUME RecordInterruption(w) PROVE PanelInv'
  <2> DEFINE j == worker[w].at
             failure == [status |-> "execution_error", result |-> 0]
  <2>1. /\ lock = w /\ lock' = NoOne
        /\ worker' = [worker EXCEPT ![w] = Idle]
        /\ runs[j] = Absent
        /\ runs' = [runs EXCEPT ![j] = failure]
        /\ UNCHANGED <<supplemental, starts>>
    BY <1>9 DEF RecordInterruption, Cleared
  <2>2. PanelTypeOK'
    BY <2>1, <1>t, <1>i, AbsentIsNoRecord DEF PanelTypeOK
  <2>3. worker'[w] = Idle /\ \A x \in Workers : x # w => worker'[x].pc = "idle"
    BY <2>1, <1>t DEF PanelInv, LockNames, PanelTypeOK
  <2>4. LockNames' /\ StagedIsOpen'
    BY <2>3, <1>i DEF LockNames, StagedIsOpen
  <2>5. AttemptsBelong'
    BY <2>1, <1>t, AbsentIsNoRecord DEF PanelInv, AttemptsBelong, PanelTypeOK
  <2> QED
    BY <2>2, <2>4, <2>5 DEF PanelInv
<1> QED
  BY <1>1, <1>2, <1>3, <1>4, <1>5, <1>6, <1>7, <1>8, <1>9 DEF WorkerStep

LEMMA PanelNextInv == PanelInv /\ [PanelNext]_panelVars => PanelInv'
<1> SUFFICES ASSUME PanelInv, [PanelNext]_panelVars PROVE PanelInv'
  OBVIOUS
<1>1. CASE PanelNext
  BY <1>1, WorkerStepInv DEF PanelNext
<1>2. CASE UNCHANGED panelVars
  BY <1>2 DEF panelVars, PanelInv, PanelTypeOK, LockNames, StagedIsOpen, AttemptsBelong
<1> QED
  BY <1>1, <1>2

\* The invariant of the panel's own steps: its state is well-typed, whoever works or
\* died at work is named by .running, and what is staged is still open.
THEOREM PanelInvariant == PanelSpec => []PanelInv
BY PanelInitInv, PanelNextInv, PTL DEF PanelSpec

\* The panel's records, lock, attempts and processes are always well-formed.
THEOREM PanelTypeCorrect == PanelSpec => []PanelTypeOK
<1>1. PanelInv => PanelTypeOK
  BY DEF PanelInv
<1> QED
  BY <1>1, PanelInvariant, PTL

\* A supplemental attempt exists only beside the original failure it names, in
\* whatever order runs, retries, crashes and recorded interruptions happen.
THEOREM AttemptsBelongAlways == PanelSpec => []AttemptsBelong
<1>1. PanelInv => AttemptsBelong
  BY DEF PanelInv
<1> QED
  BY <1>1, PanelInvariant, PTL

\* No step changes what is recorded, because a saving process holds the lock.
LEMMA StepKeepsRecords ==
  ASSUME PanelInv, [PanelNext]_panelVars, NEW j \in Jobs
  PROVE  /\ runs[j] # Absent => runs'[j] = runs[j]
         /\ supplemental[j] # NoAttempt => supplemental'[j] = supplemental[j]
<1>1. CASE UNCHANGED <<runs, supplemental>>
  BY <1>1
<1>2. ASSUME NEW w \in Workers, NEW outcome \in Records, Record(w, outcome)
      PROVE  /\ runs[j] # Absent => runs'[j] = runs[j]
             /\ supplemental[j] # NoAttempt => supplemental'[j] = supplemental[j]
  <2>1. \/ worker[w].tool = "run" /\ runs[worker[w].at] = Absent
        \/ worker[w].tool = "retry" /\ supplemental[worker[w].at] = NoAttempt
    BY <1>2 DEF Record, PanelInv, StagedIsOpen
  <2> QED
    BY <1>2, <2>1 DEF Record, PanelInv, PanelTypeOK
<1>3. ASSUME NEW w \in Workers, RecordInterruption(w)
      PROVE  /\ runs[j] # Absent => runs'[j] = runs[j]
             /\ supplemental[j] # NoAttempt => supplemental'[j] = supplemental[j]
  BY <1>3 DEF RecordInterruption, Cleared, PanelInv, PanelTypeOK
<1>4. \/ UNCHANGED <<runs, supplemental>>
      \/ \E w \in Workers : RecordInterruption(w) \/ \E outcome \in Records : Record(w, outcome)
  BY DEF PanelNext, WorkerStep, panelVars, StartTool, Skip, Stage, Raise, End, Kill, ClearLock, Cleared
<1> QED
  BY <1>1, <1>2, <1>3, <1>4

\* Original records and supplemental attempts are never changed once they exist.
THEOREM RecordsStandAlways == PanelSpec => RecordsStand
<1>1. PanelInv /\ [PanelNext]_panelVars =>
        [\A j \in Jobs :
           /\ runs[j] # Absent => runs'[j] = runs[j]
           /\ supplemental[j] # NoAttempt => supplemental'[j] = supplemental[j]]_panelVars
  BY StepKeepsRecords
<1> QED
  BY <1>1, PanelInvariant, PTL DEF PanelSpec, RecordsStand

-----------------------------------------------------------------------------
(* The whole study implements the panel: replays, evaluations and archives *)
(* never write to the worker directory or the supplemental attempts, so    *)
(* what is proved of the panel alone holds while they run.                 *)

LEMMA StudyInit == Init => PanelInit
BY DEF Init

LEMMA StudyStep == [Next]_vars => [PanelNext]_panelVars
<1> SUFFICES ASSUME [Next]_vars PROVE [PanelNext]_panelVars
  OBVIOUS
<1>1. CASE PanelStep
  BY <1>1 DEF PanelStep, PanelNext
<1>2. CASE AuditStep
  BY <1>2 DEF AuditStep, ReplayStep
<1>3. CASE EvaluateStep
  BY <1>3 DEF EvaluateStep
<1>4. CASE BundleStep
  BY <1>4 DEF BundleStep
<1>5. CASE UNCHANGED vars
  BY <1>5 DEF vars
<1> QED
  BY <1>1, <1>2, <1>3, <1>4, <1>5 DEF Next

\* Every behaviour of the study is one of the panel.
THEOREM StudyImplementsPanel == Spec => PanelSpec
BY StudyInit, StudyStep, PTL DEF Spec, PanelSpec

\* "An existing result is never overwritten", whatever else of the study runs.
THEOREM StudyKeepsRecords == Spec => RecordsStand
BY StudyImplementsPanel, RecordsStandAlways, PTL

\* Supplemental attempts belong to original failures, whatever else runs.
THEOREM StudyAttemptsBelong == Spec => []AttemptsBelong
BY StudyImplementsPanel, AttemptsBelongAlways, PTL

-----------------------------------------------------------------------------
\* The evaluation.  What an evaluation has read is what is recorded, but for the
\* searches that were recorded since; when nothing was missing, nothing was
\* recorded since, and every later evaluation reads the same.
ReadIsRecorded ==
  /\ evaluator.ledger \in Seq(Records \cup {Absent})
  /\ Len(evaluator.ledger) <= Searches
  /\ \A k \in 1 .. Len(evaluator.ledger) :
       evaluator.ledger[k] # Absent => runs[k] = evaluator.ledger[k]

CompleteIsCurrent ==
  evaluation.written /\ evaluation.complete =>
    /\ \A j \in Jobs : runs[j] # Absent
    /\ evaluation = EvaluationOf(runs)
    /\ \A k \in 1 .. Len(evaluator.ledger) : evaluator.ledger[k] = runs[k]

EvaluationInv == ReadIsRecorded /\ CompleteIsCurrent

\* Where every registered budget is covered, every search has a record.
LEMMA CoveredIsAll ==
  ASSUME NEW ledger, Covered(ledger)
  PROVE  \A j \in Jobs : ledger[j] # Absent
<1>1. Searches \in Budgets /\ Searches \in Nat
  BY PanelAssumption, StudyAssumption
<1>2. Cardinality(Recorded(ledger, Searches)) = Searches
  BY <1>1 DEF Covered
<1>3. IsFiniteSet(Jobs) /\ Cardinality(Jobs) = Searches
  BY <1>1, FS_Interval DEF Jobs
<1>4. Recorded(ledger, Searches) \subseteq Jobs
  BY DEF Recorded, Jobs
<1>5. Recorded(ledger, Searches) = Jobs
  BY <1>2, <1>3, <1>4, FS_Subset
<1> QED
  BY <1>5 DEF Recorded

\* A whole ledger that agrees with the records is the records.
LEMMA WholeLedger ==
  ASSUME PanelTypeOK, NEW ledger \in Seq(Records \cup {Absent}), Len(ledger) = Searches,
         \A k \in 1 .. Searches : ledger[k] = runs[k]
  PROVE  ledger = runs
<1>1. ledger \in [Jobs -> Records \cup {Absent}]
  BY DEF Jobs
<1>2. runs \in [Jobs -> Records \cup {Absent}]
  BY DEF PanelTypeOK
<1> QED
  BY <1>1, <1>2 DEF Jobs

LEMMA EvaluationInitInv == Init => EvaluationInv
BY PanelAssumption DEF Init, NoEvaluation, EvaluationInv, ReadIsRecorded, CompleteIsCurrent

LEMMA EvaluationNextInv ==
  ASSUME PanelInv, EvaluationInv, [Next]_vars
  PROVE  /\ EvaluationInv'
         /\ evaluation.written /\ evaluation.complete => evaluation' = evaluation
<1> USE PanelAssumption
<1>1. Searches \in Nat
  OBVIOUS
<1>r. \A j \in Jobs : runs[j] # Absent => runs'[j] = runs[j]
  BY StudyStep, StepKeepsRecords
<1>t. PanelTypeOK /\ PanelTypeOK'
  BY StudyStep, PanelNextInv DEF PanelInv
<1>2. ASSUME UNCHANGED <<evaluation, evaluator>>
      PROVE  EvaluationInv' /\ evaluation' = evaluation
  <2>1. ReadIsRecorded'
    BY <1>2, <1>r DEF EvaluationInv, ReadIsRecorded, Jobs
  <2>2. CompleteIsCurrent'
    <3> SUFFICES ASSUME evaluation.written, evaluation.complete
                 PROVE  /\ \A j \in Jobs : runs'[j] # Absent
                        /\ evaluation = EvaluationOf(runs')
                        /\ \A k \in 1 .. Len(evaluator.ledger) : evaluator.ledger[k] = runs'[k]
      BY <1>2 DEF CompleteIsCurrent
    <3>1. runs' = runs
      BY <1>r, <1>t DEF EvaluationInv, CompleteIsCurrent, PanelTypeOK
    <3> QED
      BY <3>1 DEF EvaluationInv, CompleteIsCurrent
  <2> QED
    BY <1>2, <2>1, <2>2 DEF EvaluationInv
<1>3. ASSUME StartEvaluation, UNCHANGED runs
      PROVE  EvaluationInv' /\ evaluation' = evaluation
  <2>1. evaluator'.ledger = <<>> /\ evaluation' = evaluation
    BY <1>3 DEF StartEvaluation
  <2> QED
    BY <1>3, <2>1 DEF EvaluationInv, ReadIsRecorded, CompleteIsCurrent
<1>4. ASSUME ReadRecord, UNCHANGED runs
      PROVE  EvaluationInv' /\ evaluation' = evaluation
  <2> DEFINE read == evaluator.ledger
             next == runs[Len(read) + 1]
  <2>1. /\ read \in Seq(Records \cup {Absent})
        /\ Len(read) \in Nat
        /\ Len(read) < Searches
        /\ evaluation' = evaluation
    BY <1>4 DEF ReadRecord, EvaluationInv, ReadIsRecorded
  <2>2. evaluator'.ledger = Append(read, next)
    BY <1>4 DEF ReadRecord
  <2>3. next \in Records \cup {Absent}
    BY <1>t, <2>1 DEF PanelTypeOK, Jobs
  <2>4. /\ evaluator'.ledger \in Seq(Records \cup {Absent})
        /\ Len(evaluator'.ledger) = Len(read) + 1
        /\ evaluator'.ledger[Len(read) + 1] = next
        /\ \A k \in 1 .. Len(read) : evaluator'.ledger[k] = read[k]
    BY <2>1, <2>2, <2>3
  <2>5. ReadIsRecorded'
    BY <1>4, <2>1, <2>4, SMTT(30) DEF EvaluationInv, ReadIsRecorded
  <2>6. CompleteIsCurrent'
    BY <1>4, <2>1, <2>4 DEF EvaluationInv, CompleteIsCurrent
  <2> QED
    BY <2>1, <2>5, <2>6 DEF EvaluationInv
<1>5. ASSUME WriteEvaluation, UNCHANGED runs
      PROVE  EvaluationInv' /\ (evaluation.written /\ evaluation.complete => evaluation' = evaluation)
  <2> DEFINE read == evaluator.ledger
  <2>1. /\ read \in Seq(Records \cup {Absent})
        /\ Len(read) = Searches
        /\ evaluation' = EvaluationOf(read)
        /\ evaluator'.ledger = <<>>
    BY <1>5 DEF WriteEvaluation, EvaluationInv, ReadIsRecorded
  <2>2. evaluation'.complete = Covered(read)
    BY <2>1 DEF EvaluationOf
  <2>3. ASSUME Covered(read) PROVE read = runs /\ \A j \in Jobs : runs[j] # Absent
    <3>1. \A j \in Jobs : read[j] # Absent
      BY <2>3, CoveredIsAll
    <3>2. \A k \in 1 .. Searches : read[k] = runs[k]
      BY <3>1, <2>1 DEF EvaluationInv, ReadIsRecorded, Jobs
    <3> QED
      BY <3>1, <3>2, <2>1, <1>t, WholeLedger
  <2>4. CompleteIsCurrent'
    BY <1>5, <2>1, <2>2, <2>3 DEF CompleteIsCurrent
  <2>5. ReadIsRecorded'
    BY <2>1 DEF ReadIsRecorded
  <2>6. ASSUME evaluation.written, evaluation.complete PROVE evaluation' = evaluation
    <3>1. \A k \in 1 .. Searches : read[k] = runs[k]
      BY <2>1, <2>6 DEF EvaluationInv, CompleteIsCurrent
    <3>2. read = runs
      BY <3>1, <2>1, <1>t, WholeLedger
    <3> QED
      BY <3>2, <2>1, <2>6 DEF EvaluationInv, CompleteIsCurrent
  <2> QED
    BY <2>4, <2>5, <2>6 DEF EvaluationInv
<1>6. CASE EvaluateStep
  BY <1>6, <1>3, <1>4, <1>5 DEF EvaluateStep, panelVars
<1>7. CASE PanelStep \/ AuditStep \/ BundleStep \/ UNCHANGED vars
  BY <1>7, <1>2 DEF PanelStep, AuditStep, BundleStep, studyVars, vars
<1> QED
  BY <1>6, <1>7 DEF Next

\* What an evaluation has read is what is recorded, whatever else runs.
THEOREM EvaluationInvariant == Spec => []EvaluationInv
<1>1. Spec => []PanelInv
  BY StudyImplementsPanel, PanelInvariant, PTL
<1>2. PanelInv /\ EvaluationInv /\ [Next]_vars => EvaluationInv'
  BY EvaluationNextInv
<1> QED
  BY <1>1, <1>2, EvaluationInitInv, PTL DEF Spec

\* A complete evaluation is the last word, for any number of searches, scores,
\* processes and evaluations.
THEOREM EvaluationIsFinalAlways == Spec => EvaluationIsFinal
<1>1. Spec => []PanelInv
  BY StudyImplementsPanel, PanelInvariant, PTL
<1>2. PanelInv /\ EvaluationInv /\ [Next]_vars =>
        [evaluation.written /\ evaluation.complete => evaluation' = evaluation]_vars
  BY EvaluationNextInv
<1> QED
  BY <1>1, <1>2, EvaluationInvariant, PTL DEF Spec, EvaluationIsFinal

-----------------------------------------------------------------------------
\* The best result of a budget.

\* A finite set of searches with results, if not empty, has a preferred one: in a
\* smallest set without one, the one preferred among all but some x, or x, would be.
LEMMA SomeIsPreferred ==
  ASSUME NEW ledger, NEW S \in SUBSET Jobs, S # {}, \A i \in S : ledger[i].result \in Nat
  PROVE  \E i \in S : \A j \in S : Preferred(ledger, i, j)
<1> DEFINE Has(T) == \E i \in T : \A j \in T : Preferred(ledger, i, j)
           Without == {T \in SUBSET S : T # {} /\ ~ Has(T)}
<1>1. IsFiniteSet(Jobs) /\ Jobs \subseteq Nat
  BY PanelAssumption, FS_Interval DEF Jobs
<1>2. IsFiniteSet(S)
  BY <1>1, FS_Subset
<1>3. IsWellFoundedOn(StrictSubsetOrdering(S), SUBSET S)
  BY <1>2, FS_StrictSubsetOrderingWellFounded, FS_FiniteSubsetsOfFinite
<1>4. SUFFICES ASSUME Without # {} PROVE FALSE
  OBVIOUS
<1>5. PICK T \in Without : \A U \in Without : <<U, T>> \notin StrictSubsetOrdering(S)
  <2>1. Without \subseteq SUBSET S
    OBVIOUS
  <2> HIDE DEF Without
  <2> QED
    BY <1>3, <1>4, <2>1, WFMin
<1>6. PICK x : x \in T
  OBVIOUS
<1>7. T \ {x} \notin Without
  BY <1>5, <1>6 DEF StrictSubsetOrdering
<1>8. CASE T \ {x} = {}
  <2>1. Preferred(ledger, x, x) /\ T = {x}
    BY <1>1, <1>6, <1>8 DEF Preferred
  <2> QED
    BY <1>6, <2>1
<1>9. CASE T \ {x} # {}
  <2>1. PICK i \in T \ {x} : \A j \in T \ {x} : Preferred(ledger, i, j)
    BY <1>7, <1>9
  <2>2. \A j \in T : j \in Nat /\ ledger[j].result \in Nat
    BY <1>1
  <2>3. Preferred(ledger, i, i) /\ Preferred(ledger, x, x)
    BY <1>6, <2>2 DEF Preferred
  <2>4. CASE Preferred(ledger, i, x)
    BY <2>1, <2>4
  <2>5. CASE ~ Preferred(ledger, i, x)
    <3>1. \A j \in T : Preferred(ledger, x, j)
      BY <1>6, <2>1, <2>2, <2>3, <2>5 DEF Preferred
    <3> QED
      BY <1>6, <3>1
  <2> QED
    BY <2>4, <2>5
<1> QED
  BY <1>8, <1>9

\* So the best of a budget is a completed search, preferred to all others of it.
LEMMA BestIs ==
  ASSUME NEW ledger \in [Jobs -> Records \cup {Absent}], NEW b \in Budgets
  PROVE  \/ Completed(ledger, b) = {} /\ Best(ledger, b) = 0
         \/ /\ Best(ledger, b) \in Completed(ledger, b)
            /\ \A j \in Completed(ledger, b) : Preferred(ledger, Best(ledger, b), j)
<1>1. Completed(ledger, b) \in SUBSET Jobs
  BY PanelAssumption, StudyAssumption DEF Completed, Jobs
<1>2. \A i \in Completed(ledger, b) : ledger[i].result \in Nat
  BY PanelAssumption DEF Completed, Successes
<1>3. CASE Completed(ledger, b) = {}
  BY <1>3 DEF Best
<1>4. CASE Completed(ledger, b) # {}
  <2>1. \E i \in Completed(ledger, b) : \A j \in Completed(ledger, b) : Preferred(ledger, i, j)
    BY <1>1, <1>2, <1>4, SomeIsPreferred
  <2> QED
    BY <1>4, <2>1 DEF Best
<1> QED
  BY <1>3, <1>4

\* A written report is the evaluation of the ledger it names.
ReportIsEvaluation ==
  evaluation.written =>
    /\ evaluation.ledger \in [Jobs -> Records \cup {Absent}]
    /\ evaluation = EvaluationOf(evaluation.ledger)

LEMMA ReportNextInv ==
  ASSUME EvaluationInv, ReportIsEvaluation, [Next]_vars
  PROVE  ReportIsEvaluation'
<1>1. CASE WriteEvaluation
  <2>1. /\ evaluator.ledger \in Seq(Records \cup {Absent})
        /\ Len(evaluator.ledger) = Searches
        /\ evaluation' = EvaluationOf(evaluator.ledger)
    BY <1>1 DEF WriteEvaluation, EvaluationInv, ReadIsRecorded
  <2>2. evaluator.ledger \in [Jobs -> Records \cup {Absent}]
    BY <2>1 DEF Jobs
  <2>3. evaluation'.ledger = evaluator.ledger
    BY <2>1 DEF EvaluationOf
  <2> QED
    BY <2>1, <2>2, <2>3 DEF ReportIsEvaluation
<1>2. CASE UNCHANGED evaluation
  BY <1>2 DEF ReportIsEvaluation
<1>3. WriteEvaluation \/ UNCHANGED evaluation
  BY DEF Next, PanelStep, AuditStep, EvaluateStep, StartEvaluation, ReadRecord, BundleStep, studyVars, vars
<1> QED
  BY <1>1, <1>2, <1>3

LEMMA EarliestFollows == ReportIsEvaluation => EarliestBestStands
<1> SUFFICES ASSUME ReportIsEvaluation, evaluation.written,
                    NEW b \in Budgets, NEW c \in Budgets, b < c, evaluation.best[b] # 0
             PROVE  /\ evaluation.best[c] # 0
                    /\ \/ evaluation.best[c] = evaluation.best[b]
                       \/ evaluation.ledger[evaluation.best[c]].result > evaluation.ledger[evaluation.best[b]].result
  BY DEF EarliestBestStands
<1> DEFINE ledger == evaluation.ledger
           i == Best(ledger, b)
           k == Best(ledger, c)
<1>1. ledger \in [Jobs -> Records \cup {Absent}] /\ evaluation.best[b] = i /\ evaluation.best[c] = k
  BY DEF ReportIsEvaluation, EvaluationOf
<1> HIDE DEF ledger
<1>2. b \in Nat /\ c \in Nat
  BY PanelAssumption, StudyAssumption DEF Jobs
<1>3. i \in Completed(ledger, b) /\ \A j \in Completed(ledger, b) : Preferred(ledger, i, j)
  BY <1>1, BestIs
<1>4. i \in Completed(ledger, c)
  BY <1>2, <1>3 DEF Completed
<1>5. k \in Completed(ledger, c) /\ Preferred(ledger, k, i)
  BY <1>1, <1>4, BestIs
<1>6. /\ i \in 1 .. b /\ k \in 1 .. c
      /\ ledger[i] \in Successes /\ ledger[k] \in Successes
  BY <1>3, <1>5 DEF Completed
<1>7. ledger[i].result \in Nat /\ ledger[k].result \in Nat
  BY <1>6, PanelAssumption DEF Successes
<1>8. CASE ledger[k].result > ledger[i].result
  BY <1>1, <1>2, <1>6, <1>8 DEF ledger
<1>9. CASE ledger[k].result = ledger[i].result /\ k <= i
  <2>1. k \in Completed(ledger, b)
    BY <1>2, <1>6, <1>9 DEF Completed
  <2>2. Preferred(ledger, i, k)
    BY <1>3, <2>1
  <2>3. i = k
    BY <1>2, <1>6, <1>7, <1>9, <2>2 DEF Preferred
  <2> QED
    BY <1>1, <1>2, <1>6, <2>3
<1> QED
  BY <1>5, <1>8, <1>9 DEF Preferred

\* More starts never make the reported result worse, and the earliest start wins a
\* tie, for any number of searches, scores and budgets (evaluate_panel).
THEOREM EarliestBestAlways == Spec => []EarliestBestStands
<1>1. EvaluationInv /\ ReportIsEvaluation /\ [Next]_vars => ReportIsEvaluation'
  BY ReportNextInv
<1>2. Init => ReportIsEvaluation
  BY DEF Init, NoEvaluation, ReportIsEvaluation
<1> QED
  BY <1>1, <1>2, EvaluationInvariant, EarliestFollows, PTL DEF Spec

-----------------------------------------------------------------------------
(* Replays: a mismatch is never retried away, and a report of full          *)
(* reproduction stays true of the files.                                   *)

\* A row rests on what it read.
RowSound(row) ==
  /\ row.status = "exact-replay" =>
       row.original \in Successes /\ row.audit.actual = row.original
  /\ row.status = "original-operational-failure" => row.original \in Failures
  /\ row.extra = "exact-replay" =>
       row.attempt.of = row.original /\ row.attempt.execution = row.audit.actual
  /\ row.extra = "supplemental-operational-failure" =>
       row.attempt.of = row.original /\ row.attempt.execution \in Failures

\* What a row of search j claims is true of the files.
RowFits(j, row) ==
  /\ RowSound(row)
  /\ row.original # Absent => runs[j] = row.original
  /\ row.status = "exact-replay" => LastAudit(<<"original", j>>).status = "exact-replay"
  /\ row.extra = "exact-replay" => LastAudit(<<"supplemental", j>>).status = "exact-replay"
  /\ row.extra = "supplemental-operational-failure" =>
       supplemental[j] # NoAttempt /\ supplemental[j].execution \in Failures

RowsFit(rows) == \A k \in 1 .. Len(rows) : k \in Jobs /\ RowFits(k, rows[k])

\* The target being executed has a result to reproduce, and no audit with an output.
TargetFits(t, j) ==
  /\ t[2] = j
  /\ Expected(t) \in Successes
  /\ LastAudit(t).status \in {"none", "replay-operational-failure"}

\* All that a replay in state s relies on.
StateFits(s) ==
  /\ s \in ReplayerStates
  /\ s.pc \in {"scan", "execute", "report"} => Len(s.rows) + 1 = s.at /\ RowsFit(s.rows)
  /\ s.pc = "execute" => TargetFits(s.target, s.at)

\* An audit compares with the recorded result; only one without output has a successor.
AuditFits(t, k) ==
  /\ audits[t][k].expected = Expected(t)
  /\ audits[t][k].status = AuditStatus(audits[t][k].actual, audits[t][k].expected)
  /\ k < Len(audits[t]) => audits[t][k].status = "replay-operational-failure"

LocksHeld ==
  \A v \in Replayers : replayer[v].pc \notin {"idle", "opening"} => auditLock = v

ReplayInv ==
  /\ ReplayTypeOK
  /\ \A v \in Replayers : StateFits(replayer[v])
  /\ LocksHeld
  /\ \A t \in Targets : \A k \in 1 .. Len(audits[t]) : AuditFits(t, k)
  /\ replayReport.written => RowsFit(replayReport.rows)

-----------------------------------------------------------------------------
\* Helpers.

LEMMA FailureIsNoSuccess == Failures \cap Successes = {} /\ Absent \notin Failures \cup Successes
<1>1. ASSUME NEW r \in Failures PROVE r.status \in {"timeout", "execution_error"}
  BY <1>1, PanelAssumption DEF Failures
<1>2. ASSUME NEW r \in Successes PROVE r.status = "complete"
  BY <1>2 DEF Successes
<1>3. Absent.status = "absent"
  BY DEF Absent
<1> QED
  BY <1>1, <1>2, <1>3

\* The status of an audit says how the outputs compare.
LEMMA StatusSays ==
  ASSUME NEW actual, NEW expected \in Successes
  PROVE  /\ AuditStatus(actual, expected) \in
              {"replay-operational-failure", "exact-replay", "scientific-output-mismatch"}
         /\ AuditStatus(actual, expected) = "exact-replay" => actual = expected
BY FailureIsNoSuccess DEF AuditStatus

\* What counts as expected is recorded, so it stays.
LEMMA ExpectedStays ==
  ASSUME PanelInv, [PanelNext]_panelVars, NEW t \in Targets, Expected(t) \in Successes
  PROVE  Expected(t)' = Expected(t)
<1>1. t[2] \in Jobs /\ t[1] \in {"original", "supplemental"}
  BY DEF Targets
<1>2. CASE t[1] = "original"
  <2>1. runs[t[2]] # Absent
    BY <1>2, FailureIsNoSuccess DEF Expected
  <2> QED
    BY <1>1, <1>2, <2>1, StepKeepsRecords DEF Expected
<1>3. CASE t[1] = "supplemental"
  <2>1. supplemental[t[2]] # NoAttempt
    BY <1>3, FailureIsNoSuccess DEF Expected, NoAttempt
  <2> QED
    BY <1>1, <1>3, <2>1, StepKeepsRecords DEF Expected
<1> QED
  BY <1>1, <1>2, <1>3

\* A row stays true as long as exact audits stay the last ones.
LEMMA RowStays ==
  ASSUME PanelInv, [PanelNext]_panelVars, NEW j \in Jobs, NEW row, RowFits(j, row),
         \A t \in Targets : LastAudit(t).status = "exact-replay" => LastAudit(t)'.status = "exact-replay"
  PROVE  RowFits(j, row)'
<1>1. <<"original", j>> \in Targets /\ <<"supplemental", j>> \in Targets
  BY DEF Targets
<1>2. row.original # Absent => runs'[j] = row.original
  BY StepKeepsRecords DEF RowFits
<1>3. supplemental[j] # NoAttempt => supplemental'[j] = supplemental[j]
  BY StepKeepsRecords
<1> QED
  BY <1>1, <1>2, <1>3 DEF RowFits, RowSound

LEMMA RowsStay ==
  ASSUME PanelInv, [PanelNext]_panelVars, NEW rows, RowsFit(rows),
         \A t \in Targets : LastAudit(t).status = "exact-replay" => LastAudit(t)'.status = "exact-replay"
  PROVE  RowsFit(rows)'
BY RowStays DEF RowsFit

\* A row that fits may be added, now as in the next state.
LEMMA RowAdded ==
  ASSUME NEW rows \in Seq(Rows), NEW row \in Rows, Len(rows) + 1 \in Jobs
  PROVE  /\ Append(rows, row) \in Seq(Rows)
         /\ Len(Append(rows, row)) = Len(rows) + 1
         /\ RowsFit(rows) /\ RowFits(Len(rows) + 1, row) => RowsFit(Append(rows, row))
         /\ RowsFit(rows)' /\ RowFits(Len(rows) + 1, row)' => RowsFit(Append(rows, row))'
<1>1. /\ Append(rows, row) \in Seq(Rows)
      /\ Len(Append(rows, row)) = Len(rows) + 1
      /\ \A k \in 1 .. Len(rows) : Append(rows, row)[k] = rows[k]
      /\ Append(rows, row)[Len(rows) + 1] = row
      /\ Len(rows) \in Nat
  OBVIOUS
<1>2. \A k \in 1 .. Len(Append(rows, row)) : k \in 1 .. Len(rows) \/ k = Len(rows) + 1
  BY <1>1
<1>3. RowsFit(rows) /\ RowFits(Len(rows) + 1, row) => RowsFit(Append(rows, row))
  BY <1>1, <1>2 DEF RowsFit
<1>4. RowsFit(rows)' /\ RowFits(Len(rows) + 1, row)' => RowsFit(Append(rows, row))'
  BY <1>1, <1>2 DEF RowsFit
<1> QED
  BY <1>1, <1>3, <1>4

\* The last audit is none, or one of the list.
LEMMA LastIsOne ==
  ASSUME ReplayInv, NEW t \in Targets
  PROVE  \/ audits[t] = <<>> /\ LastAudit(t) = NoAudit
         \/ /\ Len(audits[t]) \in 1 .. Len(audits[t])
            /\ LastAudit(t) = audits[t][Len(audits[t])]
            /\ LastAudit(t) \in Audits
            /\ AuditFits(t, Len(audits[t]))
<1>1. audits[t] \in Seq(Audits)
  BY DEF ReplayInv, ReplayTypeOK
<1>2. CASE audits[t] = <<>>
  BY <1>2 DEF LastAudit
<1>3. CASE audits[t] # <<>>
  <2>1. Len(audits[t]) \in 1 .. Len(audits[t]) /\ audits[t][Len(audits[t])] \in Audits
    BY <1>1, <1>3
  <2> QED
    BY <1>3, <2>1 DEF LastAudit, ReplayInv
<1> QED
  BY <1>2, <1>3

LEMMA ReplayStarts == Init => ReplayInv
<1> SUFFICES ASSUME Init PROVE ReplayInv
  OBVIOUS
<1>1. ReplayInit
  BY DEF Init
<1>2. Resting \in ReplayerStates
  BY DEF Resting, ReplayerStates
<1>3. \A v \in Replayers : StateFits(replayer[v])
  BY <1>1, <1>2 DEF ReplayInit, StateFits, Resting
<1> QED
  BY <1>1, <1>2, <1>3, ReplayAssumption
     DEF ReplayInit, ReplayInv, ReplayTypeOK, LocksHeld, Resting, NoReport, Reports

-----------------------------------------------------------------------------
\* What the rest of the study does.

LEMMA OthersKeep ==
  ASSUME PanelInv, ReplayInv, [PanelNext]_panelVars, UNCHANGED replayVars
  PROVE  ReplayInv'
<1>1. \A t \in Targets : LastAudit(t)' = LastAudit(t)
  BY DEF replayVars, LastAudit
<1>2. \A rows : RowsFit(rows) => RowsFit(rows)'
  BY <1>1, RowsStay
<1>3. \A t \in Targets : \A j : TargetFits(t, j) => TargetFits(t, j)'
  BY <1>1, ExpectedStays DEF TargetFits
<1>4. ASSUME NEW s, StateFits(s) PROVE StateFits(s)'
  <2>1. s.pc = "execute" => s.target \in Targets
    BY <1>4 DEF StateFits, ReplayerStates
  <2> QED
    BY <1>2, <1>3, <1>4, <2>1 DEF StateFits
<1>5. \A v \in Replayers : StateFits(replayer[v])'
  BY <1>4 DEF ReplayInv, replayVars
<1>6. ASSUME NEW t \in Targets, NEW k \in 1 .. Len(audits[t]) PROVE AuditFits(t, k)'
  <2>1. AuditFits(t, k) /\ audits[t][k] \in Audits
    BY <1>6 DEF ReplayInv, ReplayTypeOK
  <2>2. audits[t][k].expected \in Successes
    BY <2>1 DEF Audits
  <2>3. Expected(t)' = Expected(t)
    BY <2>1, <2>2, ExpectedStays DEF AuditFits
  <2> QED
    BY <2>1, <2>3 DEF AuditFits, replayVars
<1>7. LocksHeld'
  BY DEF ReplayInv, LocksHeld, replayVars
<1>8. (replayReport.written => RowsFit(replayReport.rows))'
  BY <1>2 DEF ReplayInv, replayVars
<1> QED
  BY <1>5, <1>6, <1>7, <1>8 DEF ReplayInv, ReplayTypeOK, replayVars

-----------------------------------------------------------------------------
\* What one replay does.

\* A process that saves no audit and takes or leaves the lock as it should.
LEMMA ReplayMoves ==
  ASSUME ReplayInv, NEW v \in Replayers, NEW s, StateFits(s),
         UNCHANGED <<panelVars, audits>>,
         replayer' = [replayer EXCEPT ![v] = s],
         auditLock' \in {auditLock, v, NoOne},
         auditLock' = v => auditLock \in {v, NoOne},
         auditLock' = NoOne => auditLock \in {v, NoOne},
         s.pc \notin {"idle", "opening"} => auditLock' = v,
         replayReport' \in Reports \cup {NoReport},
         replayReport'.written => RowsFit(replayReport'.rows),
         replays' \in 0 .. MaxReplays,
         rejected' \subseteq Targets
  PROVE  ReplayInv'
<1>1. UNCHANGED <<runs, supplemental, audits>>
  BY DEF panelVars
<1>2. \A t : LastAudit(t)' = LastAudit(t) /\ Expected(t)' = Expected(t)
  BY <1>1 DEF LastAudit, Expected
<1>3. \A rows : RowsFit(rows) => RowsFit(rows)'
  <2>1. \A j, row : RowFits(j, row) => RowFits(j, row)'
    BY <1>1, <1>2 DEF RowFits, RowSound
  <2> QED
    BY <2>1 DEF RowsFit
<1>4. \A r : StateFits(r) => StateFits(r)'
  BY <1>2, <1>3 DEF StateFits, TargetFits
<1>5. ASSUME NEW u \in Replayers
      PROVE  StateFits(replayer[u])' /\ (replayer'[u].pc \notin {"idle", "opening"} => auditLock' = u)
  <2>1. CASE u = v
    <3>1. replayer'[u] = s
      BY <2>1 DEF ReplayInv, ReplayTypeOK
    <3> QED
      BY <3>1, <1>4, <2>1
  <2>2. CASE u # v
    <3>1. replayer'[u] = replayer[u] /\ StateFits(replayer[u])
      BY <2>2 DEF ReplayInv, ReplayTypeOK
    <3>2. replayer[u].pc \notin {"idle", "opening"} => auditLock = u
      BY DEF ReplayInv, LocksHeld
    <3>3. u # NoOne
      BY ReplayAssumption
    <3> QED
      BY <3>1, <3>2, <3>3, <1>4, <2>2
  <2> QED
    BY <2>1, <2>2
<1>6. \A t \in Targets : \A k \in 1 .. Len(audits[t]) : AuditFits(t, k)'
  BY <1>1, <1>2 DEF ReplayInv, AuditFits
<1>7. replayer' \in [Replayers -> ReplayerStates]
  BY DEF ReplayInv, ReplayTypeOK, StateFits
<1>8. (replayReport.written => RowsFit(replayReport.rows))'
  BY <1>3
<1>9. auditLock' \in Replayers \cup {NoOne}
  BY DEF ReplayInv, ReplayTypeOK
<1> QED
  BY <1>1, <1>5, <1>6, <1>7, <1>8, <1>9 DEF ReplayInv, ReplayTypeOK, LocksHeld

\* What a replay at work has in hand.
LEMMA AtWork ==
  ASSUME ReplayInv, NEW v \in Replayers, replayer[v].pc \in {"scan", "execute", "report"}
  PROVE  /\ auditLock = v
         /\ replayer[v].options \in ReplayOptions
         /\ replayer[v].options.supplemental \in BOOLEAN
         /\ replayer[v].options.kernel \in Kernels
         /\ replayer[v].at \in 1 .. Searches + 1
         /\ replayer[v].rows \in Seq(Rows)
         /\ Len(replayer[v].rows) + 1 = replayer[v].at
         /\ RowsFit(replayer[v].rows)
         /\ replayer[v].fault \in BOOLEAN
         /\ replayer[v].pc = "execute" =>
              /\ replayer[v].at \in Jobs
              /\ replayer[v].target \in Targets
              /\ TargetFits(replayer[v].target, replayer[v].at)
<1>1. StateFits(replayer[v])
  BY DEF ReplayInv
<1>2. auditLock = v
  BY DEF ReplayInv, LocksHeld
<1>3. replayer[v] \in ReplayerStates
  BY <1>1 DEF StateFits
<1>4. /\ replayer[v].options \in ReplayOptions
      /\ replayer[v].at \in 1 .. Searches + 1
      /\ replayer[v].rows \in Seq(Rows)
      /\ replayer[v].fault \in BOOLEAN
      /\ replayer[v].pc = "execute" => replayer[v].at \in Jobs /\ replayer[v].target \in Targets
  <2>1. Jobs \subseteq 1 .. Searches + 1
    BY PanelAssumption DEF Jobs
  <2>2. CASE replayer[v].pc \in {"scan", "report"}
    BY <1>3, <2>2 DEF ReplayerStates
  <2>3. CASE replayer[v].pc = "execute"
    BY <1>3, <2>1, <2>3 DEF ReplayerStates
  <2> QED
    BY <2>2, <2>3
<1>5. replayer[v].options.supplemental \in BOOLEAN /\ replayer[v].options.kernel \in Kernels
  <2>1. replayer[v].options \in [retry : BOOLEAN, supplemental : BOOLEAN, kernel : Kernels]
    BY <1>4, ReplayAssumption
  <2> QED
    BY <2>1
<1> QED
  BY <1>1, <1>2, <1>4, <1>5 DEF StateFits

\* Where a process may go without anything in hand.
LEMMA EmptyHanded ==
  /\ \A pc \in {"idle", "unlock", "dead"} : StateFits([pc |-> pc])
  /\ \A options \in ReplayOptions : StateFits([pc |-> "opening", options |-> options])
<1>1. ASSUME NEW pc \in {"idle", "unlock", "dead"} PROVE StateFits([pc |-> pc])
  BY <1>1 DEF StateFits, ReplayerStates
<1>2. ASSUME NEW options \in ReplayOptions PROVE StateFits([pc |-> "opening", options |-> options])
  BY <1>2 DEF StateFits, ReplayerStates
<1> QED
  BY <1>1, <1>2

\* The targets of a search, by what is recorded of it.
LEMMA DueIs ==
  ASSUME NEW v, NEW j
  PROVE  \/ runs[j] \in Successes /\ Due(v, j) = {<<"original", j>>}
         \/ /\ runs[j] \notin Successes
            /\ Asks(v, j) /\ ~ Foreign(j) /\ supplemental[j].execution \in Successes
            /\ Due(v, j) = {<<"supplemental", j>>}
         \/ /\ runs[j] \notin Successes
            /\ ~ (Asks(v, j) /\ ~ Foreign(j) /\ supplemental[j].execution \in Successes)
            /\ Due(v, j) = {}
<1>1. CASE runs[j] \in Successes
  BY <1>1, FailureIsNoSuccess DEF Due, Asks
<1>2. CASE /\ runs[j] \notin Successes
           /\ Asks(v, j) /\ ~ Foreign(j) /\ supplemental[j].execution \in Successes
  BY <1>2 DEF Due
<1>3. CASE /\ runs[j] \notin Successes
           /\ ~ (Asks(v, j) /\ ~ Foreign(j) /\ supplemental[j].execution \in Successes)
  BY <1>3 DEF Due
<1> QED
  BY <1>1, <1>2, <1>3

\* A target that is due has a result to reproduce.
LEMMA DueFits ==
  ASSUME NEW v, NEW j \in Jobs, NEW t \in Due(v, j)
  PROVE  /\ t \in Targets /\ t[2] = j /\ Expected(t) \in Successes
         /\ \/ t = <<"original", j>> /\ runs[j] \in Successes
            \/ t = <<"supplemental", j>> /\ runs[j] \in Failures /\ supplemental[j] # NoAttempt
<1>1. CASE runs[j] \in Successes /\ Due(v, j) = {<<"original", j>>}
  <2>1. t = <<"original", j>>
    BY <1>1
  <2> QED
    BY <1>1, <2>1 DEF Targets, Expected
<1>2. CASE Asks(v, j) /\ supplemental[j].execution \in Successes /\ Due(v, j) = {<<"supplemental", j>>}
  <2>1. t = <<"supplemental", j>>
    BY <1>2
  <2> QED
    BY <1>2, <2>1 DEF Targets, Expected, Asks
<1> QED
  BY <1>1, <1>2, DueIs

\* An exact audit gives a row that fits.
LEMMA ReplayedFits ==
  ASSUME PanelInv, NEW j \in Jobs, NEW t \in Targets, t[2] = j, NEW audit \in Audits,
         Expected(t) \in Successes, audit.status = "exact-replay",
         audit.actual = Expected(t), NEW row, row = ReplayedRow(t, audit)
  PROVE  /\ row \in Rows
         /\ LastAudit(t).status = "exact-replay" => RowFits(j, row)
         /\ runs' = runs /\ LastAudit(t)'.status = "exact-replay" => RowFits(j, row)'
<1>t. PanelTypeOK
  BY DEF PanelInv
<1>1. /\ runs[j] \in Records \cup {Absent}
      /\ supplemental[j] \in Attempts \cup {NoAttempt}
      /\ audit \in Audits \cup {NoAudit}
  BY <1>t DEF PanelTypeOK
<1>r. ASSUME NEW attempt \in Attempts \cup {NoAttempt},
             NEW status \in {"original-operational-failure", "exact-replay"},
             NEW extra \in {"none", "exact-replay"}
      PROVE  /\ Row(runs[j], attempt, status, extra, audit) \in Rows
             /\ Row(runs[j], attempt, status, extra, audit).original = runs[j]
             /\ Row(runs[j], attempt, status, extra, audit).status = status
             /\ Row(runs[j], attempt, status, extra, audit).extra = extra
             /\ Row(runs[j], attempt, status, extra, audit).attempt = attempt
             /\ Row(runs[j], attempt, status, extra, audit).audit = audit
  BY <1>1 DEF Row, Rows
<1>2. CASE t[1] = "original"
  <2>1. t = <<"original", j>> /\ row = Row(runs[j], NoAttempt, "exact-replay", "none", audit)
    BY <1>2 DEF Targets, ReplayedRow
  <2>2. /\ row \in Rows /\ row.original = runs[j]
        /\ row.status = "exact-replay" /\ row.extra = "none" /\ row.audit = audit
    <3>1. NoAttempt \in Attempts \cup {NoAttempt}
      OBVIOUS
    <3> QED
      BY <3>1, <1>r, <2>1
  <2>3. runs[j] \in Successes /\ audit.actual = runs[j]
    BY <1>2 DEF Expected
  <2>4. RowSound(row) /\ RowSound(row)'
    BY <2>2, <2>3 DEF RowSound
  <2> QED
    BY <2>1, <2>2, <2>3, <2>4 DEF RowFits
<1>3. CASE t[1] = "supplemental"
  <2>1. /\ t = <<"supplemental", j>>
        /\ row = Row(runs[j], supplemental[j], "original-operational-failure", "exact-replay", audit)
    BY <1>3 DEF Targets, ReplayedRow
  <2>2. /\ row \in Rows /\ row.original = runs[j]
        /\ row.status = "original-operational-failure" /\ row.extra = "exact-replay"
        /\ row.attempt = supplemental[j] /\ row.audit = audit
    BY <1>1, <1>r, <2>1
  <2>3. supplemental[j] # NoAttempt
    BY <1>3, FailureIsNoSuccess DEF Expected, NoAttempt
  <2>4. runs[j] \in Failures /\ supplemental[j].of = runs[j]
    BY <2>3 DEF PanelInv, AttemptsBelong
  <2>5. audit.actual = supplemental[j].execution
    BY <1>3 DEF Expected
  <2>6. RowSound(row) /\ RowSound(row)'
    BY <2>2, <2>4, <2>5 DEF RowSound
  <2> QED
    BY <2>1, <2>2, <2>4, <2>6 DEF RowFits
<1> QED
  BY <1>2, <1>3 DEF Targets

\* So does the row of a search without a result to reproduce.
LEMMA PassedFits ==
  ASSUME PanelInv, NEW v, NEW j \in Jobs, Due(v, j) = {}, ~ (Asks(v, j) /\ Foreign(j)),
         NEW row,
         row = PassedRow(v, j)
  PROVE  row \in Rows /\ RowFits(j, row)
<1>1. /\ runs[j] \in Failures \cup Successes \cup {Absent}
      /\ supplemental[j] \in Attempts \cup {NoAttempt}
      /\ supplemental[j] # NoAttempt => runs[j] \in Failures /\ supplemental[j].of = runs[j]
  BY DEF PanelInv, PanelTypeOK, AttemptsBelong, Records
<1>2. /\ runs[j] \notin Successes
      /\ ~ (Asks(v, j) /\ ~ Foreign(j) /\ supplemental[j].execution \in Successes)
  BY DueIs
<1>r. ASSUME NEW attempt \in Attempts \cup {NoAttempt},
             NEW status \in {"original-not-recorded", "original-operational-failure"},
             NEW extra \in {"none", "supplemental-not-recorded", "supplemental-operational-failure"},
             NEW original \in Records \cup {Absent}
      PROVE  /\ Row(original, attempt, status, extra, NoAudit) \in Rows
             /\ Row(original, attempt, status, extra, NoAudit).original = original
             /\ Row(original, attempt, status, extra, NoAudit).status = status
             /\ Row(original, attempt, status, extra, NoAudit).extra = extra
             /\ Row(original, attempt, status, extra, NoAudit).attempt = attempt
  BY DEF Row, Rows
<1>3. CASE runs[j] = Absent
  <2>1. row = Row(Absent, NoAttempt, "original-not-recorded", "none", NoAudit)
    BY <1>3 DEF PassedRow
  <2>2. row \in Rows /\ row.original = Absent /\ row.status = "original-not-recorded" /\ row.extra = "none"
    BY <1>r, <2>1
  <2> QED
    BY <2>2 DEF RowFits, RowSound
<1>4. CASE runs[j] # Absent
  <2>1. runs[j] \in Failures /\ runs[j] \in Records
    BY <1>1, <1>2, <1>4 DEF Records
  <2>2. CASE ~ replayer[v].options.supplemental \/ supplemental[j] = NoAttempt
    <3>1. PICK extra \in {"none", "supplemental-not-recorded"} :
            row = Row(runs[j], NoAttempt, "original-operational-failure", extra, NoAudit)
      BY <1>4, <2>2 DEF PassedRow
    <3>2. row \in Rows /\ row.original = runs[j] /\ row.status = "original-operational-failure" /\ row.extra = extra
      <4>1. NoAttempt \in Attempts \cup {NoAttempt} /\ runs[j] \in Records \cup {Absent}
        BY <2>1
      <4> QED
        BY <1>r, <3>1, <4>1
    <3> QED
      BY <2>1, <3>2 DEF RowFits, RowSound
  <2>3. CASE replayer[v].options.supplemental /\ supplemental[j] # NoAttempt
    <3>1. row = Row(runs[j], supplemental[j], "original-operational-failure", "supplemental-operational-failure", NoAudit)
      BY <1>4, <2>3 DEF PassedRow
    <3>2. /\ row \in Rows /\ row.original = runs[j]
          /\ row.status = "original-operational-failure" /\ row.extra = "supplemental-operational-failure"
          /\ row.attempt = supplemental[j]
      BY <1>1, <1>r, <2>1, <3>1
    <3>3. ~ Foreign(j) /\ supplemental[j].execution \in Records \ Successes
      BY <1>1, <1>2, <2>1, <2>3 DEF Foreign, Asks, Attempts
    <3>4. supplemental[j].execution \in Failures
      BY <3>3 DEF Records
    <3> QED
      BY <1>1, <2>1, <2>3, <3>2, <3>4 DEF RowFits, RowSound
  <2> QED
    BY <2>2, <2>3
<1> QED
  BY <1>3, <1>4

\* A process that lists a row that fits and goes on, or stops at an exception.
LEMMA ListsFit ==
  ASSUME ReplayInv, NEW v \in Replayers, Active(v, {"scan", "execute"}), At(v) \in Jobs,
         NEW pc \in {"scan", "report"}, NEW row \in Rows, RowFits(At(v), row)
  PROVE  StateFits([pc |-> pc, options |-> replayer[v].options, at |-> At(v) + 1,
                    rows |-> Append(replayer[v].rows, row), fault |-> FALSE])
<1> DEFINE rows == replayer[v].rows
           s == [pc |-> pc, options |-> replayer[v].options, at |-> At(v) + 1,
                 rows |-> Append(rows, row), fault |-> FALSE]
<1>1. /\ replayer[v].options \in ReplayOptions
      /\ rows \in Seq(Rows)
      /\ Len(rows) + 1 = At(v)
      /\ RowsFit(rows)
  BY AtWork DEF Active, At
<1>2. /\ Append(rows, row) \in Seq(Rows)
      /\ Len(Append(rows, row)) + 1 = At(v) + 1
      /\ RowsFit(Append(rows, row))
  BY <1>1, RowAdded
<1>3. At(v) + 1 \in 1 .. Searches + 1
  BY PanelAssumption DEF Jobs
<1>4. s \in ReplayerStates
  BY <1>1, <1>2, <1>3 DEF ReplayerStates
<1>5. s.pc # "execute"
  OBVIOUS
<1> QED
  BY <1>2, <1>4, <1>5 DEF StateFits

LEMMA FaultsFit ==
  ASSUME ReplayInv, NEW v \in Replayers, Active(v, {"scan", "execute"})
  PROVE  StateFits([pc |-> "report", options |-> replayer[v].options, at |-> At(v),
                    rows |-> replayer[v].rows, fault |-> TRUE])
<1> DEFINE s == [pc |-> "report", options |-> replayer[v].options, at |-> At(v),
                 rows |-> replayer[v].rows, fault |-> TRUE]
<1>1. /\ replayer[v].options \in ReplayOptions
      /\ At(v) \in 1 .. Searches + 1
      /\ replayer[v].rows \in Seq(Rows)
      /\ Len(replayer[v].rows) + 1 = At(v)
      /\ RowsFit(replayer[v].rows)
  BY AtWork DEF Active, At
<1>2. s \in ReplayerStates
  BY <1>1 DEF ReplayerStates
<1> QED
  BY <1>1, <1>2 DEF StateFits

\* The steps that save no audit.
LEMMA QuietStepInv ==
  ASSUME PanelInv, ReplayInv, UNCHANGED panelVars, NEW v \in Replayers,
         \/ \E options \in ReplayOptions : StartReplay(v, options)
         \/ OpenAudits(v)
         \/ PassOver(v)
         \/ Accept(v)
         \/ StageReplay(v)
         \/ FailReplay(v)
         \/ RejectReplay(v)
         \/ WriteReport(v)
         \/ Unlock(v)
         \/ KillReplay(v)
         \/ ClearAuditLock(v)
  PROVE  ReplayInv'
<1>t. ReplayTypeOK /\ replayer[v] \in ReplayerStates /\ StateFits(replayer[v])
  BY DEF ReplayInv, ReplayTypeOK
<1>l. /\ replayer[v].pc \notin {"idle", "opening"} => auditLock = v
      /\ replayReport.written => RowsFit(replayReport.rows)
  BY DEF ReplayInv, LocksHeld
<1>m. ASSUME NEW s, StateFits(s), replayer' = [replayer EXCEPT ![v] = s],
             s.pc \notin {"idle", "opening"} => auditLock = v,
             UNCHANGED <<audits, auditLock, replayReport>>,
             replays' \in 0 .. MaxReplays, rejected' \subseteq Targets
      PROVE  ReplayInv'
  BY <1>m, <1>t, <1>l, ReplayMoves DEF ReplayTypeOK
<1>1. ASSUME NEW options \in ReplayOptions, StartReplay(v, options) PROVE ReplayInv'
  <2>1. replays' \in 0 .. MaxReplays /\ rejected' \subseteq Targets
    BY <1>1, <1>t, ReplayAssumption DEF StartReplay, ReplayTypeOK
  <2>2. StateFits([pc |-> "opening", options |-> options])
    BY EmptyHanded
  <2> QED
    BY <1>1, <1>m, <2>1, <2>2 DEF StartReplay
<1>2. CASE OpenAudits(v)
  <2>1. CASE auditLock = NoOne
    <3> DEFINE s == [pc |-> "scan", options |-> replayer[v].options, at |-> 1, rows |-> <<>>, fault |-> FALSE]
    <3>1. replayer[v].options \in ReplayOptions
      BY <1>2, <1>t DEF OpenAudits, Active, ReplayerStates
    <3>2. s \in ReplayerStates
      <4>1. <<>> \in Seq(Rows) /\ 1 \in 1 .. Searches + 1
        BY PanelAssumption
      <4> QED
        BY <3>1, <4>1 DEF ReplayerStates
    <3>3. StateFits(s)
      BY <3>2 DEF StateFits, RowsFit
    <3>4. /\ replayer' = [replayer EXCEPT ![v] = s]
          /\ auditLock' = v
          /\ UNCHANGED <<audits, replayReport, replays, rejected>>
      BY <1>2, <2>1 DEF OpenAudits
    <3> HIDE DEF s
    <3> QED
      BY <3>3, <3>4, <2>1, <1>t, <1>l, ReplayMoves, ReplayAssumption DEF ReplayTypeOK
  <2>2. CASE auditLock # NoOne
    <3>1. StateFits(Resting) /\ Resting.pc = "idle"
      BY EmptyHanded DEF Resting
    <3> QED
      BY <1>2, <2>2, <3>1, <1>m, <1>t DEF OpenAudits, ReplayTypeOK
  <2> QED
    BY <2>1, <2>2
<1>3. CASE PassOver(v)
  <2>1. PICK row : row = PassedRow(v, At(v))
    OBVIOUS
  <2>2. /\ Reading(v) /\ At(v) \in Jobs
        /\ Lists(v, "scan", row)
        /\ Due(v, At(v)) = {}
        /\ ~ (Asks(v, At(v)) /\ Foreign(At(v)))
        /\ UNCHANGED <<audits, auditLock, replayReport, replays, rejected>>
    BY <1>3, <2>1 DEF PassOver, Reading
  <2>3. row \in Rows /\ RowFits(At(v), row)
    BY <2>1, <2>2, PassedFits
  <2> QED
    BY <2>2, <2>3, <1>t, <1>l, <1>m, ListsFit DEF Reading, Active, Lists, ReplayTypeOK
<1>4. CASE Accept(v)
  <2>1. PICK t \in Due(v, At(v)) :
          /\ LastAudit(t) # NoAudit
          /\ LastAudit(t).status = "exact-replay"
          /\ Lists(v, "scan", ReplayedRow(t, LastAudit(t)))
    BY <1>4 DEF Accept
  <2>2. At(v) \in Jobs /\ Active(v, {"scan"}) /\ UNCHANGED <<audits, auditLock, replayReport, replays, rejected>>
    BY <1>4 DEF Accept, Reading
  <2>3. t \in Targets /\ t[2] = At(v) /\ Expected(t) \in Successes
    BY <2>2, DueFits
  <2>4. LastAudit(t) \in Audits /\ LastAudit(t).actual = Expected(t)
    <3>1. /\ LastAudit(t) \in Audits
          /\ LastAudit(t) = audits[t][Len(audits[t])] /\ AuditFits(t, Len(audits[t]))
      BY <2>1, <2>3, LastIsOne
    <3> QED
      BY <2>1, <2>3, <3>1, StatusSays DEF AuditFits
  <2>5. PICK row : row = ReplayedRow(t, LastAudit(t))
    OBVIOUS
  <2>6. row \in Rows /\ RowFits(At(v), row)
    BY <2>1, <2>2, <2>3, <2>4, <2>5, ReplayedFits
  <2> QED
    BY <2>1, <2>2, <2>5, <2>6, <1>t, <1>l, <1>m, ListsFit DEF Active, Lists, ReplayTypeOK
<1>5. CASE StageReplay(v)
  <2>1. PICK t \in Due(v, At(v)) :
          /\ LastAudit(t) # NoAudit => Retriable(v, t)
          /\ replayer' = [replayer EXCEPT ![v] =
               [pc |-> "execute", options |-> replayer[v].options, at |-> At(v), rows |-> replayer[v].rows,
                fault |-> FALSE, target |-> t]]
    BY <1>5 DEF StageReplay
  <2> DEFINE s == [pc |-> "execute", options |-> replayer[v].options, at |-> At(v), rows |-> replayer[v].rows,
                   fault |-> FALSE, target |-> t]
  <2>2. At(v) \in Jobs /\ Active(v, {"scan"}) /\ UNCHANGED <<audits, auditLock, replayReport, replays, rejected>>
    BY <1>5 DEF StageReplay, Reading
  <2>3. t \in Targets /\ t[2] = At(v) /\ Expected(t) \in Successes
    BY <2>2, DueFits
  <2>4. LastAudit(t).status \in {"none", "replay-operational-failure"}
    BY <2>1 DEF Retriable, NoAudit
  <2>5. /\ replayer[v].options \in ReplayOptions
        /\ replayer[v].rows \in Seq(Rows)
        /\ Len(replayer[v].rows) + 1 = At(v)
        /\ RowsFit(replayer[v].rows)
    BY <2>2, AtWork DEF Active, At
  <2>6. s \in ReplayerStates
    BY <2>2, <2>3, <2>5 DEF ReplayerStates
  <2>7. StateFits(s)
    BY <2>3, <2>4, <2>5, <2>6 DEF StateFits, TargetFits
  <2>8. replayer' = [replayer EXCEPT ![v] = s]
    BY <2>1
  <2> HIDE DEF s
  <2> QED
    BY <2>2, <2>7, <2>8, <1>t, <1>l, <1>m DEF Active, ReplayTypeOK
<1>6. CASE FailReplay(v)
  <2>1. Active(v, {"scan", "execute"})
    BY <1>6 DEF FailReplay, Reading, Active
  <2> QED
    BY <1>6, <2>1, <1>t, <1>l, <1>m, FaultsFit DEF FailReplay, Faults, Active, ReplayTypeOK
<1>7. CASE RejectReplay(v)
  <2>1. Active(v, {"scan", "execute"}) /\ replayer[v].target \in Targets
    BY <1>7, AtWork DEF RejectReplay, Active
  <2> QED
    BY <1>7, <2>1, <1>t, <1>l, <1>m, FaultsFit DEF RejectReplay, Faults, Active, ReplayTypeOK
<1>8. CASE WriteReport(v)
  <2>1. Active(v, {"scan", "report"})
    BY <1>8 DEF WriteReport, Active
  <2>2. Report(v) \in Reports /\ Report(v).rows = replayer[v].rows /\ RowsFit(replayer[v].rows)
    BY <2>1, AtWork DEF Active, Report, Reports
  <2>3. StateFits([pc |-> "unlock"])
    BY EmptyHanded
  <2> QED
    BY <1>8, <2>1, <2>2, <2>3, <1>t, <1>l, ReplayMoves DEF WriteReport, Active, ReplayTypeOK
<1>9. CASE Unlock(v) \/ ClearAuditLock(v)
  <2>1. /\ auditLock = v /\ auditLock' = NoOne
        /\ replayer' = [replayer EXCEPT ![v] = Resting]
        /\ UNCHANGED <<audits, replayReport, replays, rejected>>
    BY <1>9, <1>l DEF Unlock, ClearAuditLock, Active
  <2>2. StateFits(Resting) /\ Resting.pc = "idle"
    BY EmptyHanded DEF Resting
  <2> QED
    BY <2>1, <2>2, <1>t, <1>l, ReplayMoves DEF ReplayTypeOK
<1>10. CASE KillReplay(v)
  <2>1. StateFits([pc |-> "dead"])
    BY EmptyHanded
  <2> QED
    BY <1>10, <2>1, <1>t, <1>l, <1>m DEF KillReplay, Active, ReplayTypeOK
<1> QED
  BY <1>1, <1>2, <1>3, <1>4, <1>5, <1>6, <1>7, <1>8, <1>9, <1>10

\* The step that saves an audit: the target had none with an output, so whatever
\* rests on an exact audit still does.
LEMMA ReplayedInv ==
  ASSUME PanelInv, ReplayInv, UNCHANGED panelVars, NEW v \in Replayers,
         NEW actual \in Outputs, Replayed(v, actual)
  PROVE  ReplayInv'
<1> DEFINE options == replayer[v].options
           rows == replayer[v].rows
<1>1. PICK t, audit : t = replayer[v].target /\ audit = Audit(options.kernel, Expected(t), actual)
  OBVIOUS
<1>2. /\ Active(v, {"execute"})
      /\ audits' = [audits EXCEPT ![t] = Append(@, audit)]
      /\ IF audit.status = "exact-replay"
           THEN \E pc \in {"scan", "report"} : Lists(v, pc, ReplayedRow(t, audit))
           ELSE Faults(v)
      /\ UNCHANGED <<auditLock, replayReport, replays, rejected>>
  BY <1>1 DEF Replayed
<1>3. /\ auditLock = v
      /\ options \in ReplayOptions /\ options.kernel \in Kernels
      /\ At(v) \in Jobs
      /\ rows \in Seq(Rows) /\ Len(rows) + 1 = At(v) /\ RowsFit(rows)
      /\ t \in Targets /\ TargetFits(t, At(v))
  BY <1>1, <1>2, AtWork DEF Active, At
<1>4. Expected(t) \in Successes /\ t[2] = At(v)
  BY <1>3 DEF TargetFits
<1>5. /\ audit \in Audits
      /\ audit.expected = Expected(t)
      /\ audit.status = AuditStatus(audit.actual, audit.expected)
  BY <1>1, <1>3, <1>4, StatusSays DEF Audit, Audits
<1>6. audits \in [Targets -> Seq(Audits)]
  BY DEF ReplayInv, ReplayTypeOK
<1>7. /\ audits'[t] = Append(audits[t], audit)
      /\ audits'[t] \in Seq(Audits)
      /\ Len(audits'[t]) = Len(audits[t]) + 1
      /\ audits'[t][Len(audits[t]) + 1] = audit
      /\ audits'[t] # <<>>
      /\ \A k \in 1 .. Len(audits[t]) : audits'[t][k] = audits[t][k]
      /\ Len(audits[t]) \in Nat
  BY <1>2, <1>3, <1>5, <1>6
<1>8. \A u \in Targets : u # t => audits'[u] = audits[u]
  BY <1>2, <1>6
<1>9. LastAudit(t)' = audit /\ \A u \in Targets : u # t => LastAudit(u)' = LastAudit(u)
  BY <1>7, <1>8 DEF LastAudit
<1>10. \A u \in Targets : LastAudit(u).status = "exact-replay" => LastAudit(u)'.status = "exact-replay"
  BY <1>3, <1>9 DEF TargetFits
<1>11. \A r : RowsFit(r) => RowsFit(r)'
  BY <1>10, RowsStay
<1>12. \A u : Expected(u)' = Expected(u)
  BY DEF panelVars, Expected
<1>13. ASSUME NEW u \in Targets, NEW k \in 1 .. Len(audits'[u]) PROVE AuditFits(u, k)'
  <2>1. CASE u # t
    <3>1. audits'[u] = audits[u]
      BY <1>8, <2>1
    <3>2. AuditFits(u, k)
      BY <1>13, <3>1 DEF ReplayInv
    <3> QED
      BY <1>12, <3>1, <3>2 DEF AuditFits
  <2>2. CASE u = t /\ k = Len(audits[t]) + 1
    BY <1>5, <1>7, <1>12, <2>2 DEF AuditFits
  <2>3. CASE u = t /\ k # Len(audits[t]) + 1
    <3>1. k \in 1 .. Len(audits[t])
      BY <1>7, <1>13, <2>3
    <3>2. AuditFits(t, k)
      BY <1>3, <3>1 DEF ReplayInv
    <3>3. audits[t][k].status = "replay-operational-failure"
      <4>1. CASE k < Len(audits[t])
        BY <3>2, <4>1 DEF AuditFits
      <4>2. CASE k = Len(audits[t])
        <5>1. LastAudit(t) = audits[t][k] /\ LastAudit(t) \in Audits
          BY <1>3, <1>6, <3>1, <4>2, LastIsOne
        <5>2. LastAudit(t).status # "none"
          BY <5>1 DEF Audits
        <5> QED
          BY <1>3, <5>1, <5>2 DEF TargetFits
      <4> QED
        BY <1>7, <3>1, <4>1, <4>2
    <3>4. audits'[t][k] = audits[t][k]
      BY <1>7, <3>1
    <3> QED
      BY <1>12, <2>3, <3>2, <3>3, <3>4 DEF AuditFits
  <2> QED
    BY <2>1, <2>2, <2>3
<1>14. PICK here, before, opts : here = At(v) /\ before = rows /\ opts = options
  OBVIOUS
<1>15. /\ here \in Jobs /\ here \in 1 .. Searches + 1 /\ here + 1 \in 1 .. Searches + 1
       /\ before \in Seq(Rows) /\ Len(before) + 1 = here
       /\ RowsFit(before)'
       /\ opts \in ReplayOptions
  <2>1. here \in Jobs /\ RowsFit(before)
    BY <1>3, <1>14
  <2> QED
    BY <1>3, <1>11, <1>14, <2>1, PanelAssumption DEF Jobs
<1>16. PICK s :
         /\ replayer' = [replayer EXCEPT ![v] = s]
         /\ s \in ReplayerStates
         /\ s.pc \in {"scan", "report"}
         /\ StateFits(s)'
  <2>1. CASE audit.status = "exact-replay"
    <3>1. PICK pc \in {"scan", "report"} : Lists(v, pc, ReplayedRow(t, audit))
      BY <1>2, <2>1
    <3>2. PICK row : row = ReplayedRow(t, audit)
      OBVIOUS
    <3> DEFINE s == [pc |-> pc, options |-> opts, at |-> here + 1,
                     rows |-> Append(before, row), fault |-> FALSE]
    <3>3. replayer' = [replayer EXCEPT ![v] = s]
      BY <1>14, <3>1, <3>2 DEF Lists
    <3>4. row \in Rows /\ RowFits(here, row)'
      <4>1. runs' = runs
        BY DEF panelVars
      <4>2. t[2] = here
        BY <1>4, <1>14
      <4>3. audit.actual = Expected(t)
        BY <1>4, <1>5, <2>1, StatusSays
      <4> QED
        BY <4>3, <1>3, <1>4, <1>5, <1>9, <1>15, <2>1, <3>2, <4>1, <4>2, ReplayedFits
    <3>5. /\ Append(before, row) \in Seq(Rows)
          /\ Len(Append(before, row)) + 1 = here + 1
          /\ RowsFit(Append(before, row))'
      BY <1>15, <3>4, RowAdded
    <3>6. s \in ReplayerStates
      BY <1>15, <3>5 DEF ReplayerStates
    <3>7. StateFits(s)'
      BY <3>5, <3>6 DEF StateFits
    <3> QED
      BY <3>3, <3>6, <3>7
  <2>2. CASE audit.status # "exact-replay"
    <3> DEFINE s == [pc |-> "report", options |-> opts, at |-> here, rows |-> before, fault |-> TRUE]
    <3>1. replayer' = [replayer EXCEPT ![v] = s]
      BY <1>2, <1>14, <2>2 DEF Faults
    <3>2. s \in ReplayerStates
      BY <1>15 DEF ReplayerStates
    <3>3. StateFits(s)'
      BY <1>15, <3>2 DEF StateFits
    <3> QED
      BY <3>1, <3>2, <3>3
  <2> QED
    BY <2>1, <2>2
<1>17. replayer'[v] = s /\ \A u \in Replayers : u # v => replayer'[u] = replayer[u]
  BY <1>16 DEF ReplayInv, ReplayTypeOK
<1>18. ASSUME NEW u \in Replayers, u # v
       PROVE  replayer[u].pc \in {"idle", "opening"} /\ StateFits(replayer[u])'
  <2>1. replayer[u].pc \in {"idle", "opening"}
    BY <1>3, <1>18 DEF ReplayInv, LocksHeld
  <2>2. PICK r : r = replayer'[u]
    OBVIOUS
  <2>3. r = replayer[u] /\ r \in ReplayerStates /\ r.pc \in {"idle", "opening"}
    BY <1>17, <1>18, <2>1, <2>2 DEF ReplayInv, ReplayTypeOK
  <2>4. StateFits(r)'
    BY <2>3 DEF StateFits
  <2> QED
    BY <2>1, <2>2, <2>4
<1>19. \A u \in Replayers : StateFits(replayer[u])'
  BY <1>16, <1>17, <1>18
<1>20. LocksHeld'
  BY <1>2, <1>3, <1>17, <1>18 DEF LocksHeld
<1>21. audits' \in [Targets -> Seq(Audits)]
  BY <1>2, <1>3, <1>6, <1>7
<1>22. ReplayTypeOK'
  BY <1>2, <1>16, <1>21 DEF ReplayInv, ReplayTypeOK
<1>23. (replayReport.written => RowsFit(replayReport.rows))'
  <2>1. PICK r : r = replayReport
    OBVIOUS
  <2>2. r.written => RowsFit(r.rows)'
    BY <1>11, <2>1 DEF ReplayInv
  <2> QED
    BY <1>2, <2>1, <2>2
<1> QED
  BY <1>13, <1>19, <1>20, <1>22, <1>23 DEF ReplayInv

LEMMA ReplayNextInv ==
  ASSUME PanelInv, ReplayInv, [Next]_vars
  PROVE  ReplayInv'
<1>1. [PanelNext]_panelVars
  BY StudyStep
<1>2. CASE AuditStep
  <2>1. PICK v \in Replayers : ReplayStep(v)
    BY <1>2 DEF AuditStep
  <2>2. UNCHANGED panelVars
    BY <2>1 DEF ReplayStep
  <2> QED
    BY <2>1, <2>2, QuietStepInv, ReplayedInv DEF ReplayStep
<1>3. CASE PanelStep \/ EvaluateStep \/ BundleStep \/ UNCHANGED vars
  <2>1. UNCHANGED replayVars
    BY <1>3 DEF PanelStep, EvaluateStep, BundleStep, vars
  <2> QED
    BY <1>1, <2>1, OthersKeep
<1> QED
  BY <1>2, <1>3 DEF Next

-----------------------------------------------------------------------------
\* What a replay has listed, an audit says and the last report claims is true of
\* the files, in every reachable state: the inductive invariant.
THEOREM ReplayInvariant == Spec => [](PanelInv /\ ReplayInv)
<1>1. Spec => []PanelInv
  BY StudyImplementsPanel, PanelInvariant, PTL
<1>2. PanelInv /\ ReplayInv /\ [Next]_vars => ReplayInv'
  BY ReplayNextInv
<1> QED
  BY <1>1, <1>2, ReplayStarts, PTL DEF Spec

\* The last report, if there is one, has one row per search when it claims all.
LEMMA ReportTyped ==
  ASSUME ReplayInv, AllReproduced(replayReport)
  PROVE  /\ replayReport \in Reports
         /\ replayReport.rows \in Seq(Rows)
         /\ Len(replayReport.rows) = Searches
         /\ DOMAIN replayReport.rows = Jobs
         /\ \A j \in Jobs :
              /\ replayReport.rows[j] \in Rows
              /\ RowFits(j, replayReport.rows[j])
              /\ replayReport.rows[j].status \in {"exact-replay", "original-operational-failure"}
<1>1. replayReport.written /\ RowsFit(replayReport.rows)
  BY DEF ReplayInv, AllReproduced
<1>2. replayReport \in Reports
  BY <1>1 DEF ReplayInv, ReplayTypeOK, NoReport
<1>3. /\ replayReport.rows \in Seq(Rows)
      /\ Len(replayReport.rows) = Searches
  BY <1>2 DEF AllReproduced, Examined, Reports
<1>4. DOMAIN replayReport.rows = Jobs
  BY <1>3 DEF Jobs
<1> QED
  BY <1>1, <1>2, <1>3, <1>4 DEF RowsFit, AllReproduced, Jobs

\* The original of a reported search is the recorded one.
LEMMA OriginalStands ==
  ASSUME ReplayInv, NEW j \in Jobs, NEW row, RowFits(j, row),
         row.status \in {"exact-replay", "original-operational-failure"}
  PROVE  /\ runs[j] = row.original
         /\ runs[j] \in Records
         /\ row.status = "exact-replay" => runs[j] \in Successes
         /\ row.status = "original-operational-failure" => runs[j] \in Failures
BY FailureIsNoSuccess DEF RowFits, RowSound, Records

LEMMA MismatchesFollow == PanelInv /\ ReplayInv => MismatchesStand
<1> SUFFICES ASSUME PanelInv, ReplayInv, NEW t \in Targets
             PROVE  /\ \A k \in DOMAIN audits[t] :
                         /\ audits[t][k].expected = Expected(t)
                         /\ k < Len(audits[t]) => audits[t][k].status = "replay-operational-failure"
                    /\ LastAudit(t).status = "scientific-output-mismatch" =>
                         ~ (AllReproduced(replayReport) /\ (t[1] = "supplemental" => SupplementalReproduced(replayReport)))
  BY DEF MismatchesStand
<1>1. ASSUME NEW k \in DOMAIN audits[t]
      PROVE  /\ audits[t][k].expected = Expected(t)
             /\ k < Len(audits[t]) => audits[t][k].status = "replay-operational-failure"
  <2>1. audits[t] \in Seq(Audits)
    BY DEF ReplayInv, ReplayTypeOK
  <2>2. k \in 1 .. Len(audits[t])
    BY <1>1, <2>1
  <2> QED
    BY <2>2 DEF ReplayInv, AuditFits
<1>2. ASSUME LastAudit(t).status = "scientific-output-mismatch", AllReproduced(replayReport),
             t[1] = "supplemental" => SupplementalReproduced(replayReport)
      PROVE  FALSE
  <2>1. PICK j \in Jobs : t = <<t[1], j>> /\ t[1] \in {"original", "supplemental"}
    BY DEF Targets
  <2> DEFINE row == replayReport.rows[j]
  <2>2. /\ RowFits(j, row)
        /\ row.status \in {"exact-replay", "original-operational-failure"}
        /\ j \in DOMAIN replayReport.rows
    BY <1>2, ReportTyped
  <2>3. /\ row.status = "exact-replay" => runs[j] \in Successes
        /\ row.status = "original-operational-failure" => runs[j] \in Failures
    BY <2>2, OriginalStands
  <2>4. Expected(t) \in Successes /\ t[2] = j
    <3>1. /\ LastAudit(t) \in Audits
          /\ AuditFits(t, Len(audits[t]))
          /\ LastAudit(t) = audits[t][Len(audits[t])]
      BY <1>2, LastIsOne DEF NoAudit
    <3>2. LastAudit(t).expected = Expected(t) /\ LastAudit(t).expected \in Successes
      BY <3>1 DEF AuditFits, Audits
    <3> QED
      BY <2>1, <3>2
  <2>5. CASE t[1] = "original"
    <3>1. runs[j] \in Successes
      BY <2>4, <2>5 DEF Expected
    <3>2. row.status = "exact-replay"
      BY <2>2, <2>3, <3>1, FailureIsNoSuccess
    <3> QED
      BY <1>2, <2>1, <2>2, <2>5, <3>2 DEF RowFits
  <2>6. CASE t[1] = "supplemental"
    <3>1. supplemental[j].execution \in Successes /\ supplemental[j] # NoAttempt
      BY <2>4, <2>6, FailureIsNoSuccess DEF Expected, NoAttempt
    <3>2. runs[j] \in Failures
      BY <3>1 DEF PanelInv, AttemptsBelong
    <3>3. row.status = "original-operational-failure"
      BY <2>2, <2>3, <3>2, FailureIsNoSuccess
    <3>4. row.extra \in {"exact-replay", "supplemental-operational-failure"}
      BY <1>2, <2>2, <2>6, <3>3 DEF SupplementalReproduced
    <3>5. row.extra # "supplemental-operational-failure"
      BY <2>2, <3>1, FailureIsNoSuccess DEF RowFits
    <3> QED
      BY <1>2, <2>1, <2>2, <2>6, <3>4, <3>5 DEF RowFits
  <2> QED
    BY <2>1, <2>5, <2>6
<1> QED
  BY <1>1, <1>2

LEMMA ReportsFollow == PanelInv /\ ReplayInv => ReportsAreTrue
<1> SUFFICES ASSUME PanelInv, ReplayInv, AllReproduced(replayReport)
             PROVE  /\ Len(replayReport.rows) = Searches
                    /\ \A j \in Jobs :
                         /\ runs[j] = replayReport.rows[j].original
                         /\ runs[j] \in Records
                         /\ runs[j] \in Successes =>
                              /\ LastAudit(<<"original", j>>).status = "exact-replay"
                              /\ LastAudit(<<"original", j>>).actual = runs[j]
  BY DEF ReportsAreTrue
<1>1. ASSUME NEW j \in Jobs
      PROVE  /\ runs[j] = replayReport.rows[j].original
             /\ runs[j] \in Records
             /\ runs[j] \in Successes =>
                  /\ LastAudit(<<"original", j>>).status = "exact-replay"
                  /\ LastAudit(<<"original", j>>).actual = runs[j]
  <2> DEFINE row == replayReport.rows[j]
             t == <<"original", j>>
  <2>1. RowFits(j, row) /\ row.status \in {"exact-replay", "original-operational-failure"}
    BY ReportTyped
  <2>2. /\ runs[j] = row.original
        /\ runs[j] \in Records
        /\ row.status = "original-operational-failure" => runs[j] \in Failures
    BY <2>1, OriginalStands
  <2>3. ASSUME runs[j] \in Successes
        PROVE  LastAudit(t).status = "exact-replay" /\ LastAudit(t).actual = runs[j]
    <3>1. row.status = "exact-replay"
      BY <2>1, <2>2, <2>3, FailureIsNoSuccess
    <3>2. LastAudit(t).status = "exact-replay"
      BY <2>1, <3>1 DEF RowFits
    <3>3. t \in Targets /\ Expected(t) = runs[j]
      BY DEF Targets, Expected
    <3>4. AuditFits(t, Len(audits[t])) /\ LastAudit(t) = audits[t][Len(audits[t])]
      BY <3>2, <3>3, LastIsOne DEF NoAudit
    <3>5. LastAudit(t).expected = runs[j] /\ LastAudit(t).status = AuditStatus(LastAudit(t).actual, LastAudit(t).expected)
      BY <3>3, <3>4 DEF AuditFits
    <3> QED
      BY <2>3, <3>2, <3>5, StatusSays
  <2> QED
    BY <2>2, <2>3
<1> QED
  BY <1>1, ReportTyped

\* A scientific mismatch cannot be retried away, for any number of searches,
\* results, executables, processes and starts (replay_one, replay_panel).
THEOREM MismatchesStandAlways == Spec => []MismatchesStand
BY ReplayInvariant, MismatchesFollow, PTL

\* A report of full reproduction is true of the files as they are now, whatever
\* ran since it was written (replay_panel).
THEOREM ReportsStayTrue == Spec => []ReportsAreTrue
BY ReplayInvariant, ReportsFollow, PTL

-----------------------------------------------------------------------------
\* The archive.  Once the reports are ready every search has a record, so what is
\* copied after that, in whatever order, is what the loaded reports speak of.
Copying == {"audits", "audit-report", "evaluation", "attempts", "runs", "verify"}

AllRecorded == \A j \in Jobs : runs[j] # Absent

ReplaySound(report) ==
  /\ report \in Reports \cup {NoReport}
  /\ report.written => \A k \in 1 .. Len(report.rows) : RowSound(report.rows[k])

Loaded ==
  bundler.pc \in Copying =>
    /\ DOMAIN bundler = {"pc", "report", "replay"}
    /\ bundler.report = EvaluationOf(runs)
    /\ AllRecorded

\* What the archive holds before each of the next copies.
Filled ==
  /\ bundler.pc # "idle" => "verified" \in DOMAIN archive /\ archive.verified = FALSE
  /\ bundler.pc \in {"audit-report", "evaluation", "attempts", "runs", "verify"} =>
       "audits" \in DOMAIN archive
  /\ bundler.pc \in {"evaluation", "attempts", "runs", "verify"} =>
       "replay" \in DOMAIN archive /\ ReplaySound(archive.replay)
  /\ bundler.pc \in {"attempts", "runs", "verify"} =>
       "report" \in DOMAIN archive /\ archive.report = EvaluationOf(runs)
  /\ bundler.pc \in {"runs", "verify"} => "supplemental" \in DOMAIN archive
  /\ bundler.pc = "verify" => "runs" \in DOMAIN archive /\ archive.runs = runs

ArchiveInv ==
  /\ bundler.pc \in Copying \cup {"idle", "load"}
  /\ Loaded
  /\ Filled
  /\ archive.verified => AllRecorded
  /\ ArchiveIsClosed

\* With all records in place nothing records any more.
LEMMA AllRecordedStays ==
  ASSUME PanelInv, AllRecorded, [Next]_vars
  PROVE  runs' = runs
<1>1. \A j \in Jobs : runs'[j] = runs[j]
  BY StudyStep, StepKeepsRecords DEF AllRecorded
<1>2. PanelTypeOK /\ PanelTypeOK'
  BY StudyStep, PanelNextInv DEF PanelInv
<1> QED
  BY <1>1, <1>2 DEF PanelTypeOK

LEMMA ArchiveStarts == Init => ArchiveInv
BY DEF Init, NoArchive, Closed, Copying, ArchiveInv, Loaded, Filled, ArchiveIsClosed

\* Steps that do not touch the archive.
LEMMA ArchiveRests ==
  ASSUME PanelInv, ArchiveInv, [Next]_vars, UNCHANGED <<archive, bundler>>
  PROVE  ArchiveInv'
<1>1. CASE AllRecorded
  <2>1. runs' = runs
    BY <1>1, AllRecordedStays
  <2> QED
    BY <2>1 DEF ArchiveInv, Loaded, Filled, AllRecorded, ArchiveIsClosed, AllReproduced, Examined, ReplaySound, EvaluationOf
<1>2. CASE ~ AllRecorded
  <2>1. bundler.pc \notin Copying /\ ~ archive.verified
    BY <1>2 DEF ArchiveInv, Loaded
  <2> QED
    BY <2>1 DEF ArchiveInv, Loaded, Filled, Copying, ArchiveIsClosed
<1> QED
  BY <1>1, <1>2

\* The archive that is verified is closed.
LEMMA VerifiedIsClosed ==
  ASSUME NEW files, ReplaySound(files.replay), files.report.ledger = runs, files.runs = runs,
         runs \in [Jobs -> Records \cup {Absent}],
         Ready(files.report, files.replay), Bound(files.report, files.replay, files)
  PROVE  /\ AllReproduced(files.replay)
         /\ \A j \in Jobs :
              \/ /\ runs[j] \in Successes
                 /\ \E k \in DOMAIN files.audits[<<"original", j>>] :
                      files.audits[<<"original", j>>][k].actual = runs[j]
              \/ /\ runs[j] \in Failures
                 /\ files.supplemental[j].of = runs[j]
                 /\ files.supplemental[j].execution \in Successes =>
                      \E k \in DOMAIN files.audits[<<"supplemental", j>>] :
                        files.audits[<<"supplemental", j>>][k].actual = files.supplemental[j].execution
<1> DEFINE rows == files.replay.rows
<1>1. /\ AllReproduced(files.replay) /\ SupplementalReproduced(files.replay)
      /\ runs = Ledger(files.replay)
  BY DEF Ready
<1>2. /\ files.replay \in Reports
      /\ rows \in Seq(Rows) /\ Len(rows) = Searches
  <2>1. files.replay.written /\ Len(rows) = Searches
    BY <1>1 DEF AllReproduced, Examined
  <2>2. files.replay \in Reports
    BY <2>1 DEF ReplaySound, NoReport
  <2>3. rows \in Seq(Rows)
    BY <2>2 DEF Reports
  <2> QED
    BY <2>1, <2>2, <2>3
<1>3. DOMAIN rows = Jobs /\ Jobs = 1 .. Len(rows)
  BY <1>2 DEF Jobs
<1>4. ASSUME NEW j \in Jobs
      PROVE  \/ /\ runs[j] \in Successes
                /\ \E k \in DOMAIN files.audits[<<"original", j>>] :
                     files.audits[<<"original", j>>][k].actual = runs[j]
             \/ /\ runs[j] \in Failures
                /\ files.supplemental[j].of = runs[j]
                /\ files.supplemental[j].execution \in Successes =>
                     \E k \in DOMAIN files.audits[<<"supplemental", j>>] :
                       files.audits[<<"supplemental", j>>][k].actual = files.supplemental[j].execution
  <2> DEFINE row == rows[j]
  <2>1. RowSound(row) /\ row.original = runs[j]
    BY <1>1, <1>3 DEF ReplaySound, AllReproduced, Ledger
  <2>2. row.status \in {"exact-replay", "original-operational-failure"}
    BY <1>1, <1>3 DEF AllReproduced
  <2>3. CASE row.status = "exact-replay"
    <3>1. j \in ExactRows(files.replay)
      BY <2>3 DEF ExactRows
    <3>2. Holds(files, <<"original", j>>, row.audit)
      BY <3>1 DEF Bound
    <3>3. runs[j] \in Successes /\ row.audit.actual = runs[j]
      BY <2>1, <2>3 DEF RowSound
    <3> QED
      BY <3>2, <3>3 DEF Holds
  <2>4. CASE row.status = "original-operational-failure"
    <3>1. j \in FailedRows(files.replay)
      BY <2>4 DEF FailedRows
    <3>2. /\ files.supplemental[j] = row.attempt
          /\ row.extra = "exact-replay" => Holds(files, <<"supplemental", j>>, row.audit)
      BY <3>1 DEF Bound
    <3>3. row.extra \in {"exact-replay", "supplemental-operational-failure"}
      BY <1>1, <1>3, <2>4 DEF SupplementalReproduced
    <3>4. runs[j] \in Failures /\ row.attempt.of = runs[j]
      BY <2>1, <2>4, <3>3 DEF RowSound
    <3>5. CASE row.extra = "exact-replay"
      <4>1. row.attempt.execution = row.audit.actual
        BY <2>1, <3>5 DEF RowSound
      <4> QED
        BY <3>2, <3>4, <3>5, <4>1 DEF Holds
    <3>6. CASE row.extra = "supplemental-operational-failure"
      <4>1. row.attempt.execution \notin Successes
        BY <2>1, <3>6, FailureIsNoSuccess DEF RowSound
      <4> QED
        BY <3>2, <3>4, <4>1
    <3> QED
      BY <3>3, <3>5, <3>6
  <2> QED
    BY <2>2, <2>3, <2>4
<1> QED
  BY <1>1, <1>4

\* A copy keeps what is in the archive.
LEMMA CopyInv ==
  ASSUME ArchiveInv, UNCHANGED runs, NEW from \in Copying, NEW to \in Copying,
         NEW file, file # "verified", NEW content,
         Copied(from, to, file, content)
  PROVE  /\ bundler'.pc = to
         /\ Loaded'
         /\ "verified" \in DOMAIN archive'
         /\ archive'.verified = FALSE
<1>1. /\ bundler.pc = from
      /\ DOMAIN bundler = {"pc", "report", "replay"}
      /\ bundler' = [bundler EXCEPT !.pc = to]
      /\ archive' = [f \in DOMAIN archive \cup {file} |-> IF f = file THEN content ELSE archive[f]]
  BY DEF Copied, ArchiveInv, Loaded
<1>2. "verified" \in DOMAIN archive /\ archive.verified = FALSE
  BY <1>1 DEF ArchiveInv, Filled, Copying
<1>3. /\ bundler'.pc = to
      /\ bundler'.report = bundler.report
      /\ DOMAIN bundler' = {"pc", "report", "replay"}
  BY <1>1
<1>4. Loaded'
  BY <1>1, <1>3 DEF ArchiveInv, Loaded, AllRecorded, EvaluationOf
<1> QED
  BY <1>1, <1>2, <1>3, <1>4

LEMMA CopyFilesInv ==
  ASSUME ReplayInv, ArchiveInv, UNCHANGED <<runs, replayReport>>, CopyFiles
  PROVE  ArchiveInv'
<1> USE DEF Copying
<1>s. ReplaySound(replayReport)
  BY DEF ReplayInv, ReplayTypeOK, ReplaySound, RowsFit, RowFits
<1>i. Filled /\ Loaded
  BY DEF ArchiveInv
<1>q. ASSUME ~ archive'.verified, Loaded', Filled', bundler'.pc \in Copying PROVE ArchiveInv'
  BY <1>q DEF ArchiveInv, ArchiveIsClosed
<1>r. /\ archive'.replay = archive.replay /\ ReplaySound(archive.replay) => ReplaySound(archive.replay)'
      /\ archive'.replay = replayReport => ReplaySound(archive.replay)'
  BY <1>s DEF ReplaySound, RowSound
<1>e. EvaluationOf(runs)' = EvaluationOf(runs)
  BY DEF EvaluationOf
<1>1. CASE Copied("audits", "audit-report", "audits", audits)
  <2>c. /\ bundler'.pc = "audit-report" /\ Loaded'
        /\ "verified" \in DOMAIN archive' /\ archive'.verified = FALSE
    BY <1>1, CopyInv
  <2>d. archive' = [f \in DOMAIN archive \cup {"audits"} |-> IF f = "audits" THEN audits ELSE archive[f]]
    BY <1>1 DEF Copied
  <2>1. Filled'
    BY <2>c, <2>d DEF Filled
  <2> QED
    BY <1>q, <2>c, <2>1
<1>2. CASE Copied("audit-report", "evaluation", "replay", replayReport)
  <2>c. /\ bundler'.pc = "evaluation" /\ Loaded'
        /\ "verified" \in DOMAIN archive' /\ archive'.verified = FALSE
    BY <1>2, CopyInv
  <2>d. archive' = [f \in DOMAIN archive \cup {"replay"} |-> IF f = "replay" THEN replayReport ELSE archive[f]]
    BY <1>2 DEF Copied
  <2>1. bundler.pc = "audit-report" /\ "audits" \in DOMAIN archive
    BY <1>2, <1>i DEF Filled, Copied
  <2>2. Filled'
    BY <1>r, <2>c, <2>d, <2>1 DEF Filled
  <2> QED
    BY <1>q, <2>c, <2>2
<1>3. CASE CopyReport
  <2>1. /\ Copied("evaluation", "attempts", "report", evaluation)
        /\ bundler.pc = "evaluation"
        /\ evaluation = bundler.report
    BY <1>3 DEF CopyReport
  <2>2. evaluation = EvaluationOf(runs)
    BY <1>i, <2>1 DEF Loaded
  <2>3. {"audits", "replay"} \subseteq DOMAIN archive /\ ReplaySound(archive.replay)
    BY <1>i, <2>1 DEF Filled
  <2>c. /\ bundler'.pc = "attempts" /\ Loaded'
        /\ "verified" \in DOMAIN archive' /\ archive'.verified = FALSE
    BY <2>1, CopyInv
  <2>d. archive' = [f \in DOMAIN archive \cup {"report"} |-> IF f = "report" THEN evaluation ELSE archive[f]]
    BY <2>1 DEF Copied
  <2>4. archive'.replay = archive.replay
    BY <2>3, <2>d
  <2>5. Filled'
    BY <1>e, <1>r, <2>2, <2>3, <2>4, <2>c, <2>d DEF Filled
  <2> QED
    BY <1>q, <2>c, <2>5
<1>4. CASE Copied("attempts", "runs", "supplemental", supplemental)
  <2>1. bundler.pc = "attempts"
    BY <1>4 DEF Copied
  <2>2. /\ {"audits", "replay", "report"} \subseteq DOMAIN archive
        /\ ReplaySound(archive.replay)
        /\ archive.report = EvaluationOf(runs)
    BY <1>i, <2>1 DEF Filled
  <2>c. /\ bundler'.pc = "runs" /\ Loaded'
        /\ "verified" \in DOMAIN archive' /\ archive'.verified = FALSE
    BY <1>4, CopyInv
  <2>d. archive' = [f \in DOMAIN archive \cup {"supplemental"} |-> IF f = "supplemental" THEN supplemental ELSE archive[f]]
    BY <1>4 DEF Copied
  <2>3. archive'.report = archive.report /\ archive'.replay = archive.replay
    BY <2>2, <2>d
  <2>4. Filled'
    BY <1>e, <1>r, <2>2, <2>3, <2>c, <2>d DEF Filled
  <2> QED
    BY <1>q, <2>c, <2>4
<1>5. CASE Copied("runs", "verify", "runs", runs)
  <2>1. bundler.pc = "runs"
    BY <1>5 DEF Copied
  <2>2. /\ {"audits", "replay", "report", "supplemental"} \subseteq DOMAIN archive
        /\ ReplaySound(archive.replay)
        /\ archive.report = EvaluationOf(runs)
    BY <1>i, <2>1 DEF Filled
  <2>c. /\ bundler'.pc = "verify" /\ Loaded'
        /\ "verified" \in DOMAIN archive' /\ archive'.verified = FALSE
    BY <1>5, CopyInv
  <2>d. archive' = [f \in DOMAIN archive \cup {"runs"} |-> IF f = "runs" THEN runs ELSE archive[f]]
    BY <1>5 DEF Copied
  <2>3. archive'.report = archive.report /\ archive'.replay = archive.replay
    BY <2>2, <2>d
  <2>4. Filled'
    BY <1>e, <1>r, <2>2, <2>3, <2>c, <2>d DEF Filled
  <2> QED
    BY <1>q, <2>c, <2>4
<1> QED
  BY <1>1, <1>2, <1>3, <1>4, <1>5 DEF CopyFiles

LEMMA ArchiveNextInv ==
  ASSUME PanelInv, EvaluationInv, ReplayInv, ArchiveInv, [Next]_vars
  PROVE  ArchiveInv'
<1>i. Filled /\ Loaded
  BY DEF ArchiveInv
<1>t. runs \in [Jobs -> Records \cup {Absent}]
  BY DEF PanelInv, PanelTypeOK
<1>1. CASE PanelStep \/ AuditStep \/ EvaluateStep \/ UNCHANGED vars
  <2>1. UNCHANGED <<archive, bundler>>
    BY <1>1 DEF PanelStep, AuditStep, EvaluateStep, studyVars, vars
  <2> QED
    BY <2>1, ArchiveRests
<1>2. CASE BundleStep
  <2>u. UNCHANGED <<runs, replayReport, evaluation>>
    BY <1>2 DEF BundleStep, panelVars, replayVars
  <2>1. CASE StartBundle
    <3>1. bundler'.pc = "load" /\ archive' = [verified |-> FALSE]
      BY <2>1 DEF StartBundle, NoArchive
    <3> QED
      BY <3>1 DEF ArchiveInv, Loaded, Filled, Copying, ArchiveIsClosed
  <2>2. CASE LoadReports
    <3>1. /\ bundler.pc = "load"
          /\ bundler' = [pc |-> "audits", report |-> evaluation, replay |-> replayReport]
          /\ archive' = archive
          /\ evaluation.written /\ evaluation.complete
      BY <2>2 DEF LoadReports, Ready
    <3>2. evaluation = EvaluationOf(runs) /\ AllRecorded
      BY <3>1 DEF EvaluationInv, CompleteIsCurrent, AllRecorded
    <3>3. Loaded'
      BY <2>u, <3>1, <3>2 DEF Loaded, AllRecorded, EvaluationOf
    <3>4. Filled' /\ archive'.verified = FALSE
      BY <1>i, <3>1 DEF Filled
    <3> QED
      BY <3>1, <3>3, <3>4 DEF ArchiveInv, Copying, ArchiveIsClosed
  <2>3. CASE CopyFiles
    BY <2>u, <2>3, CopyFilesInv
  <2>4. CASE Verify
    <3>1. /\ bundler.pc = "verify"
          /\ bundler' = [pc |-> "idle"]
          /\ archive' = [archive EXCEPT !.verified = TRUE]
          /\ Ready(archive.report, archive.replay)
          /\ Bound(archive.report, archive.replay, archive)
      BY <2>4 DEF Verify, Closed
    <3>2. /\ {"audits", "replay", "report", "supplemental", "runs"} \subseteq DOMAIN archive
          /\ ReplaySound(archive.replay)
          /\ archive.report = EvaluationOf(runs)
          /\ archive.runs = runs
      BY <1>i, <3>1 DEF Filled
    <3>3. AllRecorded
      BY <1>i, <3>1 DEF Loaded, Copying
    <3>4. archive.report.ledger = runs
      BY <3>2 DEF EvaluationOf
    <3>5. /\ archive'.audits = archive.audits /\ archive'.replay = archive.replay
          /\ archive'.report = archive.report /\ archive'.runs = archive.runs
          /\ archive'.supplemental = archive.supplemental
      BY <3>1, <3>2
    <3>6. ArchiveIsClosed'
      <4>1. PICK files : files = archive
        OBVIOUS
      <4>2. /\ AllReproduced(files.replay)
            /\ \A j \in Jobs :
              \/ /\ runs[j] \in Successes
                 /\ \E k \in DOMAIN files.audits[<<"original", j>>] :
                      files.audits[<<"original", j>>][k].actual = runs[j]
              \/ /\ runs[j] \in Failures
                 /\ files.supplemental[j].of = runs[j]
                 /\ files.supplemental[j].execution \in Successes =>
                      \E k \in DOMAIN files.audits[<<"supplemental", j>>] :
                        files.audits[<<"supplemental", j>>][k].actual = files.supplemental[j].execution
        BY <1>t, <3>1, <3>2, <3>4, <4>1, VerifiedIsClosed
      <4> QED
        BY <2>u, <3>2, <3>4, <3>5, <4>1, <4>2 DEF ArchiveIsClosed, AllReproduced, Examined
    <3>7. Loaded' /\ Filled'
      BY <3>1 DEF Loaded, Filled, Copying
    <3> QED
      BY <2>u, <3>1, <3>3, <3>6, <3>7 DEF ArchiveInv, AllRecorded
  <2>5. CASE Abandon
    <3>1. bundler' = [pc |-> "idle"] /\ archive' = [verified |-> FALSE]
      BY <2>5 DEF Abandon, Closed, NoArchive
    <3> QED
      BY <3>1 DEF ArchiveInv, Loaded, Filled, Copying, ArchiveIsClosed
  <2> QED
    BY <1>2, <2>1, <2>2, <2>3, <2>4, <2>5 DEF BundleStep
<1> QED
  BY <1>1, <1>2 DEF Next

\* A verified archive is the closed study, for any number of searches, results,
\* executables, processes and starts (build_bundle, verify_archive).
THEOREM ArchiveStaysClosed == Spec => []ArchiveIsClosed
<1>1. PanelInv /\ ReplayInv /\ EvaluationInv /\ ArchiveInv /\ [Next]_vars => ArchiveInv'
  BY ArchiveNextInv
<1>2. Spec => []ArchiveInv
  BY <1>1, ReplayInvariant, EvaluationInvariant, ArchiveStarts, PTL DEF Spec
<1>3. ArchiveInv => ArchiveIsClosed
  BY DEF ArchiveInv
<1> QED
  BY <1>2, <1>3, PTL

=============================================================================
