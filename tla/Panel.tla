------------------------------- MODULE Panel -------------------------------
(***************************************************************************)
(* The recovery panel's worker directory (research/recovery/panel.py): an  *)
(* ordered list of planned searches, one record file per executed search,  *)
(* and a directory of supplemental attempts.  Processes of `run` and       *)
(* `retry-operational` fill them; they can be killed anywhere, and leave   *)
(* the file .running behind when they are.                                 *)
(*                                                                         *)
(* A record is its status and its scientific result; a digest of a record  *)
(* is the record itself, because records are compared for equality only.   *)
(* A result stands for the whole output, its number is the decoder score.  *)
(***************************************************************************)
EXTENDS Naturals

CONSTANTS
  Searches,     \* the planned searches are 1 .. Searches, in the order of jobs()
  Scores,       \* the scientific results a search can return
  FailureKinds, \* the operational failures that are told apart
  Workers,      \* the processes that run `run` or `retry-operational`
  MaxStarts,    \* bound: how often these processes are started in all
  NoOne         \* nobody holds the lock

ASSUME PanelAssumption ==
  /\ Searches \in Nat \ {0}
  /\ Scores \subseteq Nat
  /\ FailureKinds \subseteq {"timeout", "execution_error"}
  /\ "execution_error" \in FailureKinds
  /\ MaxStarts \in Nat
  /\ NoOne \notin Workers

VARIABLES
  runs,          \* runs[j]: the original record of search j, or Absent
  supplemental,  \* supplemental[j]: the separate attempt at j, or NoAttempt
  lock,          \* worker/.running: the process whose pid it holds, or NoOne
  worker,        \* worker[w]: what process w is doing
  starts         \* how many processes were started

panelVars == <<runs, supplemental, lock, worker, starts>>

-----------------------------------------------------------------------------
\* Records.

Jobs == 1 .. Searches

\* Only a complete record carries a result; elsewhere the field is 0.
Absent == [status |-> "absent", result |-> 0]
Failures == {[status |-> s, result |-> 0] : s \in FailureKinds}
Successes == {[status |-> "complete", result |-> r] : r \in Scores}
Records == Failures \cup Successes


\* A supplemental attempt names the original record it belongs to.
Attempts == [of : Failures, execution : Records]
NoAttempt == [of |-> Absent, execution |-> Absent]

Tools == {"run", "retry"}
Idle == [tool |-> "none", pc |-> "idle", at |-> 1, seen |-> Absent]

WorkerType ==
  [tool : Tools \cup {"none"}, pc : {"idle", "scan", "execute", "finish", "dead", "dead-staged"},
   at : 1 .. Searches + 1, seen : Failures \cup {Absent}]

PanelTypeOK ==
  /\ runs \in [Jobs -> Records \cup {Absent}]
  /\ supplemental \in [Jobs -> Attempts \cup {NoAttempt}]
  /\ lock \in Workers \cup {NoOne}
  /\ worker \in [Workers -> WorkerType]
  /\ starts \in 0 .. MaxStarts

PanelInit ==
  /\ runs = [j \in Jobs |-> Absent]
  /\ supplemental = [j \in Jobs |-> NoAttempt]
  /\ lock = NoOne
  /\ worker = [w \in Workers |-> Idle]
  /\ starts = 0

-----------------------------------------------------------------------------
\* One process.

\* w goes on at position `at`, having forgotten what it read there.
Goes(w, pc, at) ==
  worker' = [worker EXCEPT ![w] = [tool |-> worker[w].tool, pc |-> pc, at |-> at, seen |-> Absent]]

\* The lock file is created exclusively; a process that finds one ends at once.
\* The mutant opens the file for writing whether it exists or not.
AcquiredAnyway(w) == lock' = w
Acquired(w) ==
  /\ lock = NoOne
  /\ lock' = w

StartTool(w, tool) ==
  /\ worker[w] = Idle
  /\ starts < MaxStarts
  /\ Acquired(w)
  /\ worker' = [worker EXCEPT ![w] = [tool |-> tool, pc |-> "scan", at |-> 1, seen |-> Absent]]
  /\ starts' = starts + 1
  /\ UNCHANGED <<runs, supplemental>>

Scanning(w) == worker[w].pc = "scan" /\ worker[w].at \in Jobs

\* An attempt at search j that names another original record.
Foreign(j) ==
  /\ runs[j] \in Failures
  /\ supplemental[j] # NoAttempt
  /\ supplemental[j].of # runs[j]

\* run_panel executes what has no record, retry_panel what failed and has no
\* supplemental attempt yet.  The mutant retries whatever is recorded.
OpenRecorded(tool, j) ==
  \/ tool = "run" /\ runs[j] = Absent
  \/ tool = "retry" /\ runs[j] # Absent /\ supplemental[j] = NoAttempt
Open(tool, j) ==
  \/ tool = "run" /\ runs[j] = Absent
  \/ tool = "retry" /\ runs[j] \in Failures /\ supplemental[j] = NoAttempt

Skip(w) ==
  /\ Scanning(w)
  /\ ~ Open(worker[w].tool, worker[w].at)
  /\ worker[w].tool = "retry" => ~ Foreign(worker[w].at)
  /\ Goes(w, "scan", worker[w].at + 1)
  /\ UNCHANGED <<runs, supplemental, lock, starts>>

\* The check that nothing is recorded is far from the save: the search runs,
\* for minutes, in between.
Stage(w) ==
  /\ Scanning(w)
  /\ Open(worker[w].tool, worker[w].at)
  /\ worker' = [worker EXCEPT ![w] =
       [tool |-> worker[w].tool, pc |-> "execute", at |-> worker[w].at, seen |-> runs[worker[w].at]]]
  /\ UNCHANGED <<runs, supplemental, lock, starts>>

\* The native process ended or was stopped at its timeout, and the record is
\* renamed into place, over whatever is there.  --limit may stop the tool here.
Record(w, outcome) ==
  LET j == worker[w].at IN
  /\ worker[w].pc = "execute"
  /\ IF worker[w].tool = "run"
       THEN /\ runs' = [runs EXCEPT ![j] = outcome]
            /\ UNCHANGED supplemental
       ELSE /\ supplemental' = [supplemental EXCEPT ![j] = [of |-> worker[w].seen, execution |-> outcome]]
            /\ UNCHANGED runs
  /\ \/ Goes(w, "scan", j + 1)
     \/ Goes(w, "finish", j)
  /\ UNCHANGED <<lock, starts>>

\* An exception ends the tool and nothing is recorded: the search exits with 0 and
\* its output does not validate, an attempt names another original (such a search
\* is neither skipped nor staged), or the operator presses Ctrl-C.
Raise(w) ==
  /\ worker[w].pc \in {"scan", "execute"}
  /\ Goes(w, "finish", worker[w].at)
  /\ UNCHANGED <<runs, supplemental, lock, starts>>

\* The end of the loop and the finally clause: .running is unlinked.
End(w) ==
  /\ \/ worker[w].pc = "finish"
     \/ worker[w].pc = "scan" /\ worker[w].at = Searches + 1
  /\ lock' = NoOne
  /\ worker' = [worker EXCEPT ![w] = Idle]
  /\ UNCHANGED <<runs, supplemental, starts>>

\* The process dies without running its finally clause.
Kill(w) ==
  /\ worker[w].pc \in {"scan", "execute", "finish"}
  /\ worker' = [worker EXCEPT ![w].pc = IF worker[w].pc = "execute" THEN "dead-staged" ELSE "dead"]
  /\ UNCHANGED <<runs, supplemental, lock, starts>>

-----------------------------------------------------------------------------
\* The operator, who removes the lock of a process found dead.

Cleared(w) ==
  /\ lock = w
  /\ lock' = NoOne
  /\ worker' = [worker EXCEPT ![w] = Idle]
  /\ UNCHANGED <<supplemental, starts>>

ClearLock(w) ==
  /\ worker[w].pc \in {"dead", "dead-staged"}
  /\ Cleared(w)
  /\ UNCHANGED runs

\* The staged search of an interrupted runner is kept as an original failure.
RecordInterruption(w) ==
  LET j == worker[w].at IN
  /\ worker[w].pc = "dead-staged"
  /\ worker[w].tool = "run"
  /\ runs[j] = Absent
  /\ runs' = [runs EXCEPT ![j] = [status |-> "execution_error", result |-> 0]]
  /\ Cleared(w)

WorkerStep(w) ==
  \/ \E tool \in Tools : StartTool(w, tool)
  \/ Skip(w)
  \/ Stage(w)
  \/ \E outcome \in Records : Record(w, outcome)
  \/ Raise(w)
  \/ End(w)
  \/ Kill(w)
  \/ ClearLock(w)
  \/ RecordInterruption(w)

PanelNext == \E w \in Workers : WorkerStep(w)

PanelSpec == PanelInit /\ [][PanelNext]_panelVars

-----------------------------------------------------------------------------
\* Properties.

\* What was recorded stands: no restart, second process, retry or interruption
\* ever changes an original record or a supplemental attempt ("an existing
\* result is never overwritten", run_panel and retry_panel).
RecordsStand ==
  [][\A j \in Jobs :
       /\ runs[j] # Absent => runs'[j] = runs[j]
       /\ supplemental[j] # NoAttempt => supplemental'[j] = supplemental[j]]_panelVars

\* A supplemental attempt exists only beside an original operational failure,
\* and names exactly that record: it never supplements a success, nor an
\* original that was recorded later (retry_panel).
AttemptsBelong ==
  \A j \in Jobs : supplemental[j] # NoAttempt =>
    /\ runs[j] \in Failures
    /\ supplemental[j].of = runs[j]
=============================================================================
