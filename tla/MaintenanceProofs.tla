-------------------------- MODULE MaintenanceProofs --------------------------
(***************************************************************************)
(* Theorems about the execution guard and the evidence that opens leasing, *)
(* for any number of requests, checks, owners and deliveries.              *)
(*                                                                         *)
(* The guard rests on its rows: no running row stands beside an exclusive  *)
(* one (RowsExclude), and, as long as nobody clears live work, all work    *)
(* has its row in the right mode (GuardCoversWork, ModesFit).  Only an     *)
(* invocation id that several deliveries carry could give two processes    *)
(* one row; its row is never removed, so its second delivery is refused    *)
(* (NeverAgain, RunsOnce).  The evidence rests on the health row naming    *)
(* the newest recorded run (RowIsNewest).                                  *)
(***************************************************************************)
EXTENDS Maintenance, TLAPS

Scheduled == "scheduled-maintenance"

\* A process that counts on its row.
Holds(p) == pc[p] \in {"inside", "working", "ending", "preflight"}

RowsExclude ==
  \A i, j \in Ids : Running(i) /\ rows[i].mode = "exclusive" /\ Running(j) => i = j

\* A delivery goes on only when it was admitted.
WorkIsEntered == \A d \in Deliveries : pc[d] \notin {"idle", "done"} => d \in entered

\* The row of an admitted delivery stays.
NeverAgain == \A d \in entered : rows[RunOf[d]].state # "none"

ModesFit ==
  ~hasty => \A p \in Inside \cap Exclusive : rows[IdOf(p)].mode = "exclusive"

GuardInv ==
  /\ TypeOK /\ RowsExclude /\ WorkIsEntered /\ NeverAgain /\ RunsOnce
  /\ GuardCoversWork /\ ModesFit

-----------------------------------------------------------------------------
(* Processes and their ids                                                 *)

LEMMA IdsAreIds == \A p \in Procs : IdOf(p) \in Ids
BY DEF Ids

\* Two processes share an id only when both are deliveries.
LEMMA SharedIds ==
  ASSUME NEW p \in Procs, NEW q \in Procs, IdOf(p) = IdOf(q), p # q
  PROVE  p \in Deliveries /\ q \in Deliveries /\ RunOf[p] = RunOf[q]
<1>1. CASE p \in Deliveries /\ q \in Deliveries
  BY <1>1 DEF IdOf
<1>2. CASE p \in Deliveries /\ q \notin Deliveries
  BY <1>2, MaintenanceConstantsOK DEF IdOf, Procs
<1>3. CASE p \notin Deliveries /\ q \in Deliveries
  BY <1>3, MaintenanceConstantsOK DEF IdOf, Procs
<1>4. CASE p \notin Deliveries /\ q \notin Deliveries
  BY <1>4 DEF IdOf
<1> QED
  BY <1>1, <1>2, <1>3, <1>4

\* Of the processes that are somewhere between beginning and end, no two share an id.
LEMMA OneEach ==
  ASSUME GuardInv, NEW p \in Procs, NEW q \in Procs, IdOf(p) = IdOf(q),
         pc[p] \notin {"idle", "done"}, pc[q] \notin {"idle", "done"}
  PROVE  p = q
<1> SUFFICES ASSUME p # q PROVE FALSE
  OBVIOUS
<1>1. p \in Deliveries /\ q \in Deliveries /\ RunOf[p] = RunOf[q]
  BY SharedIds
<1>2. p \in entered /\ q \in entered
  BY <1>1 DEF GuardInv, WorkIsEntered
<1> QED
  BY <1>1, <1>2 DEF GuardInv, RunsOnce

HealthTable == [Names -> [run: Ids \cup {Nobody}, fresh: BOOLEAN, error: BOOLEAN]]

\* The end of a run leaves a well-formed table, and at most the named row ended.
LEMMA EndedKeepsTable ==
  ASSUME NEW table \in HealthTable, NEW n \in Names, NEW i, NEW ok \in BOOLEAN
  PROVE  Ended(table, n, i, ok) \in HealthTable
BY DEF Ended, HealthTable

LEMMA CoversHolds ==
  GuardCoversWork <=> (~hasty => \A p \in Procs : Holds(p) => Running(IdOf(p)))
BY DEF GuardCoversWork, Holds, Inside

-----------------------------------------------------------------------------
(* The three ways in which a step touches the guard                        *)

\* A process enters, or is refused and done.
LEMMA EnterKeeps ==
  ASSUME GuardInv, NEW p \in Procs, pc[p] \in {"idle", "spawned", "between"},
         p \in Deliveries => pc[p] = "idle",
         NEW mode \in {"shared", "exclusive"}, NEW place \in {"inside", "preflight"},
         p \in Exclusive /\ place = "inside" => mode = "exclusive",
         Enter(p, mode, place), UNCHANGED <<health, part, hasty, begun, outcome>>
  PROVE  GuardInv'
<1>t. TypeOK /\ IdOf(p) \in Ids
  BY IdsAreIds DEF GuardInv
<1>1. CASE ~Admits(p, mode)
  <2>1. pc' = [pc EXCEPT ![p] = "done"] /\ UNCHANGED <<rows, entered>>
    BY <1>1 DEF Enter
  <2>2. TypeOK'
    BY <2>1, <1>t DEF TypeOK
  <2>3. \A q \in Procs : pc'[q] = pc[q] \/ pc'[q] = "done"
    BY <2>1, <1>t DEF TypeOK
  <2>4. RowsExclude' /\ NeverAgain' /\ RunsOnce'
    BY <2>1 DEF GuardInv, RowsExclude, Running, NeverAgain, RunsOnce
  <2>5. WorkIsEntered'
    BY <2>1, <2>3 DEF GuardInv, WorkIsEntered, Procs
  <2>6. GuardCoversWork' /\ ModesFit'
    BY <2>1, <2>3 DEF GuardInv, GuardCoversWork, ModesFit, Inside, Running
  <2> QED
    BY <2>2, <2>4, <2>5, <2>6 DEF GuardInv
<1>2. CASE Admits(p, mode)
  <2> DEFINE row == [state |-> "running", mode |-> mode]
  <2>1. /\ rows' = [rows EXCEPT ![IdOf(p)] = row]
        /\ pc' = [pc EXCEPT ![p] = place]
        /\ entered' = entered \cup ({p} \cap Deliveries)
    BY <1>2 DEF Enter
  <2>2. Free(mode) /\ rows[IdOf(p)].state = "none"
    BY <1>2 DEF Admits
  <2>3. /\ rows'[IdOf(p)] = row
        /\ \A i \in Ids : i # IdOf(p) => rows'[i] = rows[i]
        /\ pc'[p] = place
        /\ \A q \in Procs : q # p => pc'[q] = pc[q]
    BY <2>1, <1>t DEF TypeOK
  <2>4. TypeOK'
    <3>1. rows' \in [Ids -> [state: {"none", "running", "succeeded", "failed"},
                             mode: {"shared", "exclusive"}]]
      BY <2>1, <1>t DEF TypeOK
    <3> QED
      BY <2>1, <1>t, <3>1 DEF TypeOK
  <2>5. RowsExclude'
    BY <2>2, <2>3 DEF GuardInv, RowsExclude, Running, Free
  <2>6. WorkIsEntered'
    BY <2>1, <2>3 DEF GuardInv, WorkIsEntered, Procs
  <2>7. NeverAgain'
    <3> SUFFICES ASSUME NEW d \in entered' PROVE rows'[RunOf[d]].state # "none"
      BY DEF NeverAgain
    <3>1. d \in Deliveries /\ RunOf[d] = IdOf(d) /\ d \in Procs
      BY <2>1, <1>t DEF TypeOK, IdOf, Procs
    <3>2. RunOf[d] \in Ids
      BY <3>1, IdsAreIds
    <3>3. CASE RunOf[d] = IdOf(p)
      BY <3>3, <2>3
    <3>4. CASE RunOf[d] # IdOf(p)
      BY <3>1, <3>2, <3>4, <2>1, <2>3 DEF GuardInv, NeverAgain
    <3> QED
      BY <3>3, <3>4
  <2>8. RunsOnce'
    <3>1. ASSUME NEW d \in entered, p \in Deliveries PROVE RunOf[d] # RunOf[p]
      BY <3>1, <2>2 DEF GuardInv, NeverAgain, IdOf
    <3> QED
      BY <2>1, <3>1 DEF GuardInv, RunsOnce
  <2>9. ASSUME ~hasty, NEW q \in Procs, q # p, Holds(q) PROVE IdOf(q) # IdOf(p)
    BY <2>9, <2>2, CoversHolds DEF GuardInv, Running
  <2>10. GuardCoversWork'
    <3> SUFFICES ASSUME ~hasty, NEW q \in Procs, q \in Inside' \/ pc'[q] = "preflight"
                 PROVE  rows'[IdOf(q)].state = "running"
      BY DEF GuardCoversWork, Running
    <3>1. CASE q = p
      BY <3>1, <2>3
    <3>2. CASE q # p
      <4>1. Holds(q)
        BY <3>2, <2>3 DEF Holds, Inside
      <4> QED
        BY <4>1, <3>2, <2>3, <2>9, CoversHolds, IdsAreIds DEF GuardInv, Running
    <3> QED
      BY <3>1, <3>2
  <2>11. ModesFit'
    <3> SUFFICES ASSUME ~hasty, NEW q \in (Inside \cap Exclusive)'
                 PROVE  rows'[IdOf(q)].mode = "exclusive"
      BY DEF ModesFit
    <3>q. q \in Procs /\ q \in Exclusive
      BY DEF Inside, Exclusive
    <3>1. CASE q = p
      <4>1. place = "inside"
        BY <3>1, <2>3 DEF Inside
      <4> QED
        BY <3>1, <3>q, <4>1, <2>3
    <3>2. CASE q # p
      <4>1. q \in Inside \cap Exclusive /\ Holds(q)
        BY <3>2, <3>q, <2>3 DEF Holds, Inside
      <4> QED
        BY <4>1, <3>2, <3>q, <2>3, <2>9, IdsAreIds DEF GuardInv, ModesFit
    <3> QED
      BY <3>1, <3>2
  <2> QED
    BY <2>4, <2>5, <2>6, <2>7, <2>8, <2>10, <2>11 DEF GuardInv
<1> QED
  BY <1>1, <1>2

\* A row is ended by a process that leaves, or by the operator for one that died or,
\* when the operator is hasty, for any.
LEMMA LeaveKeeps ==
  ASSUME GuardInv, NEW p \in Procs, pc[p] \notin {"idle", "done"},
         NEW place \in {"between", "done"} \cup {pc[p]},
         place = "between" => p \notin Deliveries,
         hasty \/ place \in {"between", "done", "dead"},
         NEW state \in {"none", "succeeded", "failed"},
         p \in Deliveries => state # "none",
         rows' = [rows EXCEPT ![IdOf(p)].state = state],
         pc' = [pc EXCEPT ![p] = place],
         UNCHANGED <<health, part, hasty, hist>>
  PROVE  GuardInv'
<1>t. TypeOK /\ IdOf(p) \in Ids
  BY IdsAreIds DEF GuardInv
<1>1. /\ rows'[IdOf(p)].state = state
      /\ \A i \in Ids : rows'[i].mode = rows[i].mode /\ (i # IdOf(p) => rows'[i] = rows[i])
      /\ pc'[p] = place
      /\ \A q \in Procs : q # p => pc'[q] = pc[q]
  BY <1>t DEF TypeOK
<1>2. TypeOK'
  <2>1. rows' \in [Ids -> [state: {"none", "running", "succeeded", "failed"},
                           mode: {"shared", "exclusive"}]]
    BY <1>t, ZenonT(60) DEF TypeOK
  <2>2. pc' \in [Procs -> {"idle", "spawned", "preflight", "between", "inside",
                           "working", "ending", "done", "dead"}]
    BY <1>t DEF TypeOK
  <2> QED
    BY <1>t, <2>1, <2>2 DEF TypeOK, hist
<1>3. RowsExclude'
  BY <1>1 DEF GuardInv, RowsExclude, Running
<1>4. WorkIsEntered'
  BY <1>1 DEF GuardInv, WorkIsEntered, Procs, hist
<1>5. NeverAgain'
  <2> SUFFICES ASSUME NEW d \in entered PROVE rows'[RunOf[d]].state # "none"
    BY DEF NeverAgain, hist
  <2>1. d \in Deliveries /\ RunOf[d] = IdOf(d) /\ d \in Procs
    BY <1>t DEF TypeOK, IdOf, Procs
  <2>2. RunOf[d] \in Ids
    BY <2>1, IdsAreIds
  <2>3. CASE RunOf[d] = IdOf(p)
    <3>1. p \in Deliveries
      BY <2>1, <2>3, SharedIds
    <3> QED
      BY <3>1, <2>3, <1>1
  <2>4. CASE RunOf[d] # IdOf(p)
    BY <2>2, <2>4, <1>1 DEF GuardInv, NeverAgain
  <2> QED
    BY <2>3, <2>4
<1>6. RunsOnce'
  BY DEF GuardInv, RunsOnce, hist
<1>7. ASSUME ~hasty, NEW q \in Procs, (Holds(q))' PROVE q # p /\ Holds(q) /\ IdOf(q) # IdOf(p)
  <2>1. q # p /\ Holds(q)
    BY <1>7, <1>1 DEF Holds
  <2> QED
    BY <2>1, OneEach DEF Holds
<1>8. GuardCoversWork'
  <2> SUFFICES ASSUME ~hasty, NEW q \in Procs, q \in Inside' \/ pc'[q] = "preflight"
               PROVE  rows'[IdOf(q)].state = "running"
    BY DEF GuardCoversWork, Running
  <2>1. (Holds(q))'
    BY DEF Holds, Inside
  <2> QED
    BY <2>1, <1>1, <1>7, CoversHolds, IdsAreIds DEF GuardInv, Running
<1>9. ModesFit'
  <2> SUFFICES ASSUME ~hasty, NEW q \in (Inside \cap Exclusive)'
               PROVE  rows'[IdOf(q)].mode = "exclusive"
    BY DEF ModesFit
  <2>1. q \in Procs /\ q \in Exclusive /\ (Holds(q))'
    BY DEF Inside, Exclusive, Holds
  <2>2. q \in Inside
    BY <2>1, <1>1, <1>7 DEF Inside
  <2> QED
    BY <2>1, <2>2, <1>1, IdsAreIds DEF GuardInv, ModesFit
<1> QED
  BY <1>2, <1>3, <1>4, <1>5, <1>6, <1>8, <1>9 DEF GuardInv

\* A process goes on inside its guard, dies, or is spawned.
LEMMA MoveKeeps ==
  ASSUME GuardInv, NEW p \in Procs, NEW place \in {"spawned", "working", "ending", "dead"},
         place = "spawned" => p \notin Deliveries,
         place \in {"working", "ending"} => p \in Inside,
         place = "dead" => Holds(p),
         pc' = [pc EXCEPT ![p] = place],
         TypeOK', UNCHANGED <<rows, hasty, entered>>
  PROVE  GuardInv'
<1>1. /\ pc'[p] = place
      /\ \A q \in Procs : q # p => pc'[q] = pc[q]
  BY DEF GuardInv, TypeOK
<1>2. RowsExclude' /\ NeverAgain' /\ RunsOnce'
  BY DEF GuardInv, RowsExclude, Running, NeverAgain, RunsOnce
<1>3. WorkIsEntered'
  BY <1>1 DEF GuardInv, WorkIsEntered, Inside, Holds, Procs
<1>4. GuardCoversWork' /\ ModesFit'
  BY <1>1 DEF GuardInv, GuardCoversWork, ModesFit, Inside, Running
<1> QED
  BY <1>2, <1>3, <1>4 DEF GuardInv

\* A step that leaves the guard alone.
LEMMA RestKeeps ==
  ASSUME GuardInv, TypeOK', UNCHANGED <<rows, pc, hasty, entered>>
  PROVE  GuardInv'
BY DEF GuardInv, RowsExclude, WorkIsEntered, NeverAgain, RunsOnce, GuardCoversWork,
       ModesFit, Running, Inside

-----------------------------------------------------------------------------
(* Every step keeps the guard                                              *)

LEMMA GuardInit == Init => GuardInv
<1> SUFFICES ASSUME Init PROVE GuardInv
  OBVIOUS
<1>1. TypeOK
  BY DEF Init, TypeOK, Forgotten
<1>2. \A i \in Ids : ~Running(i)
  BY DEF Init, Running
<1>3. \A p \in Procs : pc[p] = "idle"
  BY DEF Init
<1>4. RowsExclude /\ NeverAgain /\ RunsOnce
  BY <1>2 DEF Init, RowsExclude, NeverAgain, RunsOnce
<1>5. WorkIsEntered
  BY <1>3 DEF WorkIsEntered, Procs
<1>6. GuardCoversWork /\ ModesFit
  BY <1>3 DEF GuardCoversWork, ModesFit, Inside
<1> QED
  BY <1>1, <1>4, <1>5, <1>6 DEF GuardInv

LEMMA GuardStep == GuardInv /\ [Next]_vars => GuardInv'
<1> SUFFICES ASSUME GuardInv, [Next]_vars PROVE GuardInv'
  OBVIOUS
<1>t. TypeOK
  BY DEF GuardInv
<1>0. CASE UNCHANGED vars
  BY <1>0, <1>t, RestKeeps DEF vars, hist, TypeOK
<1>n. CASE Next
  <2>h. hasty' = hasty /\ Step
    BY <1>n DEF Next
  <2>1. ASSUME NEW p \in Requests, RequestEnters(p) PROVE GuardInv'
    BY <2>1, <2>h, EnterKeeps, MaintenanceConstantsOK DEF RequestEnters, Procs, Exclusive
  <2>2. ASSUME NEW p \in Requests, NEW c \in Checks, RequestSpawns(p, c) PROVE GuardInv'
    <3>1. c \in Procs /\ c \notin Deliveries
      BY MaintenanceConstantsOK DEF Procs
    <3>2. TypeOK'
      BY <2>2, <2>h, <1>t DEF RequestSpawns, TypeOK, hist
    <3> QED
      BY <2>2, <2>h, <3>1, <3>2, MoveKeeps DEF RequestSpawns, hist
  <2>3. ASSUME NEW c \in Checks, CheckEnters(c) PROVE GuardInv'
    BY <2>3, <2>h, EnterKeeps, MaintenanceConstantsOK DEF CheckEnters, Procs, Exclusive
  <2>4. ASSUME NEW o \in Owners, OwnerPreflight(o) PROVE GuardInv'
    BY <2>4, <2>h, EnterKeeps, MaintenanceConstantsOK DEF OwnerPreflight, Procs
  <2>5. ASSUME NEW o \in Owners, OwnerAuthenticated(o) PROVE GuardInv'
    <3>1. o \in Procs /\ o \notin Deliveries /\ IdOf(o) = o
      BY MaintenanceConstantsOK DEF Procs, IdOf
    <3>2. PICK place \in {"between", "done"} : pc' = [pc EXCEPT ![o] = place]
      BY <2>5 DEF OwnerAuthenticated
    <3> QED
      BY <2>5, <2>h, <3>1, <3>2, LeaveKeeps DEF OwnerAuthenticated, Removed
  <2>6. ASSUME NEW o \in Owners, OwnerEnters(o) PROVE GuardInv'
    BY <2>6, <2>h, EnterKeeps, MaintenanceConstantsOK DEF OwnerEnters, Procs
  <2>7. ASSUME NEW o \in Owners, OwnerWorks(o) \/ OwnerRestores(o) PROVE GuardInv'
    <3>1. o \in Procs /\ o \in Inside /\ pc' = [pc EXCEPT ![o] = "ending"]
      BY <2>7 DEF OwnerWorks, OwnerRestores, Procs, Inside
    <3>2. TypeOK'
      <4>1. CASE OwnerWorks(o)
        BY <4>1, <2>h, <1>t DEF OwnerWorks, TypeOK, hist
      <4>2. CASE OwnerRestores(o)
        <5>1. health' \in HealthTable
          BY <4>2 DEF OwnerRestores, Forgotten, HealthTable
        <5>2. begun' \in Seq(Deliveries)
          BY <4>2 DEF OwnerRestores
        <5> QED
          BY <4>2, <5>1, <5>2, <2>h, <1>t DEF OwnerRestores, TypeOK, HealthTable
      <4> QED
        BY <2>7, <4>1, <4>2
    <3> QED
      BY <2>7, <2>h, <3>1, <3>2, MoveKeeps DEF OwnerWorks, OwnerRestores, hist
  <2>8. ASSUME NEW d \in Deliveries, ScheduleFires(d) PROVE GuardInv'
    BY <2>8, <2>h, EnterKeeps DEF ScheduleFires, Procs
  <2>9. ASSUME NEW d \in Deliveries, RecordStart(d) PROVE GuardInv'
    <3>1. d \in Procs /\ d \in Inside /\ pc' = [pc EXCEPT ![d] = "working"]
      BY <2>9 DEF RecordStart, Procs, Inside
    <3>2. TypeOK'
      <4>1. NameOf(d) \in Names /\ IdOf(d) \in Ids
        BY <3>1, IdsAreIds DEF NameOf, Names
      <4>2. health' \in [Names -> [run: Ids \cup {Nobody}, fresh: BOOLEAN, error: BOOLEAN]]
        BY <2>9, <4>1, <1>t DEF RecordStart, Started, TypeOK
      <4>3. begun' \in Seq(Deliveries)
        BY <2>9, <1>t DEF RecordStart, TypeOK
      <4> QED
        BY <2>9, <2>h, <3>1, <4>2, <4>3, <1>t DEF RecordStart, TypeOK
    <3> QED
      BY <2>9, <2>h, <3>1, <3>2, MoveKeeps DEF RecordStart
  <2>10. ASSUME NEW d \in Deliveries, RecordEnd(d) PROVE GuardInv'
    <3>1. d \in Procs /\ d \in Inside /\ pc' = [pc EXCEPT ![d] = "ending"]
      BY <2>10 DEF RecordEnd, Procs, Inside
    <3>2. TypeOK'
      <4>1. NameOf(d) \in Names
        BY DEF NameOf, Names
      <4>2. health' \in HealthTable
        BY <2>10, <4>1, <1>t, EndedKeepsTable DEF RecordEnd, TypeOK, HealthTable
      <4> QED
        BY <2>10, <2>h, <3>1, <4>2, <1>t DEF RecordEnd, TypeOK, HealthTable
    <3> QED
      BY <2>10, <2>h, <3>1, <3>2, MoveKeeps DEF RecordEnd
  <2>11. ASSUME NEW d \in Deliveries, NEW s \in Parts, NEW ok \in BOOLEAN, PartSettles(d, s, ok)
         PROVE  GuardInv'
    <3>1. TypeOK'
      BY <2>11, <2>h, <1>t DEF PartSettles, TypeOK, hist
    <3> QED
      BY <2>11, <2>h, <3>1, RestKeeps DEF PartSettles, hist
  <2>12. ASSUME NEW p \in Procs, Finish(p) PROVE GuardInv'
    <3>1. pc[p] \in {"inside", "ending"} /\ pc' = [pc EXCEPT ![p] = "done"]
      BY <2>12 DEF Finish
    <3>2. CASE p \notin Deliveries
      <4>1. rows' = [rows EXCEPT ![IdOf(p)].state = "none"]
        BY <2>12, <3>2 DEF Finish, Closed, Removed, IdOf
      <4> QED
        BY <2>12, <2>h, <3>1, <3>2, <4>1, LeaveKeeps DEF Finish
    <3>3. CASE p \in Deliveries /\ Running(IdOf(p))
      <4>1. PICK state \in {"failed", "succeeded"} : rows' = [rows EXCEPT ![IdOf(p)].state = state]
        BY <2>12, <3>3 DEF Finish, Closed
      <4> QED
        BY <2>12, <2>h, <3>1, <3>3, <4>1, LeaveKeeps DEF Finish
    <3>4. CASE p \in Deliveries /\ ~Running(IdOf(p))
      <4>1. rows' = [rows EXCEPT ![IdOf(p)].state = rows[IdOf(p)].state]
        BY <2>12, <3>4, <1>t, IdsAreIds DEF Finish, Closed, TypeOK
      <4>2. p \in entered /\ rows[IdOf(p)].state \in {"succeeded", "failed"}
        <5>1. p \in entered
          BY <3>1, <3>4 DEF GuardInv, WorkIsEntered
        <5>2. rows[IdOf(p)].state \in {"none", "running", "succeeded", "failed"}
          BY <1>t, IdsAreIds DEF TypeOK
        <5> QED
          BY <5>1, <5>2, <3>4 DEF GuardInv, NeverAgain, IdOf, Running
      <4> QED
        BY <2>12, <2>h, <3>1, <3>4, <4>1, <4>2, LeaveKeeps DEF Finish
    <3> QED
      BY <3>2, <3>3, <3>4
  <2>13. ASSUME NEW p \in Procs, Dies(p) PROVE GuardInv'
    <3>1. Holds(p) /\ pc' = [pc EXCEPT ![p] = "dead"]
      BY <2>13 DEF Dies, Holds, Inside
    <3>2. TypeOK'
      BY <2>13, <2>h, <1>t DEF Dies, TypeOK, hist
    <3> QED
      BY <2>13, <2>h, <3>1, <3>2, MoveKeeps DEF Dies, hist
  <2>14. ASSUME NEW p \in Procs, OperatorClears(p) PROVE GuardInv'
    <3>1. /\ pc[p] = "dead" \/ (hasty /\ pc[p] \in {"inside", "working", "ending"})
          /\ rows' = [rows EXCEPT ![IdOf(p)].state = "failed"]
          /\ pc' = [pc EXCEPT ![p] = pc[p]]
      BY <2>14, <1>t DEF OperatorClears, Inside, TypeOK
    <3> QED
      BY <2>14, <2>h, <3>1, LeaveKeeps DEF OperatorClears
  <2>15. ASSUME SuccessAges PROVE GuardInv'
    <3>1. TypeOK'
      BY <2>15, <2>h, <1>t DEF SuccessAges, TypeOK, hist, Names
    <3> QED
      BY <2>15, <2>h, <3>1, RestKeeps DEF SuccessAges, hist
  <2> QED
    BY <2>h, <2>1, <2>2, <2>3, <2>4, <2>5, <2>6, <2>7, <2>8, <2>9, <2>10, <2>11, <2>12,
       <2>13, <2>14, <2>15 DEF Step
<1> QED
  BY <1>0, <1>n

\* The invariant of the guard: rows exclude each other, work has its row, and the id of
\* an admitted delivery is never free again.
THEOREM GuardInvariant == Spec => []GuardInv
BY GuardInit, GuardStep, PTL DEF Spec

\* Rows, health, processes and histories are always well-formed.
THEOREM MaintenanceTypeCorrect == Spec => []TypeOK
<1>1. GuardInv => TypeOK
  BY DEF GuardInv
<1> QED
  BY <1>1, GuardInvariant, PTL

\* Unless live work is cleared, owner mutations, restores and maintenance runs overlap
\* nothing, whatever dies and however often the schedule delivers.
THEOREM ExclusiveAlone == Spec => []ExclusiveRunsAlone
<1>1. GuardInv => ExclusiveRunsAlone
  <2> SUFFICES ASSUME GuardInv, ~hasty, NEW p \in Inside \cap Exclusive,
                      NEW q \in Inside \cup {o \in Owners : pc[o] = "preflight"}
               PROVE  p = q
    BY DEF ExclusiveRunsAlone
  <2>1. p \in Procs /\ q \in Procs
    BY DEF Inside, Procs
  <2>2. Running(IdOf(p)) /\ Running(IdOf(q))
    BY <2>1 DEF GuardInv, GuardCoversWork
  <2>3. IdOf(p) = IdOf(q)
    BY <2>1, <2>2, IdsAreIds DEF GuardInv, RowsExclude, ModesFit
  <2> QED
    BY <2>1, <2>3, OneEach DEF Inside
<1> QED
  BY <1>1, GuardInvariant, PTL

\* Unless it is cleared by hand, work never goes on without its row.
THEOREM WorkCovered == Spec => []GuardCoversWork
<1>1. GuardInv => GuardCoversWork
  BY DEF GuardInv
<1> QED
  BY <1>1, GuardInvariant, PTL

\* An invocation id is admitted at most once, also under a hasty operator.
THEOREM InvocationsRunOnce == Spec => []RunsOnce
<1>1. GuardInv => RunsOnce
  BY DEF GuardInv
<1> QED
  BY <1>1, GuardInvariant, PTL

-----------------------------------------------------------------------------
(* The evidence that opens leasing                                         *)

\* The steps that write the evidence, apart from restores: the others leave it alone.
LEMMA EvidenceSteps ==
  ASSUME [Next]_vars
  PROVE  \/ \E o \in Owners : OwnerRestores(o)
         \/ \E d \in Deliveries : RecordStart(d) \/ RecordEnd(d)
         \/ SuccessAges
         \/ UNCHANGED <<health, begun, outcome>>
BY DEF Next, Step, vars, hist, RequestEnters, RequestSpawns, CheckEnters, OwnerPreflight,
       OwnerAuthenticated, OwnerEnters, OwnerWorks, ScheduleFires, PartSettles, Finish, Dies,
       OperatorClears

\* What a table says after a run has started or ended.
LEMMA StartedRow ==
  ASSUME NEW table \in HealthTable, NEW n \in Names, NEW m \in Names, NEW i
  PROVE  /\ Started(table, n, i)[m].fresh = table[m].fresh
         /\ Started(table, n, i)[m].error = table[m].error
         /\ Started(table, n, i)[m].run = IF m = n THEN i ELSE table[m].run
BY DEF Started, HealthTable

LEMMA EndedRow ==
  ASSUME NEW table \in HealthTable, NEW n \in Names, NEW m \in Names, NEW i, NEW ok \in BOOLEAN
  PROVE  LET after == Ended(table, n, i, ok)[m] IN
         /\ after.run = table[m].run
         /\ m # n \/ table[n].run # i => after = table[m]
         /\ m = n /\ table[n].run = i =>
               /\ after.error = ~ok
               /\ after.fresh = (ok \/ table[m].fresh)
BY DEF Ended, HealthTable

LEMMA ScheduledIsName == Scheduled \in Names /\ \A d : NameOf(d) \in Names
BY DEF Scheduled, Names, NameOf

LEMMA OpeningStep ==
  ASSUME TypeOK, [Next]_vars, ~Healthy, Healthy'
  PROVE  \E d \in Deliveries \ Rehearsals :
            /\ pc[d] = "working" /\ pc'[d] = "ending"
            /\ \A s \in Parts : part[d][s] = "ok"
<1>t. health \in HealthTable
  BY DEF TypeOK, HealthTable
<1>1. ASSUME NEW o \in Owners, OwnerRestores(o) PROVE FALSE
  BY <1>1, ScheduledIsName DEF OwnerRestores, Forgotten, Healthy, Scheduled
<1>2. ASSUME NEW d \in Deliveries, RecordStart(d) PROVE FALSE
  BY <1>2, <1>t, StartedRow, ScheduledIsName DEF RecordStart, Healthy, Scheduled
<1>3. ASSUME SuccessAges PROVE FALSE
  BY <1>3, <1>t DEF SuccessAges, Healthy, HealthTable, Names
<1>4. ASSUME UNCHANGED <<health, begun, outcome>> PROVE FALSE
  BY <1>4 DEF Healthy
<1>5. ASSUME NEW d \in Deliveries, RecordEnd(d)
      PROVE  /\ d \notin Rehearsals
             /\ pc[d] = "working" /\ pc'[d] = "ending"
             /\ \A s \in Parts : part[d][s] = "ok"
  <2> DEFINE ok == \A s \in Parts : part[d][s] = "ok"
             after == Ended(health, NameOf(d), IdOf(d), ok)[Scheduled]
  <2>1. health' = Ended(health, NameOf(d), IdOf(d), ok) /\ ok \in BOOLEAN
    BY <1>5 DEF RecordEnd
  <2>2. after.fresh /\ ~after.error /\ ~(health[Scheduled].fresh /\ ~health[Scheduled].error)
    BY <2>1 DEF Healthy, Scheduled
  <2>3. NameOf(d) = Scheduled /\ after.error = ~ok
    <3> HIDE DEF ok
    <3> QED
      BY <2>1, <2>2, <1>t, EndedRow, ScheduledIsName
  <2>4. d \notin Rehearsals
    BY <2>3 DEF NameOf, Scheduled
  <2>5. pc[d] = "working" /\ pc'[d] = "ending"
    BY <1>5 DEF RecordEnd, TypeOK, Procs
  <2> QED
    BY <2>2, <2>3, <2>4, <2>5
<1> QED
  BY <1>1, <1>2, <1>3, <1>4, <1>5, EvidenceSteps

\* Leasing opens only by the end of a scheduled run both of whose siblings succeeded.
THEOREM OpeningCorrect == Spec => OpeningNeedsSuccess
<1>1. TypeOK /\ [Next]_vars =>
        [~Healthy /\ Healthy' =>
            \E d \in Deliveries \ Rehearsals :
              /\ pc[d] = "working" /\ pc'[d] = "ending"
              /\ \A s \in Parts : part[d][s] = "ok"]_vars
  BY OpeningStep
<1> QED
  BY <1>1, MaintenanceTypeCorrect, PTL DEF Spec, OpeningNeedsSuccess

\* The health row names the newest recorded scheduled run; without one there is no success.
RowIsNewest ==
  IF begun = <<>>
  THEN health[Scheduled].run = Nobody /\ ~health[Scheduled].fresh
  ELSE /\ Last(begun) \in entered /\ Last(begun) \notin Rehearsals
       /\ health[Scheduled].run = RunOf[Last(begun)]

Ends == {"ending", "done", "dead"}
OutcomesAreLate == \A d \in Deliveries : outcome[d] # "none" => pc[d] \in Ends

EvidenceInv == RowIsNewest /\ OutcomesAreLate /\ LateSuccessHidesNothing

\* A delivery that has ended stays so.
LEMMA EndsStay ==
  ASSUME TypeOK, [Next]_vars, NEW d \in Deliveries, pc[d] \in Ends
  PROVE  pc'[d] \in Ends
<1>1. d \in Procs /\ d \notin Owners /\ d \notin Requests /\ d \notin Checks
  BY MaintenanceConstantsOK DEF Procs
<1>2. pc \in [Procs -> {"idle", "spawned", "preflight", "between", "inside",
                      "working", "ending", "done", "dead"}]
  BY DEF TypeOK
<1>3. ASSUME NEW p \in Procs, NEW place, pc' = [pc EXCEPT ![p] = place], p # d \/ place \in Ends
      PROVE  pc'[d] \in Ends
  BY <1>1, <1>2, <1>3
<1>4. ASSUME NEW p \in Procs, NEW mode, NEW place, Enter(p, mode, place), p # d PROVE pc'[d] \in Ends
  BY <1>1, <1>2, <1>4 DEF Enter
<1>5. CASE UNCHANGED pc
  BY <1>5
<1>6. ASSUME NEW p \in Requests, RequestEnters(p) PROVE pc'[d] \in Ends
  BY <1>6, <1>1, <1>4 DEF RequestEnters, Procs
<1>7. ASSUME NEW p \in Requests, NEW c \in Checks, RequestSpawns(p, c) PROVE pc'[d] \in Ends
  BY <1>7, <1>1, <1>3 DEF RequestSpawns, Procs
<1>8. ASSUME NEW c \in Checks, CheckEnters(c) PROVE pc'[d] \in Ends
  BY <1>8, <1>1, <1>4 DEF CheckEnters, Procs
<1>9. ASSUME NEW o \in Owners, OwnerPreflight(o) \/ OwnerEnters(o) PROVE pc'[d] \in Ends
  BY <1>9, <1>1, <1>4 DEF OwnerPreflight, OwnerEnters, Procs
<1>10. ASSUME NEW o \in Owners, OwnerAuthenticated(o) \/ OwnerWorks(o) \/ OwnerRestores(o)
       PROVE  pc'[d] \in Ends
  BY <1>10, <1>1, <1>3 DEF OwnerAuthenticated, OwnerWorks, OwnerRestores, Procs
<1>11. ASSUME NEW e \in Deliveries, ScheduleFires(e) PROVE pc'[d] \in Ends
  <2>1. e # d
    BY <1>11 DEF ScheduleFires, Ends
  <2> QED
    BY <1>11, <2>1, <1>4 DEF ScheduleFires, Procs
<1>12. ASSUME NEW e \in Deliveries, RecordStart(e) \/ RecordEnd(e) PROVE pc'[d] \in Ends
  <2>1. e # d
    BY <1>12 DEF RecordStart, RecordEnd, Ends
  <2> QED
    BY <1>12, <2>1, <1>3 DEF RecordStart, RecordEnd, Procs
<1>13. ASSUME NEW p \in Procs, Finish(p) \/ Dies(p) PROVE pc'[d] \in Ends
  BY <1>13, <1>3 DEF Finish, Dies, Ends
<1> QED
  BY <1>5, <1>6, <1>7, <1>8, <1>9, <1>10, <1>11, <1>12, <1>13
     DEF Next, Step, vars, PartSettles, OperatorClears, SuccessAges

LEMMA EvidenceStep ==
  ASSUME GuardInv, EvidenceInv, [Next]_vars
  PROVE  EvidenceInv'
<1>t. TypeOK /\ health \in HealthTable
  BY DEF GuardInv, TypeOK, HealthTable
<1>e. entered \subseteq entered'
  BY DEF Next, Step, vars, hist, Enter, RequestEnters, RequestSpawns, CheckEnters,
     OwnerPreflight, OwnerAuthenticated, OwnerEnters, OwnerWorks, OwnerRestores, ScheduleFires,
     RecordStart, RecordEnd, PartSettles, Finish, Dies, OperatorClears, SuccessAges
<1>s. \A d \in Deliveries : pc[d] \in Ends => pc'[d] \in Ends
  BY <1>t, EndsStay
<1>n. Scheduled \in Names
  BY ScheduledIsName
<1>1. ASSUME NEW o \in Owners, OwnerRestores(o) PROVE EvidenceInv'
  <2>1. begun' = <<>> /\ health'[Scheduled] = [run |-> Nobody, fresh |-> FALSE, error |-> FALSE]
    BY <1>1, <1>n DEF OwnerRestores, Forgotten
  <2>2. OutcomesAreLate'
    BY <1>1, <1>s DEF OwnerRestores, EvidenceInv, OutcomesAreLate
  <2>3. RowIsNewest' /\ LateSuccessHidesNothing'
    BY <2>1 DEF RowIsNewest, LateSuccessHidesNothing, Healthy, Scheduled
  <2> QED
    BY <2>2, <2>3 DEF EvidenceInv
<1>2. ASSUME NEW d \in Deliveries, RecordStart(d) PROVE EvidenceInv'
  <2>1. /\ health' = Started(health, NameOf(d), IdOf(d)) /\ IdOf(d) = RunOf[d]
        /\ begun' = IF d \in Rehearsals THEN begun ELSE Append(begun, d)
        /\ pc[d] = "inside" /\ UNCHANGED <<entered, outcome>>
    BY <1>2 DEF RecordStart, IdOf
  <2>2. OutcomesAreLate'
    BY <2>1, <1>s DEF EvidenceInv, OutcomesAreLate
  <2>3. d \in entered /\ outcome[d] = "none"
    BY <2>1, <1>t DEF GuardInv, WorkIsEntered, EvidenceInv, OutcomesAreLate, Ends
  <2>4. Healthy' = Healthy
    BY <2>1, <1>t, <1>n, StartedRow, ScheduledIsName DEF Healthy, Scheduled
  <2>5. CASE d \in Rehearsals
    <3>1. NameOf(d) # Scheduled
      BY <2>5 DEF NameOf, Scheduled
    <3>2. health'[Scheduled].run = health[Scheduled].run /\ health'[Scheduled].fresh = health[Scheduled].fresh
      BY <2>1, <3>1, <1>t, <1>n, StartedRow, ScheduledIsName
    <3> QED
      BY <2>1, <2>2, <2>4, <2>5, <3>2 DEF EvidenceInv, RowIsNewest, LateSuccessHidesNothing
  <2>6. CASE d \notin Rehearsals
    <3>1. NameOf(d) = Scheduled
      BY <2>6 DEF NameOf, Scheduled
    <3>2. health'[Scheduled].run = RunOf[d]
      BY <2>1, <3>1, <1>t, <1>n, StartedRow
    <3>3. begun' # <<>> /\ Last(begun') = d
      BY <2>1, <2>6, <1>t DEF TypeOK, Last
    <3>4. RowIsNewest'
      BY <2>1, <2>3, <2>6, <3>2, <3>3 DEF RowIsNewest
    <3>5. LateSuccessHidesNothing'
      BY <2>1, <2>3, <2>4, <3>3 DEF EvidenceInv, LateSuccessHidesNothing
    <3> QED
      BY <2>2, <3>4, <3>5 DEF EvidenceInv
  <2> QED
    BY <2>5, <2>6
<1>3. ASSUME NEW d \in Deliveries, RecordEnd(d) PROVE EvidenceInv'
  <2> DEFINE ok == \A s \in Parts : part[d][s] = "ok"
  <2>1. /\ health' = Ended(health, NameOf(d), IdOf(d), ok) /\ IdOf(d) = RunOf[d]
        /\ outcome' = [outcome EXCEPT ![d] = IF ok THEN "ok" ELSE "failed"]
        /\ pc[d] = "working" /\ pc' = [pc EXCEPT ![d] = "ending"]
        /\ UNCHANGED <<entered, begun>> /\ ok \in BOOLEAN
    BY <1>3 DEF RecordEnd, IdOf
  <2> HIDE DEF ok
  <2>2. /\ outcome'[d] = IF ok THEN "ok" ELSE "failed"
        /\ \A e \in Deliveries : e # d => outcome'[e] = outcome[e]
        /\ d \in Procs /\ pc'[d] = "ending"
    BY <2>1, <1>t DEF TypeOK, Procs
  <2>3. d \in entered /\ outcome[d] = "none"
    BY <2>1, <1>t DEF GuardInv, WorkIsEntered, EvidenceInv, OutcomesAreLate, Ends
  <2>4. OutcomesAreLate'
    BY <2>2, <1>s DEF EvidenceInv, OutcomesAreLate, Ends
  <2>5. CASE NameOf(d) = Scheduled /\ health[Scheduled].run = RunOf[d]
    <3>1. /\ health'[Scheduled].run = RunOf[d] /\ health'[Scheduled].error = ~ok
      BY <2>1, <2>5, <1>t, <1>n, EndedRow
    <3>2. RunOf[d] # Nobody
      BY <2>2, <2>1, IdsAreIds, MaintenanceConstantsOK
    <3>3. begun # <<>> /\ Last(begun) = d
      BY <2>3, <2>5, <3>2 DEF EvidenceInv, RowIsNewest, GuardInv, RunsOnce
    <3>4. RowIsNewest'
      BY <2>1, <2>3, <2>5, <3>1, <3>3 DEF RowIsNewest, EvidenceInv
    <3>5. LateSuccessHidesNothing'
      <4>1. Healthy' => ok
        BY <3>1 DEF Healthy, Scheduled
      <4>2. ok => outcome'[d] = "ok" /\ Last(begun') = d /\ begun' # <<>>
        BY <2>1, <2>2, <3>3
      <4> QED
        BY <4>1, <4>2 DEF LateSuccessHidesNothing
    <3> QED
      BY <2>4, <3>4, <3>5 DEF EvidenceInv
  <2>6. CASE ~(NameOf(d) = Scheduled /\ health[Scheduled].run = RunOf[d])
    <3>1. health'[Scheduled] = health[Scheduled]
      BY <2>1, <2>6, <1>t, <1>n, EndedRow, ScheduledIsName
    <3>2. RowIsNewest'
      BY <2>1, <3>1 DEF RowIsNewest, EvidenceInv
    <3>3. begun # <<>> => Last(begun) # d /\ Last(begun) \in Deliveries
      BY <2>6, <1>t DEF EvidenceInv, RowIsNewest, NameOf, Scheduled, TypeOK
    <3>4. LateSuccessHidesNothing'
      BY <2>1, <2>2, <2>3, <3>1, <3>3 DEF EvidenceInv, LateSuccessHidesNothing, Healthy, Scheduled
    <3> QED
      BY <2>4, <3>2, <3>4 DEF EvidenceInv
  <2> QED
    BY <2>5, <2>6
<1>4. ASSUME SuccessAges PROVE EvidenceInv'
  <2>1. /\ health'[Scheduled].run = health[Scheduled].run
        /\ ~health'[Scheduled].fresh
        /\ UNCHANGED <<pc, entered, begun, outcome>>
    BY <1>4, <1>t, <1>n DEF SuccessAges, HealthTable, Scheduled, hist
  <2> QED
    BY <2>1 DEF EvidenceInv, RowIsNewest, OutcomesAreLate, LateSuccessHidesNothing, Healthy, Scheduled
<1>5. ASSUME UNCHANGED <<health, begun, outcome>> PROVE EvidenceInv'
  <2>1. RowIsNewest'
    BY <1>5, <1>e DEF EvidenceInv, RowIsNewest
  <2>2. OutcomesAreLate' /\ LateSuccessHidesNothing'
    BY <1>5, <1>s DEF EvidenceInv, OutcomesAreLate, LateSuccessHidesNothing, Healthy
  <2> QED
    BY <2>1, <2>2 DEF EvidenceInv
<1> QED
  BY <1>1, <1>2, <1>3, <1>4, <1>5, EvidenceSteps

LEMMA EvidenceInit == Init => EvidenceInv
<1> SUFFICES ASSUME Init PROVE EvidenceInv
  OBVIOUS
<1>1. health[Scheduled] = [run |-> Nobody, fresh |-> FALSE, error |-> FALSE]
  BY ScheduledIsName DEF Init, Forgotten
<1> QED
  BY <1>1 DEF Init, EvidenceInv, RowIsNewest, OutcomesAreLate, LateSuccessHidesNothing,
     Healthy, Scheduled

\* A run that ends late never makes the platform healthy after the newest run failed,
\* whatever is cleared, restored or delivered twice.
THEOREM LateSuccessIsHarmless == Spec => []LateSuccessHidesNothing
<1>1. EvidenceInv => LateSuccessHidesNothing
  BY DEF EvidenceInv
<1> QED
  BY <1>1, EvidenceInit, EvidenceStep, GuardInvariant, PTL DEF Spec

=============================================================================
