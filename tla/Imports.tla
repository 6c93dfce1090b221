------------------------------- MODULE Imports -------------------------------
(***************************************************************************)
(* How work enters the platform (addUnit in coordinator.ts, inputs.ts): a  *)
(* unit's row reserves storage, its parts and its input are written, its   *)
(* row is corrected to what is stored, and it opens.  An import holds the  *)
(* guard alone, and may die between any two of these.                      *)
(*                                                                         *)
(* An object is its identity.  An input is stored compact, which needs its *)
(* shared parts, or full, as an earlier release wrote it.                  *)
(***************************************************************************)
EXTENDS Sequences, Totals

CONSTANTS
    Units,            \* the units an owner may import
    Inputs,           \* scientific inputs; several units may have the same
    SharedParts,      \* shared models and ciphertexts
    InputOf,          \* InputOf[u]: the input of unit u
    PartsOf,          \* PartsOf[i]: the parts of input i, in the order they are written
    CompactSize,      \* CompactSize[i], FullSize[i]: the bytes of the two forms of input i
    FullSize,
    PartSize,         \* PartSize[p]: the bytes of shared part p
    MaxInputStorage,
    MaxUnits,         \* max_units of the campaign's manifest
    None

ASSUME ImportsAssumption ==
    /\ InputOf \in [Units -> Inputs]
    /\ PartsOf \in [Inputs -> Seq(SharedParts)]
    /\ CompactSize \in [Inputs -> Nat] /\ FullSize \in [Inputs -> Nat] /\ PartSize \in [SharedParts -> Nat]
    /\ MaxInputStorage \in Nat /\ MaxUnits \in Nat
    /\ IsFiniteSet(Units) /\ IsFiniteSet(SharedParts)
    /\ None \notin {"compact", "full"}

VARIABLES
    unit,      \* table units: state and input_bytes
    shared,    \* table shared_objects: state
    campaign,  \* the status of the campaign of all units
    stored,    \* objects inputs/: the form of each input, or None
    parts,     \* objects shared/
    task       \* the exclusive work in progress, or None

work == <<unit, shared, campaign>>
objects == <<stored, parts>>

NoUnit == [state |-> "none", bytes |-> 0]
Imported == {u \in Units : unit[u].state # "none"}

\* What the rows of the two tables reserve.
UnitBytes(units) == [u \in Units |-> units[u].bytes]
SharedBytes(objs) == [p \in SharedParts |-> IF objs[p] = "none" THEN 0 ELSE PartSize[p]]
Reserves(units, objs) == Total(UnitBytes(units)) + Total(SharedBytes(objs))
Used == Reserves(unit, shared)

SizeOf(i) == IF stored[i] = "full" THEN FullSize[i] ELSE CompactSize[i]

\* loadInput succeeds.
Loadable(i) ==
    \/ stored[i] = "full"
    \/ stored[i] = "compact" /\ \A k \in DOMAIN PartsOf[i] : PartsOf[i][k] \in parts

\* Units that an earlier release imported in full.
ImportsInit ==
    /\ unit \in [Units -> {NoUnit} \cup {[state |-> "open", bytes |-> FullSize[i]] : i \in Inputs}]
    /\ \A u \in Imported : unit[u].bytes = FullSize[InputOf[u]]
    /\ shared = [p \in SharedParts |-> "none"]
    /\ campaign = "draft"
    /\ stored = [i \in Inputs |-> IF \E u \in Imported : InputOf[u] = i THEN "full" ELSE None]
    /\ parts = {}
    /\ task = None
    /\ Used <= MaxInputStorage

-----------------------------------------------------------------------------
(* One import.  A refusal ends it and leaves what it has reserved.         *)

Doing(step) == task # None /\ task.kind = "import" /\ task.at = step
Going(left) == [task EXCEPT !.left = left, !.at = IF left = <<>> THEN "input" ELSE "reserve"]
Now(step) == task' = [task EXCEPT !.at = step]

\* The row is inserted when it fits; a repeated import takes up the existing row.
StartImport(u) ==
    /\ task = None
    /\ campaign = "draft"
    /\ unit' = IF /\ unit[u].state = "none"
                  /\ Cardinality(Imported) < MaxUnits
                  /\ Used + CompactSize[InputOf[u]] <= MaxInputStorage
               THEN [unit EXCEPT ![u] = [state |-> "importing", bytes |-> CompactSize[InputOf[u]]]]
               ELSE unit
    /\ LET left == PartsOf[InputOf[u]] IN
       task' = IF unit'[u].state # "importing" THEN None
               ELSE [kind |-> "import", unit |-> u, left |-> left,
                     at |-> IF left = <<>> THEN "input" ELSE "reserve"]
    /\ UNCHANGED <<shared, campaign, objects>>

ReservePart ==
    /\ Doing("reserve")
    /\ LET p == Head(task.left) IN
       /\ shared' = IF shared[p] = "none" /\ Used + PartSize[p] <= MaxInputStorage
                  THEN [shared EXCEPT ![p] = "importing"] ELSE shared
       /\ IF shared'[p] = "none" THEN task' = None ELSE Now("write")
    /\ UNCHANGED <<unit, campaign, objects>>

WritePart ==
    /\ Doing("write")
    /\ parts' = parts \cup {Head(task.left)}
    /\ Now("mark")
    /\ UNCHANGED <<work, stored>>

MarkPart ==
    /\ Doing("mark")
    /\ shared' = [shared EXCEPT ![Head(task.left)] = "ready"]
    /\ task' = Going(Tail(task.left))
    /\ UNCHANGED <<unit, campaign, objects>>

\* An input that is already stored keeps its form.
WriteInput ==
    /\ Doing("input")
    /\ LET i == InputOf[task.unit] IN
       stored' = IF stored[i] = None THEN [stored EXCEPT ![i] = "compact"] ELSE stored
    /\ Now("settle")
    /\ UNCHANGED <<work, parts>>

\* The row takes the size of what is stored, if it can be loaded and fits; the
\* mutant leaves the size that was reserved.
SettleUncorrected ==
    /\ Doing("settle")
    /\ IF Loadable(InputOf[task.unit]) THEN Now("open") ELSE task' = None
    /\ UNCHANGED <<work, objects>>
Settle ==
    /\ Doing("settle")
    /\ LET u == task.unit
           size == SizeOf(InputOf[u])
       IN IF Loadable(InputOf[u]) /\ Used - unit[u].bytes + size <= MaxInputStorage
          THEN unit' = [unit EXCEPT ![u].bytes = size] /\ Now("open")
          ELSE unit' = unit /\ task' = None
    /\ UNCHANGED <<shared, campaign, objects>>

OpenUnit ==
    /\ Doing("open")
    /\ unit' = [unit EXCEPT ![task.unit].state = "open"]
    /\ task' = None
    /\ UNCHANGED <<shared, campaign, objects>>

\* The owner opens the campaign when it has work and none of it is half imported.
OpenCampaign ==
    /\ task = None
    /\ campaign = "draft"
    /\ Imported # {}
    /\ \A u \in Units : unit[u].state # "importing"
    /\ campaign' = "active"
    /\ UNCHANGED <<unit, shared, objects, task>>

ImportStep ==
    \/ ReservePart \/ WritePart \/ MarkPart \/ WriteInput \/ Settle \/ OpenUnit

-----------------------------------------------------------------------------
(* Properties                                                              *)

\* Work that may be handed out can be loaded, and what it stores is reserved:
\* whatever imports died, whatever was restored, an open unit has its input and
\* its parts, no campaign is open over a half imported unit, and the rows
\* never reserve more than the limit.
WorkIsStored ==
    /\ \A u \in Units : unit[u].state = "open" =>
           Loadable(InputOf[u]) /\ SizeOf(InputOf[u]) <= unit[u].bytes
    /\ \A p \in SharedParts : shared[p] = "ready" => p \in parts
    /\ campaign = "active" => \A u \in Units : unit[u].state # "importing"
    /\ Used <= MaxInputStorage
=============================================================================
