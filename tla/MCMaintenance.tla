---------------------------- MODULE MCMaintenance ----------------------------
(***************************************************************************)
(* The guard and what is done under it.                                    *)
(*                                                                         *)
(* Two scenes of module Maintenance.  Under a careful operator a request   *)
(* with its check, or a rehearsal, meets an owner and a scheduled run      *)
(* delivered twice; under a hasty one an owner and two scheduled runs      *)
(* overlap.                                                                *)
(*                                                                         *)
(* Three scenes of module Backup, where the guard does what those show:    *)
(* accounts that are deleted while backups are taken, exported and         *)
(* restored; imports that die and are restored; and the daily backup, its  *)
(* clean-up and migrations over many days.  In all of them the provider    *)
(* may be lost.                                                            *)
(***************************************************************************)
EXTENDS Maintenance, Backup, TLC

CONSTANTS w1, c1, d1, d2, d3, m1, v1, v2, i1, p1

\* Two deliveries carry the same invocation id, the others their own.
Redelivered == d1 :> "run1" @@ d2 :> "run1" @@ d3 :> "run3" @@ m1 :> "rehearsal"

Absent == IF hasty THEN {w1, c1, d2, m1} ELSE {d3}

\* Two units of one input with one part; room for both imported in full, but then
\* not for the part.
SameInput == [u \in Units |-> i1]
OnePart == [i \in Inputs |-> <<p1>>]
Compact == [i \in Inputs |-> 2]
Full == [i \in Inputs |-> 3]
PartBytes == [p \in SharedParts |-> 2]

VARIABLE scene

NoBackup ==
    /\ people = NoPeople /\ unit = [u \in Units |-> NoUnit] /\ shared = [p \in SharedParts |-> "none"]
    /\ campaign = "draft" /\ stored = [i \in Inputs |-> None] /\ parts = {} /\ task = None
    /\ stopped = TRUE /\ deleted = {} /\ backups = {} /\ bundle = None /\ moved = FALSE
    /\ request = None /\ today = 1 /\ schema = 1 /\ commands = 0 /\ assured = None
    /\ gone = {} /\ hidden = {} /\ revoked = {}

MCInit ==
    \/ scene = "guard" /\ Init /\ NoBackup
    \/ /\ scene \in {"accounts", "imports", "days"} /\ BackupInit /\ Init /\ hasty = FALSE
       /\ people = NoPeople <=> scene # "accounts"
       /\ scene = "accounts" => Imported = {}
       /\ scene = "days" => v2 \notin Imported
MCNext ==
    \/ scene = "guard" /\ Next /\ UNCHANGED backup_vars
    \/ scene # "guard" /\ BackupNext /\ UNCHANGED vars
MCSpec == MCInit /\ [][MCNext /\ UNCHANGED scene]_<<vars, backup_vars, scene>>

InScene ==
    CASE scene = "guard" ->
             /\ \A p \in Absent : pc'[p] = "idle"
             /\ "idle" \in {pc'[w1], pc'[m1]}
      [] scene = "accounts" -> today' = 1 /\ schema' = 1 /\ Imported' = {} /\ commands' <= 2
      [] scene = "imports" -> today' = 1 /\ schema' = 1
      [] scene = "days" -> commands' <= 2 /\ campaign' = "draft" /\ ~(task' # None /\ task'.kind = "import")
==============================================================================
