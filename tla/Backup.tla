------------------------------- MODULE Backup --------------------------------
(***************************************************************************)
(* Snapshots of the database, their retention and restoration (backup.ts), *)
(* and the deletion of accounts, which no restoration may undo (auth.ts).  *)
(*                                                                         *)
(* The database is the tables of module Imports and `people'; the objects  *)
(* are those of Imports, the deletion records and the backups.  Exclusive  *)
(* work (`task') and the requests of volunteers exclude each other, as     *)
(* module Maintenance shows of the guard; both may die between two steps.  *)
(* What a restoration does to leases and evidence is in Coordinator and    *)
(* Maintenance.                                                            *)
(***************************************************************************)
EXTENDS Imports

CONSTANTS
    Users, Guests,
    Retention,    \* thirty days, in days
    LastDay,      \* bound: the days of a behaviour are 1 .. LastDay
    LastSchema,   \* bound: the schemas are 1 .. LastSchema
    MaxCommands   \* bound: backups, exports, restorations and imports of one behaviour

ASSUME BackupAssumption == Retention \in Nat \ {0} /\ None \notin Users

VARIABLES
    people,    \* tables user, session, guests, teams
    stopped,   \* controls.stopped
    deleted,   \* objects deletions/
    backups,   \* objects backups/
    bundle,    \* the last portable backup, kept outside the provider, or None
    moved,     \* whether the provider was lost and replaced
    request,   \* the account deletion in progress, or None
    today, schema,
    commands,  \* how many commands the owner has used
    assured,   \* history: the schema and day of the last daily backup that succeeded
    gone,      \* history: the accounts whose deletion was completed
    hidden,    \* history: the founders whose team was hidden when they were deleted
    revoked    \* history: the sessions and guest proofs that became invalid

accounts == <<people, stopped, deleted, request>>
archive == <<backups, bundle, moved, today, schema, commands, assured>>
history == <<gone, hidden>>
backup_vars == <<work, objects, task, accounts, archive, history, revoked>>

Live == {<<"session", u>> : u \in people.sessions} \cup {<<"guest", g>> : g \in people.tokens}

\* `team' is the team a user founded: shown with its owner, shown without one, or hidden.
PeopleType ==
    [users : SUBSET Users, sessions : SUBSET Users, tokens : SUBSET Guests,
     of : [Guests -> Users \cup {None}], team : [Users -> {"none", "owned", "orphan", "hidden"}]]

NoPeople ==
    [users |-> {}, sessions |-> {}, tokens |-> {}, of |-> [g \in Guests |-> None],
     team |-> [u \in Users |-> "none"]]

BackupInit ==
    /\ ImportsInit
    /\ people \in {NoPeople, [NoPeople EXCEPT !.users = Users, !.sessions = Users, !.tokens = Guests]}
    /\ stopped = TRUE
    /\ deleted = {} /\ backups = {} /\ bundle = None /\ moved = FALSE /\ request = None
    /\ today = 1 /\ schema = 1 /\ commands = 0 /\ assured = None
    /\ gone = {} /\ hidden = {} /\ revoked = {}

-----------------------------------------------------------------------------
(* Volunteers.  Deleting an account writes its deletion record, takes its  *)
(* guests' proofs and hides its team, and removes the row; the database    *)
(* then clears what refers to it.                                          *)

Unlinked(p, D) ==
    [p EXCEPT !.tokens = {g \in @ : p.of[g] \notin D},
              !.of = [g \in Guests |-> IF p.of[g] \in D THEN None ELSE p.of[g]],
              !.team = [u \in Users |-> IF u \in D /\ p.team[u] = "owned" THEN "hidden" ELSE p.team[u]]]

WithoutUsers(p, D) ==
    [p EXCEPT !.users = @ \ D,
              !.sessions = @ \ D,
              !.of = [g \in Guests |-> IF p.of[g] \in D THEN None ELSE p.of[g]],
              !.team = [u \in Users |-> IF u \in D /\ p.team[u] = "owned" THEN "orphan" ELSE p.team[u]]]

Attach(g, u) ==
    /\ task = None
    /\ u \in people.users /\ g \in people.tokens /\ people.of[g] = None
    /\ people' = [people EXCEPT !.of[g] = u]
    /\ UNCHANGED <<work, objects, task, stopped, deleted, request, archive, history>>

CreateTeam(u) ==
    /\ task = None
    /\ u \in people.users /\ people.team[u] = "none"
    /\ people' = [people EXCEPT !.team[u] = "owned"]
    /\ UNCHANGED <<work, objects, task, stopped, deleted, request, archive, history>>

StartDeletion(u) ==
    /\ task = None /\ request = None
    /\ u \in people.users
    /\ deleted' = deleted \cup {u}
    /\ request' = [user |-> u, at |-> "unlink"]
    /\ UNCHANGED <<work, objects, task, people, stopped, archive, history>>

UnlinkAccount ==
    /\ request # None /\ request.at = "unlink"
    /\ people' = Unlinked(people, {request.user})
    /\ hidden' = IF people.team[request.user] = "owned" THEN hidden \cup {request.user} ELSE hidden
    /\ request' = [request EXCEPT !.at = "remove"]
    /\ UNCHANGED <<work, objects, task, stopped, deleted, archive, gone>>

RemoveAccount ==
    /\ request # None /\ request.at = "remove"
    /\ people' = WithoutUsers(people, {request.user})
    /\ gone' = gone \cup {request.user}
    /\ request' = None
    /\ UNCHANGED <<work, objects, task, stopped, deleted, archive, hidden>>

RequestDies ==
    /\ request # None
    /\ request' = None
    /\ UNCHANGED <<work, objects, task, people, stopped, deleted, archive, history>>

-----------------------------------------------------------------------------
(* The owner                                                               *)

Alone == task = None /\ request = None
Command == Alone /\ commands < MaxCommands /\ commands' = commands + 1

Snapshot == [unit |-> unit, shared |-> shared, campaign |-> campaign, people |-> people]
Today == [day |-> today, uploaded |-> today, schema |-> schema, snap |-> Snapshot]

\* Every input and part a snapshot needs is in the store.
Supported(s) ==
    /\ \A u \in Units : s.unit[u].state = "open" => Loadable(InputOf[u])
    /\ \A p \in SharedParts : s.shared[p] = "ready" => p \in parts

WriteBackup ==
    /\ Command
    /\ backups' = backups \cup {Today}
    /\ UNCHANGED <<work, objects, task, accounts, bundle, moved, today, schema, assured, history>>

\* A snapshot with the objects it needs and all deletion records; taken again
\* only where nothing was lost.
PortableBackup ==
    /\ Command
    /\ ~moved
    /\ backups' = backups \cup {Today}
    /\ bundle' =
          [backup |-> Today, deleted |-> deleted,
           stored |-> [i \in Inputs |->
                         IF \E u \in Units : unit[u].state = "open" /\ InputOf[u] = i THEN stored[i] ELSE None],
           parts |-> {p \in SharedParts : shared[p] = "ready"}]
    /\ UNCHANGED <<work, objects, task, accounts, moved, today, schema, assured, history>>

\* One object of the bundle returns; one that exists is never replaced.
ImportObject ==
    /\ Alone /\ stopped /\ bundle # None
    /\ \/ /\ ~ \E b \in backups : [b EXCEPT !.uploaded = today] = [bundle.backup EXCEPT !.uploaded = today]
          /\ backups' = backups \cup {[bundle.backup EXCEPT !.uploaded = today]}
          /\ UNCHANGED <<deleted, objects>>
       \/ \E u \in bundle.deleted : deleted' = deleted \cup {u} /\ UNCHANGED <<backups, objects>>
       \/ \E i \in Inputs :
              /\ stored[i] = None /\ bundle.stored[i] # None
              /\ stored' = [stored EXCEPT ![i] = bundle.stored[i]]
              /\ UNCHANGED <<backups, deleted, parts>>
       \/ \E p \in bundle.parts : parts' = parts \cup {p} /\ UNCHANGED <<backups, deleted, stored>>
    /\ UNCHANGED <<work, task, people, stopped, request, bundle, moved, today, schema, commands,
                   assured, history>>

\* The rows of the snapshot, then the deletion records, then no session and no
\* proof: one batch.  The mutant deletes the accounts before their teams are hidden.
RevivedRemovedFirst(s) ==
    [Unlinked(WithoutUsers(s.people, deleted), deleted) EXCEPT !.sessions = {}, !.tokens = {}]
Revived(s) ==
    [WithoutUsers(Unlinked(s.people, deleted), deleted) EXCEPT !.sessions = {}, !.tokens = {}]

\* After a move the operator has returned all deletion records first, as
\* platform/README.md asks; the code itself checks inputs and parts.
Restore(b) ==
    /\ Command
    /\ stopped
    /\ b.schema = schema
    /\ Supported(b.snap)
    /\ moved => bundle.deleted \subseteq deleted
    /\ unit' = b.snap.unit /\ shared' = b.snap.shared /\ campaign' = b.snap.campaign
    /\ people' = Revived(b.snap)
    /\ stopped' = TRUE
    /\ UNCHANGED <<objects, task, deleted, request, backups, bundle, moved, today, schema, assured, history>>

Control(on) ==
    /\ Alone
    /\ stopped' = ~on
    /\ UNCHANGED <<work, objects, task, people, deleted, request, archive, history>>

Import(u) ==
    /\ Command
    /\ StartImport(u)
    /\ UNCHANGED <<accounts, backups, bundle, moved, today, schema, assured, history>>

ContinueImport ==
    /\ ImportStep
    /\ UNCHANGED <<accounts, archive, history>>

Open ==
    /\ Alone
    /\ OpenCampaign
    /\ UNCHANGED <<accounts, archive, history>>

-----------------------------------------------------------------------------
(* The daily backup                                                        *)

Daily(step) == task # None /\ task.kind = "daily" /\ task.at = step
\* Today's backup counts if its schema is the present one; the mutant takes any.
CompatibleAnySchema(day) == \E b \in backups : b.day = day
Compatible(day) == \E b \in backups : b.day = day /\ b.schema = schema
Old(b) == b.uploaded + Retention < today

\* It begins by clearing sessions and proofs that have expired.
StartDaily ==
    /\ Alone
    /\ \E S \in SUBSET people.sessions, T \in SUBSET people.tokens :
           people' = [people EXCEPT !.sessions = S, !.tokens = T]
    /\ task' = [kind |-> "daily", day |-> today, at |-> "check"]
    /\ UNCHANGED <<work, objects, stopped, deleted, request, archive, history>>

CheckToday ==
    /\ Daily("check")
    /\ Now(IF Compatible(task.day) THEN "delete" ELSE "write")
    /\ UNCHANGED <<work, objects, accounts, archive, history>>

WriteToday ==
    /\ Daily("write")
    /\ backups' = backups \cup {Today}
    /\ Now("delete")
    /\ UNCHANGED <<work, objects, accounts, bundle, moved, today, schema, commands, assured, history>>

DeleteOld ==
    /\ Daily("delete")
    /\ \E b \in backups : Old(b) /\ backups' = backups \ {b}
    /\ UNCHANGED <<work, objects, task, accounts, bundle, moved, today, schema, commands, assured, history>>

EndDaily ==
    /\ Daily("delete")
    /\ \A b \in backups : ~Old(b)
    /\ task' = None
    /\ assured' = [schema |-> schema, day |-> task.day]
    /\ UNCHANGED <<work, objects, accounts, backups, bundle, moved, today, schema, commands, history>>

-----------------------------------------------------------------------------
(* The world                                                               *)

\* Exclusive work dies, or refuses to go on.
TaskDies ==
    /\ task # None
    /\ task' = None
    /\ UNCHANGED <<work, objects, accounts, archive, history>>

\* A daily backup may run past midnight, but not as long as backups are kept.
DayPasses ==
    /\ today < LastDay
    /\ task # None /\ task.kind = "daily" => today + 1 - task.day < Retention
    /\ today' = today + 1
    /\ UNCHANGED <<work, objects, task, accounts, backups, bundle, moved, schema, commands, assured, history>>

Migrate ==
    /\ Alone
    /\ schema < LastSchema
    /\ schema' = schema + 1
    /\ UNCHANGED <<work, objects, task, accounts, backups, bundle, moved, today, commands, assured, history>>

\* The provider is lost with its database and objects.  What was deleted after
\* the last export is forgotten with it.
Disaster ==
    /\ bundle # None /\ ~moved
    /\ moved' = TRUE
    /\ unit' = [u \in Units |-> NoUnit] /\ shared' = [p \in SharedParts |-> "none"]
    /\ campaign' = "draft"
    /\ stored' = [i \in Inputs |-> None] /\ parts' = {}
    /\ people' = NoPeople /\ stopped' = TRUE /\ deleted' = {} /\ backups' = {}
    /\ task' = None /\ request' = None /\ assured' = None
    /\ gone' = gone \cap bundle.deleted /\ hidden' = hidden \cap bundle.deleted
    /\ UNCHANGED <<bundle, today, schema, commands>>

BackupStep ==
    \/ \E u \in Users : CreateTeam(u) \/ StartDeletion(u) \/ \E g \in Guests : Attach(g, u)
    \/ UnlinkAccount \/ RemoveAccount \/ RequestDies
    \/ WriteBackup \/ PortableBackup \/ ImportObject \/ (\E b \in backups : Restore(b))
    \/ \E on \in BOOLEAN : Control(on)
    \/ (\E u \in Units : Import(u)) \/ ContinueImport \/ Open
    \/ StartDaily \/ CheckToday \/ WriteToday \/ DeleteOld \/ EndDaily
    \/ TaskDies \/ DayPasses \/ Migrate \/ Disaster

BackupNext == BackupStep /\ revoked' = revoked \cup (Live \ Live')
BackupSpec == BackupInit /\ [][BackupNext]_backup_vars

-----------------------------------------------------------------------------
(* Properties                                                              *)

\* What was deleted or revoked never returns, whatever is restored, in whatever
\* order things died: no account whose deletion was completed, no guest of
\* one, no team hidden with its founder, no session or guest proof that had
\* become invalid.
NothingReturns ==
    /\ people.users \cap gone = {}
    /\ \A g \in Guests : people.of[g] \notin gone
    /\ \A u \in hidden : people.team[u] \in {"none", "hidden"}
    /\ Live \cap revoked = {}

\* Once a daily backup has succeeded there is always a backup that is at least
\* as recent, whichever later backup, clean-up or import dies, and its inputs
\* and parts are all stored; after a move they may still be on their way.
ABackupStays ==
    assured # None =>
        \E b \in backups : /\ b.day >= assured.day /\ b.schema >= assured.schema
                           /\ moved \/ Supported(b.snap)
=============================================================================
