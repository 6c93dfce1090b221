---------------------------- MODULE BackupProofs ----------------------------
(***************************************************************************)
(* For any accounts, guests, units, inputs and days: what was deleted or   *)
(* revoked never returns, and after a successful daily backup there is     *)
(* always a usable one.                                                    *)
(***************************************************************************)
EXTENDS Backup, TotalsProofs

UnitRow == [state : {"none", "importing", "open"}, bytes : Nat]
SnapType ==
    [unit : [Units -> UnitRow], shared : [SharedParts -> {"none", "importing", "ready"}],
     campaign : {"draft", "active"}, people : PeopleType]
BackupType == [day : Nat, uploaded : Nat, schema : Nat, snap : SnapType]

People(b) == b.snap.people

(***************************************************************************)
(* What was deleted.                                                       *)
(***************************************************************************)

\* The deletion records that stand between a restoration and the deleted.
Recorded == deleted \cup (IF moved THEN bundle.deleted ELSE {})

AccountTypes ==
    /\ people \in PeopleType
    /\ request \in {None} \cup [user : Users, at : {"unlink", "remove"}]
    /\ unit \in [Units -> UnitRow]
    /\ shared \in [SharedParts -> {"none", "importing", "ready"}]
    /\ campaign \in {"draft", "active"}
    /\ today \in Nat /\ schema \in Nat
    /\ backups \subseteq BackupType
    /\ bundle # None => bundle.backup \in BackupType
    /\ moved \in BOOLEAN /\ (moved => bundle # None)

DeletionsRecorded ==
    /\ request # None => request.user \in people.users /\ request.user \in deleted
    /\ gone \subseteq Recorded /\ hidden \subseteq Recorded

\* A team can be shown without its founder only when it was created while its
\* founder was being deleted; it was then never hidden.
Founderless(p) == \A u \in Users : p.team[u] = "orphan" => u \in gone /\ u \notin hidden
TeamsAccounted ==
    /\ Founderless(people)
    /\ \A b \in backups : Founderless(People(b))
    /\ bundle # None => /\ Founderless(People(bundle.backup))
                        /\ \A u \in Users : People(bundle.backup).team[u] = "orphan" => u \in bundle.deleted
    /\ \A u \in hidden : u \in Users /\ (u \in people.users => people.team[u] = "hidden")

DeletedStay ==
    /\ people.users \cap gone = {}
    /\ \A g \in Guests : people.of[g] \notin gone
    /\ \A u \in hidden : people.team[u] \in {"none", "hidden"}
    /\ gone \subseteq Users
RevokedStay == Live \cap revoked = {}

DInv == AccountTypes /\ DeletionsRecorded /\ TeamsAccounted /\ DeletedStay

-----------------------------------------------------------------------------
(* Helpers                                                                 *)

\* Clearing what refers to deleted accounts keeps the types, and leaves no
\* account, guest or shown team of them.
LEMMA ClearedTypes ==
    ASSUME NEW p \in PeopleType, NEW D
    PROVE  Unlinked(p, D) \in PeopleType /\ WithoutUsers(p, D) \in PeopleType
BY DEF PeopleType, Unlinked, WithoutUsers

\* A restored snapshot holds nothing of the accounts with a deletion record.
LEMMA RevivedClears ==
    ASSUME NEW s, s.people \in PeopleType
    PROVE  /\ Revived(s) \in PeopleType
           /\ Revived(s).sessions = {} /\ Revived(s).tokens = {}
           /\ Revived(s).users \cap deleted = {}
           /\ \A g \in Guests : Revived(s).of[g] \notin deleted \/ Revived(s).of[g] = None
           /\ \A u \in Users : Revived(s).team[u] = "orphan" => s.people.team[u] = "orphan"
           /\ \A u \in Users : u \in deleted =>
                  Revived(s).team[u] # "owned"
<1> DEFINE q == Unlinked(s.people, deleted)
           r == WithoutUsers(q, deleted)
<1>1. q \in PeopleType /\ r \in PeopleType
  BY ClearedTypes
<1>2. \A u \in Users : q.team[u] = IF u \in deleted /\ s.people.team[u] = "owned" THEN "hidden" ELSE s.people.team[u]
  BY DEF PeopleType, Unlinked
<1>3. \A u \in Users : r.team[u] = IF u \in deleted /\ q.team[u] = "owned" THEN "orphan" ELSE q.team[u]
  BY <1>1 DEF PeopleType, WithoutUsers
<1>4. r.users = q.users \ deleted
      /\ \A g \in Guests : r.of[g] = IF q.of[g] \in deleted THEN None ELSE q.of[g]
  BY <1>1 DEF PeopleType, WithoutUsers
<1>5. Revived(s) = [r EXCEPT !.sessions = {}, !.tokens = {}]
  BY DEF Revived
<1> HIDE DEF q, r
<1>6. /\ Revived(s) \in PeopleType
      /\ Revived(s).sessions = {} /\ Revived(s).tokens = {}
      /\ Revived(s).users = r.users /\ Revived(s).of = r.of /\ Revived(s).team = r.team
  BY <1>1, <1>5 DEF PeopleType
<1> QED BY <1>2, <1>3, <1>4, <1>6

\* The deletion invariant holds initially.
LEMMA DeletionInit == BackupInit => DInv
<1> SUFFICES ASSUME BackupInit PROVE DInv
  OBVIOUS
<1>1. unit \in [Units -> UnitRow]
  BY ImportsAssumption DEF BackupInit, ImportsInit, UnitRow, NoUnit
<1>2. people \in PeopleType /\ \A u \in Users : people.team[u] = "none"
  <2>1. NoPeople \in PeopleType /\ \A u \in Users : NoPeople.team[u] = "none"
    BY DEF PeopleType, NoPeople
  <2>2. \A p \in PeopleType :
            LET q == [p EXCEPT !.users = Users, !.sessions = Users, !.tokens = Guests]
            IN q \in PeopleType /\ q.team = p.team
    BY DEF PeopleType
  <2> QED BY <2>1, <2>2 DEF BackupInit
<1>3. AccountTypes
  BY <1>1, <1>2 DEF BackupInit, ImportsInit, AccountTypes
<1> QED
  BY <1>2, <1>3 DEF BackupInit, DInv, DeletionsRecorded, TeamsAccounted, DeletedStay, Founderless, Recorded

\* What neither accounts, nor deletion records, nor snapshots notice.
LEMMA DeletionQuiet ==
    ASSUME DInv, AccountTypes',
           people' = people, deleted' = deleted, request' = request,
           bundle' = bundle, moved' = moved, gone' = gone, hidden' = hidden,
           \A b \in backups' : \/ b \in backups
                               \/ People(b) = people
                               \/ bundle # None /\ People(b) = People(bundle.backup)
    PROVE  DInv'
<1>1. DeletionsRecorded' /\ DeletedStay'
  BY DEF DInv, DeletionsRecorded, DeletedStay, Recorded
<1>2. \A b \in backups' : Founderless(People(b))'
  BY DEF DInv, TeamsAccounted, Founderless, People
<1>3. TeamsAccounted'
  BY <1>2 DEF DInv, TeamsAccounted, Founderless, People
<1> QED BY <1>1, <1>3 DEF DInv

-----------------------------------------------------------------------------
(* The deletion invariant is kept by every step.                           *)

\* Volunteers.
LEMMA DeletionAttach ==
    ASSUME DInv, NEW g \in Guests, NEW u \in Users, Attach(g, u)
    PROVE  DInv'
<1>1. /\ people' \in PeopleType
      /\ people'.users = people.users /\ people'.team = people.team
      /\ \A h \in Guests : people'.of[h] \in {u, people.of[h]}
  BY DEF DInv, AccountTypes, Attach, PeopleType
<1>2. AccountTypes'
  BY <1>1 DEF DInv, AccountTypes, Attach, work, archive
<1>3. DeletionsRecorded' /\ DeletedStay'
  BY <1>1 DEF DInv, DeletionsRecorded, DeletedStay, Recorded, Attach, archive, history
<1>4. TeamsAccounted'
  BY <1>1 DEF DInv, TeamsAccounted, Founderless, People, Attach, archive, history
<1> QED BY <1>2, <1>3, <1>4 DEF DInv

LEMMA DeletionCreateTeam ==
    ASSUME DInv, NEW u \in Users, CreateTeam(u)
    PROVE  DInv'
<1>1. /\ people' \in PeopleType
      /\ people'.users = people.users /\ people'.of = people.of
      /\ \A v \in Users : people'.team[v] = IF v = u THEN "owned" ELSE people.team[v]
  BY DEF DInv, AccountTypes, CreateTeam, PeopleType
<1>2. AccountTypes'
  BY <1>1 DEF DInv, AccountTypes, CreateTeam, work, archive
<1>3. u \notin hidden
  BY DEF DInv, TeamsAccounted, CreateTeam
<1>4. DeletionsRecorded'
  BY <1>1 DEF DInv, DeletionsRecorded, Recorded, CreateTeam, archive, history
<1>5. DeletedStay'
  BY <1>1, <1>3 DEF DInv, DeletedStay, TeamsAccounted, CreateTeam, archive, history
<1>6. TeamsAccounted'
  BY <1>1, <1>3 DEF DInv, TeamsAccounted, Founderless, People, CreateTeam, archive, history
<1> QED BY <1>2, <1>4, <1>5, <1>6 DEF DInv

LEMMA DeletionStart ==
    ASSUME DInv, NEW u \in Users, StartDeletion(u)
    PROVE  DInv'
<1>1. AccountTypes'
  BY DEF DInv, AccountTypes, StartDeletion, work, archive
<1>2. DeletionsRecorded' /\ DeletedStay'
  BY DEF DInv, DeletionsRecorded, DeletedStay, Recorded, StartDeletion, archive, history
<1>3. TeamsAccounted'
  BY DEF DInv, TeamsAccounted, Founderless, People, StartDeletion, archive, history
<1> QED BY <1>1, <1>2, <1>3 DEF DInv

LEMMA DeletionUnlink ==
    ASSUME DInv, UnlinkAccount
    PROVE  DInv'
<1> DEFINE u == request.user
<1>1. u \in Users /\ u \in people.users /\ u \in deleted /\ u \notin gone /\ people \in PeopleType
      /\ request \in [user : Users, at : {"unlink", "remove"}]
  BY DEF DInv, AccountTypes, DeletionsRecorded, DeletedStay, UnlinkAccount
<1>2. /\ people' \in PeopleType
      /\ people'.users = people.users
      /\ \A g \in Guests : people'.of[g] \in {None, people.of[g]}
      /\ \A v \in Users : people'.team[v] =
             IF v = u /\ people.team[v] = "owned" THEN "hidden" ELSE people.team[v]
  BY <1>1, ClearedTypes DEF UnlinkAccount, Unlinked, PeopleType
<1>3. \A g \in Guests : people'.of[g] \notin gone \/ people'.of[g] = people.of[g] \/ None \in gone
  BY <1>2
<1>4. None \notin gone /\ u \in Recorded
  BY <1>1, BackupAssumption DEF DInv, DeletedStay, Recorded
<1>5. AccountTypes'
  BY <1>1, <1>2 DEF DInv, AccountTypes, UnlinkAccount, work, archive
<1>6. hidden' \subseteq hidden \cup {u} /\ (u \in hidden' => people'.team[u] \in {"hidden"})
  <2>1. CASE people.team[u] = "owned"
    BY <1>1, <1>2, <2>1 DEF UnlinkAccount
  <2>2. CASE people.team[u] # "owned"
    BY <1>1, <1>2, <2>2 DEF UnlinkAccount, DInv, TeamsAccounted
  <2> QED BY <2>1, <2>2
<1>7. DeletionsRecorded'
  <2>1. request' # None => request'.user = u
    BY <1>1 DEF UnlinkAccount
  <2>2. Recorded' = Recorded /\ gone' = gone /\ deleted' = deleted
    BY DEF UnlinkAccount, archive, Recorded
  <2> QED BY <1>1, <1>2, <1>4, <1>6, <2>1, <2>2 DEF DInv, DeletionsRecorded
<1>8. DeletedStay'
  BY <1>1, <1>2, <1>3, <1>4, <1>6 DEF DInv, DeletedStay, TeamsAccounted, UnlinkAccount
<1>9. TeamsAccounted'
  BY <1>1, <1>2, <1>6, SMTT(30) DEF DInv, TeamsAccounted, Founderless, People, UnlinkAccount, archive
<1> QED BY <1>5, <1>7, <1>8, <1>9 DEF DInv

LEMMA DeletionRemove ==
    ASSUME DInv, RemoveAccount
    PROVE  DInv'
<1> DEFINE u == request.user
<1>1. u \in Users /\ u \in people.users /\ u \in deleted /\ u \in Recorded /\ people \in PeopleType
  BY DEF DInv, AccountTypes, DeletionsRecorded, RemoveAccount, Recorded
<1>2. /\ people' \in PeopleType
      /\ people'.users = people.users \ {u}
      /\ \A g \in Guests : people'.of[g] = IF people.of[g] = u THEN None ELSE people.of[g]
      /\ \A v \in Users : people'.team[v] =
             IF v = u /\ people.team[v] = "owned" THEN "orphan" ELSE people.team[v]
  BY <1>1, ClearedTypes DEF RemoveAccount, WithoutUsers, PeopleType
<1>3. gone' = gone \cup {u} /\ hidden' = hidden /\ None \notin gone'
      /\ (people.team[u] = "owned" => u \notin hidden)
  BY <1>1, BackupAssumption DEF DInv, DeletedStay, TeamsAccounted, RemoveAccount
<1>4. AccountTypes'
  BY <1>2 DEF DInv, AccountTypes, RemoveAccount, work, archive
<1>5. DeletionsRecorded'
  BY <1>1, <1>3 DEF DInv, DeletionsRecorded, Recorded, RemoveAccount, archive
<1>6. DeletedStay'
  BY <1>1, <1>2, <1>3 DEF DInv, DeletedStay, TeamsAccounted
<1>7. TeamsAccounted'
  BY <1>1, <1>2, <1>3 DEF DInv, TeamsAccounted, Founderless, People, RemoveAccount, archive
<1> QED BY <1>4, <1>5, <1>6, <1>7 DEF DInv

LEMMA DeletionDies ==
    ASSUME DInv, RequestDies
    PROVE  DInv'
<1>1. AccountTypes'
  BY DEF DInv, AccountTypes, RequestDies, work, archive
<1>2. DeletionsRecorded' /\ DeletedStay'
  BY DEF DInv, DeletionsRecorded, DeletedStay, Recorded, RequestDies, archive, history
<1>3. TeamsAccounted'
  BY DEF DInv, TeamsAccounted, Founderless, People, RequestDies, archive, history
<1> QED BY <1>1, <1>2, <1>3 DEF DInv

\* The owner.
LEMMA DeletionBackups ==
    ASSUME DInv, WriteBackup \/ PortableBackup
    PROVE  DInv'
<1>1. Today \in BackupType /\ People(Today) = people
  BY DEF DInv, AccountTypes, Today, Snapshot, BackupType, SnapType, People
<1>2. /\ backups' = backups \cup {Today}
      /\ UNCHANGED <<work, people, deleted, request, moved, today, schema, history>>
  BY DEF WriteBackup, PortableBackup, Command, accounts
<1>3. CASE bundle' = bundle
  <2>1. AccountTypes'
    BY <1>1, <1>2, <1>3 DEF DInv, AccountTypes, work
  <2> QED BY <1>1, <1>2, <1>3, <2>1, DeletionQuiet DEF history
<1>4. CASE PortableBackup
  <2>1. bundle'.backup = Today /\ bundle'.deleted = deleted /\ ~moved
    BY <1>4 DEF PortableBackup
  <2>2. AccountTypes'
    BY <1>1, <1>2, <2>1 DEF DInv, AccountTypes, work
  <2>3. gone \subseteq deleted
    BY <2>1 DEF DInv, DeletionsRecorded, Recorded
  <2>4. DeletionsRecorded' /\ DeletedStay'
    BY <1>2, <2>1 DEF DInv, DeletionsRecorded, DeletedStay, Recorded, history
  <2>5. TeamsAccounted'
    BY <1>1, <1>2, <2>1, <2>3 DEF DInv, TeamsAccounted, Founderless, People, history
  <2> QED BY <2>2, <2>4, <2>5 DEF DInv
<1> QED BY <1>3, <1>4 DEF WriteBackup

LEMMA DeletionImportObject ==
    ASSUME DInv, ImportObject
    PROVE  DInv'
<1> DEFINE copy == [bundle.backup EXCEPT !.uploaded = today]
<1>1. /\ UNCHANGED <<work, people, request, bundle, moved, today, schema, history>>
      /\ bundle # None
      /\ backups' = backups \/ backups' = backups \cup {copy}
      /\ deleted \subseteq deleted'
  BY DEF ImportObject
<1>2. copy \in BackupType /\ People(copy) = People(bundle.backup)
  BY <1>1 DEF DInv, AccountTypes, BackupType, People
<1> HIDE DEF copy
<1>3. AccountTypes'
  BY <1>1, <1>2 DEF DInv, AccountTypes, work
<1>4. DeletionsRecorded' /\ DeletedStay'
  BY <1>1 DEF DInv, DeletionsRecorded, DeletedStay, Recorded, history
<1>5. TeamsAccounted'
  BY <1>1, <1>2 DEF DInv, TeamsAccounted, Founderless, People, history
<1> QED BY <1>3, <1>4, <1>5 DEF DInv

LEMMA DeletionRestore ==
    ASSUME DInv, NEW b \in backups, Restore(b)
    PROVE  DInv'
<1>1. /\ UNCHANGED <<deleted, request, backups, bundle, moved, today, schema, gone, hidden>>
      /\ people' = Revived(b.snap)
      /\ unit' = b.snap.unit /\ shared' = b.snap.shared /\ campaign' = b.snap.campaign
      /\ request = None
      /\ moved => bundle.deleted \subseteq deleted
  BY DEF Restore, Command, Alone, history
<1>2. gone \subseteq deleted /\ hidden \subseteq deleted
  BY <1>1 DEF DInv, DeletionsRecorded, Recorded
<1>3. b.snap.people \in PeopleType /\ b \in BackupType /\ Founderless(b.snap.people)
  BY DEF DInv, AccountTypes, TeamsAccounted, BackupType, SnapType, People
<1>4. AccountTypes'
  BY <1>1, <1>3, RevivedClears DEF DInv, AccountTypes, BackupType, SnapType
<1>5. DeletionsRecorded'
  BY <1>1 DEF DInv, DeletionsRecorded, Recorded
<1>6. people'.users \cap gone = {} /\ people'.users \cap hidden = {} /\ None \notin gone
      /\ \A g \in Guests : people'.of[g] \notin gone
  BY <1>1, <1>2, <1>3, RevivedClears, BackupAssumption DEF DInv, DeletedStay
<1>7. Founderless(people') /\ people' \in PeopleType
      /\ \A u \in Users : u \in hidden => people'.team[u] \in {"none", "hidden"}
  BY <1>1, <1>2, <1>3, RevivedClears DEF Founderless, PeopleType
<1>8. DeletedStay'
  BY <1>1, <1>6, <1>7 DEF DInv, DeletedStay, TeamsAccounted
<1>9. TeamsAccounted'
  BY <1>1, <1>6, <1>7 DEF DInv, TeamsAccounted, Founderless, People
<1> QED BY <1>4, <1>5, <1>8, <1>9 DEF DInv

\* Imports and the daily backup.
LEMMA DeletionOwner ==
    ASSUME DInv, Control(TRUE) \/ Control(FALSE) \/ (\E u \in Units : Import(u)) \/ ContinueImport \/ Open
    PROVE  DInv'
<1>1. UNCHANGED <<people, deleted, request, backups, bundle, moved, today, schema, gone, hidden>>
  BY DEF Control, Import, ContinueImport, Open, accounts, archive, history, Command
<1> DEFINE Rows ==
      /\ unit \in [Units -> UnitRow] /\ shared \in [SharedParts -> {"none", "importing", "ready"}]
      /\ campaign \in {"draft", "active"}
<1>2. Rows'
  <2> USE DEF DInv, AccountTypes, UnitRow
  <2>1. CASE Control(TRUE) \/ Control(FALSE)
    BY <2>1 DEF Control, work
  <2>2. ASSUME NEW u \in Units, Import(u) PROVE Rows'
    <3>1. CompactSize[InputOf[u]] \in Nat
      BY ImportsAssumption
    <3>2. unit' \in [Units -> UnitRow]
      BY <2>2, <3>1 DEF Import, StartImport
    <3> QED BY <2>2, <3>2 DEF Import, StartImport, objects
  <2>3. CASE ReservePart \/ MarkPart
    BY <2>3 DEF ReservePart, MarkPart
  <2>4. CASE WritePart \/ WriteInput
    BY <2>4 DEF WritePart, WriteInput, work
  <2>5. CASE Settle
    <3>1. \A i \in Inputs : SizeOf(i) \in Nat
      BY ImportsAssumption DEF SizeOf
    <3>2. task.unit \in Units => SizeOf(InputOf[task.unit]) \in Nat
      BY <3>1, ImportsAssumption
    <3>3. unit' \in [Units -> UnitRow]
      BY <2>5, <3>2 DEF Settle
    <3> QED BY <2>5, <3>3 DEF Settle
  <2>6. CASE OpenUnit
    <3>1. \A r \in UnitRow : [r EXCEPT !.state = "open"] \in UnitRow
      OBVIOUS
    <3>2. unit' = [unit EXCEPT ![task.unit].state = "open"]
      BY <2>6 DEF OpenUnit
    <3>3. \A v \in Units : unit'[v] \in UnitRow
      BY <3>1, <3>2
    <3> QED BY <2>6, <3>2, <3>3 DEF OpenUnit
  <2>7. CASE Open
    BY <2>7 DEF Open, OpenCampaign
  <2> QED BY <2>1, <2>2, <2>3, <2>4, <2>5, <2>6, <2>7 DEF ContinueImport, ImportStep
<1>3. AccountTypes'
  BY <1>1, <1>2 DEF DInv, AccountTypes
<1> QED BY <1>1, <1>3, DeletionQuiet

LEMMA DeletionDaily ==
    ASSUME DInv, CheckToday \/ WriteToday \/ DeleteOld \/ EndDaily
    PROVE  DInv'
<1>1. Today \in BackupType /\ People(Today) = people
  BY DEF DInv, AccountTypes, Today, Snapshot, BackupType, SnapType, People
<1>2. /\ UNCHANGED <<work, people, deleted, request, bundle, moved, today, schema, gone, hidden>>
      /\ backups' \subseteq backups \cup {Today}
  BY DEF CheckToday, WriteToday, DeleteOld, EndDaily, accounts, archive, history
<1>3. AccountTypes'
  BY <1>1, <1>2 DEF DInv, AccountTypes, work
<1> QED BY <1>1, <1>2, <1>3, DeletionQuiet

LEMMA DeletionWorld ==
    ASSUME DInv, TaskDies \/ DayPasses \/ Migrate
    PROVE  DInv'
<1>1. /\ UNCHANGED <<work, people, deleted, request, backups, bundle, moved, gone, hidden>>
      /\ today' \in Nat /\ schema' \in Nat
  BY DEF TaskDies, DayPasses, Migrate, accounts, archive, history, DInv, AccountTypes
<1>2. AccountTypes'
  BY <1>1 DEF DInv, AccountTypes, work
<1> QED BY <1>1, <1>2, DeletionQuiet

LEMMA DeletionStartDaily ==
    ASSUME DInv, StartDaily
    PROVE  DInv'
<1>1. /\ people' \in PeopleType
      /\ people'.users = people.users /\ people'.of = people.of /\ people'.team = people.team
  <2>1. PICK S \in SUBSET people.sessions, T \in SUBSET people.tokens :
            people' = [people EXCEPT !.sessions = S, !.tokens = T]
    BY DEF StartDaily
  <2> QED BY <2>1 DEF DInv, AccountTypes, PeopleType
<1>2. AccountTypes'
  BY <1>1 DEF DInv, AccountTypes, StartDaily, work, archive
<1>3. DeletionsRecorded' /\ DeletedStay'
  BY <1>1 DEF DInv, DeletionsRecorded, DeletedStay, Recorded, StartDaily, archive, history
<1>4. TeamsAccounted'
  BY <1>1 DEF DInv, TeamsAccounted, Founderless, People, StartDaily, archive, history
<1> QED BY <1>2, <1>3, <1>4 DEF DInv

LEMMA DeletionDisaster ==
    ASSUME DInv, Disaster
    PROVE  DInv'
<1>1. /\ people' = NoPeople /\ deleted' = {} /\ backups' = {} /\ moved' = TRUE /\ request' = None
      /\ gone' = gone \cap bundle.deleted /\ hidden' = hidden \cap bundle.deleted
      /\ UNCHANGED <<bundle, today, schema>> /\ bundle # None
  BY DEF Disaster
<1>2. NoPeople \in PeopleType /\ NoPeople.users = {}
      /\ (\A u \in Users : NoPeople.team[u] = "none") /\ (\A g \in Guests : NoPeople.of[g] = None)
  BY DEF NoPeople, PeopleType
<1>3. unit' \in [Units -> UnitRow] /\ shared' \in [SharedParts -> {"none", "importing", "ready"}]
  BY DEF Disaster, NoUnit, UnitRow
<1>4. AccountTypes'
  BY <1>1, <1>2, <1>3 DEF DInv, AccountTypes, Disaster
<1>5. DeletionsRecorded' /\ DeletedStay'
  BY <1>1, <1>2, BackupAssumption DEF DInv, DeletionsRecorded, DeletedStay, TeamsAccounted, Recorded
<1>6. TeamsAccounted'
  BY <1>1, <1>2 DEF DInv, TeamsAccounted, Founderless, People
<1> QED BY <1>4, <1>5, <1>6 DEF DInv

LEMMA DeletionStep ==
    ASSUME DInv, BackupStep
    PROVE  DInv'
BY DeletionAttach, DeletionCreateTeam, DeletionStart, DeletionUnlink, DeletionRemove, DeletionDies,
   DeletionBackups, DeletionImportObject, DeletionRestore, DeletionOwner, DeletionDaily,
   DeletionWorld, DeletionStartDaily, DeletionDisaster
   DEF BackupStep

\* No step makes a session or proof valid again.
LEMMA NothingRevived ==
    ASSUME DInv, BackupStep
    PROVE  Live' \subseteq Live
<1> DEFINE Shrink == people'.sessions \subseteq people.sessions /\ people'.tokens \subseteq people.tokens
<1> USE DEF DInv, AccountTypes
<1>1. SUFFICES Shrink
  BY DEF Live
<1>2. ASSUME NEW u \in Users,
             CreateTeam(u) \/ StartDeletion(u) \/ \E g \in Guests : Attach(g, u)
      PROVE  Shrink
  BY <1>2 DEF CreateTeam, StartDeletion, Attach, PeopleType
<1>3. CASE UnlinkAccount \/ RemoveAccount
  <2>1. \A D : /\ Unlinked(people, D).sessions = people.sessions
               /\ Unlinked(people, D).tokens \subseteq people.tokens
               /\ WithoutUsers(people, D).sessions \subseteq people.sessions
               /\ WithoutUsers(people, D).tokens = people.tokens
    BY DEF Unlinked, WithoutUsers, PeopleType
  <2> QED BY <1>3, <2>1 DEF UnlinkAccount, RemoveAccount
<1>4. ASSUME NEW b \in backups, Restore(b) PROVE Shrink
  <2>1. b.snap.people \in PeopleType
    BY DEF BackupType, SnapType
  <2> QED BY <1>4, <2>1, RevivedClears DEF Restore
<1>5. CASE StartDaily
  <2>1. PICK S \in SUBSET people.sessions, T \in SUBSET people.tokens :
            people' = [people EXCEPT !.sessions = S, !.tokens = T]
    BY <1>5 DEF StartDaily
  <2> QED BY <2>1 DEF PeopleType
<1>6. CASE Disaster
  BY <1>6 DEF Disaster, NoPeople
<1>7. CASE people' = people
  BY <1>7
<1>8. \/ \E u \in Users : CreateTeam(u) \/ StartDeletion(u) \/ \E g \in Guests : Attach(g, u)
      \/ UnlinkAccount \/ RemoveAccount \/ (\E b \in backups : Restore(b))
      \/ StartDaily \/ Disaster \/ people' = people
  BY DEF BackupStep, RequestDies, WriteBackup, PortableBackup, ImportObject, Control, Import, ContinueImport,
         Open, CheckToday, WriteToday, DeleteOld, EndDaily, TaskDies, DayPasses, Migrate, accounts
<1> QED BY <1>2, <1>3, <1>4, <1>5, <1>6, <1>7, <1>8

\* The inductive invariant of everything that was deleted or revoked.
THEOREM DeletionInvariant == BackupSpec => [](DInv /\ RevokedStay)
<1>1. BackupInit => DInv /\ RevokedStay
  BY DeletionInit DEF BackupInit, RevokedStay
<1>2. DInv /\ RevokedStay /\ [BackupNext]_backup_vars => (DInv /\ RevokedStay)'
  <2> SUFFICES ASSUME DInv, RevokedStay, [BackupNext]_backup_vars
               PROVE  DInv' /\ RevokedStay'
    OBVIOUS
  <2>1. CASE BackupNext
    <3>1. BackupStep /\ revoked' = revoked \cup (Live \ Live')
      BY <2>1 DEF BackupNext
    <3>2. DInv' /\ Live' \subseteq Live
      BY <3>1, DeletionStep, NothingRevived
    <3> QED BY <3>1, <3>2 DEF RevokedStay
  <2>2. CASE UNCHANGED backup_vars
    <3> USE <2>2 DEF backup_vars, work, accounts, archive, history
    <3>1. AccountTypes'
      BY DEF DInv, AccountTypes
    <3>2. DInv'
      BY <3>1, DeletionQuiet
    <3> QED BY <3>2 DEF RevokedStay, Live
  <2> QED BY <2>1, <2>2
<1> QED BY <1>1, <1>2, PTL DEF BackupSpec

\* Whatever is backed up, exported, lost and restored, in whatever order
\* requests and restorations die: deleted accounts, their guests and hidden
\* teams, and revoked sessions and proofs never return (auth.ts, backup.ts).
THEOREM DeletedNeverReturn == BackupSpec => []NothingReturns
<1>1. DInv /\ RevokedStay => NothingReturns
  BY DEF DInv, DeletedStay, RevokedStay, NothingReturns
<1> QED BY <1>1, DeletionInvariant, PTL

-----------------------------------------------------------------------------
(* A usable backup.                                                        *)

Forms == {"compact", "full", None}
ImportTask ==
    [kind : {"import"}, unit : Units, left : Seq(SharedParts),
     at : {"reserve", "write", "mark", "input", "settle", "open"}]
DailyTask == [kind : {"daily"}, day : Nat, at : {"check", "write", "delete"}]

BackupTypes ==
    /\ stored \in [Inputs -> Forms]
    /\ bundle # None => bundle.stored \in [Inputs -> Forms]
    /\ task \in {None} \cup ImportTask \cup DailyTask
    /\ assured \in {None} \cup [schema : Nat, day : Nat]

\* Work can be loaded, and an import knows what it has written.
Stored ==
    /\ \A u \in Units : unit[u].state = "open" => Loadable(InputOf[u])
    /\ \A p \in SharedParts : shared[p] = "ready" => p \in parts
ImportsKnow ==
    /\ Doing("reserve") \/ Doing("write") \/ Doing("mark") => task.left # <<>>
    /\ Doing("mark") => Head(task.left) \in parts
    /\ Doing("open") => Loadable(InputOf[task.unit])

\* Days and schemas only pass; a backup is uploaded when it is written or later.
InTime ==
    /\ assured # None => assured.day <= today /\ assured.schema <= schema
    /\ \A b \in backups : b.day <= b.uploaded
    /\ bundle # None => bundle.backup.day <= today
    /\ task # None /\ task.kind = "daily" =>
           /\ task.day <= today /\ today < task.day + Retention
           /\ assured # None => assured.day <= task.day

BackupsSupported ==
    moved \/ /\ \A b \in backups : Supported(b.snap)
             /\ bundle # None => Supported(bundle.backup.snap)

\* While old backups are deleted, today's is there and is not old.
TodaysIsThere ==
    Daily("delete") =>
        \E b \in backups : b.day >= task.day /\ b.schema = schema /\ b.uploaded >= task.day
AssuredIsThere ==
    assured # None => \E b \in backups : b.day >= assured.day /\ b.schema >= assured.schema

BInv == BackupTypes /\ Stored /\ ImportsKnow /\ InTime /\ BackupsSupported /\ TodaysIsThere /\ AssuredIsThere

\* As objects are only added, what could be loaded still can.
LEMMA LoadableGrows ==
    ASSUME \A i \in Inputs : stored[i] # None => stored'[i] = stored[i],
           parts \subseteq parts'
    PROVE  \A i \in Inputs : Loadable(i) => Loadable(i)'
BY ImportsAssumption DEF Loadable

LEMMA SupportedGrows ==
    ASSUME \A i \in Inputs : stored[i] # None => stored'[i] = stored[i],
           parts \subseteq parts', NEW s, Supported(s)
    PROVE  Supported(s)'
BY LoadableGrows, ImportsAssumption DEF Supported

LEMMA BackupStarts == BackupInit => BInv
<1> SUFFICES ASSUME BackupInit PROVE BInv
  OBVIOUS
<1>1. BackupTypes
  BY DEF BackupInit, ImportsInit, BackupTypes, Forms
<1>2. Stored
  <2>1. \A u \in Units : unit[u].state = "open" => u \in Imported
    BY DEF Imported
  <2>2. \A u \in Imported : stored[InputOf[u]] = "full"
    BY ImportsAssumption DEF BackupInit, ImportsInit, Imported
  <2> QED BY <2>1, <2>2 DEF Stored, Loadable, BackupInit, ImportsInit
<1>3. ~ \E b \in backups : TRUE
  BY DEF BackupInit
<1>4. task = None /\ bundle = None /\ assured = None
  BY DEF BackupInit, ImportsInit
<1> QED
  BY <1>1, <1>2, <1>3, <1>4
     DEF BInv, ImportsKnow, InTime, BackupsSupported, TodaysIsThere, AssuredIsThere,
         Doing, Daily

\* What only volunteers and their requests change is not in the invariant.
LEMMA BackupQuiet ==
    ASSUME DInv, BInv,
           UNCHANGED <<unit, shared, objects, backups, bundle, moved, today, schema, assured>>,
           task' = task \/ task' = None
    PROVE  BInv'
<1> USE DEF BInv, objects
<1>1. BackupTypes' /\ InTime'
  BY DEF BackupTypes, InTime
<1>2. Stored' /\ ImportsKnow'
  BY DEF Stored, Loadable, ImportsKnow, Doing
<1>3. BackupsSupported' /\ TodaysIsThere' /\ AssuredIsThere'
  BY DEF BackupsSupported, Supported, Loadable, TodaysIsThere, AssuredIsThere, Daily
<1> QED BY <1>1, <1>2, <1>3

\* The snapshot taken now is usable.
LEMMA TodayIsUsable ==
    ASSUME Stored
    PROVE  /\ Supported(Today.snap)
           /\ Today.day = today /\ Today.uploaded = today /\ Today.schema = schema
BY DEF Today, Snapshot, Supported, Stored

LEMMA BackupWrites ==
    ASSUME DInv, BInv, WriteBackup \/ PortableBackup
    PROVE  BInv'
<1>1. /\ backups' = backups \cup {Today} /\ task = None
      /\ UNCHANGED <<unit, shared, stored, parts, task, moved, today, schema, assured>>
  BY DEF WriteBackup, PortableBackup, Command, Alone, work, objects
<1>2. /\ Supported(Today.snap) /\ Today.day = today /\ Today.uploaded = today /\ Today.schema = schema
  BY TodayIsUsable DEF BInv
<1>3. Stored' /\ ImportsKnow' /\ TodaysIsThere'
  BY <1>1 DEF BInv, Stored, ImportsKnow, TodaysIsThere, Loadable, Doing, Daily
<1>4. AssuredIsThere'
  BY <1>1 DEF BInv, AssuredIsThere
<1>5. \A s : Supported(s) => Supported(s)'
  BY <1>1 DEF Supported, Loadable
<1>6. CASE bundle' = bundle
  <2>1. BackupTypes' /\ InTime'
    BY <1>1, <1>2, <1>6 DEF BInv, BackupTypes, InTime, DInv, AccountTypes
  <2>2. BackupsSupported'
    BY <1>1, <1>2, <1>5, <1>6 DEF BInv, BackupsSupported
  <2> QED BY <1>3, <1>4, <2>1, <2>2 DEF BInv
<1>7. CASE PortableBackup
  <2>1. bundle'.backup = Today
    BY <1>7 DEF PortableBackup
  <2>2. bundle'.stored \in [Inputs -> Forms]
    BY <1>7 DEF PortableBackup, BInv, BackupTypes, Forms
  <2>3. BackupTypes' /\ InTime'
    BY <1>1, <1>2, <2>1, <2>2 DEF BInv, BackupTypes, InTime, DInv, AccountTypes
  <2>4. BackupsSupported'
    BY <1>1, <1>2, <1>5, <2>1 DEF BInv, BackupsSupported
  <2> QED BY <1>3, <1>4, <2>3, <2>4 DEF BInv
<1> QED BY <1>6, <1>7 DEF WriteBackup

LEMMA BackupImports ==
    ASSUME DInv, BInv, ImportObject
    PROVE  BInv'
<1> DEFINE copy == [bundle.backup EXCEPT !.uploaded = today]
<1>1. /\ UNCHANGED <<unit, shared, task, bundle, moved, today, schema, assured>>
      /\ task = None /\ bundle # None
      /\ backups' = backups \/ backups' = backups \cup {copy}
      /\ parts \subseteq parts'
  BY DEF ImportObject, Alone, work, objects
<1>2. copy.snap = bundle.backup.snap /\ copy.day = bundle.backup.day /\ copy.uploaded = today
  BY <1>1 DEF DInv, AccountTypes, BackupType
<1> HIDE DEF copy
<1>3. /\ stored' \in [Inputs -> Forms]
      /\ \A i \in Inputs : stored[i] # None => stored'[i] = stored[i]
  <2>1. \/ stored' = stored
        \/ \E i \in Inputs : stored[i] = None /\ stored' = [stored EXCEPT ![i] = bundle.stored[i]]
    BY DEF ImportObject, objects
  <2> QED BY <1>1, <2>1 DEF BInv, BackupTypes
<1>4. \A i \in Inputs : Loadable(i) => Loadable(i)'
  BY <1>1, <1>3, LoadableGrows
<1>5. \A s : Supported(s) => Supported(s)'
  BY <1>1, <1>3, SupportedGrows
<1>6. Stored' /\ ImportsKnow' /\ TodaysIsThere'
  BY <1>1, <1>4, ImportsAssumption DEF BInv, Stored, ImportsKnow, TodaysIsThere, Doing, Daily
<1>7. BackupTypes' /\ InTime' /\ AssuredIsThere'
  BY <1>1, <1>2, <1>3 DEF BInv, BackupTypes, InTime, AssuredIsThere
<1>8. BackupsSupported'
  BY <1>1, <1>2, <1>5 DEF BInv, BackupsSupported
<1> QED BY <1>6, <1>7, <1>8 DEF BInv

LEMMA BackupRestores ==
    ASSUME DInv, BInv, NEW b \in backups, Restore(b)
    PROVE  BInv'
<1>1. /\ UNCHANGED <<stored, parts, task, backups, bundle, moved, today, schema, assured>>
      /\ task = None /\ Supported(b.snap)
      /\ unit' = b.snap.unit /\ shared' = b.snap.shared
  BY DEF Restore, Command, Alone, objects
<1>2. Stored'
  BY <1>1 DEF Stored, Supported, Loadable
<1>3. BackupTypes' /\ InTime' /\ ImportsKnow' /\ TodaysIsThere' /\ AssuredIsThere'
  BY <1>1 DEF BInv, BackupTypes, InTime, ImportsKnow, TodaysIsThere, AssuredIsThere, Doing, Daily
<1>4. BackupsSupported'
  BY <1>1 DEF BInv, BackupsSupported, Supported, Loadable
<1> QED BY <1>2, <1>3, <1>4 DEF BInv

\* Imports.  Nothing but rows, objects and the import itself changes.
LEMMA BackupImportSteps ==
    ASSUME DInv, BInv, (\E u \in Units : Import(u)) \/ ContinueImport \/ Open
    PROVE  BInv'
<1>1. UNCHANGED <<backups, bundle, moved, today, schema, assured>>
  BY DEF Import, ContinueImport, Open, archive
<1>2. /\ stored' \in [Inputs -> Forms] /\ parts \subseteq parts'
      /\ \A i \in Inputs : stored[i] # None => stored'[i] = stored[i]
  <2>1. stored' = stored \/ WriteInput
    BY DEF Import, ContinueImport, Open, StartImport, ImportStep, ReservePart, WritePart, MarkPart, Settle,
           OpenUnit, OpenCampaign, objects
  <2>2. parts \subseteq parts'
    BY DEF Import, ContinueImport, Open, StartImport, ImportStep, ReservePart, WritePart, MarkPart, WriteInput,
           Settle, OpenUnit, OpenCampaign, objects
  <2>3. WriteInput => \/ stored' = stored
                    \/ \E i : stored[i] = None /\ stored' = [stored EXCEPT ![i] = "compact"]
    BY DEF WriteInput
  <2> QED BY <2>1, <2>2, <2>3 DEF BInv, BackupTypes, Forms
<1>3. \A i \in Inputs : Loadable(i) => Loadable(i)'
  BY <1>2, LoadableGrows
<1>4. \A s : Supported(s) => Supported(s)'
  BY <1>2, SupportedGrows
<1> DEFINE Progress ==
      /\ task' \in {None} \cup ImportTask
      /\ ImportsKnow'
      /\ \A u \in Units : unit'[u].state = "open" => unit[u].state = "open" \/ Loadable(InputOf[u])
      /\ \A p \in SharedParts : shared'[p] = "ready" => shared[p] = "ready" \/ p \in parts
<1>5. Progress
  <2>1. \A step : Doing(step) => task \in ImportTask
    BY DEF BInv, BackupTypes, Doing, DailyTask
  <2>2. unit \in [Units -> UnitRow] /\ shared \in [SharedParts -> {"none", "importing", "ready"}]
    BY DEF DInv, AccountTypes
  <2>3. ASSUME NEW u \in Units, Import(u) PROVE Progress
    <3>1. PartsOf[InputOf[u]] \in Seq(SharedParts)
      BY ImportsAssumption
    <3>2. \/ task' = None
          \/ /\ task' = [kind |-> "import", unit |-> u, left |-> PartsOf[InputOf[u]],
                         at |-> IF PartsOf[InputOf[u]] = <<>> THEN "input" ELSE "reserve"]
             /\ task' \in ImportTask
      BY <2>3, <3>1 DEF Import, StartImport, ImportTask
    <3>3. \A v \in Units : unit'[v] = unit[v] \/ unit'[v].state = "importing"
      BY <2>2, <2>3 DEF Import, StartImport
    <3>4. shared' = shared
      BY <2>3 DEF Import, StartImport
    <3>5. ImportsKnow'
      BY <3>2 DEF ImportsKnow, Doing
    <3> QED BY <3>2, <3>3, <3>4, <3>5
  <2>4. CASE ReservePart
    <3>1. task \in ImportTask /\ task.left # <<>>
      BY <2>1, <2>4 DEF ReservePart, BInv, ImportsKnow
    <3>2. task' = None \/ task' = [task EXCEPT !.at = "write"]
      BY <2>4 DEF ReservePart, Now
    <3>3. unit' = unit /\ \A p \in SharedParts : shared'[p] = "ready" => shared[p] = "ready"
      BY <2>2, <2>4 DEF ReservePart
    <3>4. task' \in {None} \cup ImportTask /\ ImportsKnow'
      BY <3>1, <3>2 DEF ImportTask, ImportsKnow, Doing
    <3> QED BY <3>3, <3>4
  <2>5. CASE WritePart
    <3>1. task \in ImportTask /\ task.left # <<>>
      BY <2>1, <2>5 DEF WritePart, BInv, ImportsKnow
    <3>2. task' = [task EXCEPT !.at = "mark"] /\ Head(task.left) \in parts' /\ unit' = unit /\ shared' = shared
      BY <2>5 DEF WritePart, Now, work
    <3>3. task' \in ImportTask /\ ImportsKnow'
      BY <3>1, <3>2 DEF ImportTask, ImportsKnow, Doing
    <3> QED BY <3>2, <3>3
  <2>6. CASE MarkPart
    <3>1. task \in ImportTask /\ task.left # <<>> /\ Head(task.left) \in parts
      BY <2>1, <2>6 DEF MarkPart, BInv, ImportsKnow
    <3>2. Tail(task.left) \in Seq(SharedParts)
      BY <3>1 DEF ImportTask
    <3>3. task' = [task EXCEPT !.left = Tail(task.left),
                               !.at = IF Tail(task.left) = <<>> THEN "input" ELSE "reserve"]
          /\ unit' = unit
      BY <2>6 DEF MarkPart, Going
    <3>4. task' \in ImportTask /\ ImportsKnow'
      BY <3>1, <3>2, <3>3 DEF ImportTask, ImportsKnow, Doing
    <3>5. \A p \in SharedParts : shared'[p] = "ready" => shared[p] = "ready" \/ p \in parts
      BY <2>2, <2>6, <3>1 DEF MarkPart
    <3> QED BY <3>3, <3>4, <3>5
  <2>7. CASE WriteInput
    <3>1. task \in ImportTask /\ task' = [task EXCEPT !.at = "settle"] /\ unit' = unit /\ shared' = shared
      BY <2>1, <2>7 DEF WriteInput, Now, work
    <3>2. task' \in ImportTask /\ ImportsKnow'
      BY <3>1 DEF ImportTask, ImportsKnow, Doing
    <3> QED BY <3>1, <3>2
  <2>8. CASE Settle
    <3>1. /\ task \in ImportTask /\ shared' = shared /\ stored' = stored /\ parts' = parts
          /\ \/ task' = None
             \/ task' = [task EXCEPT !.at = "open"] /\ Loadable(InputOf[task.unit])
      BY <2>1, <2>8 DEF Settle, Now, objects
    <3>2. task' \in {None} \cup ImportTask
      BY <3>1 DEF ImportTask
    <3>3. task' # None => task'.unit = task.unit /\ task'.at = "open" /\ Loadable(InputOf[task.unit])'
      BY <3>1 DEF ImportTask, Loadable
    <3>4. ImportsKnow'
      BY <3>3 DEF ImportsKnow, Doing, Loadable
    <3>5. \A v \in Units : unit'[v].state = unit[v].state
      BY <2>2, <2>8 DEF Settle, UnitRow
    <3> QED BY <3>1, <3>2, <3>4, <3>5
  <2>9. CASE OpenUnit
    <3>1. task' = None /\ shared' = shared /\ unit' = [unit EXCEPT ![task.unit].state = "open"]
          /\ Loadable(InputOf[task.unit])
      BY <2>9 DEF OpenUnit, BInv, ImportsKnow
    <3>2. \A v \in Units : unit'[v] = unit[v] \/ v = task.unit
      BY <2>2, <3>1
    <3> QED BY <3>1, <3>2 DEF ImportsKnow, Doing
  <2>10. CASE Open
    BY <2>10 DEF Open, OpenCampaign, Alone, ImportsKnow, Doing
  <2> QED BY <2>3, <2>4, <2>5, <2>6, <2>7, <2>8, <2>9, <2>10 DEF ContinueImport, ImportStep
<1>6. Stored'
  BY <1>2, <1>3, <1>5, ImportsAssumption DEF BInv, Stored
<1>7. BackupTypes' /\ InTime' /\ TodaysIsThere' /\ AssuredIsThere'
  BY <1>1, <1>2, <1>5 DEF BInv, BackupTypes, InTime, TodaysIsThere, AssuredIsThere, Daily, ImportTask
<1>8. BackupsSupported'
  BY <1>1, <1>4 DEF BInv, BackupsSupported
<1> QED BY <1>5, <1>6, <1>7, <1>8 DEF BInv

-----------------------------------------------------------------------------
(* The daily backup and the world.                                         *)

LEMMA BackupStartsDaily ==
    ASSUME DInv, BInv, StartDaily
    PROVE  BInv'
<1>1. /\ task' = [kind |-> "daily", day |-> today, at |-> "check"]
      /\ UNCHANGED <<unit, shared, stored, parts, backups, bundle, moved, today, schema, assured>>
  BY DEF StartDaily, work, objects, archive
<1>2. BackupTypes' /\ InTime'
  BY <1>1, BackupAssumption DEF DInv, AccountTypes, BInv, BackupTypes, InTime, DailyTask
<1>3. Stored' /\ ImportsKnow' /\ BackupsSupported'
  BY <1>1 DEF BInv, Stored, ImportsKnow, BackupsSupported, Supported, Loadable, Doing
<1>4. TodaysIsThere' /\ AssuredIsThere'
  BY <1>1 DEF BInv, TodaysIsThere, AssuredIsThere, Daily
<1> QED BY <1>2, <1>3, <1>4 DEF BInv

LEMMA BackupChecksToday ==
    ASSUME DInv, BInv, CheckToday
    PROVE  BInv'
<1>1. /\ task \in DailyTask /\ task # None
      /\ task' = [task EXCEPT !.at = IF Compatible(task.day) THEN "delete" ELSE "write"]
      /\ UNCHANGED <<unit, shared, stored, parts, backups, bundle, moved, today, schema, assured>>
  BY DEF BInv, BackupTypes, ImportTask, CheckToday, Daily, Now, work, objects, archive
<1>2. /\ task' \in DailyTask /\ task'.day = task.day /\ task'.kind = "daily" /\ task.kind = "daily"
      /\ task'.at = "delete" => Compatible(task.day)
  BY <1>1 DEF DailyTask
<1>3. BackupTypes' /\ InTime'
  BY <1>1, <1>2 DEF BInv, BackupTypes, InTime
<1>4. Stored' /\ ImportsKnow' /\ BackupsSupported'
  BY <1>1, <1>2 DEF BInv, Stored, ImportsKnow, BackupsSupported, Supported, Loadable, Doing
<1>5. TodaysIsThere'
  <2>1. ASSUME Compatible(task.day)
        PROVE  \E b \in backups : b.day >= task.day /\ b.schema = schema /\ b.uploaded >= task.day
    <3>1. PICK b \in backups : b.day = task.day /\ b.schema = schema
      BY <2>1 DEF Compatible
    <3>2. b \in BackupType /\ b.day <= b.uploaded
      BY DEF DInv, AccountTypes, BInv, InTime
    <3> QED BY <3>1, <3>2 DEF BackupType
  <2> QED BY <1>1, <1>2, <2>1 DEF TodaysIsThere, Daily
<1>6. AssuredIsThere'
  BY <1>1 DEF BInv, AssuredIsThere
<1> QED BY <1>3, <1>4, <1>5, <1>6 DEF BInv

LEMMA BackupWritesToday ==
    ASSUME DInv, BInv, WriteToday
    PROVE  BInv'
<1>1. /\ task \in DailyTask /\ task # None /\ task.kind = "daily"
      /\ task' = [task EXCEPT !.at = "delete"]
      /\ backups' = backups \cup {Today}
      /\ UNCHANGED <<unit, shared, stored, parts, bundle, moved, today, schema, assured>>
  BY DEF BInv, BackupTypes, ImportTask, WriteToday, Daily, Now, work, objects
<1>2. task' \in DailyTask /\ task'.day = task.day /\ task'.kind = "daily" /\ task.day \in Nat
  BY <1>1 DEF DailyTask
<1>3. Supported(Today.snap) /\ Today.day = today /\ Today.uploaded = today /\ Today.schema = schema
  BY TodayIsUsable DEF BInv
<1>4. BackupTypes' /\ InTime'
  BY <1>1, <1>2, <1>3 DEF DInv, AccountTypes, BInv, BackupTypes, InTime
<1>5. Stored' /\ ImportsKnow' /\ BackupsSupported'
  BY <1>1, <1>2, <1>3 DEF BInv, Stored, ImportsKnow, BackupsSupported, Supported, Loadable, Doing
<1>6. TodaysIsThere'
  BY <1>1, <1>2, <1>3 DEF DInv, AccountTypes, BInv, InTime, TodaysIsThere
<1>7. AssuredIsThere'
  BY <1>1 DEF BInv, AssuredIsThere
<1> QED BY <1>4, <1>5, <1>6, <1>7 DEF BInv

LEMMA BackupDeletesOld ==
    ASSUME DInv, BInv, DeleteOld
    PROVE  BInv'
<1>1. /\ task \in DailyTask /\ task # None /\ task.kind = "daily" /\ Daily("delete")
      /\ UNCHANGED <<unit, shared, stored, parts, task, bundle, moved, today, schema, assured>>
  BY DEF BInv, BackupTypes, ImportTask, DeleteOld, Daily, work, objects
<1>2. PICK old \in backups : Old(old) /\ backups' = backups \ {old}
  BY DEF DeleteOld
<1>3. PICK new \in backups : new.day >= task.day /\ new.schema = schema /\ new.uploaded >= task.day
  BY <1>1 DEF BInv, TodaysIsThere
<1>4. new # old
  <2>1. new \in BackupType /\ task.day \in Nat /\ today \in Nat /\ Retention \in Nat /\ today < task.day + Retention
    BY <1>1, BackupAssumption DEF DInv, AccountTypes, BInv, InTime, DailyTask
  <2>2. ~(new.uploaded + Retention < today)
    BY <1>3, <2>1 DEF BackupType
  <2> QED BY <1>2, <2>2 DEF Old
<1>5. BackupTypes' /\ InTime' /\ Stored' /\ ImportsKnow'
  BY <1>1, <1>2 DEF BInv, BackupTypes, InTime, Stored, ImportsKnow, Loadable, Doing
<1>6. BackupsSupported'
  BY <1>1, <1>2 DEF BInv, BackupsSupported, Supported, Loadable
<1>7. TodaysIsThere'
  BY <1>1, <1>2, <1>3, <1>4 DEF TodaysIsThere
<1>8. AssuredIsThere'
  <2>1. assured # None => new.day >= assured.day /\ new.schema >= assured.schema
    <3>1. assured # None => assured.day <= task.day /\ assured.schema <= schema
      BY <1>1 DEF BInv, InTime
    <3>2. new \in BackupType /\ task.day \in Nat /\ schema \in Nat
          /\ (assured # None => assured.day \in Nat /\ assured.schema \in Nat)
      BY <1>1 DEF DInv, AccountTypes, BInv, BackupTypes, DailyTask
    <3> QED BY <1>3, <3>1, <3>2 DEF BackupType
  <2> QED BY <1>1, <1>2, <1>4, <2>1 DEF AssuredIsThere
<1> QED BY <1>5, <1>6, <1>7, <1>8 DEF BInv

LEMMA BackupEndsDaily ==
    ASSUME DInv, BInv, EndDaily
    PROVE  BInv'
<1>1. /\ task \in DailyTask /\ task # None /\ task.kind = "daily" /\ Daily("delete")
      /\ task' = None /\ assured' = [schema |-> schema, day |-> task.day]
      /\ UNCHANGED <<unit, shared, stored, parts, backups, bundle, moved, today, schema>>
  BY DEF BInv, BackupTypes, ImportTask, EndDaily, Daily, work, objects
<1>2. BackupTypes' /\ InTime'
  BY <1>1 DEF DInv, AccountTypes, BInv, BackupTypes, InTime, DailyTask
<1>3. Stored' /\ ImportsKnow' /\ BackupsSupported' /\ TodaysIsThere'
  BY <1>1 DEF BInv, Stored, ImportsKnow, BackupsSupported, Supported, Loadable, TodaysIsThere, Doing, Daily
<1>4. AssuredIsThere'
  <2>1. PICK b \in backups : b.day >= task.day /\ b.schema = schema
    BY <1>1 DEF BInv, TodaysIsThere
  <2>2. b.schema >= schema
    BY <2>1 DEF DInv, AccountTypes
  <2> QED BY <1>1, <2>1, <2>2 DEF AssuredIsThere
<1> QED BY <1>2, <1>3, <1>4 DEF BInv

LEMMA BackupWorld ==
    ASSUME DInv, BInv, DayPasses \/ Migrate
    PROVE  BInv'
<1>1. /\ UNCHANGED <<unit, shared, stored, parts, task, backups, bundle, moved, assured>>
      /\ today <= today' /\ schema <= schema' /\ today' \in Nat /\ schema' \in Nat
      /\ task # None => schema' = schema /\ (task.kind = "daily" => today' < task.day + Retention)
  BY BackupAssumption DEF DInv, AccountTypes, BInv, BackupTypes, InTime, DayPasses, Migrate, Alone, DailyTask, ImportTask,
     work, objects
<1>2. BackupTypes'
  BY <1>1 DEF BInv, BackupTypes
<1>3. InTime'
  <2>1. task # None /\ task.kind = "daily" => task.day \in Nat
    BY DEF BInv, BackupTypes, DailyTask, ImportTask
  <2>2. /\ today \in Nat /\ schema \in Nat /\ Retention \in Nat
        /\ bundle # None => bundle.backup.day \in Nat
        /\ assured # None => assured.day \in Nat /\ assured.schema \in Nat
    BY BackupAssumption DEF DInv, AccountTypes, BackupType, BInv, BackupTypes
  <2> QED BY <1>1, <2>1, <2>2 DEF BInv, InTime
<1>4. Stored' /\ ImportsKnow' /\ BackupsSupported' /\ TodaysIsThere' /\ AssuredIsThere'
  BY <1>1 DEF BInv, Stored, ImportsKnow, BackupsSupported, Supported, Loadable, TodaysIsThere, AssuredIsThere,
              Doing, Daily
<1> QED BY <1>2, <1>3, <1>4 DEF BInv

LEMMA BackupDisaster ==
    ASSUME DInv, BInv, Disaster
    PROVE  BInv'
<1>1. /\ task' = None /\ assured' = None /\ backups' = {} /\ moved' = TRUE
      /\ stored' = [i \in Inputs |-> None]
      /\ unit' = [u \in Units |-> NoUnit] /\ shared' = [p \in SharedParts |-> "none"]
      /\ UNCHANGED <<bundle, today, schema>>
  BY DEF Disaster
<1>2. BackupTypes' /\ InTime'
  BY <1>1 DEF BInv, BackupTypes, InTime, Forms
<1>3. Stored'
  BY <1>1 DEF Stored, NoUnit
<1> QED
  BY <1>1, <1>2, <1>3
     DEF BInv, ImportsKnow, BackupsSupported, TodaysIsThere, AssuredIsThere, Doing, Daily

LEMMA BackupStepKeeps ==
    ASSUME DInv, BInv, BackupStep
    PROVE  BInv'
<1>1. CASE \E u \in Users : CreateTeam(u) \/ StartDeletion(u) \/ \E g \in Guests : Attach(g, u)
  BY <1>1, BackupQuiet DEF CreateTeam, StartDeletion, Attach, work, archive
<1>2. CASE UnlinkAccount \/ RemoveAccount \/ RequestDies
  BY <1>2, BackupQuiet DEF UnlinkAccount, RemoveAccount, RequestDies, work, archive
<1>3. CASE TaskDies \/ \E on \in BOOLEAN : Control(on)
  BY <1>3, BackupQuiet DEF TaskDies, Control, work, archive
<1> QED
  BY <1>1, <1>2, <1>3, BackupWrites, BackupImports, BackupRestores, BackupImportSteps, BackupStartsDaily,
     BackupChecksToday, BackupWritesToday, BackupDeletesOld, BackupEndsDaily, BackupWorld, BackupDisaster
     DEF BackupStep

\* The inductive invariant of backups, beside that of deletions.
THEOREM BackupInvariant == BackupSpec => [](DInv /\ BInv)
<1>1. BackupInit => DInv /\ BInv
  BY DeletionInit, BackupStarts
<1>2. DInv /\ BInv /\ [BackupNext]_backup_vars => (DInv /\ BInv)'
  <2> SUFFICES ASSUME DInv, BInv, [BackupNext]_backup_vars
               PROVE  DInv' /\ BInv'
    OBVIOUS
  <2>1. CASE BackupNext
    BY <2>1, DeletionStep, BackupStepKeeps DEF BackupNext
  <2>2. CASE UNCHANGED backup_vars
    <3> USE <2>2 DEF backup_vars, work, accounts, archive, history
    <3>1. AccountTypes'
      BY DEF DInv, AccountTypes
    <3> QED BY <3>1, DeletionQuiet, BackupQuiet
  <2> QED BY <2>1, <2>2
<1> QED BY <1>1, <1>2, PTL DEF BackupSpec

\* Whatever backup, clean-up, import or restoration dies after a daily backup
\* has succeeded, a backup at least as recent is there, of a schema at least as
\* new, and with all its inputs stored (maintainBackups in backup.ts).
THEOREM AssuredBackupStays == BackupSpec => []ABackupStays
<1>1. BInv => ABackupStays
  BY DEF BInv, AssuredIsThere, BackupsSupported, ABackupStays
<1> QED BY <1>1, BackupInvariant, PTL

\* Whatever imports die and whatever is restored, work that may be handed out
\* can be loaded (addUnit, loadInput and restoreSnapshot).
THEOREM WorkIsLoadable == BackupSpec => []Stored
<1>1. BInv => Stored
  BY DEF BInv
<1> QED BY <1>1, BackupInvariant, PTL

-----------------------------------------------------------------------------
(* Storage: no import, restoration or move lets the rows reserve more than *)
(* the limit or opens a campaign over a half imported unit.                *)

Held(units, objs, status) ==
    /\ Reserves(units, objs) <= MaxInputStorage
    /\ status = "active" => \A u \in Units : units[u].state # "importing"
HeldIn(s) == Held(s.unit, s.shared, s.campaign)

StorageHeld ==
    /\ Held(unit, shared, campaign)
    /\ \A b \in backups : HeldIn(b.snap)
    /\ bundle # None => HeldIn(bundle.backup.snap)

\* An import holds a row that waits for it, and the part it writes is reserved.
ImportsHold ==
    task # None /\ task.kind = "import" =>
        /\ campaign = "draft" /\ unit[task.unit].state = "importing"
        /\ task.at \in {"write", "mark"} => shared[Head(task.left)] # "none"

SInv == StorageHeld /\ ImportsHold

LEMMA ReservesNumbers ==
    ASSUME NEW units \in [Units -> UnitRow], NEW objs
    PROVE  /\ UnitBytes(units) \in [Units -> Nat] /\ SharedBytes(objs) \in [SharedParts -> Nat]
           /\ Total(UnitBytes(units)) \in Nat /\ Total(SharedBytes(objs)) \in Nat
           /\ IsFiniteSet(Units) /\ IsFiniteSet(SharedParts)
<1>1. UnitBytes(units) \in [Units -> Nat] /\ SharedBytes(objs) \in [SharedParts -> Nat]
  BY ImportsAssumption DEF UnitBytes, SharedBytes, UnitRow
<1>2. IsFiniteSet(Units) /\ IsFiniteSet(SharedParts)
  BY ImportsAssumption
<1> QED BY <1>1, <1>2, PairsFinite

\* The row of one unit changes.
LEMMA UnitReserves ==
    ASSUME NEW f \in [Units -> UnitRow], NEW g \in [Units -> UnitRow], NEW u \in Units, NEW objs,
           \A v \in Units \ {u} : g[v].bytes = f[v].bytes
    PROVE  Reserves(g, objs) + f[u].bytes = Reserves(f, objs) + g[u].bytes
<1>1. Total(UnitBytes(g)) + UnitBytes(f)[u] = Total(UnitBytes(f)) + UnitBytes(g)[u]
  <2>1. \A v \in Units \ {u} : UnitBytes(g)[v] = UnitBytes(f)[v]
    BY DEF UnitBytes
  <2>2. UnitBytes(f) \in [Units -> Nat] /\ UnitBytes(g) \in [Units -> Nat] /\ IsFiniteSet(Units)
    BY ReservesNumbers
  <2> QED BY <2>1, <2>2, TotalSets
<1>2. UnitBytes(f)[u] = f[u].bytes /\ UnitBytes(g)[u] = g[u].bytes /\ f[u].bytes \in Nat /\ g[u].bytes \in Nat
  BY DEF UnitBytes, UnitRow
<1>3. /\ Total(UnitBytes(f)) \in Nat /\ Total(UnitBytes(g)) \in Nat
      /\ Total(SharedBytes(objs)) \in Nat
  BY ReservesNumbers
<1> QED BY <1>1, <1>2, <1>3 DEF Reserves

\* A shared part is reserved.
LEMMA PartReserves ==
    ASSUME NEW units \in [Units -> UnitRow], NEW p \in SharedParts,
           NEW f \in [SharedParts -> {"none", "importing", "ready"}],
           NEW g \in [SharedParts -> {"none", "importing", "ready"}],
           f[p] = "none", g[p] # "none", \A q \in SharedParts \ {p} : g[q] = f[q]
    PROVE  Reserves(units, g) = Reserves(units, f) + PartSize[p]
<1>1. Total(SharedBytes(g)) = Total(SharedBytes(f)) + PartSize[p]
  <2>1. /\ SharedBytes(g)[p] = SharedBytes(f)[p] + PartSize[p]
        /\ \A q \in SharedParts \ {p} : SharedBytes(g)[q] = SharedBytes(f)[q]
    BY ImportsAssumption DEF SharedBytes
  <2>2. SharedBytes(f) \in [SharedParts -> Nat] /\ SharedBytes(g) \in [SharedParts -> Nat]
        /\ IsFiniteSet(SharedParts) /\ PartSize[p] \in Nat
    BY ReservesNumbers, ImportsAssumption
  <2> QED BY <2>1, <2>2, TotalAdds
<1>2. /\ Total(UnitBytes(units)) \in Nat /\ PartSize[p] \in Nat
      /\ Total(SharedBytes(f)) \in Nat /\ Total(SharedBytes(g)) \in Nat
  BY ReservesNumbers, ImportsAssumption
<1> QED BY <1>1, <1>2 DEF Reserves

LEMMA SameReserves ==
    ASSUME NEW units, NEW f \in [SharedParts -> {"none", "importing", "ready"}],
           NEW g \in [SharedParts -> {"none", "importing", "ready"}],
           \A p \in SharedParts : g[p] = "none" <=> f[p] = "none"
    PROVE  Reserves(units, g) = Reserves(units, f)
<1>1. SharedBytes(g) = SharedBytes(f)
  BY DEF SharedBytes
<1> QED BY <1>1 DEF Reserves

\* After the provider is lost nothing is reserved.
LEMMA NothingReserved ==
    Reserves([u \in Units |-> NoUnit], [p \in SharedParts |-> "none"]) = 0
<1> DEFINE f == UnitBytes([u \in Units |-> NoUnit])
           g == SharedBytes([p \in SharedParts |-> "none"])
<1>1. f \in [Units -> Nat] /\ \A u \in Units : f[u] = 0
  BY DEF UnitBytes, NoUnit
<1>2. g \in [SharedParts -> Nat] /\ \A p \in SharedParts : g[p] = 0
  BY DEF SharedBytes
<1> HIDE DEF f, g
<1>3. Total(f) = 0 /\ Total(g) = 0
  BY <1>1, <1>2, TotalZero
<1> QED BY <1>3 DEF Reserves, f, g

LEMMA StorageStarts == BackupInit => SInv
<1> SUFFICES ASSUME BackupInit PROVE SInv
  OBVIOUS
<1>1. Used <= MaxInputStorage /\ campaign = "draft" /\ task = None /\ backups = {} /\ bundle = None
  BY DEF BackupInit, ImportsInit
<1> QED BY <1>1 DEF SInv, StorageHeld, Held, ImportsHold, Used

\* Rows that rest, and snapshots of them.
LEMMA StorageQuiet ==
    ASSUME SInv, UNCHANGED <<unit, shared, campaign>>,
           \/ task' = task
           \/ task' = None
           \/ task'.kind # "import",
           \A b \in backups' : \/ b \in backups
                               \/ b.snap = Snapshot
                               \/ bundle # None /\ b.snap = bundle.backup.snap,
           bundle' = bundle \/ bundle'.backup.snap = Snapshot
    PROVE  SInv'
<1>1. HeldIn(Snapshot)
  BY DEF SInv, StorageHeld, HeldIn, Snapshot
<1>2. StorageHeld'
  <2>1. ASSUME NEW s, HeldIn(s) PROVE HeldIn(s)'
    BY <2>1 DEF HeldIn, Held, Reserves, UnitBytes, SharedBytes
  <2>2. Held(unit, shared, campaign)'
    BY DEF SInv, StorageHeld, Held
  <2>3. \A b \in backups' : HeldIn(b.snap)
    BY <1>1 DEF SInv, StorageHeld
  <2>4. bundle' # None => HeldIn(bundle'.backup.snap)
    BY <1>1 DEF SInv, StorageHeld
  <2> QED BY <2>2, <2>3, <2>4 DEF StorageHeld
<1>3. ImportsHold'
  BY DEF SInv, ImportsHold
<1> QED BY <1>2, <1>3 DEF SInv

\* Rows that change, while the snapshots rest.
LEMMA StorageRows ==
    ASSUME SInv, UNCHANGED <<backups, bundle>>, Held(unit, shared, campaign)', ImportsHold'
    PROVE  SInv'
<1>1. (\A b \in backups' : HeldIn(b.snap)) /\ (bundle' # None => HeldIn(bundle'.backup.snap))
  BY DEF SInv, StorageHeld
<1> QED BY <1>1 DEF SInv, StorageHeld

LEMMA StorageImport ==
    ASSUME DInv, DInv', BInv, SInv, NEW u \in Units, Import(u)
    PROVE  SInv'
<1> DEFINE size == CompactSize[InputOf[u]]
<1>1. /\ campaign = "draft" /\ campaign' = "draft" /\ shared' = shared
      /\ UNCHANGED <<backups, bundle>>
      /\ \/ unit' = unit
         \/ /\ unit[u].state = "none" /\ Used + size <= MaxInputStorage
            /\ unit' = [unit EXCEPT ![u] = [state |-> "importing", bytes |-> size]]
      /\ \/ task' = None
         \/ unit'[u].state = "importing" /\ task'.unit = u /\ task'.at \in {"input", "reserve"}
  BY DEF Import, StartImport
<1>2. unit \in [Units -> UnitRow] /\ unit' \in [Units -> UnitRow] /\ size \in Nat
  BY ImportsAssumption DEF DInv, AccountTypes
<1>3. ImportsHold'
  BY <1>1 DEF ImportsHold
<1>4. Reserves(unit', shared) <= MaxInputStorage
  <2>1. CASE unit' = unit
    BY <2>1 DEF SInv, StorageHeld, Held
  <2>2. CASE unit' # unit
    <3>1. unit'[u].bytes = size /\ unit[u].bytes \in Nat
          /\ \A v \in Units \ {u} : unit'[v].bytes = unit[v].bytes
      BY <1>1, <1>2, <2>2 DEF UnitRow
    <3>2. Reserves(unit', shared) + unit[u].bytes = Reserves(unit, shared) + size
      BY <1>2, <3>1, UnitReserves
    <3>3. Reserves(unit, shared) \in Nat /\ Reserves(unit', shared) \in Nat
      BY <1>2, ReservesNumbers DEF Reserves
    <3>4. Reserves(unit, shared) + size <= MaxInputStorage /\ MaxInputStorage \in Nat
      BY <1>1, <2>2, ImportsAssumption DEF Used
    <3> HIDE DEF size
    <3> QED BY <1>2, <3>1, <3>2, <3>3, <3>4
  <2> QED BY <2>1, <2>2
<1>5. Held(unit, shared, campaign)'
  BY <1>1, <1>4 DEF Held
<1> QED BY <1>1, <1>3, <1>5, StorageRows

LEMMA StorageImportSteps ==
    ASSUME DInv, DInv', BInv, SInv, ContinueImport
    PROVE  SInv'
<1>1. /\ task \in ImportTask /\ task # None /\ task.kind = "import"
      /\ task.unit \in Units /\ campaign = "draft" /\ unit[task.unit].state = "importing"
  BY DEF ContinueImport, ImportStep, ReservePart, WritePart, MarkPart, WriteInput, Settle, OpenUnit, Doing,
         BInv, BackupTypes, DailyTask, ImportTask, SInv, ImportsHold
<1>2. UNCHANGED <<backups, bundle>>
  BY DEF ContinueImport, archive
<1>3. /\ unit \in [Units -> UnitRow] /\ unit' \in [Units -> UnitRow]
      /\ shared \in [SharedParts -> {"none", "importing", "ready"}]
      /\ shared' \in [SharedParts -> {"none", "importing", "ready"}]
  BY DEF DInv, AccountTypes
<1>4. Reserves(unit, shared) <= MaxInputStorage
  BY DEF SInv, StorageHeld, Held
<1> DEFINE Good == /\ campaign' = "draft" /\ Reserves(unit', shared') <= MaxInputStorage
                   /\ ImportsHold'
<1>5. ASSUME ReservePart PROVE Good
  <2> DEFINE p == Head(task.left)
  <2>1. /\ p \in SharedParts /\ unit' = unit /\ campaign' = campaign
        /\ \/ shared' = shared
           \/ /\ shared[p] = "none" /\ Used + PartSize[p] <= MaxInputStorage
              /\ shared' = [shared EXCEPT ![p] = "importing"]
        /\ \/ task' = None
           \/ shared'[p] # "none" /\ task' = [task EXCEPT !.at = "write"]
    <3>1. task.left # <<>> /\ task.left \in Seq(SharedParts)
      BY <1>1, <1>5 DEF ReservePart, BInv, ImportsKnow, ImportTask
    <3> QED BY <3>1, <1>5 DEF ReservePart, Now
  <2>2. task' = None \/ (task'.unit = task.unit /\ task'.left = task.left /\ shared'[p] # "none")
    BY <1>1, <2>1 DEF ImportTask
  <2>3. ImportsHold'
    BY <1>1, <2>1, <2>2 DEF ImportsHold
  <2>4. Reserves(unit, shared') <= MaxInputStorage
    <3>1. CASE shared' = shared
      BY <1>4, <3>1
    <3>2. CASE shared' # shared
      <4>1. shared[p] = "none" /\ shared'[p] # "none" /\ \A q \in SharedParts \ {p} : shared'[q] = shared[q]
        BY <1>3, <2>1, <3>2
      <4>2. Reserves(unit, shared') = Reserves(unit, shared) + PartSize[p]
        BY <1>3, <2>1, <4>1, PartReserves
      <4> QED BY <2>1, <3>2, <4>2 DEF Used
    <3> QED BY <3>1, <3>2
  <2> QED BY <1>1, <2>1, <2>3, <2>4
<1>6. ASSUME WritePart PROVE Good
  <2>1. /\ task' = [task EXCEPT !.at = "mark"] /\ UNCHANGED work
        /\ task.at = "write"
    BY <1>6 DEF WritePart, Now, Doing
  <2>2. task'.unit = task.unit /\ task'.left = task.left /\ shared[Head(task.left)] # "none"
    BY <1>1, <2>1 DEF ImportTask, SInv, ImportsHold
  <2>3. ImportsHold'
    BY <1>1, <2>1, <2>2 DEF ImportsHold, work
  <2> QED BY <1>1, <1>4, <2>1, <2>3 DEF work
<1>7. ASSUME MarkPart PROVE Good
  <2> DEFINE p == Head(task.left)
  <2>1. /\ shared' = [shared EXCEPT ![p] = "ready"] /\ UNCHANGED <<unit, campaign>>
        /\ task' = Going(Tail(task.left)) /\ task.at = "mark"
    BY <1>7 DEF MarkPart, Doing
  <2>2. task'.unit = task.unit /\ task'.at \in {"input", "reserve"} /\ shared[p] # "none"
    BY <1>1, <2>1 DEF ImportTask, SInv, ImportsHold, Going
  <2>3. ImportsHold'
    BY <1>1, <2>1, <2>2 DEF ImportsHold
  <2>4. \A q \in SharedParts : shared'[q] = "none" <=> shared[q] = "none"
    BY <1>3, <2>1, <2>2
  <2>5. Reserves(unit, shared') = Reserves(unit, shared)
    BY <1>3, <2>4, SameReserves
  <2> QED BY <1>1, <1>4, <2>1, <2>3, <2>5
<1>8. ASSUME WriteInput PROVE Good
  <2>1. task' = [task EXCEPT !.at = "settle"] /\ UNCHANGED work
    BY <1>8 DEF WriteInput, Now
  <2>2. task'.unit = task.unit /\ task'.at = "settle"
    BY <1>1, <2>1 DEF ImportTask
  <2>3. ImportsHold'
    BY <1>1, <2>1, <2>2 DEF ImportsHold, work
  <2> QED BY <1>1, <1>4, <2>1, <2>3 DEF work
<1>9. ASSUME Settle PROVE Good
  <2> DEFINE u == task.unit
             size == SizeOf(InputOf[u])
  <2>1. /\ UNCHANGED <<shared, campaign>>
        /\ \/ unit' = unit /\ task' = None
           \/ /\ unit' = [unit EXCEPT ![u].bytes = size] /\ task' = [task EXCEPT !.at = "open"]
              /\ Used - unit[u].bytes + size <= MaxInputStorage
    BY <1>9 DEF Settle, Now
  <2>2. size \in Nat /\ u \in Units /\ unit[u].bytes \in Nat
    BY <1>1, <1>3, ImportsAssumption DEF SizeOf, UnitRow
  <2> HIDE DEF size
  <2>3. task' = None \/ (task'.unit = u /\ task'.at = "open")
    BY <1>1, <2>1 DEF ImportTask
  <2>4. unit'[u].state = "importing"
    BY <1>1, <1>3, <2>1 DEF UnitRow
  <2>5. ImportsHold'
    BY <1>1, <2>1, <2>3, <2>4 DEF ImportsHold
  <2>6. Reserves(unit', shared) <= MaxInputStorage
    <3>1. CASE unit' = unit
      BY <1>4, <3>1
    <3>2. CASE unit' # unit
      <4>1. unit'[u].bytes = size /\ \A v \in Units \ {u} : unit'[v].bytes = unit[v].bytes
        BY <1>3, <2>1, <2>2, <3>2 DEF UnitRow
      <4>2. Reserves(unit', shared) + unit[u].bytes = Reserves(unit, shared) + size
        BY <1>3, <2>2, <4>1, UnitReserves
      <4>3. Reserves(unit, shared) \in Nat /\ Reserves(unit', shared) \in Nat
        BY <1>3, ReservesNumbers DEF Reserves
      <4>4. Reserves(unit, shared) - unit[u].bytes + size <= MaxInputStorage /\ MaxInputStorage \in Nat
        BY <2>1, <3>2, ImportsAssumption DEF Used
      <4> HIDE DEF u
      <4> QED BY <2>2, <4>2, <4>3, <4>4
    <3> QED BY <3>1, <3>2
  <2> QED BY <1>1, <2>1, <2>5, <2>6
<1>10. ASSUME OpenUnit PROVE Good
  <2> DEFINE u == task.unit
  <2>1. unit' = [unit EXCEPT ![u].state = "open"] /\ task' = None /\ UNCHANGED <<shared, campaign>>
    BY <1>10 DEF OpenUnit
  <2>2. ImportsHold'
    BY <2>1 DEF ImportsHold
  <2>3. \A v \in Units : unit'[v].bytes = unit[v].bytes
    BY <1>1, <1>3, <2>1 DEF UnitRow
  <2>4. UnitBytes(unit') = UnitBytes(unit)
    BY <2>3 DEF UnitBytes
  <2> QED BY <1>1, <1>4, <2>1, <2>2, <2>4 DEF Reserves
<1>11. Good
  BY <1>5, <1>6, <1>7, <1>8, <1>9, <1>10 DEF ContinueImport, ImportStep
<1>12. Held(unit, shared, campaign)'
  BY <1>11 DEF Held
<1> QED BY <1>2, <1>11, <1>12, StorageRows

LEMMA StorageOpens ==
    ASSUME DInv, SInv, Open
    PROVE  SInv'
<1>1. /\ UNCHANGED <<unit, shared, task, backups, bundle>> /\ task = None
      /\ \A u \in Units : unit[u].state # "importing"
  BY DEF Open, OpenCampaign, Alone, archive
<1>2. ImportsHold'
  BY <1>1 DEF ImportsHold
<1>3. Held(unit, shared, campaign)'
  BY <1>1 DEF SInv, StorageHeld, Held
<1> QED BY <1>1, <1>2, <1>3, StorageRows

LEMMA StorageRestores ==
    ASSUME SInv, NEW b \in backups, Restore(b)
    PROVE  SInv'
<1>1. /\ UNCHANGED <<task, backups, bundle>> /\ task = None
      /\ unit' = b.snap.unit /\ shared' = b.snap.shared /\ campaign' = b.snap.campaign
  BY DEF Restore, Command, Alone
<1>2. ImportsHold'
  BY <1>1 DEF ImportsHold
<1>3. Held(unit', shared', campaign')
  BY <1>1 DEF SInv, StorageHeld, HeldIn
<1> QED BY <1>1, <1>2, <1>3, StorageRows

LEMMA StorageLost ==
    ASSUME SInv, Disaster
    PROVE  SInv'
<1>1. /\ backups' = {} /\ bundle' = bundle /\ task' = None /\ campaign' = "draft"
      /\ unit' = [u \in Units |-> NoUnit] /\ shared' = [p \in SharedParts |-> "none"]
  BY DEF Disaster
<1>2. Reserves(unit', shared') <= MaxInputStorage
  BY <1>1, NothingReserved, ImportsAssumption
<1>3. Held(unit', shared', campaign')
  BY <1>1, <1>2 DEF Held
<1>4. (bundle' # None => HeldIn(bundle'.backup.snap)) /\ ImportsHold'
  BY <1>1 DEF SInv, StorageHeld, ImportsHold
<1> QED BY <1>1, <1>3, <1>4 DEF SInv, StorageHeld

LEMMA StorageStep ==
    ASSUME DInv, DInv', BInv, SInv, BackupStep
    PROVE  SInv'
<1>1. CASE \/ \E u \in Users : CreateTeam(u) \/ StartDeletion(u) \/ \E g \in Guests : Attach(g, u)
           \/ UnlinkAccount \/ RemoveAccount \/ RequestDies \/ TaskDies \/ DayPasses \/ Migrate
           \/ \E on \in BOOLEAN : Control(on)
  <2>1. UNCHANGED <<unit, shared, campaign, backups, bundle>> /\ (task' = task \/ task' = None)
    BY <1>1 DEF CreateTeam, StartDeletion, Attach, UnlinkAccount, RemoveAccount, RequestDies, TaskDies,
                DayPasses, Migrate, Control, work, archive
  <2> QED BY <2>1, StorageQuiet
<1>2. CASE WriteBackup \/ PortableBackup
  <2>1. /\ UNCHANGED <<unit, shared, campaign, task>> /\ backups' = backups \cup {Today}
        /\ bundle' = bundle \/ bundle'.backup = Today
    BY <1>2 DEF WriteBackup, PortableBackup, work
  <2>2. Today.snap = Snapshot
    BY DEF Today
  <2> QED BY <2>1, <2>2, StorageQuiet
<1>3. CASE ImportObject
  <2> DEFINE copy == [bundle.backup EXCEPT !.uploaded = today]
  <2>1. /\ UNCHANGED <<unit, shared, campaign, task, bundle>> /\ bundle # None
        /\ backups' = backups \/ backups' = backups \cup {copy}
    BY <1>3 DEF ImportObject, work
  <2>2. copy.snap = bundle.backup.snap
    BY <2>1 DEF DInv, AccountTypes, BackupType
  <2> QED BY <2>1, <2>2, StorageQuiet
<1>4. CASE StartDaily \/ CheckToday \/ WriteToday \/ DeleteOld \/ EndDaily
  <2>1. UNCHANGED <<unit, shared, campaign, bundle>> /\ backups' \subseteq backups \cup {Today}
    BY <1>4 DEF StartDaily, CheckToday, WriteToday, DeleteOld, EndDaily, work, archive
  <2>2. task' = task \/ task' = None \/ task'.kind # "import"
    <3>1. CASE StartDaily
      BY <3>1 DEF StartDaily
    <3>2. CASE CheckToday \/ WriteToday
      <4>1. task \in DailyTask
        BY <3>2 DEF CheckToday, WriteToday, Daily, BInv, BackupTypes, ImportTask
      <4>2. task' = [task EXCEPT !.at = "write"] \/ task' = [task EXCEPT !.at = "delete"]
        BY <3>2 DEF CheckToday, WriteToday, Now
      <4> QED BY <4>1, <4>2 DEF DailyTask
    <3>3. CASE DeleteOld \/ EndDaily
      BY <3>3 DEF DeleteOld, EndDaily
    <3> QED BY <1>4, <3>1, <3>2, <3>3
  <2>3. Today.snap = Snapshot
    BY DEF Today
  <2> QED BY <2>1, <2>2, <2>3, StorageQuiet
<1> QED
  BY <1>1, <1>2, <1>3, <1>4, StorageImport, StorageImportSteps, StorageOpens, StorageRestores, StorageLost
     DEF BackupStep

\* The inductive invariant of storage, beside that of backups.
THEOREM StorageInvariant == BackupSpec => []SInv
<1>1. DInv /\ DInv' /\ BInv /\ SInv /\ [BackupNext]_backup_vars => SInv'
  <2> SUFFICES ASSUME DInv, DInv', BInv, SInv, [BackupNext]_backup_vars
               PROVE  SInv'
    OBVIOUS
  <2>1. CASE BackupNext
    BY <2>1, StorageStep DEF BackupNext
  <2>2. CASE UNCHANGED backup_vars
    BY <2>2, StorageQuiet DEF backup_vars, work, archive
  <2> QED BY <2>1, <2>2
<1> QED BY <1>1, StorageStarts, BackupInvariant, PTL DEF BackupSpec

-----------------------------------------------------------------------------
(* Sizes: an open unit reserves what is stored for it, also after a move,  *)
(* when the form that returns may be that of another release.              *)

\* What shortening an input is for; compactInput itself does not compare.
CompactIsSmaller == \A i \in Inputs : CompactSize[i] <= FullSize[i]

\* A row covers the compact form, and the full one where that is kept.
Covers(bytes, i, form) == CompactSize[i] <= bytes /\ (form = "full" => FullSize[i] <= bytes)
Fits(units, forms) ==
    \A u \in Units : units[u].state = "open" => Covers(units[u].bytes, InputOf[u], forms[InputOf[u]])
Known(units) == \A u \in Units : units[u].state = "open" => stored[InputOf[u]] # None

\* Rows fit what is stored now, and those of the bundle what it brings back; an
\* input that is still on its way is one of the bundle.
FitInv ==
    /\ Fits(unit, stored)
    /\ Doing("open") => Covers(unit[task.unit].bytes, InputOf[task.unit], stored[InputOf[task.unit]])
    /\ \A b \in backups : /\ Fits(b.snap.unit, stored)
                           /\ \/ Known(b.snap.unit)
                              \/ bundle # None /\ b.snap = bundle.backup.snap
    /\ bundle # None => /\ Fits(bundle.backup.snap.unit, stored)
                        /\ Fits(bundle.backup.snap.unit, bundle.stored)

LEMMA FitStarts == ASSUME CompactIsSmaller, BackupInit PROVE FitInv
<1>1. \A u \in Units : unit[u].state = "open" => unit[u].bytes = FullSize[InputOf[u]]
  BY DEF BackupInit, ImportsInit, Imported
<1>2. \A u \in Units : InputOf[u] \in Inputs /\ FullSize[InputOf[u]] \in Nat /\ CompactSize[InputOf[u]] \in Nat
                       /\ CompactSize[InputOf[u]] <= FullSize[InputOf[u]]
  BY ImportsAssumption DEF CompactIsSmaller
<1>3. Fits(unit, stored)
  BY <1>1, <1>2 DEF Fits, Covers
<1>4. task = None /\ backups = {} /\ bundle = None
  BY DEF BackupInit, ImportsInit
<1> QED BY <1>3, <1>4 DEF FitInv, Doing

\* Open rows and forms that rest, and snapshots of them.
LEMMA FitQuiet ==
    ASSUME BInv, FitInv, UNCHANGED <<stored, bundle>>,
           \A u \in Units : unit'[u].state = "open" => unit'[u] = unit[u],
           Doing("open")' => Doing("open") /\ task' = task /\ unit' = unit,
           \A b \in backups' : \/ b \in backups
                               \/ b.snap = Snapshot
                               \/ bundle # None /\ b.snap = bundle.backup.snap
    PROVE  FitInv'
<1>1. Fits(unit, stored)'
  BY DEF FitInv, Fits
<1>2. Doing("open")' => Covers(unit[task.unit].bytes, InputOf[task.unit], stored[InputOf[task.unit]])'
  BY DEF FitInv
<1>3. Snapshot.unit = unit /\ Known(unit)
  BY ImportsAssumption DEF Snapshot, Known, BInv, Stored, Loadable
<1>4. \A b \in backups' : /\ Fits(b.snap.unit, stored)
                          /\ \/ Known(b.snap.unit)
                             \/ bundle # None /\ b.snap = bundle.backup.snap
  BY <1>3 DEF FitInv
<1>5. \A b \in backups' : /\ Fits(b.snap.unit, stored)'
                          /\ \/ Known(b.snap.unit)'
                             \/ bundle' # None /\ b.snap = bundle'.backup.snap
  BY <1>4 DEF Fits, Known
<1>6. bundle' # None => /\ Fits(bundle'.backup.snap.unit, stored')
                        /\ Fits(bundle'.backup.snap.unit, bundle'.stored)
  BY DEF FitInv
<1> QED BY <1>1, <1>2, <1>5, <1>6 DEF FitInv

\* The export holds the form that each open row fits.
LEMMA FitExports ==
    ASSUME BInv, FitInv, PortableBackup
    PROVE  FitInv'
<1>1. /\ UNCHANGED <<unit, stored, task>> /\ task = None /\ ~moved
      /\ backups' = backups \cup {Today} /\ bundle'.backup = Today /\ Today.snap.unit = unit
      /\ bundle'.stored = [i \in Inputs |->
                             IF \E u \in Units : unit[u].state = "open" /\ InputOf[u] = i THEN stored[i] ELSE None]
  BY DEF PortableBackup, Command, Alone, work, objects, Today, Snapshot
<1>2. Known(unit)
  BY ImportsAssumption DEF Known, BInv, Stored, Loadable
<1>3. \A b \in backups : Known(b.snap.unit)
  BY <1>1, ImportsAssumption DEF BInv, BackupsSupported, Supported, Known, Loadable
<1>4. \A b \in backups' : Fits(b.snap.unit, stored)' /\ Known(b.snap.unit)'
  BY <1>1, <1>2, <1>3 DEF FitInv, Fits, Known
<1>5. Fits(unit, stored)' /\ Fits(unit, bundle'.stored)
  BY <1>1, ImportsAssumption DEF FitInv, Fits
<1> QED BY <1>1, <1>4, <1>5 DEF FitInv, Doing

\* Where a form returns that the database has not seen, only rows of the bundle
\* refer to it.
LEMMA FitReturns ==
    ASSUME DInv, BInv, FitInv, ImportObject
    PROVE  FitInv'
<1> DEFINE copy == [bundle.backup EXCEPT !.uploaded = today]
<1>1. /\ UNCHANGED <<unit, task, bundle>> /\ bundle # None /\ task = None
      /\ backups' = backups \/ backups' = backups \cup {copy}
      /\ \/ stored' = stored
         \/ /\ backups' = backups
            /\ \E i \in Inputs : stored[i] = None /\ stored' = [stored EXCEPT ![i] = bundle.stored[i]]
  BY DEF ImportObject, Alone, work, objects
<1>2. copy.snap = bundle.backup.snap
  BY <1>1 DEF DInv, AccountTypes, BackupType
<1> HIDE DEF copy
<1>3. CASE stored' = stored
  BY <1>1, <1>2, <1>3, FitQuiet DEF Doing
<1>4. CASE stored' # stored
  <2>1. PICK i \in Inputs : stored[i] = None /\ stored' = [stored EXCEPT ![i] = bundle.stored[i]]
    BY <1>1, <1>4
  <2>2. stored \in [Inputs -> Forms] /\ InputOf \in [Units -> Inputs]
    BY ImportsAssumption DEF BInv, BackupTypes
  <2>3. \A j \in Inputs : stored'[j] = IF j = i THEN bundle.stored[i] ELSE stored[j]
    BY <2>1, <2>2
  <2>4. Known(unit)
    BY ImportsAssumption DEF Known, BInv, Stored, Loadable
  <2>5. ASSUME NEW units, Fits(units, stored), Known(units)
        PROVE  Fits(units, stored') /\ Known(units)'
    BY <2>1, <2>2, <2>3, <2>5 DEF Fits, Known
  <2>6. Fits(bundle.backup.snap.unit, stored')
    BY <1>1, <2>2, <2>3 DEF FitInv, Fits
  <2>7. \A b \in backups : /\ Fits(b.snap.unit, stored')
                           /\ Known(b.snap.unit)' \/ (bundle # None /\ b.snap = bundle.backup.snap)
    BY <2>5, <2>6 DEF FitInv
  <2>8. Fits(unit, stored')
    BY <2>4, <2>5 DEF FitInv
  <2>9. Fits(bundle.backup.snap.unit, bundle.stored)
    BY <1>1 DEF FitInv
  <2> QED BY <1>1, <1>4, <2>6, <2>7, <2>8, <2>9 DEF FitInv, Doing
<1> QED BY <1>3, <1>4

LEMMA FitRestores ==
    ASSUME FitInv, NEW b \in backups, Restore(b)
    PROVE  FitInv'
<1>1. /\ UNCHANGED <<stored, task, backups, bundle>> /\ task = None /\ unit' = b.snap.unit
  BY DEF Restore, Command, Alone, objects
<1>2. Fits(unit', stored')
  BY <1>1 DEF FitInv
<1> QED BY <1>1, <1>2 DEF FitInv, Known, Doing

\* What is written new is compact, which every row covers.
LEMMA FitWritesInput ==
    ASSUME BInv, FitInv, WriteInput, UNCHANGED <<backups, bundle>>
    PROVE  FitInv'
<1>1. stored \in [Inputs -> Forms] /\ InputOf \in [Units -> Inputs] /\ task \in ImportTask
  BY ImportsAssumption DEF WriteInput, Doing, BInv, BackupTypes, DailyTask
<1>2. /\ unit' = unit /\ task' = [task EXCEPT !.at = "settle"]
      /\ \A i \in Inputs : stored'[i] = stored[i] \/ stored'[i] = "compact"
      /\ \A i \in Inputs : stored[i] # None => stored'[i] = stored[i]
  BY <1>1 DEF WriteInput, Now, work, Forms
<1>3. ASSUME NEW units, Fits(units, stored) PROVE Fits(units, stored')
  BY <1>1, <1>2, <1>3 DEF Fits, Covers
<1>4. ASSUME NEW units, Known(units) PROVE Known(units)'
  BY <1>1, <1>2, <1>4 DEF Known
<1>5. ~Doing("open")'
  BY <1>1, <1>2 DEF Doing, ImportTask
<1> QED BY <1>2, <1>3, <1>4, <1>5 DEF FitInv

LEMMA FitSettles ==
    ASSUME CompactIsSmaller, DInv, BInv, SInv, FitInv, Settle, UNCHANGED <<backups, bundle>>
    PROVE  FitInv'
<1> DEFINE u == task.unit
           size == SizeOf(InputOf[u])
<1>1. task \in ImportTask /\ u \in Units /\ unit[u].state = "importing" /\ unit \in [Units -> UnitRow]
      /\ InputOf[u] \in Inputs
  BY ImportsAssumption
     DEF Settle, Doing, BInv, BackupTypes, DailyTask, ImportTask, SInv, ImportsHold, DInv, AccountTypes
<1>2. /\ stored' = stored
      /\ \/ unit' = unit /\ task' = None
         \/ unit' = [unit EXCEPT ![u].bytes = size] /\ task' = [task EXCEPT !.at = "open"]
  BY DEF Settle, Now, objects
<1>3. Covers(size, InputOf[u], stored[InputOf[u]])
  BY <1>1, ImportsAssumption DEF Covers, SizeOf, CompactIsSmaller
<1> HIDE DEF size
<1>4. \A v \in Units : unit'[v].state = "open" => unit'[v] = unit[v]
  BY <1>1, <1>2 DEF UnitRow
<1>5. Fits(unit, stored)'
  BY <1>2, <1>4 DEF FitInv, Fits
<1>6. Doing("open")' => Covers(unit[task.unit].bytes, InputOf[task.unit], stored[InputOf[task.unit]])'
  <2>1. CASE task' = None
    BY <2>1 DEF Doing
  <2>2. CASE task' # None
    <3>1. task'.unit = u /\ unit'[u].bytes = size
      BY <1>1, <1>2, <2>2 DEF ImportTask, UnitRow
    <3> QED BY <1>2, <1>3, <3>1
  <2> QED BY <2>1, <2>2
<1> QED BY <1>2, <1>5, <1>6 DEF FitInv, Known, Fits

LEMMA FitOpens ==
    ASSUME DInv, BInv, FitInv, OpenUnit, UNCHANGED <<backups, bundle>>
    PROVE  FitInv'
<1> DEFINE u == task.unit
<1>1. unit' = [unit EXCEPT ![u].state = "open"] /\ task' = None /\ stored' = stored
      /\ Covers(unit[u].bytes, InputOf[u], stored[InputOf[u]])
  BY DEF OpenUnit, objects, FitInv
<1>2. unit \in [Units -> UnitRow]
  BY DEF DInv, AccountTypes
<1>3. \A v \in Units : unit'[v].bytes = unit[v].bytes /\ (v # u => unit'[v].state = unit[v].state)
  BY <1>1, <1>2 DEF UnitRow
<1>4. Fits(unit, stored)'
  BY <1>1, <1>3 DEF FitInv, Fits
<1> QED BY <1>1, <1>4 DEF FitInv, Known, Doing

LEMMA FitImports ==
    ASSUME CompactIsSmaller, DInv, BInv, SInv, FitInv, (\E u \in Units : Import(u)) \/ ContinueImport \/ Open
    PROVE  FitInv'
<1>1. UNCHANGED <<backups, bundle>>
  BY DEF Import, ContinueImport, Open, archive
<1>2. ASSUME NEW u \in Units, Import(u) PROVE FitInv'
  <2>1. stored' = stored /\ ~Doing("open")'
    BY <1>2 DEF Import, StartImport, objects, Doing
  <2>2. \A v \in Units : unit'[v].state = "open" => unit'[v] = unit[v]
    BY <1>2 DEF Import, StartImport, DInv, AccountTypes
  <2> QED BY <1>1, <2>1, <2>2, FitQuiet
<1>3. CASE ReservePart \/ WritePart \/ MarkPart \/ Open
  <2>1. unit' = unit /\ stored' = stored
    BY <1>3 DEF ReservePart, WritePart, MarkPart, Open, OpenCampaign, work, objects
  <2>2. ~Doing("open")'
    <3>1. CASE Open
      BY <3>1 DEF Open, OpenCampaign, Alone, Doing
    <3>2. CASE ReservePart \/ WritePart \/ MarkPart
      <4>1. task \in ImportTask
        BY <3>2 DEF ReservePart, WritePart, MarkPart, Doing, BInv, BackupTypes, DailyTask
      <4>2. \/ task' = None
            \/ task' = [task EXCEPT !.at = "write"]
            \/ task' = [task EXCEPT !.at = "mark"]
            \/ \E left : task' = [task EXCEPT !.left = left, !.at = "input"]
            \/ \E left : task' = [task EXCEPT !.left = left, !.at = "reserve"]
        BY <3>2 DEF ReservePart, WritePart, MarkPart, Now, Going
      <4> QED BY <4>1, <4>2 DEF ImportTask, Doing
    <3> QED BY <1>3, <3>1, <3>2
  <2> QED BY <1>1, <2>1, <2>2, FitQuiet
<1> QED
  BY <1>1, <1>2, <1>3, FitWritesInput, FitSettles, FitOpens DEF ContinueImport, ImportStep

LEMMA FitLost ==
    ASSUME DInv, FitInv, Disaster
    PROVE  FitInv'
<1>1. /\ backups' = {} /\ bundle' = bundle /\ task' = None
      /\ unit' = [u \in Units |-> NoUnit] /\ stored' = [i \in Inputs |-> None]
  BY DEF Disaster
<1>2. Fits(unit, stored)'
  BY <1>1 DEF Fits, NoUnit
<1>3. ASSUME NEW units, Fits(units, stored) PROVE Fits(units, stored')
  BY <1>1, <1>3, ImportsAssumption DEF Fits, Covers
<1> QED BY <1>1, <1>2, <1>3 DEF FitInv, Doing

LEMMA FitStep ==
    ASSUME CompactIsSmaller, DInv, BInv, SInv, FitInv, BackupStep
    PROVE  FitInv'
<1>1. CASE \/ \E u \in Users : CreateTeam(u) \/ StartDeletion(u) \/ \E g \in Guests : Attach(g, u)
           \/ UnlinkAccount \/ RemoveAccount \/ RequestDies \/ TaskDies \/ DayPasses \/ Migrate
           \/ \E on \in BOOLEAN : Control(on)
  <2>1. UNCHANGED <<unit, stored, backups, bundle>> /\ (task' = task \/ task' = None)
    BY <1>1 DEF CreateTeam, StartDeletion, Attach, UnlinkAccount, RemoveAccount, RequestDies, TaskDies,
                DayPasses, Migrate, Control, work, objects, archive
  <2> QED BY <2>1, FitQuiet DEF Doing
<1>2. CASE WriteBackup
  <2>1. UNCHANGED <<unit, stored, task, bundle>> /\ backups' = backups \cup {Today} /\ Today.snap = Snapshot
    BY <1>2 DEF WriteBackup, work, objects, Today
  <2> QED BY <2>1, FitQuiet DEF Doing
<1>3. CASE StartDaily \/ CheckToday \/ WriteToday \/ DeleteOld \/ EndDaily
  <2>1. UNCHANGED <<unit, stored, bundle>> /\ backups' \subseteq backups \cup {Today}
    BY <1>3 DEF StartDaily, CheckToday, WriteToday, DeleteOld, EndDaily, work, objects, archive
  <2>2. ~Doing("open")'
    <3>1. CASE StartDaily \/ EndDaily
      <4>1. task' = None \/ task' = [kind |-> "daily", day |-> today, at |-> "check"]
        BY <3>1 DEF StartDaily, EndDaily
      <4>2. task' = None \/ task'.kind = "daily"
        BY <4>1
      <4> QED BY <4>2 DEF Doing
    <3>2. CASE CheckToday \/ WriteToday \/ DeleteOld
      <4>1. task \in DailyTask
        BY <3>2 DEF CheckToday, WriteToday, DeleteOld, Daily, BInv, BackupTypes, ImportTask
      <4>2. task' = task \/ task' = [task EXCEPT !.at = "write"] \/ task' = [task EXCEPT !.at = "delete"]
        BY <3>2 DEF CheckToday, WriteToday, DeleteOld, Now
      <4> QED BY <4>1, <4>2 DEF DailyTask, Doing
    <3> QED BY <1>3, <3>1, <3>2
  <2>3. Today.snap = Snapshot
    BY DEF Today
  <2> QED BY <2>1, <2>2, <2>3, FitQuiet
<1> QED
  BY <1>1, <1>2, <1>3, FitExports, FitReturns, FitRestores, FitImports, FitLost DEF BackupStep

\* An open unit always has its input and its parts, reserves their size, and
\* the rows never reserve more than the limit, for any units, inputs, sizes and
\* limits with compact forms that are no larger (addUnit, writeShared,
\* writeImmutableInput, restoreSnapshot).
THEOREM WorkStaysStored == ASSUME CompactIsSmaller PROVE BackupSpec => []WorkIsStored
<1>1. BackupInit => FitInv
  BY FitStarts
<1>2. DInv /\ BInv /\ SInv /\ FitInv /\ [BackupNext]_backup_vars => FitInv'
  <2> SUFFICES ASSUME DInv, BInv, SInv, FitInv, [BackupNext]_backup_vars
               PROVE  FitInv'
    OBVIOUS
  <2>1. CASE BackupNext
    BY <2>1, FitStep DEF BackupNext
  <2>2. CASE UNCHANGED backup_vars
    BY <2>2, FitQuiet DEF backup_vars, work, objects, archive, Doing
  <2> QED BY <2>1, <2>2
<1>3. DInv /\ BInv /\ SInv /\ FitInv => WorkIsStored
  <2> SUFFICES ASSUME DInv, BInv, SInv, FitInv PROVE WorkIsStored
    OBVIOUS
  <2>1. \A u \in Units : unit[u].state = "open" => SizeOf(InputOf[u]) <= unit[u].bytes
    BY DEF FitInv, Fits, Covers, SizeOf
  <2>2. Stored
    BY DEF BInv
  <2>3. Used <= MaxInputStorage /\ (campaign = "active" => \A u \in Units : unit[u].state # "importing")
    BY DEF SInv, StorageHeld, Held, Used
  <2> QED BY <2>1, <2>2, <2>3 DEF WorkIsStored, Stored
<1> QED BY <1>1, <1>2, <1>3, BackupInvariant, StorageInvariant, PTL DEF BackupSpec
=============================================================================
