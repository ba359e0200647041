-------------------------- MODULE AttendanceProofs --------------------------
(***************************************************************************)
(* Theorems about Attendance, for every set of slots, keys and requests,   *)
(* and about Deployment, for every set of processes.                       *)
(*                                                                         *)
(* OneEventPerRecord is not inductive: a commit adds an event whether or   *)
(* not its slot already has one.  What makes it right is that a request    *)
(* past its INSERT is alone with its slot (PendingApart) and that the slot *)
(* has no row yet (PendingClean); KeysApart and KeysClean say the same of  *)
(* idempotency keys, which the truth of the answers rests on.              *)
(*                                                                         *)
(* TablesInPlace rests on SchemaIsStamped: a process that runs waited for  *)
(* its job, the job stamped the latest revision, and no other step of the  *)
(* stack moves a stamp while the job counts as done (Ready).  Stamps can   *)
(* be trusted because the revisions, of both histories, share no name.     *)
(***************************************************************************)
EXTENDS Deployment, TLAPS

PendingClean == \A r \in Request : PendingSlot(r) => slot[r] \in Slot \ recorded

PendingApart ==
  \A q, r \in Request : q # r /\ PendingSlot(q) /\ PendingSlot(r) => slot[q] # slot[r]

KeysClean == \A r \in Request : pc[r] = "commit" /\ key[r] # None => saved[key[r]] = None

KeysApart ==
  \A q, r \in Request :
    q # r /\ pc[q] = "commit" /\ pc[r] = "commit" /\ key[q] = key[r] => key[r] = None

(* What a request knows of itself at each step.                            *)
StepKnows ==
  \A r \in Request :
    /\ pc[r] # "idle" => slot[r] \in Slot
    /\ pc[r] \in {"lookup", "save"} => key[r] \in Key
    /\ pc[r] = "respond" => /\ slot[r] \in recorded
                            /\ key[r] # None => saved[key[r]] = slot[r]
    /\ status[r] = "replayed" => key[r] \in Key

IInv == /\ TypeOK
        /\ PendingClean
        /\ PendingApart
        /\ KeysClean
        /\ KeysApart
        /\ StepKnows
        /\ OneEventPerRecord
        /\ AnswersTrue

-----------------------------------------------------------------------------
LEMMA InitInvariant == Init => IInv
  BY NoneIsNoKeyOrSlot
  DEF Init, IInv, TypeOK, PendingClean, PendingApart, KeysClean, KeysApart, StepKnows,
      OneEventPerRecord, AnswersTrue, PendingSlot

LEMMA StepInvariant == IInv /\ [Next]_vars => IInv'
<1> SUFFICES ASSUME IInv, [Next]_vars PROVE IInv'
  OBVIOUS
<1> USE NoneIsNoKeyOrSlot
<1> USE DEF IInv, TypeOK, Goto, Answer, Proceed, tables
<1> USE DEF PendingClean, PendingApart, KeysClean, KeysApart, StepKnows, PendingSlot,
            OneEventPerRecord, AnswersTrue
<1>1. ASSUME NEW r \in Request, NEW s \in Slot, NEW k \in Key \cup {None}, Submit(r, s, k)
      PROVE IInv'
  BY <1>1 DEF Submit
<1>2. ASSUME NEW r \in Request, Lookup(r) PROVE IInv'
  BY <1>2 DEF Lookup
<1>3. ASSUME NEW r \in Request, Exists(r) PROVE IInv'
  BY <1>3 DEF Exists
<1>4. ASSUME NEW r \in Request, Insert(r) PROVE IInv'
  BY <1>4 DEF Insert, SlotFree
<1>5. ASSUME NEW r \in Request, OutboxAdd(r) PROVE IInv'
  BY <1>5 DEF OutboxAdd, OutboxFlushed
<1>6. ASSUME NEW r \in Request, Save(r) PROVE IInv'
  BY <1>6 DEF Save, KeyTaken
<1>7. ASSUME NEW r \in Request, Commit(r) PROVE IInv'
  BY <1>7 DEF Commit, EventAdded, Stored
<1>8. ASSUME NEW r \in Request, Respond(r) PROVE IInv'
  BY <1>8 DEF Respond
<1>9. ASSUME NEW r \in Request, Fail(r) PROVE IInv'
  BY <1>9 DEF Fail
<1>10. CASE UNCHANGED vars
  BY <1>10 DEF vars
<1> QED BY <1>1, <1>2, <1>3, <1>4, <1>5, <1>6, <1>7, <1>8, <1>9, <1>10 DEF Next, Step

LEMMA Invariance == Spec => []IInv
  BY InitInvariant, StepInvariant, PTL DEF Spec

(* Types are kept in every reachable state.                                *)
THEOREM TypesSafe == Spec => []TypeOK
<1>1. IInv => TypeOK
  BY DEF IInv
<1> QED BY Invariance, <1>1, PTL

(* The outbox promise of docs/adr/0008: an attendance row and its outbox   *)
(* row exist together or not at all, and there is one of each, however     *)
(* many requests race, are retried or die.                                 *)
THEOREM RecordsHaveOneEvent == Spec => []OneEventPerRecord
<1>1. IInv => OneEventPerRecord
  BY DEF IInv
<1> QED BY Invariance, <1>1, PTL

(* A 201, a 409 and a replay only say what the tables hold.                *)
THEOREM AnswersSafe == Spec => []AnswersTrue
<1>1. IInv => AnswersTrue
  BY DEF IInv
<1> QED BY Invariance, <1>1, PTL

-----------------------------------------------------------------------------
(* The deployed backend: each of its behaviours is one of Attendance.      *)

LEMMA DeploymentStep == DeploymentNext => [Next]_vars
<1> SUFFICES ASSUME DeploymentNext PROVE [Next]_vars
  OBVIOUS
<1> USE DEF vars, requests, tables
<1>1. ASSUME NEW p \in Process, Start(p) PROVE UNCHANGED vars
  BY <1>1 DEF Start
<1>2. ASSUME NEW h \in History, Job(h) \/ UndoRevision(h) PROVE UNCHANGED vars
  BY <1>2 DEF Job, UndoRevision
<1>3. CASE Down
  BY <1>3 DEF Down
<1>4. ASSUME NEW r \in Request, NEW s \in Slot, NEW k \in Key \cup {None}, Arrive(r, s, k)
      PROVE Next
  BY <1>4 DEF Arrive, Next
<1>5. ASSUME NEW r \in Request, Handle(r) \/ BreakOff(r) PROVE Next
  BY <1>5 DEF Handle, BreakOff, Next
<1> QED BY <1>1, <1>2, <1>3, <1>4, <1>5 DEF DeploymentNext

(* Whatever is migrated, started and stopped around it, a deployed backend *)
(* answers and stores as Attendance says, so what is proved above holds.   *)
THEOREM DeployedIsAttendance == DeploymentSpec => Spec
<1>1. DeploymentInit => Init
  BY DEF DeploymentInit
<1>2. UNCHANGED deployment => UNCHANGED vars
  BY DEF deployment, vars, requests
<1> QED BY <1>1, <1>2, DeploymentStep, PTL DEF DeploymentSpec, Spec

-----------------------------------------------------------------------------
(* What the revisions have to do with one another.                         *)

(* The names a revision uses.                                              *)
Names(h) == IF h = "app"
            THEN <<{"students"}, {"users", "teachers", "courses", "enrollments"},
                   {"idempotency_keys"},
                   {"outbox_status", "outbox_events", "attendance_records"}, {"grades"}>>
            ELSE <<{"audit_log"}>>

LEMMA Counts == /\ Latest("app") = 5
                /\ Latest("reporting") = 1
                /\ DOMAIN Downgrades("app") = 1 .. 5
                /\ DOMAIN Downgrades("reporting") = 1 .. 1
  BY DEF Latest, Upgrades, Downgrades

(* One revision more.                                                      *)
LEMMA AddsOneMore ==
  ASSUME NEW h \in History, NEW n \in Nat
  PROVE  Adds(h, 1, n + 1) = Adds(h, 1, n) \cup Upgrades(h)[n + 1]
<1>1. 1 .. n + 1 = (1 .. n) \cup {n + 1}
  OBVIOUS
<1> QED BY <1>1 DEF Adds

LEMMA AddsNothing == \A h \in History, n \in Nat : Adds(h, n + 1, n) = {}
<1>1. \A n \in Nat : (n + 1) .. n = {}
  OBVIOUS
<1> QED BY <1>1 DEF Adds

(* What was there and what was missing make the whole.                     *)
LEMMA AddsSplit ==
  ASSUME NEW h \in History, NEW m \in Nat, NEW n \in Nat, m <= n
  PROVE  Adds(h, 1, n) = Adds(h, 1, m) \cup Adds(h, m + 1, n)
<1>1. 1 .. n = (1 .. m) \cup ((m + 1) .. n)
  OBVIOUS
<1> QED BY <1>1 DEF Adds

LEMMA UpgradeOf == /\ Upgrades("app")[1] = Students0001
                   /\ Upgrades("app")[2] = Core0002
                   /\ Upgrades("app")[3] = Keys0003
                   /\ Upgrades("app")[4] = Outbox0004
                   /\ Upgrades("app")[5] = Grades0005
                   /\ Upgrades("reporting")[1] = AuditLog0001
  BY DEF Upgrades

LEMMA DowngradeOf == /\ Downgrades("app")[1] = Undo0001
                     /\ Downgrades("app")[2] = Undo0002
                     /\ Downgrades("app")[3] = Undo0003
                     /\ Downgrades("app")[4] = Undo0004
                     /\ Downgrades("app")[5] = Undo0005
                     /\ Downgrades("reporting")[1] = UndoAuditLog0001
  BY DEF Downgrades

LEMMA NamesOf == /\ Names("app")[1] = {"students"}
                 /\ Names("app")[2] = {"users", "teachers", "courses", "enrollments"}
                 /\ Names("app")[3] = {"idempotency_keys"}
                 /\ Names("app")[4] = {"outbox_status", "outbox_events", "attendance_records"}
                 /\ Names("app")[5] = {"grades"}
                 /\ Names("reporting")[1] = {"audit_log"}
  BY DEF Names

LEMMA RevisionOf ==
  ASSUME NEW h \in History, NEW i \in 1 .. Latest(h)
  PROVE  \/ h = "app" /\ i \in {1, 2, 3, 4, 5}
         \/ h = "reporting" /\ i = 1
<1>1. CASE h = "app"
  <2>1. i \in 1 .. 5
    BY <1>1, Counts
  <2>2. i \in {1, 2, 3, 4, 5}
    BY <2>1
  <2> QED BY <1>1, <2>2
<1>2. CASE h = "reporting"
  <2>1. i \in 1 .. 1
    BY <1>2, Counts
  <2> QED BY <1>2, <2>1
<1> QED BY <1>1, <1>2 DEF History

(* What the objects of the two long revisions are called, and are.         *)
LEMMA CoreObjects ==
  \A o \in Core0002 : /\ o[1] \in {"users", "teachers", "courses", "enrollments"}
                      /\ o[2] \in {"rows", "email", "student, course"}
<1>1. /\ Table("users")[1] = "users"
      /\ Unique("users", "email")[1] = "users"
      /\ Table("teachers")[1] = "teachers"
      /\ Unique("teachers", "email")[1] = "teachers"
      /\ Table("courses")[1] = "courses"
      /\ Table("enrollments")[1] = "enrollments"
      /\ Unique("enrollments", "student, course")[1] = "enrollments"
  BY DEF Table, Unique
<1>2. /\ Table("users")[2] = "rows"
      /\ Unique("users", "email")[2] = "email"
      /\ Table("teachers")[2] = "rows"
      /\ Unique("teachers", "email")[2] = "email"
      /\ Table("courses")[2] = "rows"
      /\ Table("enrollments")[2] = "rows"
      /\ Unique("enrollments", "student, course")[2] = "student, course"
  BY DEF Table, Unique
<1>3. \A o \in Core0002 : o[1] \in {"users", "teachers", "courses", "enrollments"}
  BY <1>1, Zenon DEF Core0002
<1>4. \A o \in Core0002 : o[2] \in {"rows", "email", "student, course"}
  BY <1>2, Zenon DEF Core0002
<1> QED BY <1>3, <1>4

LEMMA OutboxObjects ==
  \A o \in Outbox0004 :
    \/ o = Type("outbox_status")
    \/ /\ o[1] \in {"outbox_events", "attendance_records"}
       /\ o[2] \in {"rows", "student, course, day"}
<1>1. /\ Table("outbox_events")[1] = "outbox_events"
      /\ Table("attendance_records")[1] = "attendance_records"
      /\ Unique("attendance_records", "student, course, day")[1] = "attendance_records"
      /\ Table("outbox_events")[2] = "rows"
      /\ Table("attendance_records")[2] = "rows"
      /\ Unique("attendance_records", "student, course, day")[2] = "student, course, day"
  BY DEF Table, Unique
<1> QED BY <1>1, Zenon DEF Outbox0004

LEMMA Short == /\ \A o \in Students0001 : o[1] = "students" /\ o[2] # "type"
               /\ \A o \in Keys0003 : o[1] = "idempotency_keys" /\ o[2] # "type"
               /\ \A o \in Grades0005 : o[1] = "grades" /\ o[2] # "type"
               /\ \A o \in AuditLog0001 : o[1] = "audit_log" /\ o[2] # "type"
<1>1. /\ \A t : Table(t)[1] = t /\ Unique(t, "email")[1] = t
      /\ \A t : Unique(t, "key, endpoint")[1] = t /\ Unique(t, "student, course")[1] = t
  BY DEF Table, Unique
<1>2. /\ \A t : Table(t)[2] # "type" /\ Unique(t, "email")[2] # "type"
      /\ \A t : Unique(t, "key, endpoint")[2] # "type" /\ Unique(t, "student, course")[2] # "type"
  BY DEF Table, Unique
<1>3. \A o \in Students0001 : o[1] = "students" /\ o[2] # "type"
  BY <1>1, <1>2, Zenon DEF Students0001
<1>4. \A o \in Keys0003 : o[1] = "idempotency_keys" /\ o[2] # "type"
  BY <1>1, <1>2, Zenon DEF Keys0003
<1>5. \A o \in Grades0005 : o[1] = "grades" /\ o[2] # "type"
  BY <1>1, <1>2, Zenon DEF Grades0005
<1>6. \A o \in AuditLog0001 : o[1] = "audit_log" /\ o[2] # "type"
  BY <1>1, <1>2, Zenon DEF AuditLog0001
<1> QED BY <1>3, <1>4, <1>5, <1>6

LEMMA RevisionNames ==
  ASSUME NEW h \in History, NEW i \in 1 .. Latest(h), NEW o \in Upgrades(h)[i]
  PROVE  o[1] \in Names(h)[i]
<1>1. CASE h = "reporting" /\ i = 1
  BY <1>1, UpgradeOf, NamesOf, Short
<1>2. CASE h = "app" /\ i = 1
  BY <1>2, UpgradeOf, NamesOf, Short
<1>3. CASE h = "app" /\ i = 2
  <2>1. o \in Core0002
    BY <1>3, UpgradeOf
  <2> QED BY <1>3, <2>1, NamesOf, CoreObjects
<1>4. CASE h = "app" /\ i = 3
  BY <1>4, UpgradeOf, NamesOf, Short
<1>5. CASE h = "app" /\ i = 4
  <2>1. o \in Outbox0004
    BY <1>5, UpgradeOf
  <2>2. Type("outbox_status")[1] = "outbox_status"
    BY DEF Type
  <2>3. o[1] \in {"outbox_status", "outbox_events", "attendance_records"}
    BY <2>1, <2>2, OutboxObjects
  <2> QED BY <1>5, <2>3, NamesOf
<1>6. CASE h = "app" /\ i = 5
  BY <1>6, UpgradeOf, NamesOf, Short
<1> QED BY <1>1, <1>2, <1>3, <1>4, <1>5, <1>6, RevisionOf

LEMMA NamesApart ==
  ASSUME NEW h \in History, NEW g \in History,
         NEW i \in 1 .. Latest(h), NEW j \in 1 .. Latest(g),
         h # g \/ i # j
  PROVE  Names(h)[i] \cap Names(g)[j] = {}
<1>1. CASE h = "app" /\ g = "app"
  <2>1. i \in 1 .. 5 /\ j \in 1 .. 5 /\ i # j
    BY <1>1, Counts
  <2> QED BY <1>1, <2>1, NamesOf
<1>2. CASE h = "app" /\ g = "reporting"
  <2>1. i \in 1 .. 5 /\ j = 1
    BY <1>2, Counts
  <2> QED BY <1>2, <2>1, NamesOf
<1>3. CASE h = "reporting" /\ g = "app"
  <2>1. i = 1 /\ j \in 1 .. 5
    BY <1>3, Counts
  <2> QED BY <1>3, <2>1, NamesOf
<1>4. CASE h = "reporting" /\ g = "reporting"
  BY <1>4, Counts
<1> QED BY <1>1, <1>2, <1>3, <1>4 DEF History

(* A downgrade drops what its upgrade created ...                          *)
LEMMA UndoesAll ==
  ASSUME NEW h \in History, NEW i \in 1 .. Latest(h), NEW o \in Upgrades(h)[i]
  PROVE  o \in Downgrades(h)[i]
<1>1. o \in Object
  BY DEF Object, Adds, History
<1> USE DEF DropTables
<1>2. CASE h = "reporting" /\ i = 1
  BY <1>1, <1>2, UpgradeOf, DowngradeOf, Short DEF UndoAuditLog0001
<1>3. CASE h = "app" /\ i = 1
  BY <1>1, <1>3, UpgradeOf, DowngradeOf, Short DEF Undo0001
<1>4. CASE h = "app" /\ i = 2
  <2>1. o \in Core0002
    BY <1>4, UpgradeOf
  <2>2. o \in Undo0002
    BY <1>1, <2>1, CoreObjects DEF Undo0002
  <2> QED BY <1>4, <2>2, DowngradeOf
<1>5. CASE h = "app" /\ i = 3
  BY <1>1, <1>5, UpgradeOf, DowngradeOf, Short DEF Undo0003
<1>6. CASE h = "app" /\ i = 4
  <2>1. o \in Outbox0004
    BY <1>6, UpgradeOf
  <2>2. o \in Undo0004
    BY <1>1, <2>1, OutboxObjects DEF Undo0004
  <2> QED BY <1>6, <2>2, DowngradeOf
<1>7. CASE h = "app" /\ i = 5
  BY <1>1, <1>7, UpgradeOf, DowngradeOf, Short DEF Undo0005
<1> QED BY <1>2, <1>3, <1>4, <1>5, <1>6, <1>7, RevisionOf

(* ... and nothing of another revision.                                    *)
LEMMA UndoesOnlyItsOwn ==
  ASSUME NEW h \in History, NEW i \in 1 .. Latest(h), NEW o \in Downgrades(h)[i]
  PROVE  o[1] \in Names(h)[i]
<1> USE DEF DropTables
<1>1. CASE h = "reporting" /\ i = 1
  BY <1>1, DowngradeOf, NamesOf DEF UndoAuditLog0001
<1>2. CASE h = "app" /\ i = 1
  BY <1>2, DowngradeOf, NamesOf DEF Undo0001
<1>3. CASE h = "app" /\ i = 2
  <2>1. o \in Undo0002
    BY <1>3, DowngradeOf
  <2>2. o[1] \in {"enrollments", "courses", "teachers", "users"}
    BY <2>1 DEF Undo0002
  <2> QED BY <1>3, <2>2, NamesOf
<1>4. CASE h = "app" /\ i = 3
  BY <1>4, DowngradeOf, NamesOf DEF Undo0003
<1>5. CASE h = "app" /\ i = 4
  <2>1. o \in Undo0004
    BY <1>5, DowngradeOf
  <2>2. o[1] \in {"attendance_records", "outbox_events", "outbox_status"}
    BY <2>1 DEF Undo0004, Type
  <2> QED BY <1>5, <2>2, NamesOf
<1>6. CASE h = "app" /\ i = 5
  BY <1>6, DowngradeOf, NamesOf DEF Undo0005
<1> QED BY <1>1, <1>2, <1>3, <1>4, <1>5, <1>6, RevisionOf

-----------------------------------------------------------------------------
(* A stamp never passes the last revision, a running job remembers where   *)
(* its history stood, a job that is done left it at the end, and whatever  *)
(* runs waited for its job.                                                *)
Ready ==
  /\ \A h \in History : Revision(h) <= Latest(h)
  /\ \A h \in History : migration[h] = "running" => base[h] = Revision(h)
  /\ \A h \in History : migration[h] = "done" => Revision(h) = Latest(h)
  /\ \A p \in running : p \in Process /\ migration[HistoryOf(p)] = "done"

DInv == MigrationsTypeOK /\ SchemaIsStamped /\ Ready

LEMMA Versions ==
  ASSUME MigrationsTypeOK
  PROVE  /\ version["alembic_version"] = Revision("app") /\ Revision("app") \in Nat
         /\ version["alembic_version_reporting"] = Revision("reporting")
         /\ Revision("reporting") \in Nat
  BY DEF MigrationsTypeOK, Revision, VersionTable

LEMMA HasLatest == \A h \in History : Latest(h) \in Nat
  BY Counts DEF History

(* A stamp is moved in one history's version table only.                   *)
LEMMA StampMoves ==
  ASSUME MigrationsTypeOK, NEW h \in History, NEW n \in Nat,
         version' = [version EXCEPT ![VersionTable(h)] = n]
  PROVE  /\ Revision(h)' = n
         /\ \A g \in History \ {h} : Revision(g)' = Revision(g)
         /\ version' \in [{"alembic_version", "alembic_version_reporting"} -> Nat]
  BY DEF MigrationsTypeOK, Revision, VersionTable, History

(* The property, for either history and the other one.                     *)
LEMMA StampedBoth ==
  ASSUME NEW h \in History, NEW g \in History, h # g
  PROVE  SchemaIsStamped <=> schema = Adds(h, 1, Revision(h)) \cup Adds(g, 1, Revision(g))
  BY DEF SchemaIsStamped, History

LEMMA StampedBothNext ==
  ASSUME NEW h \in History, NEW g \in History, h # g
  PROVE  SchemaIsStamped' <=> schema' = Adds(h, 1, Revision(h)') \cup Adds(g, 1, Revision(g)')
  BY DEF SchemaIsStamped, History

LEMMA DeploymentStarts == DeploymentInit => DInv
<1> SUFFICES ASSUME DeploymentInit PROVE DInv
  OBVIOUS
<1> USE DEF DeploymentInit, MigrationsInit
<1>1. PICK m \in 0 .. Latest("app"), n \in 0 .. Latest("reporting") :
        /\ version = [t \in {"alembic_version", "alembic_version_reporting"} |->
                        IF t = "alembic_version" THEN m ELSE n]
        /\ schema = Adds("app", 1, m) \cup Adds("reporting", 1, n)
  OBVIOUS
<1>2. m \in Nat /\ m <= Latest("app") /\ n \in Nat /\ n <= Latest("reporting")
  BY Counts
<1>3. Revision("app") = m /\ Revision("reporting") = n
  BY <1>1 DEF Revision, VersionTable
<1>4. SchemaIsStamped
  BY <1>1, <1>3 DEF SchemaIsStamped
<1>5. schema \subseteq Object
  <2>1. Adds("app", 1, m) \subseteq Adds("app", 1, Latest("app"))
    BY <1>2, Counts, AddsSplit DEF History
  <2>2. Adds("reporting", 1, n) \subseteq Adds("reporting", 1, Latest("reporting"))
    BY <1>2, Counts, AddsSplit DEF History
  <2> QED BY <1>1, <2>1, <2>2 DEF Object
<1>6. MigrationsTypeOK
  BY <1>1, <1>2, <1>5 DEF MigrationsTypeOK
<1>7. Ready
  BY <1>2, <1>3 DEF Ready, History
<1> QED BY <1>4, <1>6, <1>7 DEF DInv

(* The upgrade: the job holds what it read, so it adds the rest.           *)
LEMMA MigrateKeeps ==
  ASSUME DInv, NEW h \in History, Migrate(h), UNCHANGED running
  PROVE  DInv'
<1> USE DEF DInv
<1>1. base[h] = Revision(h) /\ Revision(h) <= Latest(h) /\ migration[h] = "running"
  BY DEF Migrate, Ready
<1>2. Revision(h) \in Nat /\ Latest(h) \in Nat
  BY Versions, HasLatest DEF History
<1>3. base' \in [History -> Nat] /\ migration' \in [History -> {"created", "running", "done", "failed"}]
  BY DEF Migrate, Becomes, MigrationsTypeOK
<1>4. \A g \in History \ {h} : migration'[g] = migration[g] /\ base'[g] = base[g]
  BY DEF Migrate, Becomes, MigrationsTypeOK
<1>5. \A p \in running : HistoryOf(p) # h
  BY <1>1 DEF Ready
<1>6. CASE Missing(h) \cap schema = {}
  <2>1. /\ schema' = schema \cup Missing(h)
        /\ version' = [version EXCEPT ![VersionTable(h)] = Latest(h)]
        /\ migration'[h] = "done"
    BY <1>1, <1>6 DEF Migrate, Becomes, MigrationsTypeOK
  <2>2. /\ Revision(h)' = Latest(h)
        /\ \A g \in History \ {h} : Revision(g)' = Revision(g)
        /\ version' \in [{"alembic_version", "alembic_version_reporting"} -> Nat]
    BY <1>2, <2>1, StampMoves
  <2>3. PICK g \in History : g # h
    BY DEF History
  <2>4. schema = Adds(h, 1, Revision(h)) \cup Adds(g, 1, Revision(g))
    BY <2>3, StampedBoth
  <2>5. Adds(h, 1, Latest(h)) = Adds(h, 1, Revision(h)) \cup Missing(h)
    BY <1>1, <1>2, AddsSplit DEF Missing
  <2>6. schema' = Adds(h, 1, Revision(h)') \cup Adds(g, 1, Revision(g)')
    BY <2>1, <2>2, <2>3, <2>4, <2>5
  <2>7. SchemaIsStamped'
    BY <2>3, <2>6, StampedBothNext
  <2>8. schema' \subseteq Object
    <3>1. Adds(h, 1, Latest(h)) \subseteq Object
      BY DEF Object, History
    <3> QED BY <2>1, <2>5, <3>1 DEF MigrationsTypeOK
  <2>9. MigrationsTypeOK'
    BY <1>3, <2>2, <2>8 DEF MigrationsTypeOK
  <2>10. Ready'
    BY <1>2, <1>4, <1>5, <2>1, <2>2 DEF Ready, HistoryOf, History
  <2> QED BY <2>7, <2>9, <2>10
<1>7. CASE Missing(h) \cap schema # {}
  <2>1. UNCHANGED <<schema, version>> /\ migration'[h] = "failed"
    BY <1>7 DEF Migrate, Becomes, MigrationsTypeOK
  <2>2. \A g \in History : Revision(g)' = Revision(g)
    BY <2>1 DEF Revision
  <2>3. SchemaIsStamped'
    BY <2>1, <2>2 DEF SchemaIsStamped, History
  <2>4. MigrationsTypeOK'
    BY <1>3, <2>1 DEF MigrationsTypeOK
  <2>5. Ready'
    BY <1>4, <1>5, <2>1, <2>2 DEF Ready, HistoryOf, History
  <2> QED BY <2>3, <2>4, <2>5
<1> QED BY <1>6, <1>7

(* The downgrade: it takes what its revision added and leaves the rest.    *)
LEMMA DowngradeKeeps ==
  ASSUME DInv, NEW h \in History, Downgrade(h), UNCHANGED running
  PROVE  DInv'
<1> USE DEF DInv
<1> DEFINE n == Revision(h)
<1>1. n \in 1 .. Latest(h)
  BY Counts DEF Downgrade, History
<1>2. n \in Nat /\ n - 1 \in Nat /\ n - 1 + 1 = n /\ Latest(h) \in Nat
  BY <1>1, HasLatest
<1>3. version' = [version EXCEPT ![VersionTable(h)] = n - 1]
  BY DEF Downgrade, Revision
<1>4. /\ Revision(h)' = n - 1
      /\ \A g \in History \ {h} : Revision(g)' = Revision(g)
      /\ version' \in [{"alembic_version", "alembic_version_reporting"} -> Nat]
  <2> HIDE DEF n
  <2> QED BY <1>2, <1>3, StampMoves
<1>5. PICK g \in History : g # h
  BY DEF History
<1>6. Revision(g) \in Nat /\ Revision(g) <= Latest(g)
  BY Versions DEF Ready, History
<1>7. schema = Adds(h, 1, n - 1) \cup Upgrades(h)[n] \cup Adds(g, 1, Revision(g))
  <2>1. Adds(h, 1, n) = Adds(h, 1, n - 1) \cup Upgrades(h)[n]
    <3> HIDE DEF n
    <3>1. Adds(h, 1, n - 1 + 1) = Adds(h, 1, n - 1) \cup Upgrades(h)[n - 1 + 1]
      BY <1>2, AddsOneMore
    <3> QED BY <1>2, <3>1
  <2> QED BY <1>5, <2>1, StampedBoth
<1>8. schema' = schema \ Downgrades(h)[n]
  BY DEF Downgrade
<1>9. \A o \in Upgrades(h)[n] : o \in Downgrades(h)[n]
  BY <1>1, UndoesAll
<1>10. \A o \in Downgrades(h)[n] : o[1] \in Names(h)[n]
  BY <1>1, UndoesOnlyItsOwn
<1>11. ASSUME NEW o \in Adds(h, 1, n - 1) PROVE o \notin Downgrades(h)[n]
  <2>1. PICK i \in 1 .. n - 1 : o \in Upgrades(h)[i]
    BY <1>11 DEF Adds
  <2>2. i \in 1 .. Latest(h) /\ i # n
    BY <1>1, <1>2
  <2>3. o[1] \in Names(h)[i]
    BY <2>1, <2>2, RevisionNames
  <2>4. Names(h)[i] \cap Names(h)[n] = {}
    BY <1>1, <2>2, NamesApart
  <2> QED BY <1>10, <2>3, <2>4
<1>12. ASSUME NEW o \in Adds(g, 1, Revision(g)) PROVE o \notin Downgrades(h)[n]
  <2>1. PICK i \in 1 .. Revision(g) : o \in Upgrades(g)[i]
    BY <1>12 DEF Adds
  <2>2. i \in 1 .. Latest(g)
    BY <1>6, HasLatest
  <2>3. o[1] \in Names(g)[i]
    BY <2>1, <2>2, RevisionNames
  <2>4. Names(g)[i] \cap Names(h)[n] = {}
    BY <1>1, <1>5, <2>2, NamesApart
  <2> QED BY <1>10, <2>3, <2>4
<1>13. schema' = Adds(h, 1, n - 1) \cup Adds(g, 1, Revision(g))
  <2> HIDE DEF n
  <2> QED BY <1>7, <1>8, <1>9, <1>11, <1>12
<1>14. SchemaIsStamped'
  BY <1>4, <1>5, <1>13, StampedBothNext
<1>15. MigrationsTypeOK'
  BY <1>4, <1>8 DEF MigrationsTypeOK, Downgrade
<1>16. Ready'
  BY <1>1, <1>2, <1>4 DEF Ready, Downgrade, HistoryOf, History
<1> QED BY <1>14, <1>15, <1>16

LEMMA DeploymentKeeps == DInv /\ [DeploymentNext]_deployment => DInv'
<1> SUFFICES ASSUME DInv, [DeploymentNext]_deployment PROVE DInv'
  OBVIOUS
<1> USE DEF DInv, migrations
<1>1. ASSUME UNCHANGED <<migrations, running>> PROVE DInv'
  BY <1>1 DEF MigrationsTypeOK, SchemaIsStamped, Ready, Revision, HistoryOf
<1>2. ASSUME NEW p \in Process, Start(p) PROVE DInv'
  BY <1>2 DEF Start, MayStart, MigrationsTypeOK, SchemaIsStamped, Ready, Revision, HistoryOf
<1>3. ASSUME NEW h \in History, Begin(h), UNCHANGED running PROVE DInv'
  <2>1. UNCHANGED <<schema, version>> /\ \A g \in History : Revision(g)' = Revision(g)
    BY <1>3 DEF Begin, Revision
  <2>2. Revision(h) \in Nat
    BY Versions DEF History
  <2>3. MigrationsTypeOK'
    BY <1>3, <2>1, <2>2 DEF Begin, Becomes, MigrationsTypeOK
  <2>4. Ready'
    BY <1>3, <2>1 DEF Begin, Becomes, MigrationsTypeOK, Ready, HistoryOf, History
  <2>5. SchemaIsStamped'
    BY <2>1 DEF SchemaIsStamped, History
  <2> QED BY <2>3, <2>4, <2>5
<1>4. ASSUME NEW h \in History, MigrateFails(h), UNCHANGED running PROVE DInv'
  <2>1. UNCHANGED <<schema, version>> /\ \A g \in History : Revision(g)' = Revision(g)
    BY <1>4 DEF MigrateFails, Revision
  <2>2. MigrationsTypeOK'
    BY <1>4, <2>1 DEF MigrateFails, Becomes, MigrationsTypeOK
  <2>3. Ready'
    BY <1>4, <2>1 DEF MigrateFails, Becomes, MigrationsTypeOK, Ready, HistoryOf, History
  <2>4. SchemaIsStamped'
    BY <2>1 DEF SchemaIsStamped, History
  <2> QED BY <2>2, <2>3, <2>4
<1>5. ASSUME NEW h \in History, Job(h) PROVE DInv'
  BY <1>3, <1>4, <1>5, MigrateKeeps DEF Job
<1>6. ASSUME NEW h \in History, UndoRevision(h) PROVE DInv'
  BY <1>6, DowngradeKeeps DEF UndoRevision
<1>7. CASE Down
  <2>1. UNCHANGED <<schema, version>> /\ \A g \in History : Revision(g)' = Revision(g)
    BY <1>7 DEF Down, Reset, Revision
  <2>2. MigrationsTypeOK' /\ SchemaIsStamped'
    BY <1>7, <2>1 DEF Down, Reset, MigrationsTypeOK, SchemaIsStamped, History
  <2>3. Ready'
    BY <1>7, <2>1 DEF Down, Reset, Ready
  <2> QED BY <2>2, <2>3
<1>8. ASSUME NEW r \in Request, Handle(r) \/ BreakOff(r) PROVE DInv'
  BY <1>1, <1>8 DEF Handle, BreakOff
<1>9. ASSUME NEW r \in Request, NEW s \in Slot, NEW k \in Key \cup {None}, Arrive(r, s, k)
      PROVE DInv'
  BY <1>1, <1>9 DEF Arrive
<1>10. CASE UNCHANGED deployment
  BY <1>1, <1>10 DEF deployment
<1> QED BY <1>2, <1>5, <1>6, <1>7, <1>8, <1>9, <1>10 DEF DeploymentNext

LEMMA DeploymentInvariance == DeploymentSpec => []DInv
  BY DeploymentStarts, DeploymentKeeps, PTL DEF DeploymentSpec

(* Types are kept in every reachable state of the deployment.              *)
THEOREM DeploymentTypesSafe == DeploymentSpec => []DeploymentTypeOK
<1>1. DInv /\ TypeOK => DeploymentTypeOK
  BY DEF DInv, Ready, DeploymentTypeOK
<1> QED BY DeploymentInvariance, DeployedIsAttendance, TypesSafe, <1>1, PTL

(* The version tables can be believed: docs/adr/0009:37-38.                *)
THEOREM StampsHold == DeploymentSpec => []SchemaIsStamped
<1>1. DInv => SchemaIsStamped
  BY DEF DInv
<1> QED BY DeploymentInvariance, <1>1, PTL

(* What the processes take for granted is in their history's revisions.    *)
LEMMA NeedsAreAdded ==
  ASSUME NEW p
  PROVE  Needs(p) \subseteq Adds(HistoryOf(p), 1, Latest(HistoryOf(p)))
<1>1. /\ AuditLog0001 \subseteq Adds("reporting", 1, Latest("reporting"))
      /\ Students0001 \subseteq Adds("app", 1, Latest("app"))
      /\ Core0002 \subseteq Adds("app", 1, Latest("app"))
      /\ Keys0003 \subseteq Adds("app", 1, Latest("app"))
      /\ Outbox0004 \subseteq Adds("app", 1, Latest("app"))
      /\ Grades0005 \subseteq Adds("app", 1, Latest("app"))
  BY Counts, UpgradeOf DEF Adds
<1>2. AuditLogEntry \subseteq AuditLog0001
  BY DEF AuditLogEntry, AuditLog0001
<1>3. StudentModel \subseteq Students0001 /\ IdempotencyKeyModel \subseteq Keys0003
  BY DEF StudentModel, Students0001, IdempotencyKeyModel, Keys0003
<1>4. /\ UserModel \subseteq Core0002
      /\ TeacherModel \subseteq Core0002
      /\ CourseModel \subseteq Core0002
      /\ EnrollmentModel \subseteq Core0002
  BY Zenon DEF UserModel, TeacherModel, CourseModel, EnrollmentModel, Core0002
<1>5. OutboxEventModel \subseteq Outbox0004 /\ AttendanceModel \subseteq Outbox0004
  BY Zenon DEF OutboxEventModel, AttendanceModel, Outbox0004
<1>6. GradeModel \subseteq Grades0005
  BY DEF GradeModel, Grades0005
<1>7. CASE p \in Reporter
  BY <1>1, <1>2, <1>7 DEF Needs, HistoryOf
<1>8. CASE p \notin Reporter /\ p \in Publisher
  BY <1>1, <1>5, <1>8 DEF Needs, HistoryOf
<1>9. CASE p \notin Reporter /\ p \notin Publisher
  <2>1. HistoryOf(p) = "app"
    BY <1>9 DEF HistoryOf
  <2>2. \A M \in {StudentModel, UserModel, TeacherModel, CourseModel, EnrollmentModel,
                  IdempotencyKeyModel, OutboxEventModel, AttendanceModel, GradeModel} :
          M \subseteq Adds("app", 1, Latest("app"))
    BY <1>1, <1>3, <1>4, <1>5, <1>6
  <2> QED BY <1>9, <2>1, <2>2 DEF Needs
<1> QED BY <1>7, <1>8, <1>9

(* No process runs on a database that lacks what its code relies on,       *)
(* however jobs fail, are repeated and are undone: docker-compose.yml:59.  *)
THEOREM ProcessesHaveTables == DeploymentSpec => []TablesInPlace
<1>1. DInv => TablesInPlace
  <2> SUFFICES ASSUME DInv, NEW p \in running PROVE Needs(p) \subseteq schema
    BY DEF TablesInPlace
  <2>1. Revision(HistoryOf(p)) = Latest(HistoryOf(p))
    BY DEF DInv, Ready, HistoryOf, History
  <2>2. Adds(HistoryOf(p), 1, Latest(HistoryOf(p))) \subseteq schema
    BY <2>1 DEF DInv, SchemaIsStamped, HistoryOf
  <2> QED BY <2>2, NeedsAreAdded
<1> QED BY DeploymentInvariance, <1>1, PTL
=============================================================================
