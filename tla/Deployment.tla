------------------------------ MODULE Deployment ------------------------------
(***************************************************************************)
(* The containers of docker-compose.yml that live on the database.  The    *)
(* backend replicas, the outbox relay and the reporting service wait for   *)
(* the migration of their history, which may fail, be repeated and be      *)
(* undone; then a backend serves the requests of module Attendance, which  *)
(* rests on three tables, two of their unique indexes and a type.          *)
(***************************************************************************)
EXTENDS Attendance, Migrations

CONSTANTS
  Backend,      \* backend replicas
  Publisher,    \* processes of the outbox relay
  Reporter      \* processes of the reporting service

VARIABLE running          \* the processes that are up

requests == <<pc, slot, key, status, body>>
deployment == <<tables, requests, migrations, running>>

Process == Backend \cup Publisher \cup Reporter

DeploymentTypeOK == TypeOK /\ MigrationsTypeOK /\ running \subseteq Process

DeploymentInit == Init /\ MigrationsInit /\ running = {}

-----------------------------------------------------------------------------
(* What the code of a process takes for granted, by its ORM models.        *)
StudentModel == {Table("students"), Unique("students", "email")}
UserModel == {Table("users"), Unique("users", "email")}
TeacherModel == {Table("teachers"), Unique("teachers", "email")}
CourseModel == {Table("courses")}
EnrollmentModel == {Table("enrollments"), Unique("enrollments", "student, course")}
IdempotencyKeyModel == {Table("idempotency_keys"), Unique("idempotency_keys", "key, endpoint")}
OutboxEventModel == {Table("outbox_events"), Type("outbox_status")}
AttendanceModel == {Table("attendance_records"),
                    Unique("attendance_records", "student, course, day")}
GradeModel == {Table("grades"), Unique("grades", "student, course")}
AuditLogEntry == {Table("audit_log")}

Needs(p) ==
  IF p \in Reporter THEN AuditLogEntry
  ELSE IF p \in Publisher THEN OutboxEventModel
  ELSE UNION {StudentModel, UserModel, TeacherModel, CourseModel, EnrollmentModel,
              IdempotencyKeyModel, OutboxEventModel, AttendanceModel, GradeModel}

HistoryOf(p) == IF p \in Reporter THEN "reporting" ELSE "app"

-----------------------------------------------------------------------------
(* depends_on: service_completed_successfully                              *)
MayStart(p) == migration[HistoryOf(p)] = "done"

Start(p) ==
  /\ p \notin running
  /\ MayStart(p)
  /\ running' = running \cup {p}
  /\ UNCHANGED <<tables, requests, migrations>>

Job(h) == (Begin(h) \/ Migrate(h) \/ MigrateFails(h)) /\ UNCHANGED <<tables, requests, running>>

(* "docker compose down".  A request that this cuts off failed before.     *)
Down ==
  /\ \A r \in Request : pc[r] \in {"idle", "done"}
  /\ running' = {}
  /\ Reset
  /\ UNCHANGED <<tables, requests>>

(* Bound: only before the first row, which a downgrade might drop.         *)
UndoRevision(h) == recorded = {} /\ Downgrade(h) /\ UNCHANGED <<tables, requests, running>>

(* A request needs a backend.                                              *)
Arrive(r, s, k) == /\ Backend \cap running # {}
                   /\ Submit(r, s, k)
                   /\ UNCHANGED <<migrations, running>>

Handle(r) == Backend \cap running # {} /\ Step(r) /\ UNCHANGED <<migrations, running>>

BreakOff(r) == Fail(r) /\ UNCHANGED <<migrations, running>>

DeploymentNext ==
  \/ \E p \in Process : Start(p)
  \/ \E h \in History : Job(h) \/ UndoRevision(h)
  \/ Down
  \/ \E r \in Request : \/ \E s \in Slot, k \in Key \cup {None} : Arrive(r, s, k)
                        \/ Handle(r)
                        \/ BreakOff(r)

DeploymentSpec == DeploymentInit /\ [][DeploymentNext]_deployment

(* As in Attendance.  Nobody has to start or migrate anything.             *)
FairDeployment ==
  /\ DeploymentSpec
  /\ \A r \in Request : /\ WF_deployment(Handle(r))
                        /\ SF_deployment(Handle(r) /\ Insert(r))
                        /\ SF_deployment(Handle(r) /\ Save(r))

-----------------------------------------------------------------------------
(* Property                                                                *)

(* docker-compose.yml:59-62: no process runs on a database that lacks a    *)
(* table, a type or a unique constraint its code relies on, although both  *)
(* histories count from 0001 in one database and any job may fail.         *)
TablesInPlace == \A p \in running : Needs(p) \subseteq schema
=============================================================================
