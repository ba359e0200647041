------------------------------ MODULE Migrations ------------------------------
(***************************************************************************)
(* The schema and the two Alembic histories that build it: the monolith's  *)
(* and the reporting service's, in one database, each run by a one-shot    *)
(* job.  A job reads its version table and applies what is missing in one  *)
(* transaction; PostgreSQL rolls DDL back like anything else.              *)
(*                                                                         *)
(* A schema is a set of pairs: a table with its rows, a table with columns *)
(* that are unique in it, or a named type.  Plain indexes are left out.    *)
(***************************************************************************)
EXTENDS Naturals, Sequences, FiniteSets

Table(t) == <<t, "rows">>
Unique(t, columns) == <<t, columns>>
Type(t) == <<t, "type">>

-----------------------------------------------------------------------------
(* upgrade() of each revision.                                             *)
Students0001 == {Table("students"), Unique("students", "email")}

Core0002 == {Table("users"), Unique("users", "email"),
             Table("teachers"), Unique("teachers", "email"),
             Table("courses"),
             Table("enrollments"), Unique("enrollments", "student, course")}

Keys0003 == {Table("idempotency_keys"), Unique("idempotency_keys", "key, endpoint")}

Outbox0004 == {Type("outbox_status"), Table("outbox_events"),
               Table("attendance_records"),
               Unique("attendance_records", "student, course, day")}

Grades0005 == {Table("grades"), Unique("grades", "student, course")}

AuditLog0001 == {Table("audit_log")}

History == {"app", "reporting"}

Upgrades(h) == IF h = "app"
               THEN <<Students0001, Core0002, Keys0003, Outbox0004, Grades0005>>
               ELSE <<AuditLog0001>>

Latest(h) == Len(Upgrades(h))

(* What revisions m to n of a history add.                                 *)
Adds(h, m, n) == UNION {Upgrades(h)[i] : i \in m .. n}

Object == Adds("app", 1, Latest("app")) \cup Adds("reporting", 1, Latest("reporting"))

-----------------------------------------------------------------------------
(* downgrade() of each revision.  A table takes its constraints with it,   *)
(* but not the type of a column.                                           *)
DropTables(T) == {o \in Object : o[1] \in T /\ o[2] # "type"}

Undo0001 == DropTables({"students"})
Undo0002 == DropTables({"enrollments", "courses", "teachers", "users"})
Undo0003 == DropTables({"idempotency_keys"})
Undo0004TypeKept == DropTables({"attendance_records", "outbox_events"})   \* mutant
Undo0004 == DropTables({"attendance_records", "outbox_events"}) \cup {Type("outbox_status")}
Undo0005 == DropTables({"grades"})
UndoAuditLog0001 == DropTables({"audit_log"})

Downgrades(h) == IF h = "app"
                 THEN <<Undo0001, Undo0002, Undo0003, Undo0004, Undo0005>>
                 ELSE <<UndoAuditLog0001>>

-----------------------------------------------------------------------------
VARIABLES
  schema,       \* the objects that are committed
  version,      \* version table: the revision stamped in it, 0 if there is none
  migration,    \* history: its job is "created", "running", "done" or "failed"
  base          \* history: the revision its running job started from, else 0

migrations == <<schema, version, migration, base>>

VersionTableShared(h) == "alembic_version"            \* mutant: Alembic's default
VersionTable(h) == IF h = "app" THEN "alembic_version" ELSE "alembic_version_reporting"

Revision(h) == version[VersionTable(h)]

MigrationsTypeOK ==
  /\ schema \subseteq Object
  /\ version \in [{"alembic_version", "alembic_version_reporting"} -> Nat]
  /\ migration \in [History -> {"created", "running", "done", "failed"}]
  /\ base \in [History -> Nat]

(* A database as some earlier release left it, or an empty one.            *)
MigrationsInit ==
  /\ \E m \in 0 .. Latest("app"), n \in 0 .. Latest("reporting") :
       /\ version = [t \in {"alembic_version", "alembic_version_reporting"} |->
                       IF t = "alembic_version" THEN m ELSE n]
       /\ schema = Adds("app", 1, m) \cup Adds("reporting", 1, n)
  /\ migration = [h \in History |-> "created"]
  /\ base = [h \in History |-> 0]

-----------------------------------------------------------------------------
Becomes(h, state) == migration' = [migration EXCEPT ![h] = state]

(* "alembic upgrade head" opens its transaction and reads the version.     *)
Begin(h) ==
  /\ migration[h] \in {"created", "failed"}
  /\ Becomes(h, "running")
  /\ base' = [base EXCEPT ![h] = Revision(h)]
  /\ UNCHANGED <<schema, version>>

(* The missing revisions, in one transaction with the version.  A version  *)
(* the history does not have, or an object that is there already, raises   *)
(* and takes everything back.                                              *)
Missing(h) == Adds(h, base[h] + 1, Latest(h))

Migrate(h) ==
  /\ migration[h] = "running"
  /\ IF base[h] <= Latest(h) /\ Missing(h) \cap schema = {}
     THEN /\ schema' = schema \cup Missing(h)
          /\ version' = [version EXCEPT ![VersionTable(h)] = Latest(h)]
          /\ Becomes(h, "done")
     ELSE Becomes(h, "failed") /\ UNCHANGED <<schema, version>>
  /\ base' = [base EXCEPT ![h] = 0]

(* The database or the job dies before the commit: all is rolled back, and *)
(* nobody restarts the job but "docker compose up".                        *)
MigrateFails(h) ==
  /\ migration[h] = "running"
  /\ Becomes(h, "failed")
  /\ base' = [base EXCEPT ![h] = 0]
  /\ UNCHANGED <<schema, version>>

(* "alembic downgrade -1", by hand, before the job was run or after it     *)
(* failed: nothing that waits for the job is up.                           *)
Downgrade(h) ==
  /\ migration[h] \in {"created", "failed"}
  /\ Revision(h) \in DOMAIN Downgrades(h)
  /\ schema' = schema \ Downgrades(h)[Revision(h)]
  /\ version' = [version EXCEPT ![VersionTable(h)] = @ - 1]
  /\ UNCHANGED <<migration, base>>

(* "docker compose down" removes the jobs' containers.                     *)
Reset ==
  /\ migration' = [h \in History |-> "created"]
  /\ base' = [h \in History |-> 0]
  /\ UNCHANGED <<schema, version>>

-----------------------------------------------------------------------------
(* Property                                                                *)

(* docs/adr/0009:37-38: whatever failed, was undone or ran beside it, each *)
(* version table says exactly which objects of its history there are, so   *)
(* no later upgrade skips a table or meets one.                            *)
SchemaIsStamped ==
  schema = Adds("app", 1, Revision("app")) \cup Adds("reporting", 1, Revision("reporting"))
=============================================================================
