# School ERP in TLA+

Specifications of the school ERP in `src/`: a FastAPI backend on PostgreSQL and
Redis behind nginx, an outbox relay that publishes to SNS, the three subscribers
that consume the events from SQS, and the migrations and containers under them.
The modules model the parts where several requests, processes or messages meet,
TLC checks them on small instances, and TLAPS proves their central invariants
for every size.

## 1. The system

| Part | State | Operations | Meets others through |
|---|---|---|---|
| Sessions (`shared/database`) | one transaction per request | opened by a dependency, committed by the router, rolled back otherwise | every write below |
| Enrollment (`modules/enrollment`) | `enrollments`, unique on (student, course) | POST /enrollments | course rows (`SELECT ... FOR UPDATE`), idempotency keys, list cache |
| Courses (`modules/courses`) | `courses`: capacity, available_seats | create, list, get, update, delete | enrollments take seats; list cache |
| Idempotency (`shared/idempotency`) | `idempotency_keys`, primary key (key, endpoint) | get, save | POST /enrollments and POST /attendance |
| Grades (`modules/grades`) | `grades` with score, letter and version, unique on (student, course) | submit | other submissions of the same grade |
| Attendance (`modules/attendance`) | `attendance_records`, unique on (student, course, day) | record | writes `outbox_events` in its own transaction |
| Outbox and relay (`shared/outbox`, `shared/messaging`) | `outbox_events`: pending, published, failed | add; claim, publish, mark | SNS; other relays |
| List cache (`shared/cache`) | Redis pages with a TTL | get, set, delete by prefix | list requests; every write to courses, students, teachers |
| Notification (`services/notification`) | circuit breaker, in memory | poll, email, delete | its SQS queue with redrive |
| Notification Lambda | circuit breaker, in a warm environment | one handler per batch | a queue of its own, beside the container's: each event is mailed by both |
| Reporting (`services/reporting`) | `audit_log` | poll, insert, delete | its SQS queue with redrive |
| Students, Teachers | rows with a unique email | create, update, delete | list cache |
| Auth | users, argon2 hashes; tokens are signed, never stored | register, login, refresh | the bearer check of every router |
| Middleware and observability | counters, histograms, logs | every request, on the way in and out | exceptions of the handlers |
| Proxy (`infra/nginx`) | failures counted for each replica | choose a replica, give up, pass on | two backend replicas |
| Migrations and containers (`alembic`, `infra/compose`) | tables, constraints and types; two version tables | upgrade, downgrade; start, stop | every process that uses the database |
| Frontend | `stores/students.ts` and views | list, search, edit | HTTP |

What is hard about them:

* **Transactions that interleave.** PostgreSQL runs at READ COMMITTED. What
  keeps two requests apart is, from place to place, a row lock, a unique index,
  a version column or nothing. `PUT /courses` reads without a lock and writes
  what it computed from the read.
* **Retries.** A client that lost its answer sends the request again, with or
  without an `Idempotency-Key`, perhaps while the first one still runs. nginx
  does the same on its own with PUT and DELETE.
* **Crashes between two effects.** SNS accepted a message and the mark was not
  committed; an email was sent and the SQS delete was not; the database
  committed and the cache was not cleared; a migration job died between two
  revisions.
* **Caching beside writes.** The service layer clears the cache before its
  router commits, the enrollment router after.
* **At-least-once delivery** with a visibility timeout, a receive limit, retries
  in the process and a circuit breaker, all counting separately; and a Lambda
  whose batch has one outcome.
* **State that is believed, not read**: a token after its user was deactivated,
  a version table before the next upgrade.

What makes each part correct:

* Enrollment and courses: seats left and students enrolled add up; no answer
  says something the tables do not hold; no key enrolls twice; every row can be
  loaded again.
* Grades: no committed grade is lost without its author being told, the grade
  stored is the one its last writer asked for, a 409 is given only for real
  contention, and the retry loop ends.
* Attendance: a record and its event exist together and once.
* Students, teachers, users: no two rows share an email, a sequential client never gets a
  500, an undisturbed PUT is stored, nothing revives a deleted row.
* Relay: no two relays work on one row, a published row was published, a
  duplicate has a crash or a lost answer behind it, nothing pending is forgotten.
* List cache: a page is stale only for a reason, and never for ever.
* Subscribers: nothing is deleted undone, nothing stays in a queue for ever, and
  a duplicate has a fault behind it.
* Sessions and proxy: a deactivated user is let in no longer than an access
  token lasts, a POST is not repeated, a 4xx is true, the metrics miss only 500s.
* Migrations: a version table says exactly what its history has built, and no
  process runs without the tables it needs.

## 2. The modules

| Module | Models | Used by |
|---|---|---|
| `SeatLedger` | the abstract promise of enrollment: seat, row and key in one step | `Enrollment` (INSTANCE, refinement) |
| `Enrollment` | POST /enrollments and PUT, DELETE, POST /courses, statement by statement | `EnrollmentProofs`, `MCEnrollment` |
| `GradeBook` | the abstract promise of a grade: a versioned register, written in one step | `Grades` (INSTANCE, refinement) |
| `Grades` | `GradeService.submit` and its router, with what is graded | `GradesProofs`, `MCGrades` |
| `Attendance` | POST /attendance with outbox and idempotency row | `Deployment` (EXTENDS), `Journey` (INSTANCE) |
| `Migrations` | the revisions of both Alembic histories, their jobs and version tables | `Deployment` (EXTENDS) |
| `Deployment` | the containers that wait for a migration, and `Attendance` served by them | `AttendanceProofs`, `MCDeployment` |
| `People` | create, update and delete of students and teachers, and registration: a table with a unique email | `PeopleProofs`, `MCPeople` |
| `AtLeastOnce` | the abstract promise of whoever delivers: owed, done, settled, and what a duplicate costs | `Relay`, `Consumer`, `Pipeline`, `Journey` (INSTANCE, refinement) |
| `Relay` | `relay_once` and its loop | `Pipeline` (EXTENDS), `MCRelay` |
| `Queue` | one SQS queue with its dead-letter queue, as the subscribers use it | `Consumer` (EXTENDS) |
| `Consumer` | the polling loop of notification and reporting, and the Lambda's batches | `Pipeline` (INSTANCE), `ConsumerProofs`, `MCConsumer` |
| `Pipeline` | the relays, the topic and a subscriber in a row | `Journey` (EXTENDS) |
| `Journey` | POST /attendance in front of the pipeline | `RelayProofs` (EXTENDS), `MCJourney` |
| `ListCache` | `cached()`, `delete_prefix` and the two orders of commit and clearing | `ListCacheProofs`, `MCListCache` |
| `Sessions` | login, refresh, bearer and role check, token lifetimes | `Serving` (EXTENDS) |
| `Serving` | nginx, two replicas and their middleware around any writing request | `ServingProofs`, `MCServing` |

Each `MC` module only adds symmetry sets and the small sets a `.cfg` names.
`PROJECT.json` maps every definition to the lines it stands for. The lines
marked *mutant* are wrong versions of the definition below them; each run is
repeated with one of them in place to see that a property notices.

### 2.1 How the code maps to state and steps

**What is committed and what is not.** Table variables hold committed rows. The
uncommitted work of a transaction lives in its slot, as a program counter and
what it will write; its commit is the one step that changes the tables. A step
is what one SQL statement, Redis command or AWS call does. Between two such
calls the coroutine may be suspended, and the others run.

**Locks.** A row lock is a variable (`lockedBy`, `writer`, `claimed`) or is implied
by the program counters (a unique index makes an INSERT wait for another
transaction that has inserted the same key and not ended). A blocked statement
is a step that is not enabled.

**Slots.** A `Request` or `Admin` is a slot for one request in flight and is used
again after its answer, so the slots bound concurrency, not history. `Grades` is
the exception: its submissions run once, which bounds its version.

**Failure.** `Fail`, `AdminFail`, `WriteFail`, `ReaderFail`, `MigrateFails` and `Crash` may
happen at any step: process, connection, database, Redis or client. They release what
a transaction held and keep what was committed.

**Enrollment.** `Lookup` and `Save` are the idempotency store, `Exists` the first
query of the service, `Lock` the `FOR UPDATE` with `reserve_seat` and its flush, `Insert`
the enrollment row under `uq_student_course`, `Commit` the router's commit, `Respond` the
cache deletion and the 201. A PUT of a course is `UpdateRead`, `UpdateReread`,
`AdminWrite`, `UpdateCommit`. The second read is there because `repository.update`
calls `session.get` again and the identity map holds the first row object only
weakly: nothing keeps it after `repository.get` returned. SQLAlchemy then writes
the columns whose new value differs from the *second* read, while the new values
come from the *first*. Where the object does survive, the two reads see the same
row, which is the behaviour with nothing between the two steps. A row whose seats
are out of range cannot be turned into a `Course`, so the operations that load it
raise (`Loadable`). The seat counts of a deleted course keep their last value,
which nothing reads. `drifted` is history: the courses a PUT has written after
the number of seats taken had changed since it first read them.

**Grades.** One (student, course) pair stands for all. `row` is the committed score and
letter, `grade` the entity a submission holds: `Reload` replaces it by the row, and the next
`Update` scores it again. `log` is history and says which submission wrote each version;
`first` is the version a submission first read.
`GradeBook` is what all this is for: `Commit` is its `Write`, the answers are its `Answer`, and nothing else is seen.

**People.** `students`, `teachers` and `users` are one table here: services and repositories
take the same steps, and a user is only ever created. `Load` and `Check` are the reads of
the service, `Reread` the `session.get` of the repository, which decides whether there is an
UPDATE to send and whether it changes the email. `Flush` takes the row, `Index` the email. A transaction
that wants an email waits for whoever is entering it and for whoever is rewriting or
deleting the row that has it (`Deciders`), and keeps its own row meanwhile: two PUTs can wait for
each other when other requests have exchanged their emails after their checks, and `Abort` is
PostgreSQL's deadlock detector. A PUT whose row is gone at `Reread` answers 200 and stores nothing;
if it is gone at `Flush`, a 500. `raced` and `touched` are history: another request has entered the email this one wants in another
row since its check, and another has written its row since its last read. No other commit sets them.

**Relay.** An event is its rank in `created_at` order; its row appears when the
transaction that wrote it commits, in any order. `PublishRaises` covers an exception with and
without SNS having taken the message, `Resend` a message that boto3 sends once more by itself because the answer to the first
was lost (its default retries; the client is made without a `Config`). All marks of a cycle commit together.

**Subscribers.** A behaviour of `Consumer` is one queue and the processes of one
`service`, chosen at the start. The pollers try each message up to `Attempts` times and
delete it before the next (`Take`, `Delete`); the Lambda tries each record once, and the event source
mapping deletes the batch after the function returned, or nothing if a record raised (`Lost`).
Only notification and Lambda have a breaker (`Guarded`), in the memory of a process:
it survives batches and warm invocations, not a crash. `spoiled` is history and counts the faults that
can cause a duplicate: a crash in the middle of a message, a visibility timeout that
ran out in somebody's hands, an error whose effect happened all the same, a delete that
raised, an email boto3 sent again within the call (`Resend`), a neighbour in a Lambda's batch that failed.
The other calls boto3 may repeat have steps already: a second delete changes nothing, and a receive whose answer was lost is
`Poll` and a crash that has done nothing yet. Nothing repeats reporting's insert.

**AtLeastOnce** is what both ends of the topic promise. `Relay` maps a row's status to
an event's fate, published deliveries to `done`, rolled-back cycles and resends to `faults`; `Consumer` maps a
message's place, its emails or audit rows, and `spoiled`. `Decide` settles several items at once
because a relay's commit and a Lambda's batch do.

**Pipeline.** A message of the queue is a pair (event, n): the n-th time SNS accepted the event (`Copy`, `Accepted`). Only a
message SNS has accepted can appear in the queue (`Queued`), at once or later; `effect` of a
pair says how often that copy was mailed or audited, and what happens between two receives of
one copy stays `Consumer`'s. One subscriber stands for the three: each has a queue of its own, nothing of one is read by another.
For the abstract promise an event is settled when its row is marked and each copy has left the queue, and lost when the row failed
or a copy was dead-lettered, and no copy was deleted.

**Journey.** A slot of `Attendance` (student, course, day) is the event of its attendance. `Enqueue`
is where the two meet: the outbox row a transaction commits is, by its column's default, pending for the relays, and no other step of a
request touches what they see. `Promise` looks at the attendance row, not at the outbox: a row that was committed
without its event would be owed for ever.

**ListCache.** The table is a version number, a page the two versions its two queries
saw (the rows and the count are separate snapshots). `Scan` may or may not return a key
set while it runs, as Redis promises. `clean` is history: no write was past the page
when it was filled.

**Sessions.** A token pair is its user and the minute it was issued. `Login` and
`Refresh` read the row, `Issue` stamps the pair with the clock (`IssuedAt`: a token is never from the future) some time later (`Patience` is a bound on how much:
the code has none but the client's and the proxy's timeouts). `Deactivate` stands for a
change of the row from outside, since `User.deactivate` has no caller.

**Serving.** What a handler does in the tables is one `Commit` here; the other modules say what is behind it.
`Connect`, `GiveUp` and `NoneLeft` are nginx with `proxy_next_upstream error timeout http_502 http_503
http_504`: a request that was sent is passed on only if its method is idempotent, and a replica that was given
up on goes on working (`Unheard`). `kind` is "post" or, for PUT and DELETE, "put". `Authorize`, `Reject`, `Refuse`,
`Complete` and `Raise` are the paths through the two middlewares; only an exception passes
`PrometheusMiddleware` by (`Counts`). `counted` and `granted` are history.

**Migrations.** A schema is a set of pairs: a table with its rows, a table with columns
that are unique in it, a named type. Each `upgrade()` is the set it adds, each `downgrade()`
the set it removes; dropping a table takes its constraints along but not the type of its column.
`Begin` reads the version table, `Migrate` applies what is missing and stamps it in
one transaction, as Alembic does with PostgreSQL, or raises if an object is there already.
`MigrationsInit` is a database as any earlier release left it.

**Deployment.** `Needs` is what the ORM models of a process take for granted. `Start` is
compose's `service_completed_successfully`; `Down` is `docker compose down`, which removes the jobs too. A request
of `Attendance` needs a running backend (`Arrive`, `Handle`).

## 3. The runs

| Run | Question | Instance |
|---|---|---|
| `enroll_seats` | Do row locks keep what a transaction knows true, and do seats and roster add up? (`LocksHeld`, `SeatsConserved`) | 1 course, 2 students, 2 requests, 2 administrators, capacities 1 and 2, no keys |
| `enroll_keys` | Is every response true, does anybody wait in a circle, and are the transactions one atomic step each? (`AnswersTrue`, `NoDeadlock`, `LedgerSpec`) | 2 courses, 1 student, 1 key, 2 requests, 1 administrator |
| `enroll_live` | Does every request and every course write end? Does one administrator keep every course loadable? (`RequestsAnswered`, `AdminsAnswered`, `SeatsInRange`) | 1 course, 1 student, 1 key, 2 requests, 1 administrator, capacities 1 and 2 |
| `enroll_unloadable` | *violation*: two administrators do not (`SeatsInRange`) | 2 administrators, 1 request |
| `grades` | Is any grade lost (`EveryWriteKept`), is a 409 earned, does the loop end, and is the whole one atomic write of what was asked for (`ImplementsGradeBook`)? | 5 submissions (4 valid, on both sides of two letters), 2 attempts |
| `people` | Are emails unique? Does a 500 need a rival on the same email or row (`ErrorIsRaced`)? Is a PUT stored (`PutIsStored`), and a deleted row gone (`GoneForGood`)? | 2 people, 3 emails, 3 requests |
| `deployment` | Are the stamps right and does whatever runs have its tables (`SchemaIsStamped`, `TablesInPlace`)? In attendance: one event per record, answers true, no waiting for ever | 1 backend, 1 relay, 1 reporting process, all six revisions; 2 slots, 1 key, 2 requests |
| `relay` | Duplicates paid for, at-least-once implemented (`ImplementsDelivery`), nothing forgotten | 3 events, batches of 2, 2 relays, 2 crashes or resends |
| `subscribers` | Is at-least-once implemented in batches, by processes that overlap, and is every duplicate paid for (`ImplementsDelivery`)? | each of 3 services, 2 messages in one batch, 2 processes, 2 tries, receives and failures, the first email of a message resent or not |
| `journey` | Is every attendance that was recorded, and nothing else, delivered (`RecordsAreDelivered`), and does it end (`RecordedIsServed`)? | 1 slot, 1 key, 1 request slot, 1 relay with 1 crash or resend (hence 2 copies), each of 3 services with 1 process, batches of 2, 1 try, 1 receive |
| `list_cache` | Is a stale page explained (`StaleHasCause`), and does staleness end (`FreshAgain`)? | 2 pages, 2 readers, 1 course write, 1 enrollment |
| `serving` | What is done twice (`NotRepeated`), what is a 4xx worth (`RefusalIsTrue`), what do the metrics miss (`MetricsSeeAnswers`), how long does a token outlive its user (`CutOff`)? | 1 user, 1 request, 2 replicas, 1 login at a time, tokens of 1 and 2 minutes, 3 minutes |

### 3.1 Why these bounds

Two requests, relays, readers or processes give every pairwise interleaving of
the locks and indexes, none of which knows more than two parties. A third actor
is in an instance where the code counts to it: a 409 of `POST /grades` needs the row
and then one rival for every attempt, hence four valid submissions for two attempts (the deployed
three attempts would need five, too many states for the liveness property; the theorems
hold for every number of attempts and of submissions), and a lost seat needs a PUT, an enrollment and
another enrollment or PUT. Two PUTs of `People` deadlock only after a third request has
exchanged their emails, which takes a third email on the way. Two courses are in `enroll_keys` because only requests
for different courses reach the key insert at the same time; there one
student is enough. Capacities 1 and 2 contain the last seat, a full course, a course
that shrinks and one that grows. Three events with batches of two leave one
behind the batch. Two pages are the fewest with which a prefix deletion has a
middle. `MaxCrashes` bounds the relay's rolled-back cycles and resends and, with them,
`delivered`; the duplicates one of them can cause are all there with two. Submissions and
writes of `Grades` and `ListCache` run once, which bounds the version.

`subscribers` has batches, which the Lambda's common fate and a message that expires behind
another need; tries and receives are 2 instead of the deployed 3 for size, two being enough for a retry and a redelivery. `MaxResent` is 1: boto3 may send a call up to five times, but one resend shows what a
resend does, and the theorems hold for any bound.
`journey` needs one slot, because events meet only in a batch, which `relay` and
`subscribers` have; the crash or resend, because only those make a second copy, and batches of two, so that the copies meet in
one; a request slot that is used again, so that the same attendance is sent, replayed and refused while its event is anywhere on its way. It
leaves racing requests to `deployment`, retries, redelivery and resent emails to `subscribers` (`MaxResent` is 0: whether a copy was mailed once or twice is not seen end to end), and its liveness is that of each service with the queue's and
the breaker's limits at 1: a failure that never reaches the dead-letter queue is as endless there as with 3. What the composition has
and the parts do not is proved for every size (section 4).

In `serving` `EndOfTime`, the last
minute looked at, is past the last minute of the first tokens and of their first refresh; `MaxFails` is
1 instead of 3, so that the one request meets replicas that are out of rotation.
More replicas or users add nothing that two replicas and one user do not have: a request looks at its own token and at
the replicas it tried.

`Attendance` is checked inside `Deployment`, and again inside `Journey`, but not alone: its behaviours in `Deployment` are behaviours of its own
specification (theorem `DeployedIsAttendance`), and they include a database that was migrated, undone and
migrated again before the first request, and a stack taken down between requests. One key is enough for
it: two requests with one key, with different or the same slots, and without a key are all there.
The bounds in `Deployment` are in the guards, and named there: a revision is only undone before the first row is
stored, since a downgrade that drops rows breaks any promise about them; a downgrade is done only while its history's
job has not finished, when nothing that waits for it is up; a job has two steps on the database, reading the stamp
and the transaction.

Everywhere else the state is finite by itself. The states of most modules in which everything is done still
let a client, an expiring key or a poll go on, so deadlock is checked in every run.
`Grades` and `Relay` end in a step that says all is done (`AllDone`, `Quiet`).

### 3.2 Fairness

* Weak fairness on the steps of a request that was accepted: the event loop
  runs every coroutine that can run. Nothing obliges a client to send one, an
  administrator to start one, a job or a container to be started, or anything to fail. In `Deployment`
  a request that was accepted either goes on or was cut off before the stack went down.
* Strong fairness on `Lock`, `Save`, `Insert` (of `Attendance`) and `AdminWrite`: PostgreSQL
  queues waiters for a lock in order of arrival, so a waiter that finds it free
  again and again gets it. Slots are reused, so without it two other requests
  could overtake one for ever. `Grades` has finitely many submissions and needs none.
* Weak fairness on a relay's cycle and a subscriber's loop: both loop for ever,
  catch what a cycle raises and are restarted by their container; AWS invokes the Lambda while there are
  messages. `Journey` asks for the same of the steps it is made of.
* Weak fairness on SQS's timers and on Redis's TTL. None on cooling the
  breaker: `RecordedIsServed` holds even if it stays open, since a refused try counts as one.
* `People` and `Serving` state none: see section 5. `Consumer` and `Pipeline` have theirs in `Journey`.

### 3.3 Where code and documents disagree

The run `enroll_unloadable` shows one: administrator A reads (capacity 2, seats 2) and wants capacity
1, so seats 1. A student enrolls: seats 1. A reads again: capacity differs, seats do
not, so A will write the capacity only. Administrator B, whose PUT had read the row before
the enrollment, restores seats 2. A commits capacity 1, and the row is
(1, 2). `Course._validate` (`courses/domain/course.py:27`) then refuses it on every load: PUT,
DELETE and enrollment fail, and so does any list that contains it.

The others were met while modelling and have no run of their own.

* *Courses.* A course can hold more students than its capacity: an enrollment commits between the
  unlocked read and the write of a PUT (`courses/application/service.py:101`; this
  is what `drifted` exempts from `SeatsConserved`).
* *Keys.* A key sent with another body, or by another user, is
  answered with the first enrollment (`enrollment/api/router.py:64`; `AnswersTrue` says only that the
  replay is the stored one). A retry that looks its key up before the first
  attempt commits is told 409 (`enrollment/application/service.py:45`).
* *Grades.* A correction that lost its version check reloads and writes its own score over one its author
  never saw (`grades/application/service.py:74`), which ADR 0011 says the check prevents; `EveryWriteKept`
  says that no *version* is lost.
* *List cache.* The service clears the cache before its router commits (`courses/application/service.py:108`), so a list
  request in between caches the old rows again for a TTL. ADR 0006:64-66 calls explicit
  invalidation correct as soon as the write commits. `StaleHasCause` says what does hold.
* *Relay.* A publish that raises once marks its row failed, and only pending rows are ever selected
  (`shared/outbox/repository.py:60`; a lost item of `AtLeastOnce` stays lost), while ADR 0008 calls
  publishing a retryable, at-least-once step.
* *Proxy.* `main.py:64-71` and ADR 0005:24-28 say that nginx's health check asks `/health/ready` and takes a replica
  without a database out of rotation. nginx makes no such request, its checks are passive (ADR 0005:37 and
  `nginx.conf:34-38` say so), and a 500 of such a replica is not among the failures they count.
* *Metrics.* `PrometheusMiddleware` says it records every request that passes through; one whose handler
  raises is not recorded (`observability/middleware.py:49`), which `MetricsSeeAnswers` states exactly.
* *Indexes.* The docstring of migration 0005 and ADR 0011:25-28 list composite indexes that its `upgrade()`
  never creates, and the ORM declares `index=True` on student columns no migration indexes. The unique constraints, which
  the properties rest on, are all created (`TablesInPlace`).
* *Autogenerate.* `backend/alembic/env.py` does not import the ORM of grades, and neither history knows the tables
  of the other, so `alembic revision --autogenerate` would propose to drop tables that are in use.
* *Bind mounts.* compose mounts the working tree, so a reloaded or restarted backend may run newer code than the last
  migration; `TablesInPlace` is about one version of the code.
* *Frontend.* `api/client.ts` sends no Authorization header, which the routers that write ask for.

## 4. The proofs

All theorems hold for any number of requests, processes, rows and messages, from
the assumptions on constants the modules name (capacities positive, finitely many students,
processes and replicas, actors distinct, limits positive). Every type invariant is one of them (`TypesSafe`,
`DeploymentTypesSafe`).

* **Enrollment.** `LockInv` says which transaction holds which row and what it
  knows of it: the seats it will write are the committed ones less one.
  Nothing else is inductive without it. From it:
  `LocksSafe`, then `AnswersSafe` with `Fresh` (what the INSERTs
  established is still so at the commit: the enrollment is not there, the key is not taken, no
  two transactions hold one key), then `SeatsSafe`. That one needs `ReadsPast`: on a course no PUT has
  spoilt, what a PUT read counts the students enrolled then, and the roster only grows; so if the
  seats taken are at the commit what they were at the first read, they were so at
  the second read too, and the two columns change together or not at all.
  `ImplementsLedger` maps every step to a step of `SeatLedger` or a stutter. `NobodyDeadlocks` rests on the lemma `WaitsEnd`: whoever
  is waited for waits for nobody, unless it is about to save a key another has inserted, and that one waits for nobody. `SeatRangeAlone` proves
  `SeatsInRange` under the assumption that there is at most one administrator,
  the assumption the violation run shows to be needed.
* **Grades.** `Known` ties what a submission loaded to its attempt: each failed attempt has seen
  at least one more version. It makes `EveryWriteKept` (`WritesKept`), `WriterCurrent` (`WritersAlone`) and `ConflictIsEarned`
  (`ConflictsEarned`) inductive. `Held` adds that a submission past its write holds a grade of its own
  score, whatever it had reloaded: `LastWritesStand`.
  With both, a commit is a write on top of the committed version, of the grade asked for, by a submission that has not been answered; `GradesAreABook`
  maps every other step to an answer or a stutter.
* **People.** `EmailHeld`: a request about to write an email owns its index entry and no other row
  has it, which is what makes `EmailsUnique` inductive; the SELECT of the service plays no part.
  `RowHeld` and `FreshApart`: an UPDATE of an email owns a row that is there, a DELETE owns its row or found none,
  and no two creates share an id. `EmailsStayUnique`, `LocksHaveOwners`, `GoneStaysGone`.
  `ReadsHold` says what a read still tells at the next steps: the row is what the second read saw unless somebody wrote it since (`touched`), and the email
  checked is still free unless somebody entered it in another row since (`raced`). Hence `PutsAreStored`, and, with the lemma
  `CircleIsRaced` (two PUTs in a circle want emails that were free when they looked), `ErrorsAreRaced`.
* **Attendance.** `IInv` adds that a request past its INSERT is alone with its slot and its
  slot has no row yet, and the same of keys: `RecordsHaveOneEvent` and `AnswersSafe`.
* **Deployment.** `DeployedIsAttendance`: every step of the deployment is a step of `Attendance` or leaves it
  alone, so the theorems about `Attendance` hold there. `DInv` adds to `SchemaIsStamped` that a running job remembers
  the stamp as it still is, that a job that is done left its history at the latest revision, and that
  whatever runs waited for such a job (`Ready`). A downgrade preserves it because a revision undoes all it created
  (`UndoesAll`) and nothing of another revision of either history (`UndoesOnlyItsOwn`, `NamesApart`).
  `StampsHold` and `ProcessesHaveTables`.
* **Relay.** `Books` ties a relay's lists to what SNS got; an untried event has no
  unpaid delivery. `RelaysDisjoint` (claims never overlap), `DuplicatesPaidFor` (of `NoDoublePublish`), and the refinement `RelaysDeliver`: a relay's
  steps are `Owe`, `Do`, `Decide` and `Fault` of `AtLeastOnce` or stutter.
* **Pipeline and Journey** (in `RelayProofs`). The invariants and step lemmas of `ConsumerProofs` and `AttendanceProofs` are used as they
  stand, through instances; `HopsDeliver`, `JourneyIsPipeline` and `JourneyIsAttendance` say that putting the parts together takes nothing from them. `PipeInv` adds
  two facts to the parts: crashes and resends bound the acceptances of an event, so that every one of them has a copy (`CrashesCounted`), and a copy that
  has left its first place was accepted (`NothingMadeUp`). `PipelineDelivers` follows: a deleted copy was handled; a copy handled beyond the first
  is one SNS accepted beyond the first, which `NoDoublePublish` pays for. `JourneyInv` adds `Coupled`: an outbox row is there exactly when its attendance is. With it
  the end-to-end promise carries over from the outbox row to the attendance: `RecordsDelivered`, `OnlyRecordsAreHandled`.
* **ListCache.** `CleanAhead`: no service write has passed a clean page, or its commit would
  make it stale with nobody left to clear it. `StalePagesExplained`.
* **Consumer.** `Hands` is what a process knows of its batch; `Paid` is an account: effects so far, plus processes that
  may still cause one, never exceed the faults so far plus a free one, and the free one is there only while the message is
  settled or its last receive is in somebody's hands. `DeletedMeansDone`, `DuplicatesHaveCauses`, and the refinement `SubscribersDeliver`.
* **Serving.** `Signed`: whatever speaks for a user (a desk, a pair, a token on its way) was made of a row read before the
  deactivation, at most `Patience` earlier; hence `DeactivatedAreCutOff`. `Jobs` says where a
  request can be worked on; `Spending` that its commits and the replicas that may still commit it never exceed
  its budget, one for a POST and one per replica for the rest: `PostsNotRepeated`, `RefusalsAreTrue`.
  `MetricsAreComplete` follows from what a replica has counted when it answers.

`LastWriteStands`, `NoDoublePublish`, the subscribers' `DuplicatesPaidFor` and `DeliversEndToEnd` have theorems and no run: each
follows from a refinement a run does check, `ImplementsGradeBook` and the two `ImplementsDelivery`, or, with `Coupled`, from `RecordsAreDelivered`.

Only model-checked: every liveness property (liveness under fairness and `ENABLED`
are beyond the prover), `SeatsInRange` with more than
one administrator (it is false), and the counterexample.

## 5. What is not modelled

* The frontend store: a last-write-wins cache of list responses in the browser; nothing in its code orders
  responses, so there is no mechanism to check. Views and HTTP clients keep no state.
* Validation of request bodies beyond a grade's score, password hashing and signatures (library calls), and reads that change nothing.
* `deactivate` of courses, students and teachers and their `is_active`: no endpoint calls the first, no write
  looks at the second. `release_seat` has no caller.
* The connection pool and its limit; the reporting service creates an engine for every try and
  disposes of none, whose effect is on the database server's limit.
* Which columns but the email a PUT changes: it matters only whether there are any.
* Liveness of `People`: its three requests are too many for it without symmetry. Whoever waits waits
  for a running transaction (`LocksOwned`, proved), and a circle is broken (`Abort`). Liveness of `Serving`: it rests on nginx's
  timeouts alone.
* More than one subscriber at once in `Pipeline` and `Journey`, and containers or migrations under them (`Deployment` has those, for `Attendance`).
* Plain indexes, column types and defaults of the schema; Alembic's offline and autogenerate modes; two people running one history's
  job at once, which compose's single job container excludes.
* Request ids, log files, durations and traces.
* boto3's retries of a request that was not accepted, which nobody outside can see, and the pauses between them.
* The clock, except in `Sessions`: visibility timeouts, TTLs, backoff and the breaker's reset time may run out at any moment.
* Serialisation of events and cached pages, beyond which fields they carry.
* PostgreSQL's deadlock detector in `Enrollment` and `Attendance`: transactions of `Enrollment` never wait in a circle
  (`NobodyDeadlocks`); those of `Attendance` take their two index entries in one order (`RequestsAnswered` holds without it).

## 6. Plan

Written so far, in this order: enrollment with its ledger, grades, relay, attendance, list cache,
queue and consumer, people; then the at-least-once promise and its two refinements, the Lambda, sessions and
serving, what is graded, migrations and deployment, with their theorems; then the pipeline and the journey of an attendance
through it, the grade book, the freedom from deadlock of enrollment and the action properties of people. Next:

1. An abstract directory for `People`: unique emails and one atomic write per answer, with the exemptions a lost row needs.
2. The same freedom from deadlock for `Attendance`, as a theorem.
3. `StudentsStore`, if the store comes to order its responses.
