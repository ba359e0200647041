----------------------------- MODULE Enrollment -----------------------------
(***************************************************************************)
(* POST /enrollments and the course endpoints that write course rows, on   *)
(* PostgreSQL at READ COMMITTED.                                           *)
(*                                                                         *)
(* A Request is a slot for one POST /enrollments in flight and an Admin a  *)
(* slot for one PUT or DELETE /courses/{id}; a slot is used again and      *)
(* again, so the slots bound what runs at the same time and not how much   *)
(* is ever sent.  A client retry is a Submit that repeats a payload,       *)
(* whether the first attempt has ended or still runs in another slot.      *)
(*                                                                         *)
(* The table variables hold committed rows.  What a transaction has        *)
(* written and not committed lives in its slot (left, aim): no reader can  *)
(* see it, and the row lock it holds until commit or rollback keeps other  *)
(* writers out.                                                            *)
(***************************************************************************)
EXTENDS Naturals, FiniteSets

CONSTANTS
  Course, Student, Key,   \* course ids, student ids, Idempotency-Key values
  Request, Admin,         \* slots for requests in flight
  Capacity,               \* the capacities administrators ask for
  None                    \* no key, no lock owner, no stored response

ASSUME CapacityPositive == Capacity \subseteq Nat \ {0}
ASSUME StudentsFinite == IsFiniteSet(Student)
ASSUME ActorsDistinct == /\ Request \cap Admin = {}
                         /\ None \notin Request \cup Admin
ASSUME NoneIsNoValue == None \notin Key \cup (Student \X Course)

VARIABLES
  created, live, capacity, seats,   \* courses: ids issued, rows, columns
  enrolled,                         \* enrollments: (student, course) pairs
  saved,                            \* idempotency_keys: key -> enrollment
  lockedBy,                         \* course row -> transaction locking it
  pc, args, left,                   \* a request: step, body + key, seats to write
  status, body,                     \* its response
  apc, aim,                         \* an admin request: step, what it read and wants
  drifted                           \* history: rows a stale PUT has overwritten

tables == <<created, live, capacity, seats, enrolled, saved>>
reqVars == <<pc, args, left, status, body>>
admVars == <<apc, aim>>
vars == <<tables, lockedBy, reqVars, admVars, drifted>>

Ledger == INSTANCE SeatLedger WITH created <- created, live <- live, capacity <- capacity,
                                  seats <- seats, enrolled <- enrolled, saved <- saved

Pair == Student \X Course
Args == [student : Student, course : Course, key : Key \cup {None}]
Aim == [op : {"update", "delete"}, course : Course,
        cap : Nat, taken : Nat, was : Nat, had : Nat]
Status == {"none", "created", "replayed", "already", "full", "missing", "error"}
Holding == {"insert", "save", "commit"}

TypeOK ==
  /\ created \subseteq Course /\ live \subseteq created
  /\ capacity \in [Course -> Nat] /\ seats \in [Course -> Nat]
  /\ enrolled \subseteq Pair
  /\ saved \in [Key -> Pair \cup {None}]
  /\ lockedBy \in [Course -> Request \cup Admin \cup {None}]
  /\ pc \in [Request -> {"idle", "lookup", "exists", "lock", "invalidate", "done"}
                          \cup Holding]
  /\ args \in [Request -> Args \cup {None}] /\ left \in [Request -> Nat]
  /\ status \in [Request -> Status] /\ body \in [Request -> Pair \cup {None}]
  /\ apc \in [Admin -> {"idle", "reread", "write", "commit"}]
  /\ aim \in [Admin -> Aim \cup {None}]
  /\ drifted \subseteq Course

(* The enrollment a request asks for.                                      *)
Wanted(r) == <<args[r].student, args[r].course>>

Roster(c) == {s \in Student : <<s, c>> \in enrolled}

Init ==
  /\ Ledger!Init
  /\ lockedBy = [c \in Course |-> None]
  /\ pc = [r \in Request |-> "idle"]
  /\ args = [r \in Request |-> None]
  /\ left = [r \in Request |-> 0]
  /\ status = [r \in Request |-> "none"]
  /\ body = [r \in Request |-> None]
  /\ apc = [a \in Admin |-> "idle"]
  /\ aim = [a \in Admin |-> None]
  /\ drifted = {}

-----------------------------------------------------------------------------
(* Helpers: the end of a transaction, and the answer of a request.         *)

ReleaseNothing(t) == UNCHANGED lockedBy                \* mutant
Release(t) == lockedBy' = [c \in Course |-> IF lockedBy[c] = t THEN None ELSE lockedBy[c]]

Goto(r, step) == pc' = [pc EXCEPT ![r] = step]

RowFreeUnlessDeleting(c) == lockedBy[c] \notin Admin   \* mutant: no FOR UPDATE
RowFree(c) == lockedBy[c] = None

(* Course._validate: any other row cannot be turned into a Course, so each *)
(* operation that loads it ends in InvalidCourseError.                     *)
Loadable(c) == capacity[c] > 0 /\ seats[c] <= capacity[c]

HasSeatOffByOne(c) == seats[c] >= 0                    \* mutant
HasSeat(c) == seats[c] > 0

(* available_seats after update_details, from the seats taken at the read. *)
ResizedSeatsKept(a) == seats[aim[a].course]            \* mutant: left alone
ResizedSeats(a) == aim[a].cap - aim[a].taken

EndAdmin(a) == /\ apc' = [apc EXCEPT ![a] = "idle"]
               /\ aim' = [aim EXCEPT ![a] = None]

Answer(r, st, b) == /\ Goto(r, "done")
                    /\ status' = [status EXCEPT ![r] = st]
                    /\ body' = [body EXCEPT ![r] = b]

-----------------------------------------------------------------------------
(* POST /enrollments                                                       *)

(* A client sends a body and, if k # None, an Idempotency-Key.             *)
Submit(r, a) ==
  /\ pc[r] \in {"idle", "done"}
  /\ args' = [args EXCEPT ![r] = a]
  /\ Goto(r, IF a.key = None THEN "exists" ELSE "lookup")
  /\ status' = [status EXCEPT ![r] = "none"]
  /\ body' = [body EXCEPT ![r] = None]
  /\ UNCHANGED <<tables, lockedBy, left, admVars, drifted>>

(* The stored response is replayed whatever the body of this request says. *)
Lookup(r) ==
  /\ pc[r] = "lookup"
  /\ \/ /\ saved[args[r].key] # None
        /\ Answer(r, "replayed", saved[args[r].key])
     \/ /\ saved[args[r].key] = None
        /\ Goto(r, "exists")
        /\ UNCHANGED <<status, body>>
  /\ UNCHANGED <<tables, lockedBy, args, left, admVars, drifted>>

Exists(r) ==
  /\ pc[r] = "exists"
  /\ \/ /\ Wanted(r) \in enrolled
        /\ Answer(r, "already", None)
     \/ /\ Wanted(r) \notin enrolled
        /\ Goto(r, "lock")
        /\ UNCHANGED <<status, body>>
  /\ UNCHANGED <<tables, lockedBy, args, left, admVars, drifted>>

(* SELECT ... FOR UPDATE, reserve_seat and the flush of available_seats:   *)
(* once the row is locked nothing another transaction does can come        *)
(* between the three.                                                      *)
Lock(r) ==
  LET c == args[r].course IN
  /\ pc[r] = "lock"
  /\ RowFree(c)
  /\ \/ /\ c \notin live
        /\ Answer(r, "missing", None)
        /\ UNCHANGED <<lockedBy, left>>
     \/ /\ c \in live
        /\ ~ Loadable(c)
        /\ Answer(r, "error", None)
        /\ UNCHANGED <<lockedBy, left>>
     \/ /\ c \in live /\ Loadable(c)
        /\ ~ HasSeat(c)
        /\ Answer(r, "full", None)
        /\ UNCHANGED <<lockedBy, left>>
     \/ /\ c \in live /\ Loadable(c)
        /\ HasSeat(c)
        /\ lockedBy' = [lockedBy EXCEPT ![c] = r]
        /\ left' = [left EXCEPT ![r] = seats[c] - 1]
        /\ Goto(r, "insert")
        /\ UNCHANGED <<status, body>>
  /\ UNCHANGED <<tables, args, admVars, drifted>>

(* A flush that violates a unique constraint: IntegrityError is caught     *)
(* nowhere, the session rolls back and the request ends in a 500.          *)
IntegrityErrorKeepsLock(r) == Answer(r, "error", None) /\ UNCHANGED lockedBy \* mutant
IntegrityError(r) == Answer(r, "error", None) /\ Release(r)

DuplicateNever(r) == FALSE                             \* mutant: no uq_student_course
DuplicateEnrollment(r) == Wanted(r) \in enrolled

(* INSERT INTO enrollments.  uq_student_course makes it wait for another   *)
(* transaction's uncommitted row and fail on a committed one.              *)
Insert(r) ==
  /\ pc[r] = "insert"
  /\ \A q \in Request \ {r} : ~ (pc[q] \in {"save", "commit"} /\ Wanted(q) = Wanted(r))
  /\ \/ DuplicateEnrollment(r) /\ IntegrityError(r)
     \/ /\ ~ DuplicateEnrollment(r)
        /\ Goto(r, IF args[r].key = None THEN "commit" ELSE "save")
        /\ UNCHANGED <<lockedBy, status, body>>
  /\ UNCHANGED <<tables, args, left, admVars, drifted>>

KeyNeverTaken(r) == FALSE                              \* mutant: an upsert
KeyTaken(r) == saved[args[r].key] # None

(* INSERT INTO idempotency_keys, with (key, endpoint) as primary key.      *)
Save(r) ==
  /\ pc[r] = "save"
  /\ \A q \in Request \ {r} : ~ (pc[q] = "commit" /\ args[q].key = args[r].key)
  /\ \/ KeyTaken(r) /\ IntegrityError(r)
     \/ /\ ~ KeyTaken(r)
        /\ Goto(r, "commit")
        /\ UNCHANGED <<lockedBy, status, body>>
  /\ UNCHANGED <<tables, args, left, admVars, drifted>>

Commit(r) ==
  LET c == args[r].course
      k == args[r].key IN
  /\ pc[r] = "commit"
  /\ seats' = [seats EXCEPT ![c] = left[r]]
  /\ enrolled' = enrolled \cup {Wanted(r)}
  /\ saved' = IF k = None THEN saved ELSE [saved EXCEPT ![k] = Wanted(r)]
  /\ Release(r)
  /\ Goto(r, "invalidate")
  /\ UNCHANGED <<created, live, capacity, args, left, status, body, admVars, drifted>>

(* The list cache is emptied and the 201 returned.                         *)
Respond(r) ==
  /\ pc[r] = "invalidate"
  /\ Answer(r, "created", Wanted(r))
  /\ UNCHANGED <<tables, lockedBy, args, left, admVars, drifted>>

(* The request dies at any point: the process or the connection is lost,   *)
(* Postgres or Redis fails, the client gives up.  Before the commit the    *)
(* session rolls back; after it the enrollment stays and the client        *)
(* learns nothing.                                                         *)
Fail(r) ==
  /\ pc[r] \notin {"idle", "done"}
  /\ Answer(r, "error", None)
  /\ Release(r)
  /\ UNCHANGED <<tables, args, left, admVars, drifted>>

-----------------------------------------------------------------------------
(* Course administration                                                   *)

(* POST /courses: the id is a new uuid, so nothing can interfere.          *)
CreateCourse(c, n) ==
  /\ c \notin created
  /\ created' = created \cup {c}
  /\ live' = live \cup {c}
  /\ capacity' = [capacity EXCEPT ![c] = n]
  /\ seats' = [seats EXCEPT ![c] = n]
  /\ UNCHANGED <<enrolled, saved, lockedBy, reqVars, admVars, drifted>>

(* PUT: the row is read WITHOUT a lock, and update_details works on what   *)
(* was read.  A capacity below the seats then taken raises, which leaves   *)
(* no trace, as does a course that has no row or cannot be loaded.         *)
UpdateRead(a, c, n) ==
  /\ apc[a] = "idle"
  /\ c \in live /\ Loadable(c)
  /\ n >= capacity[c] - seats[c]
  /\ aim' = [aim EXCEPT ![a] = [op |-> "update", course |-> c, cap |-> n,
                                taken |-> capacity[c] - seats[c], was |-> 0, had |-> 0]]
  /\ apc' = [apc EXCEPT ![a] = "reread"]
  /\ UNCHANGED <<tables, lockedBy, reqVars, drifted>>

(* repository.update loads the row a second time: the identity map holds   *)
(* the first object weakly and nothing else kept it.  What this read finds *)
(* decides which columns the UPDATE sets.  A row that is gone ends the PUT *)
(* with a 200, and when no column differs no UPDATE is sent; otherwise     *)
(* (the title may differ even if no seat column does) one is.              *)
UpdateReread(a) ==
  LET c == aim[a].course IN
  /\ apc[a] = "reread"
  /\ \/ /\ c \in live => capacity[c] = aim[a].cap /\ seats[c] = ResizedSeats(a)
        /\ EndAdmin(a)
     \/ /\ c \in live
        /\ aim' = [aim EXCEPT ![a].was = capacity[c], ![a].had = seats[c]]
        /\ apc' = [apc EXCEPT ![a] = "write"]
  /\ UNCHANGED <<tables, lockedBy, reqVars, drifted>>

DeleteRead(a, c) ==
  /\ apc[a] = "idle"
  /\ c \in live /\ Loadable(c)
  /\ aim' = [aim EXCEPT ![a] = [op |-> "delete", course |-> c, cap |-> 0,
                                taken |-> 0, was |-> 0, had |-> 0]]
  /\ apc' = [apc EXCEPT ![a] = "write"]
  /\ UNCHANGED <<tables, lockedBy, reqVars, drifted>>

(* The flush of the UPDATE or DELETE waits for the row lock and keeps it.  *)
(* No row left: StaleDataError for an UPDATE, a warning for a DELETE.      *)
AdminWrite(a) ==
  LET c == aim[a].course IN
  /\ apc[a] = "write"
  /\ RowFree(c)
  /\ \/ /\ c \in live
        /\ lockedBy' = [lockedBy EXCEPT ![c] = a]
        /\ apc' = [apc EXCEPT ![a] = "commit"]
        /\ UNCHANGED aim
     \/ /\ c \notin live
        /\ EndAdmin(a)
        /\ UNCHANGED lockedBy
  /\ UNCHANGED <<tables, reqVars, drifted>>

(* SQLAlchemy sets the columns whose new value differs from the second     *)
(* read, whatever the row holds by now.                                    *)
UpdateCommit(a) ==
  LET c == aim[a].course IN
  /\ apc[a] = "commit"
  /\ aim[a].op = "update"
  /\ capacity' = [capacity EXCEPT ![c] = IF aim[a].cap # aim[a].was THEN aim[a].cap ELSE @]
  /\ seats' = [seats EXCEPT ![c] = IF ResizedSeats(a) # aim[a].had THEN ResizedSeats(a) ELSE @]
  /\ drifted' = IF \/ aim[a].taken = capacity[c] - seats[c]
                   \/ UNCHANGED <<capacity, seats>>
                THEN drifted ELSE drifted \cup {c}
  /\ Release(a)
  /\ EndAdmin(a)
  /\ UNCHANGED <<created, live, enrolled, saved, reqVars>>

(* The enrollments of the course stay: nothing references it in the schema.*)
DeleteCommit(a) ==
  /\ apc[a] = "commit"
  /\ aim[a].op = "delete"
  /\ live' = live \ {aim[a].course}
  /\ Release(a)
  /\ EndAdmin(a)
  /\ UNCHANGED <<created, capacity, seats, enrolled, saved, reqVars, drifted>>

(* The cache delete between flush and commit fails, or the process dies.   *)
AdminFail(a) ==
  /\ apc[a] # "idle"
  /\ Release(a)
  /\ EndAdmin(a)
  /\ UNCHANGED <<tables, reqVars, drifted>>

-----------------------------------------------------------------------------
RequestStep(r) == Lookup(r) \/ Exists(r) \/ Lock(r) \/ Insert(r) \/ Save(r)
                    \/ Commit(r) \/ Respond(r)

AdminStep(a) == UpdateReread(a) \/ AdminWrite(a) \/ UpdateCommit(a) \/ DeleteCommit(a)

Next ==
  \/ \E r \in Request : \/ \E a \in Args : Submit(r, a)
                        \/ RequestStep(r)
                        \/ Fail(r)
  \/ \E c \in Course, n \in Capacity : CreateCourse(c, n)
  \/ \E a \in Admin : \/ \E c \in Course, n \in Capacity : UpdateRead(a, c, n)
                      \/ \E c \in Course : DeleteRead(a, c)
                      \/ AdminStep(a)
                      \/ AdminFail(a)

Spec == Init /\ [][Next]_vars

(* The server keeps running every request it has accepted.  A transaction  *)
(* waiting for a row is queued by Postgres in arrival order, so one that   *)
(* finds the row free again and again does get it: strong fairness.        *)
Fairness ==
  /\ \A r \in Request : WF_vars(RequestStep(r)) /\ SF_vars(Lock(r)) /\ SF_vars(Save(r))
  /\ \A a \in Admin : WF_vars(AdminStep(a)) /\ SF_vars(AdminWrite(a))

FairSpec == Spec /\ Fairness

-----------------------------------------------------------------------------
(* Properties                                                              *)

(* A row lock and the transaction that owns it agree, and the seat count a *)
(* transaction is about to write is the committed one less the seat it     *)
(* takes: no other writer came between FOR UPDATE and COMMIT.              *)
LocksHeld ==
  /\ \A c \in Course :
       /\ lockedBy[c] \in Request => /\ pc[lockedBy[c]] \in Holding
                                    /\ args[lockedBy[c]].course = c
       /\ lockedBy[c] \in Admin => /\ apc[lockedBy[c]] = "commit"
                                  /\ aim[lockedBy[c]].course = c
  /\ \A r \in Request : pc[r] \in Holding =>
       /\ lockedBy[args[r].course] = r
       /\ args[r].course \in live
       /\ seats[args[r].course] = left[r] + 1
  /\ \A a \in Admin : apc[a] = "commit" =>
       /\ lockedBy[aim[a].course] = a
       /\ aim[a].course \in live

(* The transactions whose end t waits for: the owner of a row, or whoever  *)
(* has inserted the same key of a unique index and not ended.              *)
WaitsFor(t) ==
  {u \in Request \cup Admin :
     \/ t \in Request /\ pc[t] = "lock" /\ u = lockedBy[args[t].course]
     \/ t \in Admin /\ apc[t] = "write" /\ u = lockedBy[aim[t].course]
     \/ /\ t \in Request /\ u \in Request \ {t}
        /\ \/ pc[t] = "insert" /\ pc[u] \in {"save", "commit"} /\ Wanted(u) = Wanted(t)
           \/ pc[t] = "save" /\ pc[u] = "commit" /\ args[u].key = args[t].key}

(* Nobody waits in a circle: row locks of courses, enrollments and keys    *)
(* are taken in one order, so PostgreSQL never has to abort a transaction. *)
NoDeadlock ==
  \A S \in SUBSET (Request \cup Admin) :
    S # {} => \E t \in S : WaitsFor(t) \cap S = {}

(* courses/domain/course.py:27: every stored course can be loaded as a     *)
(* Course again.  One administrator at a time keeps it so, stale PUTs      *)
(* included; two can set capacity and seats from different reads.          *)
SeatsInRange == \A c \in live : Loadable(c)

(* Seats left and students enrolled add up to the capacity of every course *)
(* that no PUT wrote after the number of seats taken had changed under it: *)
(* no failed, repeated, crashed or concurrent enrollment, and no other PUT,*)
(* ever loses a seat or takes one too many.                                *)
SeatsConserved ==
  \A c \in live \ drifted : seats[c] + Cardinality(Roster(c)) = capacity[c]

(* What a client was told is so: 201 means its enrollment is stored, with  *)
(* its key when it sent one; a replay hands out the response stored under  *)
(* its key, whose enrollment exists; 409 means the student is enrolled.    *)
AnswerTrue(r) ==
  /\ status[r] = "created" =>
       /\ body[r] = Wanted(r)
       /\ Wanted(r) \in enrolled
       /\ args[r].key # None => saved[args[r].key] = Wanted(r)
  /\ status[r] = "replayed" =>
       /\ args[r].key \in Key
       /\ body[r] = saved[args[r].key]
       /\ body[r] \in enrolled
  /\ status[r] = "already" => Wanted(r) \in enrolled

AnswersTrue == /\ \A k \in Key : saved[k] # None => saved[k] \in enrolled
               /\ \A r \in Request : AnswerTrue(r)

(* Every commit is one step of the ledger: enrollment, seat and key row    *)
(* together, on a live course with a seat free and a key never used.       *)
LedgerSpec == Ledger!Spec

(* Every accepted enrollment request is answered: lock queues, key         *)
(* conflicts and failures of others never leave it waiting for ever.       *)
RequestsAnswered ==
  \A r \in Request : pc[r] \notin {"idle", "done"} ~> pc[r] = "done"

(* Every PUT and DELETE of a course ends too.                              *)
AdminsAnswered == \A a \in Admin : apc[a] # "idle" ~> apc[a] = "idle"
=============================================================================
