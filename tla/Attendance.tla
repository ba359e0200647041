----------------------------- MODULE Attendance -----------------------------
(***************************************************************************)
(* POST /attendance: the producer side of the outbox.  The attendance row, *)
(* the outbox row and the idempotency row are flushed one after the other  *)
(* and become visible in one commit.                                       *)
(*                                                                         *)
(* A Slot is a (student, course, day); recorded_on is always today, so a   *)
(* slot of a past day is one nobody asks for any more.  Request slots are  *)
(* used again, as in Enrollment.  No row lock is taken here: two requests  *)
(* meet only in the unique indexes, where an INSERT waits for the end of   *)
(* the transaction whose uncommitted row has its key.                      *)
(***************************************************************************)
EXTENDS Naturals

CONSTANTS Slot, Key, Request, None

ASSUME NoneIsNoKeyOrSlot == None \notin Key \cup Slot

VARIABLES
  recorded,          \* attendance_records: the slots that have a row
  events,            \* outbox_events: number of rows written for a slot
  saved,             \* idempotency_keys under POST /attendance: key -> slot
  pc, slot, key,     \* a request: step, what it records, its key or None
  status, body       \* its response

tables == <<recorded, events, saved>>
vars == <<tables, pc, slot, key, status, body>>

TypeOK ==
  /\ recorded \subseteq Slot
  /\ events \in [Slot -> Nat]
  /\ saved \in [Key -> Slot \cup {None}]
  /\ pc \in [Request -> {"idle", "lookup", "exists", "insert", "outbox", "save", "commit",
                         "respond", "done"}]
  /\ slot \in [Request -> Slot \cup {None}]
  /\ key \in [Request -> Key \cup {None}]
  /\ status \in [Request -> {"none", "created", "replayed", "already", "error"}]
  /\ body \in [Request -> Slot \cup {None}]

Init ==
  /\ recorded = {}
  /\ events = [s \in Slot |-> 0]
  /\ saved = [k \in Key |-> None]
  /\ pc = [r \in Request |-> "idle"]
  /\ slot = [r \in Request |-> None]
  /\ key = [r \in Request |-> None]
  /\ status = [r \in Request |-> "none"]
  /\ body = [r \in Request |-> None]

-----------------------------------------------------------------------------
Goto(r, step) == pc' = [pc EXCEPT ![r] = step]

Answer(r, st, b) == /\ Goto(r, "done")
                    /\ status' = [status EXCEPT ![r] = st]
                    /\ body' = [body EXCEPT ![r] = b]

Proceed(r, step) == Goto(r, step) /\ UNCHANGED <<status, body>>

Submit(r, s, k) ==
  /\ pc[r] \in {"idle", "done"}
  /\ slot' = [slot EXCEPT ![r] = s]
  /\ key' = [key EXCEPT ![r] = k]
  /\ status' = [status EXCEPT ![r] = "none"]
  /\ body' = [body EXCEPT ![r] = None]
  /\ Goto(r, IF k = None THEN "exists" ELSE "lookup")
  /\ UNCHANGED tables

Lookup(r) ==
  /\ pc[r] = "lookup"
  /\ IF saved[key[r]] # None THEN Answer(r, "replayed", saved[key[r]])
                             ELSE Proceed(r, "exists")
  /\ UNCHANGED <<tables, slot, key>>

Exists(r) ==
  /\ pc[r] = "exists"
  /\ IF slot[r] \in recorded THEN Answer(r, "already", None)
                             ELSE Proceed(r, "insert")
  /\ UNCHANGED <<tables, slot, key>>

PendingSlotKept(q) == pc[q] \in {"outbox", "save", "commit", "done"}   \* mutant
PendingSlot(q) == pc[q] \in {"outbox", "save", "commit"}
SlotFree(r) == \A q \in Request \ {r} : ~ (PendingSlot(q) /\ slot[q] = slot[r])

(* uq_attendance_student_course_day.  The IntegrityError of a duplicate is *)
(* caught nowhere: rollback and a 500.                                     *)
Insert(r) ==
  /\ pc[r] = "insert"
  /\ SlotFree(r)
  /\ IF slot[r] \in recorded THEN Answer(r, "error", None)
                             ELSE Proceed(r, "outbox")
  /\ UNCHANGED <<tables, slot, key>>

(* The outbox row is flushed in the same transaction: nothing shows yet.   *)
OutboxCommitted(r) == [events EXCEPT ![slot[r]] = @ + 1]   \* mutant: add() commits
OutboxFlushed(r) == events

OutboxAdd(r) ==
  /\ pc[r] = "outbox"
  /\ events' = OutboxFlushed(r)
  /\ Proceed(r, IF key[r] = None THEN "commit" ELSE "save")
  /\ UNCHANGED <<recorded, saved, slot, key>>

KeyNeverTaken(r) == FALSE                \* mutant: an upsert
KeyTaken(r) == saved[key[r]] # None

Save(r) ==
  /\ pc[r] = "save"
  /\ \A q \in Request \ {r} : ~ (pc[q] = "commit" /\ key[q] = key[r])
  /\ IF KeyTaken(r) THEN Answer(r, "error", None)
                    ELSE Proceed(r, "commit")
  /\ UNCHANGED <<tables, slot, key>>

EventAdded(r) == [events EXCEPT ![slot[r]] = @ + 1]

StoredAlways(r) ==                       \* mutant: no "if idempotency_key"
  [k \in Key \cup {key[r]} |-> IF k = key[r] THEN slot[r] ELSE saved[k]]
Stored(r) == [k \in Key |-> IF k = key[r] THEN slot[r] ELSE saved[k]]

Commit(r) ==
  /\ pc[r] = "commit"
  /\ recorded' = recorded \cup {slot[r]}
  /\ events' = EventAdded(r)
  /\ saved' = Stored(r)
  /\ Proceed(r, "respond")
  /\ UNCHANGED <<slot, key>>

Respond(r) ==
  /\ pc[r] = "respond"
  /\ Answer(r, "created", slot[r])
  /\ UNCHANGED <<tables, slot, key>>

(* Lost process, connection or client, anywhere.                           *)
Fail(r) ==
  /\ pc[r] \notin {"idle", "done"}
  /\ Answer(r, "error", None)
  /\ UNCHANGED <<tables, slot, key>>

Step(r) == Lookup(r) \/ Exists(r) \/ Insert(r) \/ OutboxAdd(r) \/ Save(r) \/ Commit(r)
             \/ Respond(r)

Next == \E r \in Request : \/ \E s \in Slot, k \in Key \cup {None} : Submit(r, s, k)
                           \/ Step(r)
                           \/ Fail(r)

Spec == Init /\ [][Next]_vars

(* Accepted requests run on; an INSERT waiting for another transaction is  *)
(* woken when that one ends and does not lose its turn for ever.           *)
FairSpec ==
  Spec /\ \A r \in Request : WF_vars(Step(r)) /\ SF_vars(Insert(r)) /\ SF_vars(Save(r))

-----------------------------------------------------------------------------
(* Properties                                                              *)

(* docs/adr/0008:28-30: no attendance row without its outbox row and none  *)
(* the other way round; and never two events for one attendance, however   *)
(* it was retried, refused or interrupted.                                 *)
OneEventPerRecord == \A s \in Slot : events[s] = IF s \in recorded THEN 1 ELSE 0

(* 201 and 409 tell the truth; a replay returns a stored attendance.       *)
AnswersTrue ==
  /\ \A k \in Key : saved[k] # None => saved[k] \in recorded
  /\ \A r \in Request :
       /\ status[r] = "created" => /\ slot[r] \in recorded
                                   /\ key[r] # None => saved[key[r]] = slot[r]
       /\ status[r] = "replayed" => body[r] = saved[key[r]] /\ body[r] \in recorded
       /\ status[r] = "already" => slot[r] \in recorded

(* Every request is answered, whoever it waited for.                       *)
RequestsAnswered == \A r \in Request : pc[r] \notin {"idle", "done"} ~> pc[r] = "done"
=============================================================================
