----------------------------- MODULE SeatLedger -----------------------------
(***************************************************************************)
(* What POST /enrollments and the course endpoints promise, with every     *)
(* transaction reduced to one step: an enrollment, the seat it takes and   *)
(* the idempotency row that records it appear together or not at all.      *)
(* A capacity change is not required to keep the counter right, nor even   *)
(* below the capacity: PUT /courses does neither.                          *)
(***************************************************************************)
EXTENDS Naturals

CONSTANTS Course, Student, Key, None, Capacity

VARIABLES
  created,   \* course ids that have ever been issued
  live,      \* courses that have a row
  capacity,  \* courses.capacity
  seats,     \* courses.available_seats
  enrolled,  \* the (student, course) pairs that have an enrollment row
  saved      \* idempotency_keys: the enrollment recorded under a key

ledger == <<created, live, capacity, seats, enrolled, saved>>

Init ==
  /\ created = {}
  /\ live = {}
  /\ capacity = [c \in Course |-> 0]
  /\ seats = [c \in Course |-> 0]
  /\ enrolled = {}
  /\ saved = [k \in Key |-> None]

Open(c) ==
  /\ c \notin created
  /\ created' = created \cup {c}
  /\ live' = live \cup {c}
  /\ \E n \in Capacity : /\ capacity' = [capacity EXCEPT ![c] = n]
                         /\ seats' = [seats EXCEPT ![c] = n]
  /\ UNCHANGED <<enrolled, saved>>

(* One seat, one row, and at most one enrollment ever recorded per key.    *)
Enroll(s, c, k) ==
  /\ c \in live
  /\ seats[c] > 0
  /\ <<s, c>> \notin enrolled
  /\ seats' = [seats EXCEPT ![c] = seats[c] - 1]
  /\ enrolled' = enrolled \cup {<<s, c>>}
  /\ \/ /\ k = None
        /\ saved' = saved
     \/ /\ k \in Key
        /\ saved[k] = None
        /\ saved' = [saved EXCEPT ![k] = <<s, c>>]
  /\ UNCHANGED <<created, live, capacity>>

Resize(c) ==
  /\ c \in live
  /\ \E n, k \in Capacity : \E m \in 0 .. k :
       /\ capacity' = [capacity EXCEPT ![c] = n]
       /\ seats' = [seats EXCEPT ![c] = m]
  /\ UNCHANGED <<created, live, enrolled, saved>>

Close(c) ==
  /\ c \in live
  /\ live' = live \ {c}
  /\ UNCHANGED <<created, capacity, seats, enrolled, saved>>

Next ==
  \E c \in Course :
    \/ Open(c)
    \/ Resize(c)
    \/ Close(c)
    \/ \E s \in Student, k \in Key \cup {None} : Enroll(s, c, k)

Spec == Init /\ [][Next]_ledger
=============================================================================
