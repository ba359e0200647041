------------------------------ MODULE Journey -------------------------------
(***************************************************************************)
(* From POST /attendance to an email or an audit row: the requests of      *)
(* Attendance in front of Pipeline.  A slot (student, course, day) is the  *)
(* event of its attendance, so what a transaction commits to outbox_events *)
(* is what the relays see as pending.                                      *)
(***************************************************************************)
EXTENDS Pipeline

CONSTANTS Key, Request

VARIABLES recorded, events, saved, pc, slot, key, reply, body

Front == INSTANCE Attendance WITH Slot <- Event, status <- reply

ASSUME NoneIsNoKeyOrEvent == None \notin Key \cup Event

front == <<recorded, events, saved, pc, slot, key, reply, body>>
journey == <<pipeline, front>>

JourneyInit == PipelineInit /\ Front!Init

-----------------------------------------------------------------------------
(* OutboxEventModel.status has the default "pending": a row just committed *)
(* is one to publish, whatever became of another row of its slot.          *)
Enqueue ==
  /\ status' = [e \in Event |-> IF events'[e] # events[e] THEN "pending" ELSE status[e]]
  /\ UNCHANGED <<claimed, todo, failed, delivered, crashes, redone, subscriber>>

Serve(r) == Front!Step(r) /\ Enqueue

JourneyNext ==
  \/ \E r \in Request : \/ \E s \in Event, k \in Key \cup {None} : Front!Submit(r, s, k) /\ Enqueue
                        \/ Serve(r)
                        \/ Front!Fail(r) /\ Enqueue
  \/ /\ UNCHANGED front
     /\ \/ \E w \in Relay : Forward(w) \/ (Mishap(w) /\ UNCHANGED subscriber)
        \/ \E m \in Copy : Queued(m)
        \/ \E c \in Process : Handle(c)

JourneySpec == JourneyInit /\ [][JourneyNext]_journey

(* As in Attendance and in Relay.  A subscriber's loop never ends, its     *)
(* container is restarted, AWS invokes a function while there are          *)
(* messages, and SQS keeps time.                                           *)
FairJourney ==
  /\ JourneySpec
  /\ \A r \in Request : /\ WF_journey(Serve(r))
                        /\ SF_journey(Front!Insert(r) /\ Enqueue)
                        /\ SF_journey(Front!Save(r) /\ Enqueue)
  /\ \A w \in Relay : WF_journey(Forward(w) /\ UNCHANGED front)
  /\ \A m \in Copy : WF_journey(Queued(m) /\ UNCHANGED front)
  /\ \A c \in Process : WF_journey(Subscriber!Run(c) /\ UNCHANGED <<vars, front>>)

-----------------------------------------------------------------------------
(* Properties                                                              *)

(* What became of an attendance: there is one to deal with when its row is *)
(* committed, whatever the outbox says.                                    *)
OutcomeOfRecord(e) == IF e \notin recorded THEN "absent"
                      ELSE IF Decided(e) THEN Outcome(e) ELSE "owed"

Promise == INSTANCE AtLeastOnce WITH Item <- Event,
                                    fate <- [e \in Event |-> OutcomeOfRecord(e)],
                                    done <- [e \in Event |-> Cardinality(Handled(e))],
                                    faults <- redone

(* docs/adr/0008: an attendance and what follows from it stand and fall    *)
(* together.  No email or audit row without a committed attendance, none   *)
(* of a committed one forgotten, and no retry, race or replay of the       *)
(* request brings it another.                                              *)
RecordsAreDelivered == Promise!Spec

(* Whatever was recorded, or reported with a 201, is mailed or audited, or *)
(* ends where somebody can see it: no retry, redelivery, crash or breaker  *)
(* keeps an attendance under way for ever.                                 *)
RecordedIsServed ==
  \A e \in Event :
    e \in recorded \/ (\E r \in Request : reply[r] = "created" /\ slot[r] = e)
      ~> OutcomeOfRecord(e) \in {"settled", "lost"}
=============================================================================
