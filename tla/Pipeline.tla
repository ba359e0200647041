------------------------------ MODULE Pipeline ------------------------------
(***************************************************************************)
(* From a committed outbox row to an email or an audit row.  The relays of *)
(* Relay publish to the topic, SNS puts one copy of what it accepted in    *)
(* the queue of every subscriber, and the processes of Consumer handle it. *)
(* Each hop is at least once; end to end an event is at least once too,    *)
(* through as many copies as the relays published.                         *)
(*                                                                         *)
(* One subscriber stands for the three: their queues share nothing.        *)
(***************************************************************************)
EXTENDS Relay

CONSTANTS Service, Process, Attempts, FailMax, MaxResent, MaxReceive, BatchSize, None

VARIABLES place, receives, hidden, service, batch, done, receipt, current, attempt,
          breaker, failures, effect, spoiled

(* The n-th acceptance of an event by SNS.  It is published again only     *)
(* after a cycle was rolled back, or by botocore.                          *)
Copy == Event \X (1 .. MaxCrashes + 1)

Subscriber == INSTANCE Consumer WITH Message <- Copy

ASSUME CountsArePositive ==
  {MaxReceive, BatchSize, Attempts, FailMax} \subseteq Nat \ {0}
ASSUME ResendsAreBounded == MaxResent \in Nat
ASSUME ServicesKnown == Service \subseteq {"notification", "reporting", "lambda"}
ASSUME NoneIsNoCopy == None \notin Copy
ASSUME FinitelyManyProcesses == IsFiniteSet(Process)

subscriber == <<place, receives, hidden, service, batch, done, receipt, current, attempt,
                breaker, failures, effect, spoiled>>
pipeline == <<vars, subscriber>>

PipelineInit == Init /\ Subscriber!Init

-----------------------------------------------------------------------------
Accepted(m) == m[2] <= delivered[m[1]]

(* What SNS has not accepted never reaches the queue.                      *)
Queued(m) == Accepted(m) /\ Subscriber!Sqs(m) /\ UNCHANGED vars

Handle(c) ==
  /\ Subscriber!Run(c) \/ Subscriber!Cool(c) \/ Subscriber!Resend(c) \/ Subscriber!Crash(c)
  /\ UNCHANGED vars

Forward(w) == Cycle(w) /\ UNCHANGED subscriber

PipelineNext ==
  \/ \E e \in Event : Produce(e) /\ UNCHANGED subscriber
  \/ \E w \in Relay : Forward(w) \/ (Mishap(w) /\ UNCHANGED subscriber)
  \/ \E m \in Copy : Queued(m)
  \/ \E c \in Process : Handle(c)

PipelineSpec == PipelineInit /\ [][PipelineNext]_pipeline

-----------------------------------------------------------------------------
(* Properties                                                              *)

Copies(e) == {e} \X (1 .. delivered[e])

Ended(m) == place[m] \in {"deleted", "dead"}

Decided(e) == status[e] \in {"published", "failed"} /\ \A m \in Copies(e) : Ended(m)

GivenUp(e) == /\ status[e] = "failed" \/ \E m \in Copies(e) : place[m] = "dead"
              /\ \A m \in Copies(e) : place[m] # "deleted"

(* What became of an event.  Nothing but a failed row or a dead letter     *)
(* excuses a row that took no effect.                                      *)
Outcome(e) == CASE status[e] = "absent" -> "absent"
                [] status[e] # "absent" /\ ~ Decided(e) -> "owed"
                [] Decided(e) /\ ~ GivenUp(e) -> "settled"
                [] Decided(e) /\ GivenUp(e) -> "lost"

(* The copies of an event that led to an email or an audit row, whether or *)
(* not SNS ever accepted them.                                             *)
Handled(e) == {n \in 1 .. MaxCrashes + 1 : effect[<<e, n>>] > 0}

EndToEnd == INSTANCE AtLeastOnce WITH Item <- Event,
                                     fate <- [e \in Event |-> Outcome(e)],
                                     done <- [e \in Event |-> Cardinality(Handled(e))],
                                     faults <- redone

(* The two hops together keep the promise of AtLeastOnce from the business *)
(* transaction to the subscriber: no effect without a committed row, none  *)
(* of a published event missing but in the dead-letter queue, and a second *)
(* copy handled only after a rolled-back relay cycle or a resend.          *)
DeliversEndToEnd == EndToEnd!Spec
=============================================================================
