-------------------------------- MODULE Queue --------------------------------
(***************************************************************************)
(* An SQS queue with a redrive policy, as localstack-init.sh sets it up    *)
(* for each subscriber of the topic and as the consumers use it: delivery  *)
(* at least once, a visibility timeout, a receive count, a dead-letter     *)
(* queue.  Consumer extends this module with what the subscribers do.       *)
(***************************************************************************)
EXTENDS Naturals, FiniteSets

CONSTANTS
  Message,      \* the copies SNS put in this queue; a relay's duplicate is another one
  MaxReceive,   \* maxReceiveCount
  BatchSize     \* MaxNumberOfMessages, or the batch size of the event source mapping

ASSUME CountsPositive == MaxReceive \in Nat \ {0} /\ BatchSize \in Nat \ {0}

VARIABLES
  place,        \* where a message is: "topic", "queue", "deleted", "dead"
  receives,     \* how often it was received
  hidden        \* received, and its visibility timeout is running

queue == <<place, receives, hidden>>

QueueTypeOK ==
  /\ place \in [Message -> {"topic", "queue", "deleted", "dead"}]
  /\ receives \in [Message -> 0 .. MaxReceive]
  /\ hidden \in [Message -> BOOLEAN]

QueueInit ==
  /\ place = [m \in Message |-> "topic"]
  /\ receives = [m \in Message |-> 0]
  /\ hidden = [m \in Message |-> FALSE]

-----------------------------------------------------------------------------
FanOut(m) ==
  /\ place[m] = "topic"
  /\ place' = [place EXCEPT ![m] = "queue"]
  /\ UNCHANGED <<receives, hidden>>

Visible(m) == place[m] = "queue" /\ ~ hidden[m]

Batches == {S \in SUBSET {m \in Message : Visible(m) /\ receives[m] < MaxReceive} :
              S # {} /\ Cardinality(S) <= BatchSize}

Receive(S) ==
  /\ receives' = [m \in Message |-> IF m \in S THEN receives[m] + 1 ELSE receives[m]]
  /\ hidden' = [m \in Message |-> m \in S \/ hidden[m]]
  /\ UNCHANGED place

Reappear(m) ==
  /\ place[m] = "queue" /\ hidden[m]
  /\ hidden' = [hidden EXCEPT ![m] = FALSE]
  /\ UNCHANGED <<place, receives>>

ExhaustedOffByOne(m) == receives[m] > MaxReceive   \* mutant
Exhausted(m) == receives[m] = MaxReceive

(* A message that would be received once more than the policy allows.      *)
Redrive(m) ==
  /\ Visible(m)
  /\ Exhausted(m)
  /\ place' = [place EXCEPT ![m] = "dead"]
  /\ UNCHANGED <<receives, hidden>>

(* DeleteMessage with the receipt of the n-th receive of m: if m has been  *)
(* received again since, SQS may accept the receipt and do nothing.        *)
Removed(m, n) ==
  {[place EXCEPT ![m] = IF place[m] = "queue" THEN "deleted" ELSE place[m]]}
    \cup (IF receives[m] = n THEN {} ELSE {place})
=============================================================================
