------------------------------ MODULE Consumer ------------------------------
(***************************************************************************)
(* The subscribers of the topic, each on a queue of its own: notification  *)
(* (an email for each event, through a circuit breaker), reporting (an     *)
(* audit row for each event, without one) and the notification Lambda.     *)
(* The first two poll: each message of a batch gets up to Attempts tries   *)
(* and is deleted if one succeeded.  The Lambda gives each record one try; *)
(* its batch is deleted by the event source mapping after the function     *)
(* returned, and left to SQS as a whole if a record raised.                *)
(*                                                                         *)
(* A process is one container or one execution environment; another may    *)
(* overlap it.  Its breaker lives in its memory.  effect counts emails     *)
(* accepted by SES, or rows committed.                                     *)
(***************************************************************************)
EXTENDS Queue

CONSTANTS
  Service,      \* which of "notification", "reporting", "lambda" are looked at
  Process,
  Attempts,     \* stop_after_attempt
  FailMax,      \* failures in a row that open the breaker
  MaxResent,    \* bound: emails of a message after which no call is resent
  None

ASSUME Services == Service \subseteq {"notification", "reporting", "lambda"}
ASSUME TriesPositive == Attempts \in Nat \ {0} /\ FailMax \in Nat \ {0}
ASSUME ResendsBounded == MaxResent \in Nat
ASSUME NoneIsNoMessage == None \notin Message
ASSUME ProcessesFinite == IsFiniteSet(Process)

VARIABLES
  service,      \* the subscriber whose queue this is
  batch,        \* process: received and not let go of
  done,         \* process: those of them that were handled and are not deleted
  receipt,      \* process: which receive of a message it holds
  current,      \* process: the message in hand, or None
  attempt,      \* process: tries of the message in hand
  breaker,      \* process: "closed", "open" or "half-open"
  failures,     \* process: the breaker's counter
  effect,       \* message: emails sent, or audit rows
  spoiled       \* history: deliveries of a message that can be the cause of a duplicate

loop == <<batch, done, receipt, current, attempt>>
fuse == <<breaker, failures>>
vars == <<queue, service, loop, fuse, effect, spoiled>>

TypeOK ==
  /\ QueueTypeOK
  /\ service \in {"notification", "reporting", "lambda"}
  /\ batch \in [Process -> SUBSET Message]
  /\ done \in [Process -> SUBSET Message]
  /\ receipt \in [Process -> [Message -> 0 .. MaxReceive]]
  /\ current \in [Process -> Message \cup {None}]
  /\ attempt \in [Process -> 1 .. Attempts]
  /\ breaker \in [Process -> {"closed", "open", "half-open"}]
  /\ failures \in [Process -> Nat]
  /\ effect \in [Message -> Nat]
  /\ spoiled \in [Message -> Nat]

Init ==
  /\ QueueInit
  /\ service \in Service
  /\ batch = [c \in Process |-> {}]
  /\ done = [c \in Process |-> {}]
  /\ receipt = [c \in Process |-> [m \in Message |-> 0]]
  /\ current = [c \in Process |-> None]
  /\ attempt = [c \in Process |-> 1]
  /\ breaker = [c \in Process |-> "closed"]
  /\ failures = [c \in Process |-> 0]
  /\ effect = [m \in Message |-> 0]
  /\ spoiled = [m \in Message |-> 0]

-----------------------------------------------------------------------------
Once(f, S) == [m \in Message |-> IF m \in S THEN f[m] + 1 ELSE f[m]]

Poll(c) ==
  /\ batch[c] = {}
  /\ \E S \in Batches :
       /\ Receive(S)
       /\ batch' = [batch EXCEPT ![c] = S]
       /\ receipt' = [receipt EXCEPT ![c] = [m \in Message |-> IF m \in S THEN receives[m] + 1
                                                                         ELSE 0]]
  /\ UNCHANGED <<service, done, current, attempt, fuse, effect, spoiled>>

(* The wait ran out without a message, or receive_message raised.          *)
PollNothing(c) == batch[c] = {} /\ UNCHANGED vars

(* The next of the batch; SQS promises no order.  A polling consumer has   *)
(* deleted the one before.                                                 *)
Take(c, m) ==
  /\ current[c] = None
  /\ m \in batch[c] \ done[c]
  /\ service # "lambda" => done[c] = {}
  /\ current' = [current EXCEPT ![c] = m]
  /\ UNCHANGED <<queue, service, batch, done, receipt, attempt, fuse, effect, spoiled>>

(* S is out of the hands of c: deleted, or SQS will deliver it again.      *)
LetGo(c, S) ==
  /\ batch' = [batch EXCEPT ![c] = @ \ S]
  /\ done' = [done EXCEPT ![c] = @ \ S]
  /\ receipt' = [receipt EXCEPT ![c] = [m \in Message |-> IF m \in S THEN 0 ELSE @[m]]]
  /\ current' = [current EXCEPT ![c] = None]
  /\ attempt' = [attempt EXCEPT ![c] = 1]

(* What a record that raises takes with it.                                *)
Lost(c) == IF service = "lambda" THEN batch[c] ELSE {current[c]}

Tries == IF service = "lambda" THEN 1 ELSE Attempts

(* tenacity: another try, or reraise.                                      *)
TriesOnceMore(c) ==                      \* mutant: <= for <
  IF attempt[c] <= Tries
  THEN attempt' = [attempt EXCEPT ![c] = @ + 1] /\ UNCHANGED <<batch, done, receipt, current>>
  ELSE LetGo(c, Lost(c))
SwallowedAtLast(c) ==                    \* mutant: the error is not reraised
  IF attempt[c] < Tries
  THEN attempt' = [attempt EXCEPT ![c] = @ + 1] /\ UNCHANGED <<batch, done, receipt, current>>
  ELSE /\ done' = [done EXCEPT ![c] = @ \cup {current[c]}]
       /\ current' = [current EXCEPT ![c] = None]
       /\ attempt' = [attempt EXCEPT ![c] = 1]
       /\ UNCHANGED <<batch, receipt>>
RetryOrGiveUp(c) ==
  IF attempt[c] < Tries
  THEN attempt' = [attempt EXCEPT ![c] = @ + 1] /\ UNCHANGED <<batch, done, receipt, current>>
  ELSE LetGo(c, Lost(c))

Guarded == service # "reporting"
Calls(c) == current[c] # None /\ (Guarded => breaker[c] # "open")

(* handle() returned: the breaker closes and its counter starts again.     *)
Succeed(c) ==
  /\ Calls(c)
  /\ effect' = Once(effect, {current[c]})
  /\ done' = [done EXCEPT ![c] = @ \cup {current[c]}]
  /\ current' = [current EXCEPT ![c] = None]
  /\ attempt' = [attempt EXCEPT ![c] = 1]
  /\ breaker' = [breaker EXCEPT ![c] = "closed"]
  /\ failures' = [failures EXCEPT ![c] = 0]
  /\ UNCHANGED <<queue, service, batch, receipt, spoiled>>

Trips(c) == breaker[c] = "half-open" \/ failures[c] + 1 >= FailMax

(* The call raised, and what it asked for may have happened all the same.  *)
(* The records of a Lambda's batch that were handled come back, too.       *)
Raise(c) ==
  /\ Calls(c)
  /\ \E Happened \in {{}, {current[c]}} :
       effect' = Once(effect, Happened) /\ spoiled' = Once(spoiled, done[c] \cup Happened)
  /\ IF Guarded
     THEN /\ failures' = [failures EXCEPT ![c] = @ + 1]
          /\ breaker' = IF Trips(c) THEN [breaker EXCEPT ![c] = "open"] ELSE breaker
     ELSE UNCHANGED fuse
  /\ RetryOrGiveUp(c)
  /\ UNCHANGED <<queue, service>>

(* SES accepted the email but the answer was lost, and botocore sends the  *)
(* request again within the call.  Nothing repeats reporting's insert.     *)
Resend(c) ==
  /\ Calls(c) /\ Guarded
  /\ effect[current[c]] < MaxResent
  /\ effect' = Once(effect, {current[c]})
  /\ spoiled' = Once(spoiled, {current[c]})
  /\ UNCHANGED <<queue, service, loop, fuse>>

(* CircuitBreakerError: a try is used up without a call.                   *)
Refuse(c) ==
  /\ current[c] # None
  /\ Guarded /\ breaker[c] = "open"
  /\ spoiled' = Once(spoiled, done[c])
  /\ RetryOrGiveUp(c)
  /\ UNCHANGED <<queue, service, fuse, effect>>

(* reset_timeout is over: the next call goes through.                      *)
Cool(c) ==
  /\ breaker[c] = "open"
  /\ breaker' = [breaker EXCEPT ![c] = "half-open"]
  /\ UNCHANGED <<queue, service, loop, failures, effect, spoiled>>

(* After one message, or after the function returned for the whole batch.  *)
Deletes(c) == current[c] = None /\ (service = "lambda" => done[c] = batch[c])

Receipt(c, m) == receipt[c][m]

Delete(c, m) ==
  /\ Deletes(c)
  /\ m \in done[c]
  /\ place' \in Removed(m, Receipt(c, m))
  /\ LetGo(c, {m})
  /\ UNCHANGED <<receives, hidden, service, fuse, effect, spoiled>>

DeleteRaises(c, m) ==
  /\ Deletes(c)
  /\ m \in done[c]
  /\ spoiled' = Once(spoiled, {m})
  /\ LetGo(c, {m})
  /\ UNCHANGED <<queue, service, fuse, effect>>

(* The process dies, or a function runs into its timeout, and is started   *)
(* again with an empty hand and a closed breaker.  Whether the call it was *)
(* in took effect, nobody knows.                                           *)
Crash(c) ==
  /\ batch[c] # {}
  /\ \E Happened \in {{}} \cup (IF Calls(c) THEN {{current[c]}} ELSE {}) :
       effect' = Once(effect, Happened) /\ spoiled' = Once(spoiled, done[c] \cup Happened)
  /\ LetGo(c, batch[c])
  /\ breaker' = [breaker EXCEPT ![c] = "closed"]
  /\ failures' = [failures EXCEPT ![c] = 0]
  /\ UNCHANGED <<queue, service>>

(* The visibility timeout runs out, perhaps on a message still in a batch. *)
Expire(m) ==
  /\ Reappear(m)
  /\ spoiled' = IF \E c \in Process : m \in batch[c] THEN Once(spoiled, {m}) ELSE spoiled
  /\ UNCHANGED <<service, loop, fuse, effect>>

Sqs(m) == \/ (FanOut(m) \/ Redrive(m)) /\ UNCHANGED <<service, loop, fuse, effect, spoiled>>
          \/ Expire(m)

Run(c) == \/ Poll(c) \/ PollNothing(c)
          \/ Succeed(c) \/ Raise(c) \/ Refuse(c)
          \/ \E m \in Message : Take(c, m) \/ Delete(c, m) \/ DeleteRaises(c, m)

Next == \/ \E c \in Process : Run(c) \/ Cool(c) \/ Resend(c) \/ Crash(c)
        \/ \E m \in Message : Sqs(m)

Spec == Init /\ [][Next]_vars

-----------------------------------------------------------------------------
(* Properties                                                              *)

(* docs/adr/0009:90-96: a message is deleted only after it was processed,  *)
(* whoever crashed, timed out or held an old receipt on the way.           *)
DeletedIsDone == \A m \in Message : place[m] = "deleted" => effect[m] > 0

(* The price of at least once: beyond the first email or row, each one is  *)
(* paid for by a delivery that was interrupted, expired in somebody's      *)
(* hands, got an ambiguous error, was resent after a lost answer or shared *)
(* a Lambda's batch with a record that failed.  Retrying alone duplicates  *)
(* nothing.                                                                *)
DuplicatesPaidFor == \A m \in Message : effect[m] <= 1 + spoiled[m]

(* Each subscriber keeps the promise of AtLeastOnce for its queue: what is *)
(* deleted or dead stays so, and nothing is done before it was published.  *)
Fate(m) == CASE place[m] = "topic" -> "absent"
             [] place[m] = "queue" -> "owed"
             [] place[m] = "deleted" -> "settled"
             [] place[m] = "dead" -> "lost"

Delivery == INSTANCE AtLeastOnce WITH Item <- Message, fate <- [m \in Message |-> Fate(m)],
                                      done <- effect, faults <- spoiled

ImplementsDelivery == Delivery!Spec
=============================================================================
