----------------------------- MODULE RelayProofs -----------------------------
(***************************************************************************)
(* Theorems about Relay, Pipeline and Journey, for any events, any number  *)
(* of relays, any batch limit and any number of crashes, for requests as   *)
(* general as AttendanceProofs and a subscriber as general as              *)
(* ConsumerProofs has them.                                                *)
(*                                                                         *)
(* A relay's part is RelayInv.  The invariants of the other two, and the   *)
(* lemmas about them, are used through instances of their proof modules.   *)
(***************************************************************************)
EXTENDS Journey, FiniteSetTheorems, TLAPS

(* No relay has tried the event since its row was last rolled back.        *)
Untried(e) == /\ status[e] \in {"absent", "pending"}
              /\ \A w \in Relay : e \in claimed[w] => e \in todo[w]

(* A relay's bookkeeping agrees with what SNS got.  An untried event has   *)
(* no delivery left unpaid, which is why one more is never one too many.   *)
Books ==
  /\ \A w \in Relay :
       /\ todo[w] \subseteq claimed[w] /\ failed[w] \subseteq claimed[w] \ todo[w]
       /\ \A e \in claimed[w] \ (todo[w] \cup failed[w]) : delivered[e] > 0
  /\ \A e \in Event : Untried(e) => delivered[e] <= redone[e]

(* A row marked published has been accepted by SNS.                        *)
PublishedIsDelivered == \A e \in Event : status[e] = "published" => delivered[e] > 0

RelayInv ==
  TypeOK /\ Books /\ ClaimsDisjoint /\ PublishedIsDelivered /\ NoDoublePublish

LEMMA RelayInvInit == Init => RelayInv
  BY CrashesBounded
     DEF Init, RelayInv, TypeOK, Books, Untried, ClaimsDisjoint, PublishedIsDelivered,
         NoDoublePublish

LEMMA ClaimSubset ==
  Oldest(Claimable) \subseteq {e \in Event : status[e] = "pending"
                                 /\ \A v \in Relay : e \notin claimed[v]}
  BY DEF Oldest, Claimable, Unlocked

LEMMA RelayInvStep == RelayInv /\ [Next]_vars => RelayInv'
<1> SUFFICES ASSUME RelayInv, [Next]_vars PROVE RelayInv'
  OBVIOUS
<1> USE DEF RelayInv
<1>1. ASSUME NEW e \in Event, Produce(e) PROVE RelayInv'
  <2>1. TypeOK' BY <1>1 DEF Produce, TypeOK
  <2>2. Books' BY <1>1 DEF Produce, TypeOK, Books, Untried
  <2>3. ClaimsDisjoint' BY <1>1 DEF Produce, TypeOK, ClaimsDisjoint
  <2>4. PublishedIsDelivered' /\ NoDoublePublish'
    BY <1>1 DEF Produce, TypeOK, PublishedIsDelivered, NoDoublePublish
  <2> QED BY <2>1, <2>2, <2>3, <2>4
<1>2. ASSUME NEW w \in Relay, Claim(w) PROVE RelayInv'
  <2> DEFINE B == Oldest(Claimable)
  <2>1. /\ claimed' = [claimed EXCEPT ![w] = B] /\ todo' = [todo EXCEPT ![w] = B]
        /\ UNCHANGED <<status, failed, delivered, crashes, redone>> /\ claimed[w] = {}
    BY <1>2 DEF Claim
  <2>2. B \subseteq {e \in Event : status[e] = "pending" /\ \A v \in Relay : e \notin claimed[v]}
    BY ClaimSubset
  <2> HIDE DEF B
  <2>3. TypeOK' BY <2>1, <2>2 DEF TypeOK
  <2>4. Books' BY <2>1, <2>2 DEF TypeOK, Books, Untried
  <2>5. ClaimsDisjoint' BY <2>1, <2>2 DEF TypeOK, ClaimsDisjoint
  <2>6. PublishedIsDelivered' /\ NoDoublePublish'
    BY <2>1 DEF PublishedIsDelivered, NoDoublePublish
  <2> QED BY <2>3, <2>4, <2>5, <2>6
<1>3. ASSUME NEW w \in Relay, NEW e \in Event, Publish(w, e) \/ PublishRaises(w, e)
      PROVE  RelayInv'
  <2>1. /\ e \in todo[w] /\ e \in claimed[w] /\ todo' = [todo EXCEPT ![w] = @ \ {e}]
        /\ UNCHANGED <<status, claimed, crashes, redone>>
        /\ \/ /\ delivered' = [delivered EXCEPT ![e] = @ + 1] /\ failed' = failed
           \/ /\ delivered' \in {delivered, [delivered EXCEPT ![e] = @ + 1]}
              /\ failed' = [failed EXCEPT ![w] = failed[w] \cup {e}]
    BY <1>3 DEF Publish, PublishRaises, NextUp, FailedMarked, Books
  <2>2. Untried(e) /\ status[e] = "pending"
    BY <2>1 DEF ClaimsDisjoint, Books, Untried, TypeOK
  <2>3. TypeOK' BY <2>1 DEF TypeOK
  <2>4. /\ delivered'[e] \in {delivered[e], delivered[e] + 1}
        /\ \A f \in Event \ {e} : delivered'[f] = delivered[f]
    BY <2>1 DEF TypeOK
  <2>5. Books'
    <3>1. ASSUME NEW v \in Relay
          PROVE  todo'[v] \subseteq claimed'[v] /\ failed'[v] \subseteq claimed'[v] \ todo'[v]
      BY <2>1 DEF TypeOK, Books
    <3>2. ASSUME NEW v \in Relay, NEW f \in claimed'[v] \ (todo'[v] \cup failed'[v])
          PROVE  delivered'[f] > 0
      <4>1. CASE f = e
        <5>1. v = w
          BY <2>1, <3>2, <4>1 DEF ClaimsDisjoint
        <5>2. delivered' = [delivered EXCEPT ![e] = @ + 1]
          BY <2>1, <3>2, <4>1, <5>1 DEF TypeOK
        <5> QED BY <4>1, <5>2 DEF TypeOK
      <4>2. CASE f # e
        <5>1. f \in claimed[v] \ (todo[v] \cup failed[v]) /\ f \in Event
          BY <2>1, <3>2, <4>2 DEF TypeOK
        <5> QED BY <2>4, <4>2, <5>1 DEF Books
      <4> QED BY <4>1, <4>2
    <3>3. ASSUME NEW f \in Event, Untried(f)' PROVE delivered'[f] <= redone'[f]
      <4>1. f # e
        BY <2>1, <3>3 DEF Untried, TypeOK
      <4>2. Untried(f)
        BY <2>1, <3>3, <4>1 DEF Untried, TypeOK
      <4> QED BY <2>1, <2>4, <4>1, <4>2 DEF Books
    <3> QED BY <3>1, <3>2, <3>3 DEF Books
  <2>6. ClaimsDisjoint' BY <2>1 DEF ClaimsDisjoint
  <2>7. PublishedIsDelivered'
    BY <2>1, <2>2, <2>4 DEF PublishedIsDelivered
  <2>8. NoDoublePublish'
    BY <2>1, <2>2, <2>4 DEF NoDoublePublish, Books, TypeOK
  <2> QED BY <2>3, <2>5, <2>6, <2>7, <2>8
<1>4. ASSUME NEW w \in Relay, Commit(w) PROVE RelayInv'
  <2>1. /\ todo[w] = {} /\ claimed' = [claimed EXCEPT ![w] = {}]
        /\ todo' = [todo EXCEPT ![w] = {}] /\ failed' = [failed EXCEPT ![w] = {}]
        /\ UNCHANGED <<delivered, crashes, redone>>
        /\ \A e \in Event : status'[e] = IF e \in claimed[w] THEN Marked(w, e) ELSE status[e]
        /\ status' \in [Event -> {"absent", "pending", "published", "failed"}]
    BY <1>4 DEF Commit, Release, Marked, TypeOK
  <2>2. TypeOK' BY <2>1 DEF TypeOK
  <2>3. \A e \in Event : Untried(e)' => Untried(e)
    BY <2>1 DEF Untried, Marked, TypeOK
  <2>4. Books' BY <2>1, <2>3 DEF TypeOK, Books
  <2>5. ClaimsDisjoint' BY <2>1 DEF TypeOK, ClaimsDisjoint
  <2>6. PublishedIsDelivered'
    BY <2>1 DEF PublishedIsDelivered, Marked, Books, TypeOK
  <2>7. NoDoublePublish' BY <2>1 DEF NoDoublePublish
  <2> QED BY <2>2, <2>4, <2>5, <2>6, <2>7
<1>5. ASSUME NEW w \in Relay, Crash(w) PROVE RelayInv'
  <2>1. /\ claimed' = [claimed EXCEPT ![w] = {}]
        /\ todo' = [todo EXCEPT ![w] = {}] /\ failed' = [failed EXCEPT ![w] = {}]
        /\ UNCHANGED <<status, delivered>> /\ crashes' = crashes + 1
        /\ redone' \in [Event -> Nat]
        /\ \A e \in Event : redone'[e] = IF e \in claimed[w] \ todo[w] THEN redone[e] + 1
                                                                      ELSE redone[e]
    BY <1>5 DEF Crash, Release, TypeOK
  <2>2. TypeOK' BY <2>1 DEF TypeOK
  <2>3. ASSUME NEW e \in Event, Untried(e)' PROVE delivered[e] <= redone'[e]
    <3>1. CASE e \in claimed[w] \ todo[w]
      BY <2>1, <3>1 DEF NoDoublePublish, TypeOK
    <3>2. CASE e \notin claimed[w] \ todo[w]
      <4>1. Untried(e)
        BY <2>1, <2>3, <3>2 DEF Untried, TypeOK
      <4> QED BY <2>1, <3>2, <4>1 DEF Books
    <3> QED BY <3>1, <3>2
  <2>4. Books' BY <2>1, <2>3 DEF TypeOK, Books
  <2>5. ClaimsDisjoint' BY <2>1 DEF TypeOK, ClaimsDisjoint
  <2>6. PublishedIsDelivered' BY <2>1 DEF PublishedIsDelivered
  <2>7. NoDoublePublish' BY <2>1 DEF NoDoublePublish, TypeOK
  <2> QED BY <2>2, <2>4, <2>5, <2>6, <2>7
<1>6. ASSUME NEW w \in Relay, NEW e \in Event, Resend(w, e) PROVE RelayInv'
  <2>1. /\ UNCHANGED <<status, claimed, todo, failed>> /\ crashes' = crashes + 1
        /\ delivered' \in [Event -> Nat] /\ redone' \in [Event -> Nat]
        /\ \A f \in Event : /\ delivered'[f] = IF f = e THEN delivered[e] + 1 ELSE delivered[f]
                            /\ redone'[f] = IF f = e THEN redone[e] + 1 ELSE redone[f]
    BY <1>6 DEF Resend, TypeOK
  <2>2. TypeOK' BY <2>1 DEF TypeOK
  <2>3. \A f \in Event : Untried(f)' => Untried(f)
    BY <2>1 DEF Untried
  <2>4. Books' BY <2>1, <2>3 DEF TypeOK, Books
  <2>5. ClaimsDisjoint' BY <2>1 DEF ClaimsDisjoint
  <2>6. PublishedIsDelivered' BY <2>1 DEF PublishedIsDelivered, TypeOK
  <2>7. NoDoublePublish' BY <2>1 DEF NoDoublePublish, TypeOK
  <2> QED BY <2>2, <2>4, <2>5, <2>6, <2>7
<1>7. CASE UNCHANGED vars
  BY <1>7 DEF vars, TypeOK, Books, Untried, ClaimsDisjoint, PublishedIsDelivered,
              NoDoublePublish
<1> QED
  BY <1>1, <1>2, <1>3, <1>4, <1>5, <1>6, <1>7 DEF Next, Cycle, Mishap, Quiet

(* Relays never work on the same row, and only on pending ones:            *)
(* ClaimsDisjoint, for any number of relays.                               *)
THEOREM RelaysDisjoint == Spec => []ClaimsDisjoint
<1>1. RelayInv => ClaimsDisjoint
  BY DEF RelayInv
<1> QED
  BY <1>1, RelayInvInit, RelayInvStep, PTL DEF Spec

(* Types are kept in every reachable state.                                *)
THEOREM TypesSafe == Spec => []TypeOK
<1>1. RelayInv => TypeOK
  BY DEF RelayInv
<1> QED
  BY <1>1, RelayInvInit, RelayInvStep, PTL DEF Spec

(* Every duplicate is paid for by a rolled-back cycle or a resend:         *)
(* NoDoublePublish.                                                        *)
THEOREM DuplicatesPaidFor == Spec => []NoDoublePublish
<1>1. RelayInv => NoDoublePublish
  BY DEF RelayInv
<1> QED
  BY <1>1, RelayInvInit, RelayInvStep, PTL DEF Spec

-----------------------------------------------------------------------------
(* The relays implement AtLeastOnce.                                       *)

LEMMA FateOf ==
  ASSUME TypeOK, NEW e \in Event
  PROVE  /\ Fate(e) = "absent" <=> status[e] = "absent"
         /\ Fate(e) = "owed" <=> status[e] = "pending"
         /\ Fate(e) = "settled" <=> status[e] = "published"
         /\ Fate(e) = "lost" <=> status[e] = "failed"
  BY DEF TypeOK, Fate

LEMMA InitDelivery == Init => Delivery!Init
  BY DEF Init, Delivery!Init, Fate

LEMMA SameFates ==
  ASSUME UNCHANGED status PROVE [e \in Event |-> Fate(e)]' = [e \in Event |-> Fate(e)]
  BY DEF Fate

LEMMA StepDelivery ==
  RelayInv /\ RelayInv' /\ [Next]_vars
    => [Delivery!Next]_<<[e \in Event |-> Fate(e)], delivered, redone>>
<1> SUFFICES ASSUME RelayInv, RelayInv', [Next]_vars
             PROVE  \/ Delivery!Next
                    \/ UNCHANGED <<[e \in Event |-> Fate(e)], delivered, redone>>
  OBVIOUS
<1>1. ASSUME NEW e \in Event, Produce(e) PROVE Delivery!Next
  <2>1. Fate(e) = "absent" /\ Fate(e)' = "owed" /\ \A f \in Event \ {e} : Fate(f)' = Fate(f)
    BY <1>1 DEF Produce, Fate, RelayInv, TypeOK
  <2>2. Delivery!Owe(e)
    BY <1>1, <2>1 DEF Produce, Delivery!Owe
  <2> QED BY <2>2 DEF Delivery!Next
<1>2. ASSUME NEW w \in Relay, Claim(w)
      PROVE  UNCHANGED <<[e \in Event |-> Fate(e)], delivered, redone>>
  BY <1>2, SameFates DEF Claim
<1>3. ASSUME NEW w \in Relay, NEW e \in Event, Publish(w, e) \/ PublishRaises(w, e)
      PROVE  \/ Delivery!Next
             \/ UNCHANGED <<[f \in Event |-> Fate(f)], delivered, redone>>
  <2>1. /\ UNCHANGED <<status, redone>> /\ e \in todo[w]
        /\ delivered' \in {delivered, [delivered EXCEPT ![e] = @ + 1]}
    BY <1>3 DEF Publish, PublishRaises, NextUp
  <2>2. CASE delivered' = [delivered EXCEPT ![e] = @ + 1]
    <3>1. Fate(e) # "absent"
      BY <2>1, FateOf DEF RelayInv, Books, ClaimsDisjoint
    <3>2. redone' = [f \in Event |-> IF f \in {} THEN redone[f] + 1 ELSE redone[f]]
      BY <2>1 DEF RelayInv, TypeOK
    <3>3. delivered'[e] <= 1 + redone'[e]
      BY DEF RelayInv, NoDoublePublish
    <3>4. Delivery!Do(e, {})
      BY <2>1, <2>2, <3>1, <3>2, <3>3, SameFates DEF Delivery!Do, Delivery!Blame
    <3> QED BY <3>4 DEF Delivery!Next
  <2> QED BY <2>1, <2>2, SameFates
<1>4. ASSUME NEW w \in Relay, Commit(w) PROVE Delivery!Next
  <2> DEFINE Settled == {e \in claimed[w] : e \notin failed[w]}
             Lost == {e \in claimed[w] : e \in failed[w]}
  <2>1. /\ claimed[w] \subseteq Event /\ todo[w] = {}
        /\ \A e \in claimed[w] : status[e] = "pending"
        /\ UNCHANGED <<delivered, redone>>
    BY <1>4 DEF Commit, RelayInv, TypeOK, ClaimsDisjoint
  <2>2. \A e \in Settled : Fate(e) = "owed" /\ delivered[e] > 0
    BY <2>1, FateOf DEF RelayInv, Books
  <2>3. \A e \in Lost : Fate(e) = "owed"
    BY <2>1, FateOf DEF RelayInv
  <2>4. \A e \in Event : Fate(e)' = IF e \in Settled THEN "settled"
                                    ELSE IF e \in Lost THEN "lost" ELSE Fate(e)
    BY <1>4 DEF Commit, Marked, Fate, RelayInv, TypeOK
  <2>5. Settled \in SUBSET Event /\ Lost \in SUBSET Event
    BY <2>1
  <2> HIDE DEF Settled, Lost
  <2>6. Delivery!Decide(Settled, Lost)
    BY <2>1, <2>2, <2>3, <2>4, <2>5 DEF Delivery!Decide
  <2> QED BY <2>5, <2>6 DEF Delivery!Next
<1>5. ASSUME NEW w \in Relay, Crash(w) PROVE Delivery!Next
  <2>1. Delivery!Fault(claimed[w] \ todo[w])
    BY <1>5, SameFates DEF Crash, Delivery!Fault, Delivery!Blame
  <2>2. claimed[w] \ todo[w] \in SUBSET Event
    BY DEF RelayInv, TypeOK
  <2> QED BY <2>1, <2>2 DEF Delivery!Next
<1>6. ASSUME NEW w \in Relay, NEW e \in Event, Resend(w, e) PROVE Delivery!Next
  <2>1. /\ UNCHANGED status /\ e \in todo[w]
        /\ delivered' = [delivered EXCEPT ![e] = @ + 1]
        /\ redone' = [f \in Event |-> IF f \in {e} THEN redone[f] + 1 ELSE redone[f]]
    BY <1>6 DEF Resend, NextUp, RelayInv, TypeOK
  <2>2. Fate(e) # "absent"
    BY <2>1, FateOf DEF RelayInv, Books, ClaimsDisjoint
  <2>3. delivered'[e] <= 1 + redone'[e]
    BY DEF RelayInv, NoDoublePublish
  <2>4. Delivery!Do(e, {e})
    BY <2>1, <2>2, <2>3, SameFates DEF Delivery!Do, Delivery!Blame
  <2> QED BY <2>4 DEF Delivery!Next
<1>7. CASE UNCHANGED vars
  BY <1>7, SameFates DEF vars
<1> QED BY <1>1, <1>2, <1>3, <1>4, <1>5, <1>6, <1>7 DEF Next, Cycle, Mishap, Quiet

(* Any number of relays implement AtLeastOnce: ImplementsDelivery.         *)
THEOREM RelaysDeliver == Spec => ImplementsDelivery
<1>1. Init => RelayInv /\ Delivery!Init
  BY RelayInvInit, InitDelivery
<1> QED
  BY <1>1, StepDelivery, RelayInvStep, PTL DEF Spec, ImplementsDelivery, Delivery!Spec

-----------------------------------------------------------------------------
(* The pipeline.  Its subscriber is the one ConsumerProofs is about.       *)
SubscriberProofs == INSTANCE ConsumerProofs WITH Message <- Copy

LEMMA SameQueue ==
  /\ \A m : Subscriber!FanOut(m) => SubscriberProofs!FanOut(m)
  /\ \A m : Subscriber!Redrive(m) => SubscriberProofs!Redrive(m)
  /\ \A m : Subscriber!Expire(m) => SubscriberProofs!Expire(m)
  BY DEF Subscriber!FanOut, SubscriberProofs!FanOut, Subscriber!Redrive, SubscriberProofs!Redrive,
         Subscriber!Visible, SubscriberProofs!Visible, Subscriber!Exhausted, SubscriberProofs!Exhausted,
         Subscriber!Expire, SubscriberProofs!Expire, Subscriber!Reappear, SubscriberProofs!Reappear,
         Subscriber!Once, SubscriberProofs!Once, Subscriber!loop, SubscriberProofs!loop,
         Subscriber!fuse, SubscriberProofs!fuse

LEMMA SameRetry ==
  \A c : /\ Subscriber!Lost(c) = SubscriberProofs!Lost(c)
         /\ Subscriber!Calls(c) <=> SubscriberProofs!Calls(c)
         /\ Subscriber!RetryOrGiveUp(c) => SubscriberProofs!RetryOrGiveUp(c)
         /\ \A S : Subscriber!LetGo(c, S) => SubscriberProofs!LetGo(c, S)
  BY DEF Subscriber!Lost, SubscriberProofs!Lost, Subscriber!Calls, SubscriberProofs!Calls,
         Subscriber!Guarded, SubscriberProofs!Guarded, Subscriber!Tries, SubscriberProofs!Tries,
         Subscriber!RetryOrGiveUp, SubscriberProofs!RetryOrGiveUp,
         Subscriber!LetGo, SubscriberProofs!LetGo

(* Definition by definition the two instances are one module.              *)
LEMMA SameSteps ==
  /\ \A m : Subscriber!Sqs(m) => SubscriberProofs!Sqs(m)
  /\ \A c : Subscriber!Crash(c) => SubscriberProofs!Crash(c)
  /\ \A c : Subscriber!Cool(c) => SubscriberProofs!Cool(c)
  /\ \A c : Subscriber!Resend(c) => SubscriberProofs!Resend(c)
  /\ \A c : Subscriber!Run(c) => SubscriberProofs!Run(c)
<1> USE SameRetry, SameQueue
<1> USE DEF Subscriber!Once, SubscriberProofs!Once, Subscriber!loop, SubscriberProofs!loop,
            Subscriber!fuse, SubscriberProofs!fuse, Subscriber!queue, SubscriberProofs!queue
<1>1. \A m : Subscriber!Sqs(m) => SubscriberProofs!Sqs(m)
  BY DEF Subscriber!Sqs, SubscriberProofs!Sqs
<1>2. \A c : Subscriber!Crash(c) => SubscriberProofs!Crash(c)
  BY DEF Subscriber!Crash, SubscriberProofs!Crash
<1>3. \A c : Subscriber!Cool(c) => SubscriberProofs!Cool(c)
  BY DEF Subscriber!Cool, SubscriberProofs!Cool
<1>4. ASSUME NEW c, Subscriber!Run(c) PROVE SubscriberProofs!Run(c)
  <2>1. Subscriber!Batches = SubscriberProofs!Batches
    BY DEF Subscriber!Batches, SubscriberProofs!Batches, Subscriber!Visible,
           SubscriberProofs!Visible, Subscriber!Cardinality, SubscriberProofs!Cardinality
  <2>2. Subscriber!Poll(c) => SubscriberProofs!Poll(c)
    BY <2>1 DEF Subscriber!Poll, SubscriberProofs!Poll, Subscriber!Receive, SubscriberProofs!Receive
  <2>3. Subscriber!PollNothing(c) => SubscriberProofs!PollNothing(c)
    BY DEF Subscriber!PollNothing, SubscriberProofs!PollNothing, Subscriber!vars,
           SubscriberProofs!vars
  <2>4. Subscriber!Succeed(c) => SubscriberProofs!Succeed(c)
    BY DEF Subscriber!Succeed, SubscriberProofs!Succeed
  <2>5. Subscriber!Raise(c) => SubscriberProofs!Raise(c)
    BY DEF Subscriber!Raise, SubscriberProofs!Raise, Subscriber!Trips, SubscriberProofs!Trips,
           Subscriber!Guarded, SubscriberProofs!Guarded
  <2>6. Subscriber!Refuse(c) => SubscriberProofs!Refuse(c)
    BY DEF Subscriber!Refuse, SubscriberProofs!Refuse, Subscriber!Guarded, SubscriberProofs!Guarded
  <2>7. \A m : Subscriber!Take(c, m) => SubscriberProofs!Take(c, m)
    BY DEF Subscriber!Take, SubscriberProofs!Take
  <2>8. \A m : Subscriber!Delete(c, m) => SubscriberProofs!Delete(c, m)
    BY DEF Subscriber!Delete, SubscriberProofs!Delete, Subscriber!Deletes, SubscriberProofs!Deletes,
           Subscriber!Removed, SubscriberProofs!Removed, Subscriber!Receipt, SubscriberProofs!Receipt
  <2>9. \A m : Subscriber!DeleteRaises(c, m) => SubscriberProofs!DeleteRaises(c, m)
    BY DEF Subscriber!DeleteRaises, SubscriberProofs!DeleteRaises, Subscriber!Deletes,
           SubscriberProofs!Deletes
  <2> QED
    BY <1>4, <2>2, <2>3, <2>4, <2>5, <2>6, <2>7, <2>8, <2>9
    DEF Subscriber!Run, SubscriberProofs!Run
<1>5. \A c : Subscriber!Resend(c) => SubscriberProofs!Resend(c)
  BY DEF Subscriber!Resend, SubscriberProofs!Resend, Subscriber!Guarded, SubscriberProofs!Guarded
<1> QED
  BY <1>1, <1>2, <1>3, <1>4, <1>5

LEMMA SameInit == Subscriber!Init => SubscriberProofs!Init
  BY DEF Subscriber!Init, SubscriberProofs!Init, Subscriber!QueueInit, SubscriberProofs!QueueInit

-----------------------------------------------------------------------------
(* Each crash rolls back at most one try of an event, and each resend is   *)
(* of one.                                                                 *)
CrashesCounted == crashes <= MaxCrashes /\ \A e \in Event : redone[e] <= crashes

(* What SNS has not accepted is nowhere, and it accepts committed rows     *)
(* only.                                                                   *)
NothingMadeUp ==
  /\ \A m \in Copy : ~ Accepted(m) => place[m] = "topic" /\ effect[m] = 0
  /\ \A e \in Event : status[e] = "absent" => delivered[e] = 0

PipeInv == /\ RelayInv
           /\ SubscriberProofs!IInv
           /\ CrashesCounted
           /\ NothingMadeUp

SubscriberStep == (\E m \in Copy : Queued(m)) \/ (\E c \in Process : Handle(c))

(* A subscriber's step does one copy that was queued, or moves copies from *)
(* the topic to the queue and from there to their end.                     *)
Handles(m) == /\ place[m] # "topic"
              /\ effect' = [effect EXCEPT ![m] = @ + 1]
              /\ place' = place

Moves ==
  /\ effect' = effect
  /\ \A m \in Copy :
       \/ place'[m] = place[m]
       \/ place[m] = "topic" /\ place'[m] = "queue" /\ Accepted(m)
       \/ place[m] = "queue" /\ place'[m] \in {"deleted", "dead"}

LEMMA PlacesKept ==
  ASSUME NEW c \in Process, Handle(c), NEW m \in Copy, place[m] = "topic",
         SubscriberProofs!TypeOK
  PROVE  place'[m] = "topic"
<1> USE DEF Subscriber!queue, SubscriberProofs!TypeOK, SubscriberProofs!QueueTypeOK
<1>1. CASE Subscriber!Run(c)
  <2>1. CASE place' = place
    BY <2>1
  <2>2. CASE \E n \in Copy : Subscriber!Delete(c, n)
    BY <2>2 DEF Subscriber!Delete, Subscriber!Removed
  <2> QED
    BY <1>1, <2>1, <2>2
    DEF Subscriber!Run, Subscriber!Poll, Subscriber!Receive, Subscriber!PollNothing,
        Subscriber!vars, Subscriber!Succeed, Subscriber!Raise, Subscriber!Refuse, Subscriber!Take,
        Subscriber!DeleteRaises
<1>2. CASE Subscriber!Cool(c) \/ Subscriber!Resend(c) \/ Subscriber!Crash(c)
  BY <1>2 DEF Subscriber!Cool, Subscriber!Resend, Subscriber!Crash
<1> QED
  BY <1>1, <1>2 DEF Handle

LEMMA SubscriberInvariant ==
  /\ Subscriber!Init => SubscriberProofs!IInv
  /\ SubscriberProofs!IInv /\ [SubscriberProofs!Next]_(SubscriberProofs!vars)
       => SubscriberProofs!IInv'
  BY SameInit, SubscriberProofs!InitInvariant, SubscriberProofs!StepInvariant,
     CountsArePositive, ResendsAreBounded, ServicesKnown, NoneIsNoCopy, FinitelyManyProcesses
  DEF IsFiniteSet, SubscriberProofs!IsFiniteSet

LEMMA SubscriberHop ==
  ASSUME SubscriberProofs!IInv, SubscriberStep
  PROVE  /\ SubscriberProofs!IInv'
         /\ UNCHANGED vars
         /\ (\E m \in Copy : Handles(m)) \/ Moves
<1> DEFINE fates == [m \in Copy |-> SubscriberProofs!Fate(m)]
<1>1. SubscriberProofs!Next /\ UNCHANGED vars
  BY SameSteps DEF SubscriberStep, Queued, Handle, SubscriberProofs!Next
<1>2. SubscriberProofs!IInv'
  BY <1>1, SubscriberInvariant
<1>3. [SubscriberProofs!Delivery!Next]_<<fates, effect, spoiled>>
  BY <1>1, <1>2, SubscriberProofs!StepDelivery, CountsArePositive, ResendsAreBounded, ServicesKnown,
     NoneIsNoCopy, FinitelyManyProcesses
  DEF IsFiniteSet, SubscriberProofs!IsFiniteSet
<1>4. /\ place \in [Copy -> {"topic", "queue", "deleted", "dead"}]
      /\ place' \in [Copy -> {"topic", "queue", "deleted", "dead"}]
      /\ effect \in [Copy -> Nat] /\ effect' \in [Copy -> Nat]
  BY <1>2 DEF SubscriberProofs!IInv, SubscriberProofs!TypeOK, SubscriberProofs!QueueTypeOK
<1>5. \A m \in Copy : /\ fates[m] = "absent" <=> place[m] = "topic"
                      /\ fates[m] = "owed" <=> place[m] = "queue"
                      /\ fates[m] = "settled" <=> place[m] = "deleted"
                      /\ fates[m] = "lost" <=> place[m] = "dead"
  BY <1>4 DEF SubscriberProofs!Fate
<1>6. \A m \in Copy : /\ fates'[m] = "absent" <=> place'[m] = "topic"
                      /\ fates'[m] = "owed" <=> place'[m] = "queue"
                      /\ fates'[m] = "settled" <=> place'[m] = "deleted"
                      /\ fates'[m] = "lost" <=> place'[m] = "dead"
  BY <1>4 DEF SubscriberProofs!Fate
<1>13. SubscriberProofs!Delivery!Next \/ (fates' = fates /\ effect' = effect)
  BY <1>3
<1> HIDE DEF fates
<1>7. fates' = fates => place' = place
  BY <1>4, <1>5, <1>6
<1>8. CASE fates' = fates /\ effect' = effect
  BY <1>1, <1>2, <1>7, <1>8 DEF Moves
<1>9. ASSUME NEW m \in Copy, SubscriberProofs!Delivery!Owe(m) PROVE Moves
  <2>1. /\ effect' = effect
        /\ place[m] = "topic" /\ place'[m] = "queue"
        /\ \A n \in Copy \ {m} : fates'[n] = fates[n]
    BY <1>9, <1>5, <1>6 DEF SubscriberProofs!Delivery!Owe, fates
  <2>2. \A n \in Copy \ {m} : place'[n] = place[n]
    BY <2>1, <1>4, <1>5, <1>6
  <2>3. PICK n \in Copy : Queued(n)
    BY <2>1, PlacesKept DEF SubscriberStep, SubscriberProofs!IInv
  <2>4. n = m
    <3>1. \A k \in Copy \ {n} : place'[k] = place[k]
      BY <2>3, <1>4 DEF Queued, Subscriber!Sqs, Subscriber!FanOut, Subscriber!Redrive,
                        Subscriber!Expire, Subscriber!Reappear
    <3> QED
      BY <3>1, <2>1
  <2> QED
    BY <2>1, <2>2, <2>3, <2>4 DEF Moves, Queued
<1>10. ASSUME NEW S \in SUBSET Copy, SubscriberProofs!Delivery!Fault(S) PROVE Moves
  BY <1>10, <1>7 DEF SubscriberProofs!Delivery!Fault, Moves, fates
<1>11. ASSUME NEW m \in Copy, NEW S \in SUBSET Copy, SubscriberProofs!Delivery!Do(m, S)
       PROVE  Handles(m)
  BY <1>11, <1>5, <1>7 DEF SubscriberProofs!Delivery!Do, Handles, fates
<1>12. ASSUME NEW S \in SUBSET Copy, NEW L \in SUBSET Copy, SubscriberProofs!Delivery!Decide(S, L)
       PROVE  Moves
  <2>1. /\ effect' = effect
        /\ \A m \in Copy : \/ fates'[m] = fates[m]
                           \/ fates[m] = "owed" /\ fates'[m] \in {"settled", "lost"}
    BY <1>12 DEF SubscriberProofs!Delivery!Decide, fates
  <2> QED
    BY <2>1, <1>4, <1>5, <1>6 DEF Moves
<1>14. SubscriberProofs!Delivery!Next => (\E m \in Copy : Handles(m)) \/ Moves
  BY <1>9, <1>10, <1>11, <1>12 DEF SubscriberProofs!Delivery!Next, fates
<1> QED
  BY <1>1, <1>2, <1>8, <1>13, <1>14
RelayStep == [Next]_vars /\ UNCHANGED subscriber

LEMMA EitherHop == [PipelineNext]_pipeline => RelayStep \/ SubscriberStep
  BY DEF PipelineNext, pipeline, RelayStep, SubscriberStep, Forward, Next

Grows ==
  \A e \in Event : /\ delivered'[e] >= delivered[e]
                   /\ status'[e] = "absent" => status[e] = "absent" /\ delivered'[e] = delivered[e]

LEMMA RelayHop ==
  ASSUME PipeInv, RelayStep
  PROVE  PipeInv'
<1> USE DEF PipeInv
<1>1. RelayInv'
  BY RelayInvStep DEF RelayStep
<1>2. UNCHANGED SubscriberProofs!vars /\ UNCHANGED <<place, effect>>
  BY DEF RelayStep, subscriber, SubscriberProofs!vars, SubscriberProofs!queue, SubscriberProofs!loop,
         SubscriberProofs!fuse
<1>3. SubscriberProofs!IInv'
  BY <1>2, SubscriberInvariant
<1>4. CrashesCounted' /\ Grows
  <2> USE DEF RelayInv, TypeOK, CrashesCounted, Grows
  <2>1. CASE \E e \in Event : Produce(e)
    BY <2>1 DEF Produce
  <2>2. ASSUME NEW w \in Relay, Claim(w) \/ Commit(w)
        PROVE  CrashesCounted' /\ Grows
    BY <2>2 DEF Claim, Commit, Marked
  <2>3. ASSUME NEW w \in Relay, NEW e \in Event, Publish(w, e) \/ PublishRaises(w, e)
        PROVE  CrashesCounted' /\ Grows
    BY <2>3 DEF Publish, PublishRaises, NextUp, Books, ClaimsDisjoint
  <2>4. ASSUME NEW w \in Relay, Crash(w)
        PROVE  CrashesCounted' /\ Grows
    BY <2>4, CrashesBounded DEF Crash
  <2>5. ASSUME NEW w \in Relay, NEW e \in Event, Resend(w, e)
        PROVE  CrashesCounted' /\ Grows
    BY <2>5, CrashesBounded DEF Resend, NextUp, Books, ClaimsDisjoint
  <2>6. CASE UNCHANGED vars
    BY <2>6 DEF vars
  <2> QED
    BY <2>1, <2>2, <2>3, <2>4, <2>5, <2>6 DEF RelayStep, Next, Cycle, Mishap, Quiet
<1>5. NothingMadeUp'
  BY <1>1, <1>2, <1>4 DEF Grows, NothingMadeUp, Accepted, RelayInv, TypeOK, Copy
<1> QED
  BY <1>1, <1>3, <1>4, <1>5

LEMMA PipeInvInit == PipelineInit => PipeInv
<1> SUFFICES ASSUME PipelineInit PROVE PipeInv
  OBVIOUS
<1>1. RelayInv /\ SubscriberProofs!IInv
  BY RelayInvInit, SubscriberInvariant DEF PipelineInit
<1>2. CrashesCounted /\ NothingMadeUp
  BY CrashesBounded
  DEF PipelineInit, Init, Subscriber!Init, Subscriber!QueueInit, CrashesCounted, NothingMadeUp
<1> QED
  BY <1>1, <1>2 DEF PipeInv

LEMMA PipeInvStep == PipeInv /\ [PipelineNext]_pipeline => PipeInv'
<1> SUFFICES ASSUME PipeInv, SubscriberStep PROVE PipeInv'
  BY EitherHop, RelayHop
<1>1. /\ SubscriberProofs!IInv' /\ UNCHANGED vars
      /\ (\E m \in Copy : Handles(m)) \/ Moves
  BY SubscriberHop DEF PipeInv
<1>2. RelayInv' /\ CrashesCounted' /\ UNCHANGED <<status, delivered>>
  BY <1>1, RelayInvStep DEF PipeInv, CrashesCounted, vars
<1>3. NothingMadeUp'
  <2>1. CASE Moves
    BY <1>2, <2>1 DEF Moves, PipeInv, NothingMadeUp, Accepted, SubscriberProofs!IInv,
                      SubscriberProofs!TypeOK, SubscriberProofs!QueueTypeOK
  <2>2. CASE \E m \in Copy : Handles(m)
    BY <1>2, <2>2 DEF Handles, PipeInv, NothingMadeUp, Accepted, SubscriberProofs!IInv,
                      SubscriberProofs!TypeOK
  <2> QED
    BY <1>1, <2>1, <2>2
<1> QED
  BY <1>1, <1>2, <1>3 DEF PipeInv

-----------------------------------------------------------------------------
LEMMA OutcomeOf ==
  ASSUME NEW e
  PROVE  /\ Outcome(e) = "absent" <=> status[e] = "absent"
         /\ Outcome(e) = "owed" <=> status[e] # "absent" /\ ~ Decided(e)
         /\ Outcome(e) = "settled" <=> Decided(e) /\ ~ GivenUp(e)
         /\ Outcome(e) = "lost" <=> Decided(e) /\ GivenUp(e)
  BY DEF Outcome, Decided

LEMMA OutcomeKept ==
  ASSUME NEW e, status'[e] = status[e], delivered'[e] = delivered[e], UNCHANGED place
  PROVE  Outcome(e)' = Outcome(e)
  BY DEF Outcome, Decided, GivenUp, Copies, Ended
Counted ==
  \A e \in Event :
    /\ Copies(e) \subseteq Copy
    /\ IsFiniteSet(Handled(e)) /\ Cardinality(Handled(e)) \in Nat
    /\ Cardinality(Handled(e)) <= 1 + redone[e]
    /\ Handled(e) # {} => Cardinality(Handled(e)) > 0

(* SNS accepted an event once for every rolled-back cycle or resend and    *)
(* once more, so MaxCrashes + 1 copies are enough, and Handled counts some *)
(* of them.                                                                *)
LEMMA HandledCounted == PipeInv => Counted
<1> SUFFICES ASSUME PipeInv, NEW e \in Event
             PROVE  /\ Copies(e) \subseteq Copy
                    /\ IsFiniteSet(Handled(e)) /\ Cardinality(Handled(e)) \in Nat
                    /\ Cardinality(Handled(e)) <= 1 + redone[e]
                    /\ Handled(e) # {} => Cardinality(Handled(e)) > 0
  BY DEF Counted
<1>1. /\ delivered[e] \in Nat /\ redone[e] \in Nat /\ MaxCrashes \in Nat
      /\ delivered[e] <= 1 + redone[e] /\ delivered[e] <= MaxCrashes + 1
  BY CrashesBounded DEF PipeInv, RelayInv, TypeOK, NoDoublePublish, CrashesCounted
<1>2. Copies(e) \subseteq Copy
  BY <1>1 DEF Copies, Copy
<1>3. Handled(e) \subseteq 1 .. delivered[e]
  <2> SUFFICES ASSUME NEW n \in 1 .. MaxCrashes + 1, effect[<<e, n>>] > 0
               PROVE  n \in 1 .. delivered[e]
    BY DEF Handled
  <2>1. <<e, n>> \in Copy
    BY DEF Copy
  <2>2. Accepted(<<e, n>>)
    BY <2>1 DEF PipeInv, NothingMadeUp
  <2> QED
    BY <1>1, <2>2 DEF Accepted
<1>4. IsFiniteSet(1 .. delivered[e]) /\ Cardinality(1 .. delivered[e]) = delivered[e]
  <2> DEFINE n == delivered[e]
  <2>1. n \in Nat /\ (n < 1 => n = 0)
    BY <1>1
  <2> HIDE DEF n
  <2>2. IsFiniteSet(1 .. n) /\ Cardinality(1 .. n) = IF 1 > n THEN 0 ELSE n - 1 + 1
    BY <2>1, FS_Interval
  <2>3. IsFiniteSet(1 .. n) /\ Cardinality(1 .. n) = n
    BY <2>1, <2>2
  <2> QED
    BY <2>3 DEF n
<1>5. /\ IsFiniteSet(Handled(e)) /\ Cardinality(Handled(e)) <= delivered[e]
      /\ Cardinality(Handled(e)) \in Nat
  BY <1>3, <1>4, FS_Subset, FS_CardinalityType
<1>6. Handled(e) # {} => Cardinality(Handled(e)) > 0
  BY <1>5, FS_EmptySet
<1> QED
  BY <1>1, <1>2, <1>5, <1>6

(* An event that was settled is one a subscriber handled.                  *)
SettledHandled == \A e \in Event : Outcome(e) = "settled" => Cardinality(Handled(e)) > 0

LEMMA SettledIsHandled == PipeInv => SettledHandled
<1> SUFFICES ASSUME PipeInv, NEW e \in Event, Decided(e), ~ GivenUp(e)
             PROVE  Handled(e) # {}
  BY OutcomeOf, HandledCounted DEF SettledHandled, Counted
<1>1. PICK m \in Copies(e) : place[m] = "deleted"
  <2>1. CASE status[e] = "failed"
    BY <2>1 DEF GivenUp
  <2>2. CASE status[e] = "published"
    <3>1. delivered[e] \in Nat /\ delivered[e] > 0
      BY <2>2 DEF PipeInv, RelayInv, PublishedIsDelivered, TypeOK
    <3>2. <<e, 1>> \in Copies(e)
      BY <3>1 DEF Copies
    <3>3. place[<<e, 1>>] \in {"deleted", "dead"}
      BY <3>2 DEF Decided, Ended
    <3> QED
      BY <3>2, <3>3 DEF GivenUp
  <2> QED
    BY <2>1, <2>2 DEF Decided
<1>2. m \in Copy /\ effect[m] > 0
  BY <1>1, HandledCounted DEF Counted, PipeInv, SubscriberProofs!IInv, SubscriberProofs!DeletedIsDone
<1>3. m[1] = e /\ m[2] \in 1 .. MaxCrashes + 1 /\ m = <<e, m[2]>>
  BY <1>1, <1>2 DEF Copies, Copy
<1> QED
  BY <1>2, <1>3 DEF Handled

outcomes == [e \in Event |-> Outcome(e)]
handled == [e \in Event |-> Cardinality(Handled(e))]

(* Whatever only decides events that were under way is a Decide.           *)
LEMMA DecidesSome ==
  ASSUME PipeInv', UNCHANGED <<effect, redone>>,
         \A e \in Event : \/ Outcome(e)' = Outcome(e)
                          \/ Outcome(e) = "owed" /\ Outcome(e)' \in {"settled", "lost"}
  PROVE  EndToEnd!Next
<1> DEFINE Newly(x) == {e \in Event : Outcome(e) = "owed" /\ Outcome(e)' = x}
<1>1. \A e \in Event : Handled(e)' = Handled(e)
  BY DEF Handled
<1>2. SettledHandled'
  BY SettledIsHandled, PTL
<1>3. EndToEnd!Decide(Newly("settled"), Newly("lost"))
  <2>1. UNCHANGED handled
    BY <1>1 DEF handled
  <2>2. outcomes' = [e \in Event |-> IF e \in Newly("settled") THEN "settled"
                                    ELSE IF e \in Newly("lost") THEN "lost" ELSE outcomes[e]]
    BY DEF outcomes
  <2>3. \A e \in Newly("settled") : outcomes[e] = "owed" /\ handled[e] > 0
    BY <1>1, <1>2 DEF outcomes, handled, SettledHandled
  <2>4. \A e \in Newly("lost") : outcomes[e] = "owed"
    BY DEF outcomes
  <2> QED
    BY <2>1, <2>2, <2>3, <2>4 DEF EndToEnd!Decide, outcomes, handled
<1> QED
  BY <1>3 DEF EndToEnd!Next
(* A relay's step owes, decides, faults or does nothing end to end.        *)
LEMMA RelayEndToEnd ==
  ASSUME PipeInv, PipeInv', RelayStep
  PROVE  EndToEnd!Next
<1> USE DEF PipeInv, RelayInv, TypeOK
<1>1. UNCHANGED <<place, effect>> /\ UNCHANGED handled
  BY DEF RelayStep, subscriber, handled, Handled
<1>2. ASSUME NEW e \in Event, Produce(e) PROVE EndToEnd!Next
  <2>1. /\ Outcome(e) = "absent" /\ Outcome(e)' = "owed"
        /\ \A f \in Event \ {e} : Outcome(f)' = Outcome(f)
    BY <1>1, <1>2, OutcomeKept DEF Produce, Outcome, Decided
  <2>2. outcomes' = [outcomes EXCEPT ![e] = "owed"] /\ outcomes[e] = "absent"
    BY <2>1 DEF outcomes
  <2>3. EndToEnd!Owe(e)
    BY <1>1, <1>2, <2>2 DEF EndToEnd!Owe, Produce, outcomes, handled
  <2> QED
    BY <2>3 DEF EndToEnd!Next
<1>3. ASSUME NEW w \in Relay, Claim(w) PROVE EndToEnd!Next
  BY <1>1, <1>3, OutcomeKept, DecidesSome DEF Claim
<1>4. ASSUME NEW w \in Relay, NEW e \in Event, Publish(w, e) \/ PublishRaises(w, e)
      PROVE  EndToEnd!Next
  <2>1. /\ status[e] = "pending" /\ UNCHANGED <<status, redone>>
        /\ \A f \in Event \ {e} : delivered'[f] = delivered[f]
    BY <1>4 DEF Publish, PublishRaises, NextUp, Books, ClaimsDisjoint
  <2>2. Outcome(e)' = Outcome(e)
    BY <2>1 DEF Outcome, Decided
  <2>3. \A f \in Event \ {e} : Outcome(f)' = Outcome(f)
    BY <1>1, <2>1, OutcomeKept
  <2> QED
    BY <1>1, <2>1, <2>2, <2>3, DecidesSome
<1>5. ASSUME NEW w \in Relay, Commit(w) PROVE EndToEnd!Next
  <2>1. ASSUME NEW e \in Event
        PROVE  \/ Outcome(e)' = Outcome(e)
               \/ Outcome(e) = "owed" /\ Outcome(e)' \in {"settled", "lost"}
    <3>1. CASE e \in claimed[w]
      <4>1. status[e] = "pending" /\ status'[e] # "absent"
        BY <1>5, <3>1 DEF Commit, Marked, ClaimsDisjoint
      <4>2. Outcome(e) = "owed"
        BY <4>1 DEF Outcome, Decided
      <4>3. Outcome(e)' \in {"owed", "settled", "lost"}
        BY <4>1 DEF Outcome, Decided
      <4> QED
        BY <4>2, <4>3
    <3>2. CASE e \notin claimed[w]
      BY <1>1, <1>5, <3>2, OutcomeKept DEF Commit
    <3> QED
      BY <3>1, <3>2
  <2> QED
    BY <1>1, <1>5, <2>1, DecidesSome DEF Commit
<1>6. ASSUME NEW w \in Relay, Crash(w) PROVE EndToEnd!Next
  <2>1. UNCHANGED outcomes
    BY <1>1, <1>6, OutcomeKept DEF Crash, outcomes
  <2>2. EndToEnd!Fault(claimed[w] \ todo[w])
    BY <1>1, <1>6, <2>1 DEF Crash, EndToEnd!Fault, EndToEnd!Blame, outcomes, handled
  <2> QED
    BY <2>2 DEF EndToEnd!Next
<1>7. ASSUME NEW w \in Relay, NEW e \in Event, Resend(w, e) PROVE EndToEnd!Next
  <2>1. status[e] = "pending"
    BY <1>7 DEF Resend, NextUp, Books, ClaimsDisjoint
  <2>2. /\ UNCHANGED status
        /\ \A f \in Event \ {e} : delivered'[f] = delivered[f]
        /\ redone' = [f \in Event |-> IF f \in {e} THEN redone[f] + 1 ELSE redone[f]]
    BY <1>7 DEF Resend
  <2>3. Outcome(e)' = Outcome(e)
    BY <2>1, <2>2 DEF Outcome, Decided
  <2>4. \A f \in Event \ {e} : Outcome(f)' = Outcome(f)
    BY <1>1, <2>2, OutcomeKept
  <2>5. UNCHANGED outcomes
    BY <2>3, <2>4 DEF outcomes
  <2>6. EndToEnd!Fault({e})
    BY <1>1, <2>2, <2>5 DEF EndToEnd!Fault, EndToEnd!Blame, outcomes, handled
  <2> QED
    BY <2>6 DEF EndToEnd!Next
<1>8. CASE UNCHANGED vars
  BY <1>1, <1>8, OutcomeKept, DecidesSome DEF vars
<1> QED
  BY <1>2, <1>3, <1>4, <1>5, <1>6, <1>7, <1>8 DEF RelayStep, Next, Cycle, Mishap, Quiet

(* The first time a copy is handled is one Do of its event.                *)
LEMMA HandlingIsDo ==
  ASSUME PipeInv, PipeInv', UNCHANGED vars, NEW m \in Copy, Handles(m)
  PROVE  EndToEnd!Next
<1>0. Counted /\ Counted'
  BY HandledCounted, PTL
<1> USE DEF PipeInv
<1>1. UNCHANGED <<status, delivered, redone, place>> /\ UNCHANGED outcomes
  <2>1. UNCHANGED <<status, delivered, redone, place>>
    BY DEF vars, Handles
  <2> QED
    BY <2>1, OutcomeKept DEF outcomes
<1>2. PICK e \in Event, n \in 1 .. MaxCrashes + 1 : m = <<e, n>>
  BY DEF Copy
<1>3. /\ effect \in [Copy -> Nat]
      /\ \A k \in Copy : effect'[k] = IF k = m THEN effect[m] + 1 ELSE effect[k]
  BY DEF Handles, SubscriberProofs!IInv, SubscriberProofs!TypeOK
<1>4. \A f \in Event, k \in 1 .. MaxCrashes + 1 : <<f, k>> \in Copy
  BY DEF Copy
<1>5. \A f \in Event : Handled(f)' = IF f = e THEN Handled(e) \cup {n} ELSE Handled(f)
  BY <1>2, <1>3, <1>4 DEF Handled
<1>6. CASE effect[m] > 0
  <2>1. \A f \in Event : Handled(f)' = Handled(f)
    BY <1>2, <1>5, <1>6 DEF Handled
  <2>2. UNCHANGED handled
    BY <2>1 DEF handled
  <2>3. EndToEnd!Fault({})
    BY <1>1, <2>2 DEF EndToEnd!Fault, EndToEnd!Blame, outcomes, handled, RelayInv, TypeOK
  <2> QED
    BY <2>3 DEF EndToEnd!Next
<1>7. CASE effect[m] = 0
  <2>1. n \notin Handled(e)
    BY <1>2, <1>7 DEF Handled
  <2>2. outcomes[e] # "absent"
    <3>1. Accepted(m) /\ delivered[e] \in Nat
      BY DEF Handles, NothingMadeUp, RelayInv, TypeOK
    <3>2. status[e] # "absent"
      BY <1>2, <3>1 DEF Accepted, NothingMadeUp
    <3> QED
      BY <3>2, OutcomeOf DEF outcomes
  <2>3. Cardinality(Handled(e) \cup {n}) = Cardinality(Handled(e)) + 1
    BY <1>0, <2>1, FS_AddElement DEF Counted
  <2>4. handled' = [handled EXCEPT ![e] = @ + 1]
    BY <1>5, <2>3 DEF handled
  <2>5. handled'[e] <= 1 + redone'[e]
    BY <1>0 DEF Counted, handled
  <2>6. redone' = [f \in Event |-> IF f \in {} THEN redone[f] + 1 ELSE redone[f]]
    BY <1>1 DEF RelayInv, TypeOK
  <2>7. EndToEnd!Do(e, {})
    BY <1>1, <2>2, <2>4, <2>5, <2>6 DEF EndToEnd!Do, EndToEnd!Blame, outcomes, handled
  <2> QED
    BY <2>7 DEF EndToEnd!Next
<1> QED
  BY <1>3, <1>6, <1>7

(* A copy that is deleted or dead-lettered decides its event or nothing.   *)
LEMMA MovingIsDecide ==
  ASSUME PipeInv, PipeInv', UNCHANGED vars, Moves
  PROVE  EndToEnd!Next
<1>1. UNCHANGED <<status, delivered, redone, effect>>
  BY DEF vars, Moves
<1>2. Counted
  BY HandledCounted
<1>3. ASSUME NEW e \in Event
      PROVE  \/ Outcome(e)' = Outcome(e)
             \/ Outcome(e) = "owed" /\ Outcome(e)' \in {"settled", "lost"}
  <2>1. CASE status[e] = "absent"
    BY <1>1, <2>1 DEF Outcome, Decided
  <2>2. CASE Decided(e)
    <3>1. \A m \in Copies(e) : place'[m] = place[m]
      BY <1>2, <2>2 DEF Counted, Moves, Decided, Ended
    <3>2. Decided(e)' /\ (GivenUp(e)' <=> GivenUp(e))
      BY <1>1, <2>2, <3>1 DEF Decided, GivenUp, Ended, Copies
    <3> QED
      BY <2>2, <3>2 DEF Outcome, Decided
  <2>3. CASE status[e] # "absent" /\ ~ Decided(e)
    <3>1. Outcome(e) = "owed"
      BY <2>3, OutcomeOf
    <3>2. Outcome(e)' \in {"owed", "settled", "lost"}
      BY <1>1, <2>3 DEF Outcome, Decided
    <3> QED
      BY <3>1, <3>2
  <2> QED
    BY <2>1, <2>2, <2>3
<1> QED
  BY <1>1, <1>3, DecidesSome

LEMMA StepEndToEnd ==
  PipeInv /\ PipeInv' /\ [PipelineNext]_pipeline
    => [EndToEnd!Next]_<<[e \in Event |-> Outcome(e)], [e \in Event |-> Cardinality(Handled(e))],
                         redone>>
<1> SUFFICES ASSUME PipeInv, PipeInv', SubscriberStep PROVE EndToEnd!Next
  BY EitherHop, RelayEndToEnd
<1> QED
  BY SubscriberHop, HandlingIsDo, MovingIsDecide DEF PipeInv

LEMMA InitEndToEnd == PipelineInit => EndToEnd!Init
<1> SUFFICES ASSUME PipelineInit PROVE EndToEnd!Init
  OBVIOUS
<1>1. \A e \in Event : Outcome(e) = "absent"
  BY OutcomeOf DEF PipelineInit, Init
<1>2. \A e \in Event : Handled(e) = {}
  BY DEF Handled, PipelineInit, Subscriber!Init, Copy
<1> QED
  BY <1>1, <1>2, FS_EmptySet DEF EndToEnd!Init, PipelineInit, Init

(* From the committed row to the email or the audit row: an event takes    *)
(* effect before it is settled, and through a second copy only after a     *)
(* rolled-back cycle or a resend.  DeliversEndToEnd.                       *)
THEOREM PipelineDelivers == PipelineSpec => DeliversEndToEnd
<1>1. PipelineInit => PipeInv /\ EndToEnd!Init
  BY PipeInvInit, InitEndToEnd
<1> QED
  BY <1>1, StepEndToEnd, PipeInvStep, PTL DEF PipelineSpec, DeliversEndToEnd, EndToEnd!Spec

(* Put together, the two hops still keep the promise each keeps alone: the *)
(* pipeline adds nothing a relay or a subscriber could not do by itself.   *)
THEOREM HopsDeliver == PipelineSpec => ImplementsDelivery /\ SubscriberProofs!ImplementsDelivery
<1>1. PipelineInit => Init /\ SubscriberProofs!Init
  BY SameInit DEF PipelineInit
<1>2. [PipelineNext]_pipeline => [Next]_vars
  <2> SUFFICES ASSUME SubscriberStep PROVE UNCHANGED vars
    BY EitherHop DEF RelayStep
  <2> QED
    BY DEF SubscriberStep, Queued, Handle
<1>3. [PipelineNext]_pipeline => [SubscriberProofs!Next]_(SubscriberProofs!vars)
  <2>1. RelayStep => UNCHANGED SubscriberProofs!vars
    BY DEF RelayStep, subscriber, SubscriberProofs!vars, SubscriberProofs!queue, SubscriberProofs!loop,
           SubscriberProofs!fuse
  <2>2. SubscriberStep => SubscriberProofs!Next
    BY SameSteps DEF SubscriberStep, Queued, Handle, SubscriberProofs!Next
  <2> QED
    BY <2>1, <2>2, EitherHop
<1>4. PipelineSpec => Spec /\ SubscriberProofs!Spec
  BY <1>1, <1>2, <1>3, PTL DEF PipelineSpec, Spec, SubscriberProofs!Spec
<1>5. SubscriberProofs!Spec => SubscriberProofs!ImplementsDelivery
  BY SubscriberProofs!SubscribersDeliver, CountsArePositive, ResendsAreBounded, ServicesKnown,
     NoneIsNoCopy, FinitelyManyProcesses
  DEF IsFiniteSet, SubscriberProofs!IsFiniteSet
<1> QED
  BY <1>4, <1>5, RelaysDeliver, PTL

-----------------------------------------------------------------------------
(* The journey.  Its requests are those AttendanceProofs is about; what    *)
(* that module says of a deployment around them is not used.               *)
FrontProofs == INSTANCE AttendanceProofs
  WITH Slot <- Event, status <- reply, Backend <- {}, Publisher <- {}, Reporter <- {},
       schema <- {}, version <- {}, migration <- {}, base <- {}, running <- {}

FrontStep(r) == \/ \E s \in Event, k \in Key \cup {None} : Front!Submit(r, s, k)
                \/ Front!Step(r)
                \/ Front!Fail(r)

LEMMA SameFront ==
  ASSUME NEW r, FrontStep(r)
  PROVE  \/ \E s \in Event, k \in Key \cup {None} : FrontProofs!Submit(r, s, k)
         \/ FrontProofs!Step(r)
         \/ FrontProofs!Fail(r)
<1> USE DEF Front!tables, FrontProofs!tables, Front!Goto, FrontProofs!Goto, Front!Answer,
            FrontProofs!Answer, Front!Proceed, FrontProofs!Proceed
<1>1. \A s, k : Front!Submit(r, s, k) => FrontProofs!Submit(r, s, k)
  BY DEF Front!Submit, FrontProofs!Submit
<1>2. Front!Fail(r) => FrontProofs!Fail(r)
  BY DEF Front!Fail, FrontProofs!Fail
<1>3. Front!Lookup(r) => FrontProofs!Lookup(r)
  BY DEF Front!Lookup, FrontProofs!Lookup
<1>4. Front!Exists(r) => FrontProofs!Exists(r)
  BY DEF Front!Exists, FrontProofs!Exists
<1>5. Front!Insert(r) => FrontProofs!Insert(r)
  BY DEF Front!Insert, FrontProofs!Insert, Front!SlotFree, FrontProofs!SlotFree,
         Front!PendingSlot, FrontProofs!PendingSlot
<1>6. Front!OutboxAdd(r) => FrontProofs!OutboxAdd(r)
  BY DEF Front!OutboxAdd, FrontProofs!OutboxAdd, Front!OutboxFlushed, FrontProofs!OutboxFlushed
<1>7. Front!Save(r) => FrontProofs!Save(r)
  BY DEF Front!Save, FrontProofs!Save, Front!KeyTaken, FrontProofs!KeyTaken
<1>8. Front!Commit(r) => FrontProofs!Commit(r)
  BY DEF Front!Commit, FrontProofs!Commit, Front!EventAdded, FrontProofs!EventAdded,
         Front!Stored, FrontProofs!Stored
<1>9. Front!Respond(r) => FrontProofs!Respond(r)
  BY DEF Front!Respond, FrontProofs!Respond
<1> QED
  BY <1>1, <1>2, <1>3, <1>4, <1>5, <1>6, <1>7, <1>8, <1>9
  DEF FrontStep, Front!Step, FrontProofs!Step

LEMMA FrontInvariant ==
  /\ Front!Init => FrontProofs!Init /\ FrontProofs!IInv
  /\ FrontProofs!IInv /\ [FrontProofs!Next]_(FrontProofs!vars) => FrontProofs!IInv'
<1>1. Front!Init => FrontProofs!Init
  BY DEF Front!Init, FrontProofs!Init
<1> QED
  BY <1>1, FrontProofs!InitInvariant, FrontProofs!StepInvariant, NoneIsNoKeyOrEvent

(* A row is committed to the outbox with its attendance, or none is.       *)
LEMMA FrontHop ==
  ASSUME FrontProofs!IInv, NEW r \in Request, FrontStep(r)
  PROVE  /\ FrontProofs!Next
         /\ FrontProofs!IInv'
         /\ \/ UNCHANGED <<recorded, events>>
            \/ \E e \in Event : /\ e \notin recorded
                                /\ recorded' = recorded \cup {e}
                                /\ events' = [events EXCEPT ![e] = @ + 1]
<1>1. FrontProofs!Next
  BY SameFront DEF FrontProofs!Next
<1>2. FrontProofs!IInv'
  BY <1>1, FrontInvariant
<1>3. CASE FrontProofs!Commit(r)
  BY <1>1, <1>2, <1>3
  DEF FrontProofs!Commit, FrontProofs!EventAdded, FrontProofs!IInv, FrontProofs!PendingClean,
      FrontProofs!PendingSlot
<1>4. CASE ~ FrontProofs!Commit(r)
  <2>1. UNCHANGED <<recorded, events>>
    BY <1>4, SameFront
    DEF FrontProofs!Step, FrontProofs!Submit, FrontProofs!Fail, FrontProofs!Lookup,
        FrontProofs!Exists, FrontProofs!Insert, FrontProofs!OutboxAdd, FrontProofs!OutboxFlushed,
        FrontProofs!Save, FrontProofs!Respond, FrontProofs!tables
  <2> QED
    BY <1>1, <1>2, <2>1
<1> QED
  BY <1>3, <1>4

(* The outbox holds the rows of the attendances that are committed.        *)
Coupled == \A e \in Event : status[e] = "absent" <=> e \notin recorded

JourneyInv == PipeInv /\ FrontProofs!IInv /\ Coupled

LEMMA JourneyInvInit == JourneyInit => JourneyInv
  BY PipeInvInit, FrontInvariant
  DEF JourneyInit, PipelineInit, Init, JourneyInv, Coupled, Front!Init

LEMMA JourneyHop ==
  ASSUME JourneyInv, [JourneyNext]_journey
  PROVE  /\ [PipelineNext]_pipeline
         /\ [FrontProofs!Next]_(FrontProofs!vars)
         /\ JourneyInv'
<1> USE DEF JourneyInv
<1>1. status \in [Event -> {"absent", "pending", "published", "failed"}]
  BY DEF PipeInv, RelayInv, TypeOK
<1>2. /\ UNCHANGED front => UNCHANGED FrontProofs!vars
      /\ UNCHANGED front => UNCHANGED recorded
  BY DEF front, FrontProofs!vars, FrontProofs!tables
<1>3. ASSUME [PipelineNext]_pipeline, [FrontProofs!Next]_(FrontProofs!vars), Coupled'
      PROVE  JourneyInv'
  BY <1>3, PipeInvStep, FrontInvariant
<1>4. ASSUME NEW r \in Request, FrontStep(r), Enqueue
      PROVE  [PipelineNext]_pipeline /\ FrontProofs!Next /\ Coupled'
  <2>1. CASE UNCHANGED <<recorded, events>>
    <3>1. UNCHANGED status
      BY <1>1, <1>4, <2>1 DEF Enqueue
    <3> QED
      BY <1>4, <2>1, <3>1, FrontHop DEF Enqueue, pipeline, vars, Coupled
  <2>2. ASSUME NEW e \in Event, e \notin recorded, recorded' = recorded \cup {e},
               events' = [events EXCEPT ![e] = @ + 1]
        PROVE  [PipelineNext]_pipeline /\ Coupled'
    <3>1. events \in [Event -> Nat]
      BY DEF FrontProofs!IInv, FrontProofs!TypeOK
    <3>2. status' = [status EXCEPT ![e] = "pending"] /\ status[e] = "absent"
      <4>1. \A f \in Event : events'[f] # events[f] <=> f = e
        BY <2>2, <3>1
      <4>2. status' = [f \in Event |-> IF f = e THEN "pending" ELSE status[f]]
        BY <1>4, <4>1 DEF Enqueue
      <4>3. status[e] = "absent"
        BY <2>2 DEF Coupled
      <4> QED
        BY <1>1, <4>2, <4>3
    <3>3. Produce(e) /\ UNCHANGED subscriber
      BY <1>4, <3>2 DEF Enqueue, Produce
    <3>4. Coupled'
      BY <1>1, <2>2, <3>2 DEF Coupled
    <3> QED
      BY <3>3, <3>4 DEF PipelineNext
  <2> QED
    BY <1>4, <2>1, <2>2, FrontHop
<1>5. ASSUME UNCHANGED front,
             \/ \E w \in Relay : Forward(w) \/ (Mishap(w) /\ UNCHANGED subscriber)
             \/ \E m \in Copy : Queued(m)
             \/ \E c \in Process : Handle(c)
      PROVE  PipelineNext /\ UNCHANGED FrontProofs!vars /\ Coupled'
  <2>1. \A e \in Event : status'[e] = "absent" <=> status[e] = "absent"
    <3>1. CASE UNCHANGED status
      BY <3>1
    <3>2. CASE \E w \in Relay : Commit(w)
      BY <3>2 DEF Commit, Marked, PipeInv, RelayInv, TypeOK, ClaimsDisjoint
    <3> QED
      BY <1>5, <3>1, <3>2
      DEF Forward, Cycle, Claim, Publish, PublishRaises, Mishap, Crash, Resend, Queued, Handle,
          vars
  <2> QED
    BY <1>2, <1>5, <2>1 DEF PipelineNext, Coupled
<1>6. CASE UNCHANGED journey
  BY <1>2, <1>3, <1>6 DEF journey, pipeline, vars, Coupled
<1> QED
  BY <1>3, <1>4, <1>5, <1>6 DEF JourneyNext, Serve, FrontStep

(* With requests in front of it the pipeline is the pipeline: a commit of  *)
(* POST /attendance is a Produce, and no other step of a request is seen.  *)
THEOREM JourneyIsPipeline == JourneySpec => PipelineSpec
  BY JourneyInvInit, JourneyHop, PTL DEF JourneySpec, PipelineSpec, JourneyInit

(* Nor do the relays and subscribers change what POST /attendance does.    *)
THEOREM JourneyIsAttendance == JourneySpec => FrontProofs!Spec
  BY JourneyInvInit, JourneyHop, FrontInvariant, PTL
  DEF JourneySpec, JourneyInit, FrontProofs!Spec

promised == [e \in Event |-> OutcomeOfRecord(e)]

SameOutcomes == promised = outcomes

LEMMA PromisedOutcome == JourneyInv => SameOutcomes
<1> SUFFICES ASSUME JourneyInv, NEW e \in Event PROVE OutcomeOfRecord(e) = Outcome(e)
  BY DEF SameOutcomes, promised, outcomes
<1>1. e \notin recorded <=> status[e] = "absent"
  BY DEF JourneyInv, Coupled
<1> QED
  BY <1>1, OutcomeOf DEF OutcomeOfRecord, Decided

LEMMA StepPromise ==
  ASSUME JourneyInv, JourneyInv', [JourneyNext]_journey
  PROVE  [Promise!Next]_<<promised, handled, redone>>
<1>1. promised = outcomes /\ promised' = outcomes'
  <2>1. SameOutcomes /\ SameOutcomes'
    BY PromisedOutcome, PTL
  <2> QED
    BY <2>1 DEF SameOutcomes
<1>2. [EndToEnd!Next]_<<outcomes, handled, redone>>
  BY JourneyHop, StepEndToEnd DEF JourneyInv, outcomes, handled
<1>3. ASSUME NEW e \in Event, EndToEnd!Owe(e) PROVE Promise!Owe(e)
  BY <1>1, <1>3 DEF EndToEnd!Owe, Promise!Owe, promised, outcomes
<1>4. ASSUME NEW S \in SUBSET Event, EndToEnd!Fault(S) PROVE Promise!Fault(S)
  BY <1>1, <1>4
  DEF EndToEnd!Fault, Promise!Fault, EndToEnd!Blame, Promise!Blame, promised, outcomes
<1>5. ASSUME NEW e \in Event, NEW S \in SUBSET Event, EndToEnd!Do(e, S) PROVE Promise!Do(e, S)
  BY <1>1, <1>5
  DEF EndToEnd!Do, Promise!Do, EndToEnd!Blame, Promise!Blame, promised, outcomes
<1>6. ASSUME NEW S \in SUBSET Event, NEW L \in SUBSET Event, EndToEnd!Decide(S, L)
      PROVE  Promise!Decide(S, L)
  BY <1>1, <1>6 DEF EndToEnd!Decide, Promise!Decide, promised, outcomes
<1> QED
  BY <1>1, <1>2, <1>3, <1>4, <1>5, <1>6 DEF EndToEnd!Next, Promise!Next

(* From the attendance row to the email or the audit row:                  *)
(* RecordsAreDelivered, for any requests, retries, keys, relays, crashes,  *)
(* subscribers and processes.                                              *)
THEOREM RecordsDelivered == JourneySpec => RecordsAreDelivered
<1>1. JourneyInit => Promise!Init
  <2> SUFFICES ASSUME JourneyInit PROVE Promise!Init
    OBVIOUS
  <2>1. promised = outcomes /\ EndToEnd!Init
    BY JourneyInvInit, PromisedOutcome, InitEndToEnd DEF JourneyInit, SameOutcomes
  <2> QED
    BY <2>1 DEF EndToEnd!Init, Promise!Init, promised, outcomes
<1>2. JourneyInv /\ JourneyInv' /\ [JourneyNext]_journey
        => [Promise!Next]_<<[e \in Event |-> OutcomeOfRecord(e)],
                           [e \in Event |-> Cardinality(Handled(e))], redone>>
  BY StepPromise DEF promised, handled
<1> QED
  BY <1>1, <1>2, JourneyInvInit, JourneyHop, PTL
  DEF JourneySpec, RecordsAreDelivered, Promise!Spec

(* Nobody is mailed or audited for an attendance that was not committed,   *)
(* and whoever was told 201 has one that is on its way or has ended.       *)
THEOREM OnlyRecordsAreHandled ==
  JourneySpec => [] /\ \A e \in Event : Handled(e) # {} => e \in recorded
                    /\ \A r \in Request : reply[r] = "created"
                                         => OutcomeOfRecord(slot[r]) # "absent"
<1>1. ASSUME JourneyInv
      PROVE  /\ \A e \in Event : Handled(e) # {} => e \in recorded
             /\ \A r \in Request : reply[r] = "created" => OutcomeOfRecord(slot[r]) # "absent"
  <2>1. ASSUME NEW e \in Event, NEW n \in Handled(e) PROVE e \in recorded
    <3>1. <<e, n>> \in Copy /\ effect[<<e, n>>] > 0 /\ n \in Nat \ {0}
      BY CrashesBounded DEF Handled, Copy
    <3>2. Accepted(<<e, n>>) /\ delivered[e] \in Nat
      BY <1>1, <3>1 DEF JourneyInv, PipeInv, NothingMadeUp, RelayInv, TypeOK
    <3>3. status[e] # "absent"
      BY <1>1, <3>1, <3>2 DEF Accepted, JourneyInv, PipeInv, NothingMadeUp
    <3> QED
      BY <1>1, <3>3 DEF JourneyInv, Coupled
  <2>2. ASSUME NEW r \in Request, reply[r] = "created"
        PROVE  OutcomeOfRecord(slot[r]) # "absent"
    <3>1. slot[r] \in recorded /\ recorded \subseteq Event
      BY <1>1, <2>2
      DEF JourneyInv, FrontProofs!IInv, FrontProofs!AnswersTrue, FrontProofs!TypeOK
    <3> QED
      BY <3>1, OutcomeOf DEF OutcomeOfRecord
  <2> QED
    BY <2>1, <2>2
<1> QED
  BY <1>1, JourneyInvInit, JourneyHop, PTL DEF JourneySpec
=============================================================================
