-------------------------------- MODULE Relay --------------------------------
(***************************************************************************)
(* The outbox relay: relay processes poll outbox_events, publish to SNS    *)
(* and mark what they published, one transaction per poll cycle.           *)
(*                                                                         *)
(* An event is named by its place in created_at order.  Its row appears    *)
(* when the transaction that wrote it commits, which is in any order.      *)
(* Deployed as one process; several, as SKIP LOCKED is there to allow.     *)
(***************************************************************************)
EXTENDS Naturals, FiniteSets

CONSTANTS
  Event,        \* outbox rows, numbered by created_at
  Relay,        \* relay processes
  Limit,        \* rows claimed in one cycle
  MaxCrashes    \* bound: crashes, failed commits and resends in one behaviour

ASSUME EventsOrdered == Event \subseteq Nat
ASSUME LimitPositive == Limit \in Nat \ {0}
ASSUME CrashesBounded == MaxCrashes \in Nat

VARIABLES
  status,       \* the committed column: "absent", "pending", "published", "failed"
  claimed,      \* the rows a relay has locked
  todo,         \* those of them it has still to publish
  failed,       \* those whose publish raised
  delivered,    \* how often SNS accepted an event
  crashes,      \* crashes and resends so far
  redone        \* history: rolled-back cycles that tried an event, and its resends

vars == <<status, claimed, todo, failed, delivered, crashes, redone>>

TypeOK ==
  /\ status \in [Event -> {"absent", "pending", "published", "failed"}]
  /\ claimed \in [Relay -> SUBSET Event]
  /\ todo \in [Relay -> SUBSET Event]
  /\ failed \in [Relay -> SUBSET Event]
  /\ delivered \in [Event -> Nat]
  /\ crashes \in Nat
  /\ redone \in [Event -> Nat]

Init ==
  /\ status = [e \in Event |-> "absent"]
  /\ claimed = [w \in Relay |-> {}]
  /\ todo = [w \in Relay |-> {}]
  /\ failed = [w \in Relay |-> {}]
  /\ delivered = [e \in Event |-> 0]
  /\ crashes = 0
  /\ redone = [e \in Event |-> 0]

-----------------------------------------------------------------------------
(* The business transaction that wrote the row commits.                    *)
Produce(e) ==
  /\ status[e] = "absent"
  /\ status' = [status EXCEPT ![e] = "pending"]
  /\ UNCHANGED <<claimed, todo, failed, delivered, crashes, redone>>

(* Rows FOR UPDATE SKIP LOCKED may take.                                   *)
Unlocked(e) == \A v \in Relay : e \notin claimed[v]

Claimable == {e \in Event : status[e] = "pending" /\ Unlocked(e)}

Oldest(S) == {e \in S : Cardinality({f \in S : f < e}) < Limit}

(* list_pending: ORDER BY created_at LIMIT.  An empty batch changes        *)
(* nothing.                                                                *)
Claim(w) ==
  /\ claimed[w] = {}
  /\ Claimable # {}
  /\ claimed' = [claimed EXCEPT ![w] = Oldest(Claimable)]
  /\ todo' = [todo EXCEPT ![w] = Oldest(Claimable)]
  /\ UNCHANGED <<status, failed, delivered, crashes, redone>>

NextUp(w, e) == e \in todo[w] /\ \A f \in todo[w] : e <= f

(* publish() returned; mark_published waits for the commit.                *)
Publish(w, e) ==
  /\ NextUp(w, e)
  /\ delivered' = [delivered EXCEPT ![e] = @ + 1]
  /\ todo' = [todo EXCEPT ![w] = @ \ {e}]
  /\ UNCHANGED <<status, claimed, failed, crashes, redone>>

(* publish() raised: SNS may have accepted the message all the same.       *)
FailedUnmarked(w, e) == failed[w]                \* mutant: the except forgets mark_failed
FailedMarked(w, e) == failed[w] \cup {e}

PublishRaises(w, e) ==
  /\ NextUp(w, e)
  /\ delivered' \in {delivered, [delivered EXCEPT ![e] = @ + 1]}
  /\ todo' = [todo EXCEPT ![w] = @ \ {e}]
  /\ failed' = [failed EXCEPT ![w] = FailedMarked(w, e)]
  /\ UNCHANGED <<status, claimed, crashes, redone>>

(* SNS accepted the message but the answer was lost, and botocore sends    *)
(* the request again before publish() returns or raises.                   *)
Resend(w, e) ==
  /\ NextUp(w, e)
  /\ crashes < MaxCrashes
  /\ crashes' = crashes + 1
  /\ delivered' = [delivered EXCEPT ![e] = @ + 1]
  /\ redone' = [redone EXCEPT ![e] = @ + 1]
  /\ UNCHANGED <<status, claimed, todo, failed>>

MarkedByName(w, e) == IF e \in failed[w] THEN "FAILED" ELSE "PUBLISHED"       \* mutant
Marked(w, e) == IF e \in failed[w] THEN "failed" ELSE "published"

ReleaseLeaks(w) == UNCHANGED <<claimed, todo, failed>>   \* mutant: session left open
Release(w) == /\ claimed' = [claimed EXCEPT ![w] = {}]
              /\ todo' = [todo EXCEPT ![w] = {}]
              /\ failed' = [failed EXCEPT ![w] = {}]

(* One commit per cycle, after the whole batch.                            *)
Commit(w) ==
  /\ claimed[w] # {}
  /\ todo[w] = {}
  /\ status' = [e \in Event |-> IF e \in claimed[w] THEN Marked(w, e) ELSE status[e]]
  /\ Release(w)
  /\ UNCHANGED <<delivered, crashes, redone>>

(* The process dies, loses its connection or fails to commit: the marks    *)
(* are rolled back, what SNS accepted stays accepted.                      *)
Crash(w) ==
  /\ claimed[w] # {}
  /\ crashes < MaxCrashes
  /\ crashes' = crashes + 1
  /\ redone' = [e \in Event |-> IF e \in claimed[w] \ todo[w] THEN redone[e] + 1
                                                              ELSE redone[e]]
  /\ Release(w)
  /\ UNCHANGED <<status, delivered>>

Cycle(w) == \/ Claim(w)
            \/ \E e \in Event : Publish(w, e) \/ PublishRaises(w, e)
            \/ Commit(w)

Mishap(w) == Crash(w) \/ \E e \in Event : Resend(w, e)

(* Nothing left to publish: the relays poll an empty table.                *)
Quiet == /\ \A e \in Event : status[e] \in {"published", "failed"}
         /\ UNCHANGED vars

Next == \/ \E e \in Event : Produce(e)
        \/ \E w \in Relay : Cycle(w) \/ Mishap(w)
        \/ Quiet

Spec == Init /\ [][Next]_vars

(* run_relay_forever loops, swallows what a cycle raises and is restarted  *)
(* by its container, so every relay keeps taking its steps.                *)
FairSpec == Spec /\ \A w \in Relay : WF_vars(Cycle(w))

-----------------------------------------------------------------------------
(* Properties                                                              *)

(* relay.py:27-29: relays claim disjoint rows, and only rows that still    *)
(* wait to be published.                                                   *)
ClaimsDisjoint ==
  /\ \A v, w \in Relay : v # w => claimed[v] \cap claimed[w] = {}
  /\ \A w \in Relay : \A e \in claimed[w] : status[e] = "pending"

(* SNS gets an event twice only if a cycle that tried it was rolled back   *)
(* or botocore sent it again: each duplicate is paid for, however many     *)
(* relays run.                                                             *)
NoDoublePublish == \A e \in Event : delivered[e] <= 1 + redone[e]

(* The relays together keep the promise of AtLeastOnce: no row is marked   *)
(* published before SNS accepted it, an outcome is never touched again, a  *)
(* rolled-back cycle or a resend is what a duplicate costs.                *)
Fate(e) == CASE status[e] = "absent" -> "absent"
             [] status[e] = "pending" -> "owed"
             [] status[e] = "published" -> "settled"
             [] status[e] = "failed" -> "lost"

Delivery == INSTANCE AtLeastOnce WITH Item <- Event, fate <- [e \in Event |-> Fate(e)],
                                      done <- delivered, faults <- redone

ImplementsDelivery == Delivery!Spec

(* Every committed event reaches an outcome, behind any backlog.           *)
PendingSettled ==
  \A e \in Event : status[e] = "pending" ~> status[e] \in {"published", "failed"}
=============================================================================
