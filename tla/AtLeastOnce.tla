----------------------------- MODULE AtLeastOnce -----------------------------
(***************************************************************************)
(* What the outbox relay promises of an event and a subscriber promises of *)
(* a message: once it is owed it is done at least once before it is        *)
(* settled, an outcome is final, and doing it again costs a fault.         *)
(* Relay and Consumer implement this.                                      *)
(***************************************************************************)
EXTENDS Naturals

CONSTANT Item

VARIABLES
  fate,    \* item: "absent", "owed", "settled" or "lost" (failed, dead-lettered)
  done,    \* item: how often it took effect
  faults   \* item: deliveries that went wrong and may cause it to be done again

Init ==
  /\ fate = [i \in Item |-> "absent"]
  /\ done = [i \in Item |-> 0]
  /\ faults = [i \in Item |-> 0]

-----------------------------------------------------------------------------
Owe(i) ==
  /\ fate[i] = "absent"
  /\ fate' = [fate EXCEPT ![i] = "owed"]
  /\ UNCHANGED <<done, faults>>

(* The last attempt at everything in S went wrong.                         *)
Blame(S) == faults' = [i \in Item |-> IF i \in S THEN faults[i] + 1 ELSE faults[i]]

Fault(S) == Blame(S) /\ UNCHANGED <<fate, done>>

(* The effect of i, in an attempt that may itself go wrong afterwards and  *)
(* take others with it.  Settled items may still be done: late, not early. *)
Do(i, S) ==
  /\ fate[i] # "absent"
  /\ done' = [done EXCEPT ![i] = @ + 1]
  /\ Blame(S)
  /\ done'[i] <= 1 + faults'[i]
  /\ UNCHANGED fate

(* A commit, or the end of a batch, decides several items at once.         *)
Decide(Settled, Lost) ==
  /\ \A i \in Settled : fate[i] = "owed" /\ done[i] > 0
  /\ \A i \in Lost : fate[i] = "owed"
  /\ fate' = [i \in Item |-> IF i \in Settled THEN "settled"
                             ELSE IF i \in Lost THEN "lost" ELSE fate[i]]
  /\ UNCHANGED <<done, faults>>

Next == \/ \E i \in Item : Owe(i)
        \/ \E S \in SUBSET Item : Fault(S)
        \/ \E i \in Item, S \in SUBSET Item : Do(i, S)
        \/ \E Settled, Lost \in SUBSET Item : Decide(Settled, Lost)

Spec == Init /\ [][Next]_<<fate, done, faults>>
=============================================================================
