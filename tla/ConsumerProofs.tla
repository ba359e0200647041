--------------------------- MODULE ConsumerProofs ---------------------------
(***************************************************************************)
(* Theorems about Consumer, for any number of messages and processes, any  *)
(* limits and each of the three subscribers.                               *)
(*                                                                         *)
(* Hands is what a process knows of the messages it holds.  Paid is the    *)
(* account behind the duplicates: whoever holds an unhandled message may   *)
(* still give it one effect, and only while the message is decided or its  *)
(* last receive is in somebody's hands may that effect be a free one.      *)
(***************************************************************************)
EXTENDS Consumer, FiniteSetTheorems, TLAPS

Hands ==
  \A c \in Process :
    /\ done[c] \subseteq batch[c]
    /\ current[c] # None => current[c] \in batch[c] \ done[c]
    /\ \A m \in done[c] : effect[m] > 0
    /\ \A m \in batch[c] : place[m] # "topic"

Holders(m) == {c \in Process : m \in batch[c] \ done[c]}

Receiving(m) == \E d \in Process : m \in batch[d] /\ receipt[d][m] = receives[m]

Live(m) == place[m] \in {"deleted", "dead"} \/ (hidden[m] /\ Receiving(m))

Allowed(m) == spoiled[m] + (IF Live(m) THEN 1 ELSE 0)

Paid == \A m \in Message : effect[m] + Cardinality(Holders(m)) <= Allowed(m)

IInv == TypeOK /\ Hands /\ DeletedIsDone /\ Paid

-----------------------------------------------------------------------------
(* Counting holders.                                                       *)

LEMMA HoldersCounted ==
  ASSUME NEW m PROVE IsFiniteSet(Holders(m)) /\ Cardinality(Holders(m)) \in Nat
<1>1. IsFiniteSet(Holders(m))
  BY ProcessesFinite, FS_Subset DEF Holders
<1> QED BY <1>1, FS_CardinalityType

LEMMA OneLess ==
  ASSUME NEW S, IsFiniteSet(S), NEW c \in S
  PROVE  Cardinality(S \ {c}) = Cardinality(S) - 1 /\ Cardinality(S) \in Nat
  BY FS_RemoveElement, FS_CardinalityType

LEMMA OneMore ==
  ASSUME NEW S, IsFiniteSet(S), NEW c, c \notin S
  PROVE  Cardinality(S \cup {c}) = Cardinality(S) + 1 /\ Cardinality(S) \in Nat
  BY FS_AddElement, FS_CardinalityType

LEMMA NoHolders == Cardinality({}) = 0
  BY FS_EmptySet

LEMMA OnceType ==
  ASSUME NEW f \in [Message -> Nat], NEW S
  PROVE  /\ Once(f, S) \in [Message -> Nat]
         /\ \A m \in Message : Once(f, S)[m] = IF m \in S THEN f[m] + 1 ELSE f[m]
  BY DEF Once

-----------------------------------------------------------------------------
LEMMA InitInvariant == Init => IInv
<1> SUFFICES ASSUME Init PROVE IInv
  OBVIOUS
<1>1. TypeOK /\ Hands /\ DeletedIsDone
  BY CountsPositive, TriesPositive, Services
  DEF Init, QueueInit, TypeOK, QueueTypeOK, Hands, DeletedIsDone
<1>2. \A m \in Message : Holders(m) = {}
  BY DEF Init, Holders
<1>3. Paid
  BY <1>2, NoHolders DEF Init, QueueInit, Paid, Allowed
<1> QED BY <1>1, <1>3 DEF IInv

(* Letting go of S: c holds nothing of S any more, nobody else is touched, *)
(* and only the messages of S may have lost their last receiver.           *)
LoopTypeOK ==
  /\ batch \in [Process -> SUBSET Message]
  /\ done \in [Process -> SUBSET Message]
  /\ receipt \in [Process -> [Message -> 0 .. MaxReceive]]
  /\ current \in [Process -> Message \cup {None}]
  /\ attempt \in [Process -> 1 .. Attempts]

HandsKept ==
  \A d \in Process :
    /\ batch'[d] \subseteq batch[d]
    /\ done'[d] \subseteq done[d] /\ done'[d] \subseteq batch'[d]
    /\ current'[d] # None => current'[d] \in batch'[d] \ done'[d]

Drops(c, S) ==
  /\ LoopTypeOK' /\ HandsKept
  /\ \A m \in Message : Holders(m)' = IF m \in S THEN Holders(m) \ {c} ELSE Holders(m)
  /\ \A m \in Message \ S : Receiving(m)' = Receiving(m)

LEMMA LetGoKeeps ==
  ASSUME TypeOK, Hands, NEW c \in Process, NEW S \in SUBSET Message, LetGo(c, S),
         current[c] \in S \cup {None}, UNCHANGED receives
  PROVE  Drops(c, S)
<1>1. /\ \A d \in Process : batch'[d] = IF d = c THEN batch[c] \ S ELSE batch[d]
      /\ \A d \in Process : done'[d] = IF d = c THEN done[c] \ S ELSE done[d]
      /\ \A d \in Process, m \in Message :
           receipt'[d][m] = IF d = c /\ m \in S THEN 0 ELSE receipt[d][m]
      /\ \A d \in Process : current'[d] = IF d = c THEN None ELSE current[d]
  BY DEF LetGo, TypeOK
<1>2. LoopTypeOK'
  BY CountsPositive, TriesPositive DEF LetGo, TypeOK, LoopTypeOK
<1>3. HandsKept
  BY <1>1 DEF HandsKept, Hands
<1>4. \A m \in Message : Holders(m)' = IF m \in S THEN Holders(m) \ {c} ELSE Holders(m)
  BY <1>1 DEF Holders
<1>5. \A m \in Message \ S : Receiving(m)' = Receiving(m)
  BY <1>1 DEF Receiving
<1> QED BY <1>2, <1>3, <1>4, <1>5 DEF Drops

(* Letting go is paid for: a handled message by a fault, an unhandled one  *)
(* by the effect it will not have in these hands.                          *)
LEMMA LetGoPaid ==
  ASSUME IInv, NEW c \in Process, NEW S \in SUBSET batch[c],
         UNCHANGED <<place, receives, hidden>>,
         NEW D \in SUBSET Message, S \cap done[c] \subseteq D,
         NEW Happened \in SUBSET D, Happened \cap done[c] = {},
         effect' = Once(effect, Happened), spoiled' = Once(spoiled, D),
         Drops(c, S)
  PROVE  Paid'
<1> SUFFICES ASSUME NEW m \in Message
             PROVE  effect'[m] + Cardinality(Holders(m)') <= Allowed(m)'
  BY DEF Paid
<1>1. /\ effect[m] \in Nat /\ spoiled[m] \in Nat
      /\ effect'[m] = IF m \in Happened THEN effect[m] + 1 ELSE effect[m]
      /\ spoiled'[m] = IF m \in D THEN spoiled[m] + 1 ELSE spoiled[m]
  BY OnceType DEF IInv, TypeOK
<1>2. effect[m] + Cardinality(Holders(m)) <= Allowed(m)
  BY DEF IInv, Paid
<1>3. Cardinality(Holders(m)) \in Nat /\ IsFiniteSet(Holders(m))
  BY HoldersCounted
<1>4. CASE m \notin S
  <2>1. Live(m)' = Live(m) /\ Holders(m)' = Holders(m)
    BY <1>4 DEF Live, Drops
  <2> QED BY <1>1, <1>2, <1>3, <2>1 DEF Allowed
<1>5. CASE m \in S /\ m \in done[c]
  <2>1. m \in D /\ m \notin Happened /\ Holders(m)' = Holders(m)
    BY <1>5 DEF Holders, Drops
  <2> QED BY <1>1, <1>2, <1>3, <2>1 DEF Allowed
<1>6. CASE m \in S /\ m \notin done[c]
  <2>1. c \in Holders(m) /\ Holders(m)' = Holders(m) \ {c}
    BY <1>6 DEF Holders, Drops
  <2>2. Cardinality(Holders(m)') = Cardinality(Holders(m)) - 1
    BY <1>3, <2>1, OneLess
  <2> QED BY <1>1, <1>2, <1>3, <2>2 DEF Allowed
<1> QED BY <1>4, <1>5, <1>6

(* Another try, or letting go of what is lost.                             *)
LEMMA RetryKeeps ==
  ASSUME IInv, NEW c \in Process, current[c] # None, RetryOrGiveUp(c),
         UNCHANGED <<queue, service>>,
         NEW Happened \in {{}, {current[c]}},
         effect' = Once(effect, Happened), spoiled' = Once(spoiled, done[c] \cup Happened)
  PROVE  LoopTypeOK' /\ HandsKept /\ Paid'
<1> USE DEF IInv
<1>1. current[c] \in Message /\ current[c] \in batch[c] \ done[c] /\ batch[c] \subseteq Message
  BY DEF TypeOK, Hands
<1>2. UNCHANGED <<place, receives, hidden>>
  BY DEF queue
<1>3. \E S \in SUBSET batch[c] : Drops(c, S)
  <2>1. CASE attempt[c] < Tries
    <3>1. attempt[c] + 1 \in 1 .. Attempts
      BY <2>1, TriesPositive DEF TypeOK, Tries
    <3>2. /\ attempt' = [attempt EXCEPT ![c] = attempt[c] + 1]
          /\ UNCHANGED <<batch, done, receipt, current>>
      BY <2>1 DEF RetryOrGiveUp
    <3>3. LoopTypeOK'
      BY <3>1, <3>2 DEF TypeOK, LoopTypeOK
    <3>4. HandsKept
      BY <3>2 DEF Hands, HandsKept
    <3>5. \A m \in Message : Holders(m)' = Holders(m) /\ Receiving(m)' = Receiving(m)
      BY <1>2, <3>2 DEF Holders, Receiving
    <3>6. Drops(c, {})
      BY <3>3, <3>4, <3>5 DEF Drops, Holders
    <3> QED BY <3>6
  <2>2. CASE ~ (attempt[c] < Tries)
    <3>1. LetGo(c, Lost(c))
      BY <2>2 DEF RetryOrGiveUp
    <3>2. Lost(c) \in SUBSET batch[c] /\ current[c] \in Lost(c)
      BY <1>1 DEF Lost
    <3>3. Lost(c) \in SUBSET Message
      BY <1>1, <3>2
    <3> QED BY <1>2, <3>1, <3>2, <3>3, LetGoKeeps
  <2> QED BY <2>1, <2>2
<1>4. PICK S \in SUBSET batch[c] : Drops(c, S)
  BY <1>3
<1>5. /\ done[c] \cup Happened \in SUBSET Message
      /\ Happened \in SUBSET (done[c] \cup Happened)
      /\ Happened \cap done[c] = {} /\ S \cap done[c] \subseteq done[c] \cup Happened
  BY <1>1 DEF TypeOK
<1>6. Paid'
  BY <1>2, <1>4, <1>5, LetGoPaid
<1> QED BY <1>4, <1>6 DEF Drops

(* What is deleted stays done, and hands that only let go hold on to       *)
(* nothing unknown.                                                        *)
LEMMA LettingGo ==
  ASSUME IInv, HandsKept, effect' \in [Message -> Nat],
         \A m \in Message : effect[m] > 0 => effect'[m] > 0,
         \A m \in Message : (place'[m] = "topic") = (place[m] = "topic"),
         \A m \in Message : place'[m] = "deleted" => place[m] = "deleted" \/ effect[m] > 0
  PROVE  Hands' /\ DeletedIsDone'
<1>1. Hands'
  BY DEF IInv, TypeOK, Hands, HandsKept
<1> QED BY <1>1 DEF IInv, DeletedIsDone

-----------------------------------------------------------------------------
LEMMA StepInvariant == IInv /\ [Next]_vars => IInv'
<1> SUFFICES ASSUME IInv, [Next]_vars PROVE IInv'
  OBVIOUS
<1> USE CountsPositive, TriesPositive, NoneIsNoMessage
<1> USE DEF IInv
<1>1. ASSUME NEW c \in Process, Poll(c) PROVE IInv'
  <2>1. PICK S \in Batches :
          /\ Receive(S)
          /\ batch' = [batch EXCEPT ![c] = S]
          /\ receipt' = [receipt EXCEPT ![c] = [m \in Message |-> IF m \in S THEN receives[m] + 1
                                                                            ELSE 0]]
    BY <1>1 DEF Poll
  <2>2. /\ S \subseteq {m \in Message : place[m] = "queue" /\ ~ hidden[m] /\ receives[m] < MaxReceive}
        /\ batch[c] = {} /\ done[c] = {} /\ current[c] = None
        /\ UNCHANGED <<place, service, done, current, attempt, fuse, effect, spoiled>>
    BY <1>1, <2>1 DEF Poll, Batches, Visible, Receive, Hands
  <2>3. TypeOK'
    BY <2>1, <2>2 DEF TypeOK, QueueTypeOK, Receive, fuse
  <2>4. Hands' /\ DeletedIsDone'
    BY <2>1, <2>2 DEF Hands, DeletedIsDone, TypeOK
  <2>5. ASSUME NEW m \in Message PROVE effect'[m] + Cardinality(Holders(m)') <= Allowed(m)'
    <3>1. /\ effect[m] \in Nat /\ spoiled[m] \in Nat
          /\ effect[m] + Cardinality(Holders(m)) <= Allowed(m)
      BY DEF TypeOK, Paid
    <3>2. Cardinality(Holders(m)) \in Nat /\ IsFiniteSet(Holders(m)) /\ c \notin Holders(m)
      BY <2>2, HoldersCounted DEF Holders
    <3>3. CASE m \in S
      <4>1. Holders(m)' = Holders(m) \cup {c} /\ ~ Live(m)
        BY <2>1, <2>2, <3>3 DEF Holders, TypeOK, Live
      <4>2. Live(m)'
        BY <2>1, <2>2, <3>3 DEF Live, Receive, Receiving, TypeOK, QueueTypeOK
      <4>3. Cardinality(Holders(m)') = Cardinality(Holders(m)) + 1
        BY <3>2, <4>1, OneMore
      <4> QED BY <2>2, <3>1, <3>2, <4>1, <4>2, <4>3 DEF Allowed
    <3>4. CASE m \notin S
      <4>1. Holders(m)' = Holders(m)
        BY <2>1, <2>2, <3>4 DEF Holders, TypeOK
      <4>2. Live(m)' = Live(m)
        BY <2>1, <2>2, <3>4 DEF Live, Receive, Receiving, TypeOK, QueueTypeOK
      <4> QED BY <2>2, <3>1, <4>1, <4>2 DEF Allowed
    <3> QED BY <3>3, <3>4
  <2> QED BY <2>3, <2>4, <2>5 DEF Paid
<1>2. ASSUME NEW c \in Process, NEW m \in Message, Take(c, m) PROVE IInv'
  <2>1. TypeOK' /\ Hands' /\ DeletedIsDone'
    BY <1>2 DEF Take, TypeOK, QueueTypeOK, Hands, DeletedIsDone, queue, fuse
  <2>2. \A n \in Message : Holders(n)' = Holders(n) /\ Live(n)' = Live(n)
    BY <1>2 DEF Take, Holders, Live, Receiving, queue
  <2> QED BY <1>2, <2>1, <2>2 DEF Take, Paid, Allowed
<1>3. ASSUME NEW c \in Process, Succeed(c) PROVE IInv'
  <2>1. /\ current[c] \in Message /\ current[c] \in batch[c] \ done[c]
        /\ done' = [done EXCEPT ![c] = @ \cup {current[c]}]
        /\ UNCHANGED <<queue, service, batch, receipt, spoiled>>
        /\ UNCHANGED <<place, receives, hidden>>
    BY <1>3 DEF Succeed, Calls, Hands, TypeOK, queue
  <2>2. /\ effect' \in [Message -> Nat]
        /\ \A m \in Message : effect'[m] = IF m = current[c] THEN effect[m] + 1 ELSE effect[m]
    BY <1>3, OnceType DEF Succeed, TypeOK
  <2>3. /\ current' = [current EXCEPT ![c] = None] /\ attempt' = [attempt EXCEPT ![c] = 1]
        /\ breaker' = [breaker EXCEPT ![c] = "closed"] /\ failures' = [failures EXCEPT ![c] = 0]
    BY <1>3 DEF Succeed
  <2>4. TypeOK' /\ Hands' /\ DeletedIsDone'
    <3>1. LoopTypeOK'
      BY <2>1, <2>3 DEF TypeOK, LoopTypeOK
    <3>2. breaker' \in [Process -> {"closed", "open", "half-open"}] /\ failures' \in [Process -> Nat]
      BY <2>3 DEF TypeOK
    <3>3. TypeOK'
      BY <2>1, <2>2, <3>1, <3>2 DEF LoopTypeOK, TypeOK, QueueTypeOK
    <3>4. \A d \in Process : /\ done'[d] = IF d = c THEN done[c] \cup {current[c]} ELSE done[d]
                             /\ current'[d] = IF d = c THEN None ELSE current[d]
      BY <2>1, <2>3 DEF TypeOK
    <3>5. \A m \in Message : effect[m] > 0 \/ m = current[c] => effect'[m] > 0
      BY <2>2 DEF TypeOK
    <3>6. Hands'
      BY <2>1, <3>4, <3>5 DEF Hands, TypeOK
    <3>7. DeletedIsDone'
      BY <2>1, <3>5 DEF DeletedIsDone
    <3> QED BY <3>3, <3>6, <3>7
  <2>5. ASSUME NEW m \in Message PROVE effect'[m] + Cardinality(Holders(m)') <= Allowed(m)'
    <3>1. /\ effect[m] \in Nat /\ spoiled[m] \in Nat
          /\ effect[m] + Cardinality(Holders(m)) <= Allowed(m)
          /\ Cardinality(Holders(m)) \in Nat /\ IsFiniteSet(Holders(m))
      BY HoldersCounted DEF TypeOK, Paid
    <3>2. Live(m)' = Live(m)
      BY <2>1 DEF Live, Receiving
    <3>3. CASE m = current[c]
      <4>1. c \in Holders(m) /\ Holders(m)' = Holders(m) \ {c}
        BY <2>1, <3>3 DEF Holders, TypeOK
      <4>2. Cardinality(Holders(m)') = Cardinality(Holders(m)) - 1
        BY <3>1, <4>1, OneLess
      <4> QED BY <2>1, <2>2, <3>1, <3>2, <3>3, <4>2 DEF Allowed
    <3>4. CASE m # current[c]
      <4>1. Holders(m)' = Holders(m)
        BY <2>1, <3>4 DEF Holders, TypeOK
      <4> QED BY <2>1, <2>2, <3>1, <3>2, <3>4, <4>1 DEF Allowed
    <3> QED BY <3>3, <3>4
  <2> QED BY <2>4, <2>5 DEF Paid
<1>4. ASSUME NEW c \in Process, Raise(c) \/ Refuse(c) PROVE IInv'
  <2>1. PICK Happened \in {{}, {current[c]}} :
          effect' = Once(effect, Happened) /\ spoiled' = Once(spoiled, done[c] \cup Happened)
    <3>1. CASE Refuse(c)
      <4>1. effect' = Once(effect, {}) /\ spoiled' = Once(spoiled, done[c] \cup {})
        BY <3>1 DEF Refuse, Once, TypeOK
      <4> QED BY <4>1
    <3> QED BY <1>4, <3>1 DEF Raise
  <2>2. current[c] # None /\ RetryOrGiveUp(c) /\ UNCHANGED <<queue, service>>
    BY <1>4 DEF Raise, Refuse, Calls
  <2>3. LoopTypeOK' /\ HandsKept /\ Paid'
    BY <2>1, <2>2, RetryKeeps
  <2>4. /\ effect' \in [Message -> Nat] /\ spoiled' \in [Message -> Nat]
        /\ \A m \in Message : effect[m] > 0 => effect'[m] > 0
    BY <2>1, OnceType DEF TypeOK
  <2>5. /\ breaker' \in [Process -> {"closed", "open", "half-open"}]
        /\ failures' \in [Process -> Nat]
    <3>1. CASE Raise(c) /\ Guarded
      <4>1. failures' = [failures EXCEPT ![c] = failures[c] + 1]
        BY <3>1 DEF Raise
      <4>2. breaker' = IF Trips(c) THEN [breaker EXCEPT ![c] = "open"] ELSE breaker
        BY <3>1 DEF Raise
      <4> QED BY <4>1, <4>2 DEF TypeOK
    <3>2. CASE ~ (Raise(c) /\ Guarded)
      BY <1>4, <3>2 DEF Raise, Refuse, fuse, TypeOK
    <3> QED BY <3>1, <3>2
  <2>6. TypeOK'
    BY <2>2, <2>3, <2>4, <2>5 DEF TypeOK, LoopTypeOK, QueueTypeOK, queue
  <2>7. Hands' /\ DeletedIsDone'
    BY <2>2, <2>3, <2>4, LettingGo DEF queue
  <2> QED BY <2>3, <2>6, <2>7
<1>5. ASSUME NEW c \in Process, Cool(c) PROVE IInv'
  <2>1. TypeOK' /\ Hands' /\ DeletedIsDone'
    BY <1>5 DEF Cool, TypeOK, QueueTypeOK, Hands, DeletedIsDone, queue, loop
  <2>2. \A n \in Message : Holders(n)' = Holders(n) /\ Live(n)' = Live(n)
    BY <1>5 DEF Cool, Holders, Live, Receiving, queue, loop
  <2> QED BY <1>5, <2>1, <2>2 DEF Cool, Paid, Allowed
<1>6. ASSUME NEW c \in Process, NEW m \in Message, Delete(c, m) PROVE IInv'
  <2>1. /\ m \in done[c] /\ m \in batch[c] /\ current[c] = None /\ effect[m] > 0
        /\ LetGo(c, {m}) /\ UNCHANGED <<receives, hidden, service, fuse, effect, spoiled>>
        /\ place' \in Removed(m, receipt[c][m])
    BY <1>6 DEF Delete, Deletes, Receipt, Hands
  <2>2. Drops(c, {m})
    BY <2>1, LetGoKeeps
  <2>3. /\ place' \in [Message -> {"topic", "queue", "deleted", "dead"}]
        /\ \A n \in Message \ {m} : place'[n] = place[n]
        /\ place[m] # "topic"
        /\ \/ place'[m] \in {"deleted", "dead"}
           \/ place'[m] = place[m] /\ receives[m] # receipt[c][m]
    BY <2>1 DEF Removed, TypeOK, QueueTypeOK, Hands
  <2>4. TypeOK'
    BY <2>1, <2>2, <2>3 DEF TypeOK, LoopTypeOK, QueueTypeOK, Drops, fuse
  <2>5. Hands' /\ DeletedIsDone'
    BY <2>1, <2>2, <2>3, LettingGo DEF Drops, TypeOK, QueueTypeOK
  <2>6. ASSUME NEW n \in Message PROVE effect'[n] + Cardinality(Holders(n)') <= Allowed(n)'
    <3>1. Holders(n)' = Holders(n)
      BY <2>1, <2>2 DEF Drops, Holders
    <3>2. Live(n) => Live(n)'
      <4>1. CASE n = m
        <5>1. receives[m] # receipt[c][m] /\ Receiving(m) => Receiving(m)'
          BY <2>1 DEF Receiving, LetGo, TypeOK
        <5> QED BY <2>1, <2>3, <4>1, <5>1 DEF Live
      <4>2. CASE n # m
        BY <2>1, <2>2, <2>3, <4>2 DEF Live, Drops
      <4> QED BY <4>1, <4>2
    <3>3. effect[n] + Cardinality(Holders(n)) <= Allowed(n) /\ spoiled[n] \in Nat
          /\ effect[n] \in Nat /\ Cardinality(Holders(n)) \in Nat
      BY HoldersCounted DEF Paid, TypeOK
    <3> QED BY <2>1, <3>1, <3>2, <3>3 DEF Allowed
  <2> QED BY <2>4, <2>5, <2>6 DEF Paid
<1>7. ASSUME NEW c \in Process, NEW m \in Message, DeleteRaises(c, m) PROVE IInv'
  <2>1. /\ m \in done[c] /\ m \in batch[c] /\ current[c] = None
        /\ LetGo(c, {m}) /\ UNCHANGED <<queue, service, fuse, effect>>
        /\ UNCHANGED <<place, receives, hidden>>
        /\ effect' = Once(effect, {}) /\ spoiled' = Once(spoiled, {m})
    BY <1>7 DEF DeleteRaises, Deletes, Hands, queue, Once, TypeOK
  <2>2. Drops(c, {m})
    BY <2>1, LetGoKeeps
  <2>3. Paid'
    BY <2>1, <2>2, LetGoPaid
  <2>4. spoiled' \in [Message -> Nat]
    BY <2>1, OnceType DEF TypeOK
  <2>5. TypeOK'
    BY <2>1, <2>2, <2>4 DEF TypeOK, LoopTypeOK, QueueTypeOK, Drops, fuse
  <2>6. Hands' /\ DeletedIsDone'
    BY <2>1, <2>2, LettingGo DEF Drops, TypeOK
  <2> QED BY <2>3, <2>5, <2>6
<1>8. ASSUME NEW c \in Process, Crash(c) PROVE IInv'
  <2>1. PICK Happened \in {{}} \cup (IF Calls(c) THEN {{current[c]}} ELSE {}) :
          effect' = Once(effect, Happened) /\ spoiled' = Once(spoiled, done[c] \cup Happened)
    BY <1>8 DEF Crash
  <2>2. /\ Happened \subseteq batch[c] \ done[c] /\ batch[c] \in SUBSET Message
        /\ done[c] \subseteq batch[c]
        /\ current[c] \in batch[c] \cup {None} /\ LetGo(c, batch[c])
        /\ UNCHANGED <<queue, service>> /\ UNCHANGED <<place, receives, hidden>>
    BY <1>8, <2>1 DEF Crash, Calls, Hands, TypeOK, queue
  <2>3. Drops(c, batch[c])
    BY <2>2, LetGoKeeps
  <2>4. /\ done[c] \cup Happened \in SUBSET Message
        /\ Happened \in SUBSET (done[c] \cup Happened)
        /\ Happened \cap done[c] = {}
        /\ batch[c] \cap done[c] \subseteq done[c] \cup Happened
    BY <2>2
  <2>5. Paid'
    BY <2>1, <2>2, <2>3, <2>4, LetGoPaid
  <2>6. /\ effect' \in [Message -> Nat] /\ spoiled' \in [Message -> Nat]
        /\ \A m \in Message : effect[m] > 0 => effect'[m] > 0
    <3>1. /\ effect' = Once(effect, Happened) /\ spoiled' = Once(spoiled, done[c] \cup Happened)
          /\ effect \in [Message -> Nat] /\ spoiled \in [Message -> Nat]
      BY <2>1 DEF TypeOK
    <3> QED BY <3>1, OnceType
  <2>7. TypeOK'
    BY <1>8, <2>2, <2>3, <2>6 DEF Crash, TypeOK, LoopTypeOK, QueueTypeOK, Drops
  <2>8. Hands' /\ DeletedIsDone'
    BY <2>2, <2>3, <2>6, LettingGo DEF Drops
  <2> QED BY <2>5, <2>7, <2>8
<1>9. ASSUME NEW m \in Message, FanOut(m) \/ Redrive(m),
             UNCHANGED <<service, loop, fuse, effect, spoiled>>
      PROVE  IInv'
  <2>1. TypeOK' /\ Hands' /\ DeletedIsDone'
    <3>1. \/ place' = [place EXCEPT ![m] = "queue"] /\ place[m] = "topic"
          \/ place' = [place EXCEPT ![m] = "dead"] /\ place[m] = "queue"
      BY <1>9 DEF FanOut, Redrive, Visible
    <3>2. /\ UNCHANGED <<receives, hidden>> /\ UNCHANGED <<service, effect, spoiled>>
          /\ UNCHANGED <<batch, done, receipt, current, attempt, breaker, failures>>
      BY <1>9 DEF FanOut, Redrive, loop, fuse
    <3>3. TypeOK'
      BY <3>1, <3>2 DEF TypeOK, QueueTypeOK
    <3>4. /\ \A n \in Message : place'[n] = "topic" => place[n] = "topic"
          /\ \A n \in Message : place'[n] = "deleted" => place[n] = "deleted"
      BY <3>1 DEF TypeOK, QueueTypeOK
    <3> QED BY <3>2, <3>3, <3>4 DEF Hands, DeletedIsDone, TypeOK
  <2>2. \A n \in Message : Holders(n)' = Holders(n) /\ (Live(n) => Live(n)')
    BY <1>9 DEF FanOut, Redrive, Holders, Live, Receiving, loop, TypeOK, QueueTypeOK
  <2>3. ASSUME NEW n \in Message PROVE effect'[n] + Cardinality(Holders(n)') <= Allowed(n)'
    <3>1. effect[n] + Cardinality(Holders(n)) <= Allowed(n) /\ spoiled[n] \in Nat
          /\ effect[n] \in Nat /\ Cardinality(Holders(n)) \in Nat
      BY HoldersCounted DEF Paid, TypeOK
    <3> QED BY <1>9, <2>2, <3>1 DEF Allowed
  <2> QED BY <2>1, <2>3 DEF Paid
<1>10. ASSUME NEW m \in Message, Expire(m) PROVE IInv'
  <2>1. /\ UNCHANGED <<place, receives, service, loop, fuse, effect>>
        /\ hidden' = [hidden EXCEPT ![m] = FALSE]
        /\ spoiled' \in [Message -> Nat]
        /\ \A n \in Message \ {m} : spoiled'[n] = spoiled[n]
        /\ spoiled'[m] = IF \E c \in Process : m \in batch[c] THEN spoiled[m] + 1 ELSE spoiled[m]
    BY <1>10, OnceType DEF Expire, Reappear, TypeOK
  <2>2. TypeOK' /\ Hands' /\ DeletedIsDone'
    BY <2>1 DEF TypeOK, QueueTypeOK, Hands, DeletedIsDone, loop, fuse
  <2>3. ASSUME NEW n \in Message PROVE effect'[n] + Cardinality(Holders(n)') <= Allowed(n)'
    <3>1. effect[n] + Cardinality(Holders(n)) <= Allowed(n) /\ spoiled[n] \in Nat
          /\ effect[n] \in Nat /\ Cardinality(Holders(n)) \in Nat
      BY HoldersCounted DEF Paid, TypeOK
    <3>2. Holders(n)' = Holders(n) /\ Receiving(n)' = Receiving(n)
      BY <2>1 DEF Holders, Receiving, loop
    <3>3. CASE n = m
      <4>1. Live(m) => place[m] \in {"deleted", "dead"} \/ \E c \in Process : m \in batch[c]
        BY DEF Live, Receiving
      <4>2. place[m] \in {"deleted", "dead"} => Live(m)'
        BY <2>1 DEF Live
      <4> QED BY <2>1, <3>1, <3>2, <3>3, <4>1, <4>2 DEF Allowed
    <3>4. CASE n # m
      BY <2>1, <3>1, <3>2, <3>4 DEF Allowed, Live, TypeOK, QueueTypeOK
    <3> QED BY <3>3, <3>4
  <2> QED BY <2>2, <2>3 DEF Paid
<1>11. ASSUME NEW c \in Process, Resend(c) PROVE IInv'
  <2>1. /\ current[c] \in Message
        /\ UNCHANGED <<place, receives, hidden, service, batch, done, receipt, current, attempt>>
        /\ UNCHANGED <<breaker, failures>>
    BY <1>11 DEF Resend, Calls, TypeOK, queue, loop, fuse
  <2>2. /\ effect' \in [Message -> Nat] /\ spoiled' \in [Message -> Nat]
        /\ \A m \in Message :
             /\ effect'[m] = IF m = current[c] THEN effect[m] + 1 ELSE effect[m]
             /\ spoiled'[m] = IF m = current[c] THEN spoiled[m] + 1 ELSE spoiled[m]
    BY <1>11, OnceType DEF Resend, TypeOK
  <2>3. TypeOK'
    BY <2>1, <2>2 DEF TypeOK, QueueTypeOK
  <2>4. \A m \in Message : effect[m] > 0 => effect'[m] > 0
    BY <2>2 DEF TypeOK
  <2>5. Hands' /\ DeletedIsDone'
    BY <2>1, <2>4 DEF Hands, DeletedIsDone, TypeOK
  <2>6. ASSUME NEW m \in Message PROVE effect'[m] + Cardinality(Holders(m)') <= Allowed(m)'
    <3>1. Holders(m)' = Holders(m) /\ Live(m)' = Live(m)
      BY <2>1 DEF Holders, Live, Receiving
    <3>2. effect[m] + Cardinality(Holders(m)) <= Allowed(m) /\ spoiled[m] \in Nat
          /\ effect[m] \in Nat /\ Cardinality(Holders(m)) \in Nat
      BY HoldersCounted DEF Paid, TypeOK
    <3> QED BY <2>2, <3>1, <3>2 DEF Allowed
  <2> QED BY <2>3, <2>5, <2>6 DEF Paid
<1>12. CASE UNCHANGED vars
  <2>1. TypeOK' /\ Hands' /\ DeletedIsDone'
    BY <1>12 DEF vars, TypeOK, QueueTypeOK, Hands, DeletedIsDone, queue, loop, fuse
  <2>2. \A n \in Message : Holders(n)' = Holders(n) /\ Live(n)' = Live(n)
    BY <1>12 DEF vars, Holders, Live, Receiving, queue, loop
  <2> QED BY <1>12, <2>1, <2>2 DEF vars, Paid, Allowed
<1> QED BY <1>1, <1>2, <1>3, <1>4, <1>5, <1>6, <1>7, <1>8, <1>9, <1>10, <1>12, <1>11
        DEF Next, Run, PollNothing, Sqs

-----------------------------------------------------------------------------
(* The subscribers implement AtLeastOnce.                                  *)

LEMMA FateOf ==
  ASSUME TypeOK, NEW m \in Message
  PROVE  /\ Fate(m) = "absent" <=> place[m] = "topic"
         /\ Fate(m) = "owed" <=> place[m] = "queue"
         /\ Fate(m) = "settled" <=> place[m] = "deleted"
         /\ Fate(m) = "lost" <=> place[m] = "dead"
         /\ Fate(m) \in {"absent", "owed", "settled", "lost"}
  BY DEF TypeOK, QueueTypeOK, Fate

LEMMA InitDelivery == Init => Delivery!Init
  BY DEF Init, QueueInit, Delivery!Init, Fate

(* An effect is a Do, blamed on what was spoiled with it.                  *)
LEMMA EffectIsDo ==
  ASSUME IInv, IInv', UNCHANGED place, NEW m \in Message, place[m] # "topic",
         NEW S \in SUBSET Message,
         effect' = Once(effect, {m}), spoiled' = Once(spoiled, S)
  PROVE  Delivery!Next
<1>1. [n \in Message |-> Fate(n)]' = [n \in Message |-> Fate(n)]
  BY DEF Fate
<1>2. Fate(m) # "absent"
  BY FateOf DEF IInv
<1>3. effect' = [effect EXCEPT ![m] = @ + 1]
  BY DEF Once, IInv, TypeOK
<1>4. effect'[m] <= 1 + spoiled'[m]
  <2>1. effect'[m] + Cardinality(Holders(m)') <= Allowed(m)'
    BY DEF IInv, Paid
  <2>2. Cardinality(Holders(m)') \in Nat /\ effect'[m] \in Nat /\ spoiled'[m] \in Nat
    <3>1. Holders(m)' \subseteq Process
      BY DEF Holders
    <3>2. IsFiniteSet(Holders(m)')
      BY <3>1, ProcessesFinite, FS_Subset
    <3> QED BY <3>2, FS_CardinalityType DEF IInv, TypeOK
  <2> QED BY <2>1, <2>2 DEF Allowed
<1>5. Delivery!Do(m, S)
  BY <1>1, <1>2, <1>3, <1>4 DEF Delivery!Do, Delivery!Blame, Once
<1> QED BY <1>5 DEF Delivery!Next

LEMMA SpoilIsFault ==
  ASSUME UNCHANGED <<place, effect>>, NEW S \in SUBSET Message, spoiled' = Once(spoiled, S)
  PROVE  Delivery!Next
<1>1. [n \in Message |-> Fate(n)]' = [n \in Message |-> Fate(n)]
  BY DEF Fate
<1>2. Delivery!Fault(S)
  BY <1>1 DEF Delivery!Fault, Delivery!Blame, Once
<1> QED BY <1>2 DEF Delivery!Next

LEMMA NothingForDelivery ==
  ASSUME UNCHANGED <<place, effect, spoiled>>
  PROVE  UNCHANGED <<[n \in Message |-> Fate(n)], effect, spoiled>>
  BY DEF Fate

LEMMA StepDelivery ==
  IInv /\ IInv' /\ [Next]_vars
    => [Delivery!Next]_<<[m \in Message |-> Fate(m)], effect, spoiled>>
<1> SUFFICES ASSUME IInv, IInv', [Next]_vars
             PROVE  Delivery!Next \/ UNCHANGED <<[m \in Message |-> Fate(m)], effect, spoiled>>
  OBVIOUS
<1>1. ASSUME NEW c \in Process,
             \/ Poll(c) \/ PollNothing(c) \/ Cool(c)
             \/ \E m \in Message : Take(c, m)
      PROVE  UNCHANGED <<place, effect, spoiled>>
  BY <1>1 DEF Poll, PollNothing, Cool, Take, Receive, queue, vars
<1>2. ASSUME NEW c \in Process, Succeed(c) PROVE Delivery!Next
  <2>1. current[c] \in Message /\ place[current[c]] # "topic"
    BY <1>2 DEF Succeed, Calls, IInv, Hands, TypeOK
  <2>2. effect' = Once(effect, {current[c]}) /\ spoiled' = Once(spoiled, {}) /\ UNCHANGED place
    BY <1>2 DEF Succeed, Once, IInv, TypeOK, queue
  <2> QED BY <2>1, <2>2, EffectIsDo
<1>3. ASSUME NEW c \in Process, Resend(c) PROVE Delivery!Next
  <2>1. current[c] \in Message /\ place[current[c]] # "topic" /\ UNCHANGED place
    BY <1>3 DEF Resend, Calls, IInv, Hands, TypeOK, queue
  <2> QED BY <1>3, <2>1, EffectIsDo DEF Resend
<1>4. ASSUME NEW c \in Process, Raise(c) \/ Refuse(c) \/ Crash(c) PROVE Delivery!Next
  <2>1. UNCHANGED place
    BY <1>4 DEF Raise, Refuse, Crash, queue
  <2>2. PICK Happened \in {{}, {current[c]}} :
          /\ Happened # {} => current[c] # None
          /\ effect' = Once(effect, Happened) /\ spoiled' = Once(spoiled, done[c] \cup Happened)
    <3>1. CASE Refuse(c)
      <4>1. effect' = Once(effect, {}) /\ spoiled' = Once(spoiled, done[c] \cup {})
        BY <3>1 DEF Refuse, Once, IInv, TypeOK
      <4> QED BY <4>1
    <3>2. CASE Raise(c)
      BY <3>2 DEF Raise, Calls
    <3>3. CASE Crash(c)
      BY <3>3 DEF Crash, Calls
    <3> QED BY <1>4, <3>1, <3>2, <3>3
  <2>3. done[c] \in SUBSET Message
    BY DEF IInv, TypeOK
  <2>4. CASE Happened = {}
    <3>1. UNCHANGED effect
      BY <2>2, <2>4 DEF Once, IInv, TypeOK
    <3> QED BY <2>1, <2>2, <2>3, <2>4, <3>1, SpoilIsFault
  <2>5. CASE Happened # {}
    <3>1. current[c] \in Message /\ place[current[c]] # "topic" /\ Happened = {current[c]}
      BY <2>2, <2>5 DEF IInv, Hands, TypeOK
    <3> QED BY <2>1, <2>2, <2>3, <3>1, EffectIsDo
  <2> QED BY <2>4, <2>5
<1>5. ASSUME NEW c \in Process, NEW m \in Message, Delete(c, m)
      PROVE  Delivery!Next \/ UNCHANGED <<place, effect, spoiled>>
  <2>1. /\ UNCHANGED <<effect, spoiled>> /\ effect[m] > 0
        /\ \/ place' = place
           \/ place' = [place EXCEPT ![m] = IF place[m] = "queue" THEN "deleted" ELSE place[m]]
    BY <1>5 DEF Delete, Removed, IInv, Hands
  <2>2. CASE place' # place
    <3>1. place[m] = "queue" /\ place' = [place EXCEPT ![m] = "deleted"]
      BY <2>1, <2>2 DEF IInv, TypeOK, QueueTypeOK
    <3>2. Fate(m) = "owed" /\ Fate(m)' = "settled"
      BY <3>1 DEF Fate, IInv, TypeOK, QueueTypeOK
    <3>3. \A n \in Message \ {m} : Fate(n)' = Fate(n)
      BY <3>1 DEF Fate, IInv, TypeOK, QueueTypeOK
    <3>4. Delivery!Decide({m}, {})
      BY <2>1, <3>2, <3>3 DEF Delivery!Decide
    <3> QED BY <3>4 DEF Delivery!Next
  <2> QED BY <2>1, <2>2
<1>6. ASSUME NEW c \in Process, NEW m \in Message, DeleteRaises(c, m) PROVE Delivery!Next
  BY <1>6, SpoilIsFault DEF DeleteRaises, queue
<1>7. ASSUME NEW m \in Message, FanOut(m) \/ Redrive(m), UNCHANGED <<effect, spoiled>>
      PROVE  Delivery!Next
  <2>1. CASE FanOut(m)
    <3>1. Fate(m) = "absent" /\ Fate(m)' = "owed" /\ \A n \in Message \ {m} : Fate(n)' = Fate(n)
      BY <2>1 DEF FanOut, Fate, IInv, TypeOK, QueueTypeOK
    <3>2. Delivery!Owe(m)
      BY <1>7, <3>1 DEF Delivery!Owe
    <3> QED BY <3>2 DEF Delivery!Next
  <2>2. CASE Redrive(m)
    <3>1. Fate(m) = "owed" /\ Fate(m)' = "lost" /\ \A n \in Message \ {m} : Fate(n)' = Fate(n)
      BY <2>2 DEF Redrive, Visible, Fate, IInv, TypeOK, QueueTypeOK
    <3>2. Delivery!Decide({}, {m})
      BY <1>7, <3>1 DEF Delivery!Decide
    <3> QED BY <3>2 DEF Delivery!Next
  <2> QED BY <1>7, <2>1, <2>2
<1>8. ASSUME NEW m \in Message, Expire(m)
      PROVE  Delivery!Next \/ UNCHANGED <<place, effect, spoiled>>
  BY <1>8, SpoilIsFault DEF Expire, Reappear
<1>9. CASE UNCHANGED vars
  BY <1>9, NothingForDelivery DEF vars, queue
<1> QED BY <1>1, <1>2, <1>3, <1>4, <1>5, <1>6, <1>7, <1>8, <1>9, NothingForDelivery
        DEF Next, Run, Sqs

-----------------------------------------------------------------------------
(* Types are kept in every reachable state.                                *)
THEOREM TypesSafe == Spec => []TypeOK
<1>1. IInv => TypeOK
  BY DEF IInv
<1> QED BY InitInvariant, StepInvariant, <1>1, PTL DEF Spec

(* A message is deleted from its queue only after an email was sent, or an *)
(* audit row committed, for it: DeletedIsDone.                             *)
THEOREM DeletedMeansDone == Spec => []DeletedIsDone
<1>1. IInv => DeletedIsDone
  BY DEF IInv
<1> QED BY InitInvariant, StepInvariant, <1>1, PTL DEF Spec

(* Beyond the first, every email and every audit row of a message has a    *)
(* fault of its own that caused it: DuplicatesPaidFor.                     *)
THEOREM DuplicatesHaveCauses == Spec => []DuplicatesPaidFor
<1>1. IInv => DuplicatesPaidFor
  <2> SUFFICES ASSUME IInv, NEW m \in Message PROVE effect[m] <= 1 + spoiled[m]
    BY DEF DuplicatesPaidFor
  <2>1. effect[m] + Cardinality(Holders(m)) <= Allowed(m) /\ spoiled[m] \in Nat
        /\ effect[m] \in Nat /\ Cardinality(Holders(m)) \in Nat
    BY HoldersCounted DEF IInv, Paid, TypeOK
  <2> QED BY <2>1 DEF Allowed
<1> QED BY InitInvariant, StepInvariant, <1>1, PTL DEF Spec

(* Every subscriber implements AtLeastOnce: ImplementsDelivery.            *)
THEOREM SubscribersDeliver == Spec => ImplementsDelivery
<1>1. Init => IInv /\ Delivery!Init
  BY InitInvariant, InitDelivery
<1>2. IInv /\ IInv' /\ [Next]_vars
        => [Delivery!Next]_<<[m \in Message |-> Fate(m)], effect, spoiled>>
  BY StepDelivery
<1> QED BY <1>1, <1>2, StepInvariant, PTL DEF Spec, ImplementsDelivery, Delivery!Spec
=============================================================================
