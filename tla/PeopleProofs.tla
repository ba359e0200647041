---------------------------- MODULE PeopleProofs ----------------------------
(***************************************************************************)
(* Theorems about People, for any number of people, emails and requests.   *)
(*                                                                         *)
(* EmailsUnique is not inductive: a commit writes whatever email its       *)
(* request wants.  It is right because the request owns the index entry,   *)
(* and had seen no other row with the email when it got it (EmailHeld).    *)
(* That nothing revives a deleted row rests on the row locks (RowHeld) and *)
(* on fresh ids (FreshApart).                                              *)
(***************************************************************************)
EXTENDS People, TLAPS

Enters(r) == pc[r] = "commit" /\ (kind[r] = "create" \/ Renames(r))

(* What an active request is about.                                        *)
ActiveTyped ==
  \A r \in Request : Active(r) =>
    /\ kind[r] \in {"create", "update", "delete"}
    /\ pid[r] \in Person
    /\ kind[r] # "delete" => want[r] \in Email
    /\ kind[r] = "create" => pc[r] \in {"check", "index", "commit"} /\ row[pid[r]] = Unborn
    /\ kind[r] = "delete" => pc[r] \notin {"check", "index"}
    /\ kind[r] # "create" /\ pc[r] # "load" => row[pid[r]] # Unborn

(* Two creates never draw one id.                                          *)
FreshApart ==
  \A r, s \in Request :
    r # s /\ Active(r) /\ Active(s) /\ kind[r] = "create" /\ kind[s] = "create" => pid[r] # pid[s]

(* A request about to enter an email owns its index entry, and no other    *)
(* row has the email.                                                      *)
EmailHeld == \A r \in Request : Enters(r) => pending[want[r]] = r /\ Unique(r)

(* An UPDATE of the email owns its row, and the row is there; a DELETE at  *)
(* its commit owns the row or found none.                                  *)
RowHeld ==
  \A r \in Request :
    /\ kind[r] = "update" /\ (pc[r] = "index" \/ Enters(r)) =>
         lockedBy[pid[r]] = r /\ row[pid[r]] \in Email
    /\ kind[r] = "delete" /\ pc[r] = "commit" =>
         lockedBy[pid[r]] = r \/ row[pid[r]] = Gone

(* What a request read before a step still holds at the step, unless the   *)
(* history says that it was changed: its row since the second read, the    *)
(* email it checked since the check.                                       *)
ReadsHold ==
  \A r \in Request :
    /\ raced[r] \/ touched[r] => Active(r)
    /\ pc[r] = "flush" => seen[r] \in Email
    /\ PastRead(r) /\ kind[r] # "create" /\ ~ touched[r] => row[pid[r]] = seen[r]
    /\ PastCheck(r) /\ pc[r] # "commit" /\ ~ raced[r] => Unique(r)

IInv == /\ TypeOK
        /\ ActiveTyped
        /\ FreshApart
        /\ EmailHeld
        /\ RowHeld
        /\ LocksOwned
        /\ EmailsUnique
        /\ ReadsHold

-----------------------------------------------------------------------------
LEMMA InitInvariant == Init => IInv
  BY MarksApart, NoneApart
  DEF Init, IInv, TypeOK, Steps, ActiveTyped, FreshApart, EmailHeld, RowHeld, LocksOwned,
      EmailsUnique, Enters, Active, ReadsHold, PastRead, PastCheck

(* A request that ends without a commit takes its locks with it and leaves *)
(* what the others know.                                                   *)
LEMMA FinishKeeps ==
  ASSUME IInv, NEW r \in Request, NEW a \in {"missing", "taken", "error", "lost"}, Finish(r, a)
  PROVE  IInv'
<1> USE NoneApart
<1> USE DEF Finish, Forget, Goto, Release, IInv
<1>1. TypeOK'
  BY DEF TypeOK, Steps
<1>2. ActiveTyped'
  BY DEF ActiveTyped, Active, TypeOK
<1>3. FreshApart'
  BY DEF FreshApart, Active, TypeOK
<1>4. EmailHeld'
  BY DEF EmailHeld, Enters, Renames, Unique, TypeOK, ActiveTyped, Active
<1>5. RowHeld'
  BY DEF RowHeld, Enters, Renames, TypeOK, ActiveTyped, Active
<1>6. LocksOwned'
  BY DEF LocksOwned, TypeOK
<1>7. EmailsUnique'
  BY DEF EmailsUnique
<1>8. ReadsHold'
  BY DEF ReadsHold, PastRead, PastCheck, Active, Unique, TypeOK
<1> QED
  BY <1>1, <1>2, <1>3, <1>4, <1>5, <1>6, <1>7, <1>8

LEMMA CommitKeeps ==
  ASSUME IInv, NEW r \in Request, Commit(r)
  PROVE  IInv'
<1> USE MarksApart, NoneApart
<1> USE DEF Commit, Forget, Goto, Release, IInv
<1> DEFINE p == pid[r]
<1>0. /\ p \in Person
      /\ kind[r] \in {"create", "update", "delete"}
      /\ row' = [row EXCEPT ![p] = Stored(r)]
      /\ \A q \in Person : q # p => row'[q] = row[q]
      /\ row'[p] = Stored(r)
  BY DEF ActiveTyped, Active, TypeOK
<1>1. /\ Stored(r) \in Email \cup {Gone, row[p]}
      /\ Stored(r) \in Email /\ Stored(r) # row[p] => Enters(r) /\ Stored(r) = want[r]
  BY <1>0 DEF Stored, ActiveTyped, Active, Enters, Renames
<1>2. TypeOK'
  BY <1>0, <1>1 DEF TypeOK, Steps
<1>3. ASSUME NEW s \in Request, s # r, Active(s), pid[s] = p
      PROVE  /\ kind[s] = "create" => row'[p] = Unborn
             /\ kind[s] = "update" /\ (pc[s] = "index" \/ Enters(s)) => row'[p] = row[p]
             /\ kind[s] = "delete" /\ pc[s] = "commit" /\ lockedBy[p] # s => row'[p] = Gone
             /\ row[p] # Unborn => row'[p] # Unborn
  <2>1. row[p] # Unborn => row'[p] # Unborn
    BY <1>0, <1>1
  <2>2. kind[s] = "create" => row'[p] = Unborn
    <3> SUFFICES ASSUME kind[s] = "create" PROVE row'[p] = Unborn
      OBVIOUS
    <3>1. row[p] = Unborn
      BY <1>3 DEF ActiveTyped
    <3>2. kind[r] = "create"
      BY <3>1, <1>0 DEF ActiveTyped, Active
    <3> QED
      BY <3>2, <1>3 DEF FreshApart, Active
  <2>3. kind[s] = "update" /\ (pc[s] = "index" \/ Enters(s)) => row'[p] = row[p]
    <3> SUFFICES ASSUME kind[s] = "update", pc[s] = "index" \/ Enters(s) PROVE row'[p] = row[p]
      OBVIOUS
    <3>1. lockedBy[p] = s /\ row[p] \in Email
      BY <1>3 DEF RowHeld
    <3>2. kind[r] # "create" /\ kind[r] # "delete"
      BY <3>1, <1>0, <1>3 DEF RowHeld, ActiveTyped, Active
    <3>3. ~ Renames(r)
      BY <3>1, <3>2, <1>0, <1>3 DEF RowHeld, Enters
    <3> QED
      BY <3>2, <3>3, <1>0 DEF Stored
  <2>4. kind[s] = "delete" /\ pc[s] = "commit" /\ lockedBy[p] # s => row'[p] = Gone
    <3> SUFFICES ASSUME kind[s] = "delete", pc[s] = "commit", lockedBy[p] # s
                 PROVE  row'[p] = Gone
      OBVIOUS
    <3>1. row[p] = Gone
      BY <1>3 DEF RowHeld
    <3>2. ~ Enters(r)
      BY <3>1, <1>0 DEF RowHeld, ActiveTyped, Active, Enters, Renames
    <3> QED
      BY <3>1, <3>2, <1>0, <1>1
  <2> QED
    BY <2>1, <2>2, <2>3, <2>4
<1>4. ActiveTyped'
  <2> SUFFICES ASSUME NEW s \in Request, Active(s)'
               PROVE  /\ (kind[s] \in {"create", "update", "delete"})'
                      /\ (pid[s] \in Person)'
                      /\ (kind[s] # "delete" => want[s] \in Email)'
                      /\ (kind[s] = "create" =>
                            pc[s] \in {"check", "index", "commit"} /\ row[pid[s]] = Unborn)'
                      /\ (kind[s] = "delete" => pc[s] \notin {"check", "index"})'
                      /\ (kind[s] # "create" /\ pc[s] # "load" => row[pid[s]] # Unborn)'
    BY DEF ActiveTyped
  <2>1. /\ s # r /\ Active(s)
        /\ kind'[s] = kind[s] /\ pid'[s] = pid[s] /\ want'[s] = want[s] /\ pc'[s] = pc[s]
    BY DEF Active, TypeOK
  <2>2. CASE pid[s] = p
    BY <2>1, <2>2, <1>3 DEF ActiveTyped
  <2>3. CASE pid[s] # p
    BY <2>1, <2>3, <1>0 DEF ActiveTyped
  <2> QED
    BY <2>2, <2>3
<1>5. FreshApart'
  BY DEF FreshApart, Active, TypeOK
<1>6. EmailHeld'
  <2> SUFFICES ASSUME NEW s \in Request, Enters(s)'
               PROVE  (pending[want[s]] = s /\ Unique(s))'
    BY DEF EmailHeld
  <2>1. /\ s # r /\ Enters(s) /\ Active(s)
        /\ pid'[s] = pid[s] /\ want'[s] = want[s]
    BY DEF Enters, Renames, Active, TypeOK
  <2>2. want[s] \in Email /\ pending[want[s]] = s /\ Unique(s)
    BY <2>1 DEF EmailHeld, ActiveTyped, Enters, Renames
  <2>3. pending'[want[s]] = s
    BY <2>1, <2>2
  <2>4. ASSUME NEW q \in Person \ {pid[s]} PROVE row'[q] # want[s]
    <3>1. row[q] # want[s]
      BY <2>2 DEF Unique
    <3>2. CASE q # p
      BY <3>1, <3>2, <1>0
    <3>3. CASE q = p
      <4>1. Enters(r) => want[r] # want[s]
        BY <2>1, <2>2 DEF EmailHeld
      <4> QED
        BY <4>1, <3>1, <3>3, <1>0, <1>1, <2>2
    <3> QED
      BY <3>2, <3>3
  <2> QED
    BY <2>1, <2>3, <2>4 DEF Unique
<1>7. RowHeld'
  <2> SUFFICES ASSUME NEW s \in Request
               PROVE  /\ (kind[s] = "update" /\ (pc[s] = "index" \/ Enters(s)) =>
                            lockedBy[pid[s]] = s /\ row[pid[s]] \in Email)'
                      /\ (kind[s] = "delete" /\ pc[s] = "commit" =>
                            lockedBy[pid[s]] = s \/ row[pid[s]] = Gone)'
    BY DEF RowHeld
  <2>1. CASE s = r
    BY <2>1 DEF Enters, TypeOK
  <2>2. CASE s # r
    <3>1. /\ kind'[s] = kind[s] /\ pid'[s] = pid[s] /\ want'[s] = want[s] /\ pc'[s] = pc[s]
          /\ Enters(s)' = Enters(s)
      BY <2>2 DEF Enters, Renames, TypeOK
    <3>2. \A q \in Person : lockedBy[q] = s => lockedBy'[q] = s
      BY <2>2 DEF TypeOK
    <3>3. pc[s] = "index" \/ pc[s] = "commit" => Active(s) /\ pid[s] \in Person
      BY DEF ActiveTyped, Active
    <3>4. CASE pid[s] = p
      BY <3>1, <3>2, <3>3, <3>4, <1>3, <2>2 DEF RowHeld, Enters
    <3>5. CASE pid[s] # p
      BY <3>1, <3>2, <3>3, <3>5, <1>0 DEF RowHeld, Enters
    <3> QED
      BY <3>4, <3>5
  <2> QED
    BY <2>1, <2>2
<1>8. LocksOwned'
  BY DEF LocksOwned, TypeOK
<1>9. EmailsUnique'
  <2> SUFFICES ASSUME NEW x \in Person, NEW y \in Person, x # y, row'[x] \in Email
               PROVE  row'[x] # row'[y]
    BY DEF EmailsUnique
  <2>1. Enters(r) => \A q \in Person : q # p => row[q] # want[r]
    BY DEF EmailHeld, Unique
  <2>2. CASE x = p
    BY <2>1, <2>2, <1>0, <1>1 DEF EmailsUnique
  <2>3. CASE y = p
    BY <2>1, <2>3, <1>0, <1>1 DEF EmailsUnique
  <2>4. CASE x # p /\ y # p
    BY <2>4, <1>0 DEF EmailsUnique
  <2> QED
    BY <2>2, <2>3, <2>4
<1>10. ReadsHold'
  <2> SUFFICES ASSUME NEW s \in Request
               PROVE  /\ (raced[s] \/ touched[s] => Active(s))'
                      /\ (pc[s] = "flush" => seen[s] \in Email)'
                      /\ (PastRead(s) /\ kind[s] # "create" /\ ~ touched[s] =>
                            row[pid[s]] = seen[s])'
                      /\ (PastCheck(s) /\ pc[s] # "commit" /\ ~ raced[s] => Unique(s))'
    BY DEF ReadsHold
  <2>1. CASE s = r
    BY <2>1 DEF TypeOK, PastRead, PastCheck, Active
  <2>2. CASE s # r
    <3>1. /\ kind'[s] = kind[s] /\ pid'[s] = pid[s] /\ want'[s] = want[s] /\ pc'[s] = pc[s]
          /\ seen'[s] = seen[s]
      BY <2>2 DEF TypeOK
    <3>2. touched'[s] <=> touched[s] \/ (PastRead(s) /\ WritesRow(r, s))
      BY <2>2
    <3>3. raced'[s] <=> raced[s] \/ (PastCheck(s) /\ TakesEmail(r, s))
      BY <2>2
    <3>4. PastRead(s) => Active(s) /\ pid[s] \in Person
      BY DEF PastRead, Active, ActiveTyped
    <3>5. (raced[s] \/ touched[s] => Active(s))'
      BY <3>1, <3>2, <3>3, <3>4 DEF ReadsHold, Active, PastCheck
    <3>6. (pc[s] = "flush" => seen[s] \in Email)'
      BY <3>1 DEF ReadsHold
    <3>7. (PastRead(s) /\ kind[s] # "create" /\ ~ touched[s] => row[pid[s]] = seen[s])'
      BY <3>1, <3>2, <3>4, <1>0 DEF ReadsHold, PastRead, WritesRow
    <3>8. (PastCheck(s) /\ pc[s] # "commit" /\ ~ raced[s] => Unique(s))'
      <4> SUFFICES ASSUME PastCheck(s), pc[s] # "commit", ~ raced[s], ~ TakesEmail(r, s),
                          NEW q \in Person \ {pid[s]}
                   PROVE  row'[q] # want[s]
        BY <3>1, <3>3 DEF PastCheck, Unique
      <4>1. row[q] # want[s]
        BY DEF ReadsHold, Unique
      <4> QED
        BY <4>1, <1>0 DEF TakesEmail
    <3> QED
      BY <3>5, <3>6, <3>7, <3>8
  <2> QED
    BY <2>1, <2>2
<1> QED
  BY <1>2, <1>4, <1>5, <1>6, <1>7, <1>8, <1>9, <1>10

LEMMA StepInvariant == IInv /\ [Next]_vars => IInv'
<1> SUFFICES ASSUME IInv, [Next]_vars PROVE IInv'
  OBVIOUS
<1> USE MarksApart, NoneApart
<1> USE DEF IInv, TypeOK, Goto, locks, request
<1> USE DEF ActiveTyped, FreshApart, EmailHeld, RowHeld, LocksOwned, EmailsUnique, Enters, Renames,
            Unique, Active, ReadsHold, PastRead, PastCheck
<1>1. ASSUME NEW r \in Request, NEW k \in {"create", "update", "delete"}, NEW p \in Person,
             NEW e \in Email \cup {None}, Submit(r, k, p, e)
      PROVE  IInv'
  BY <1>1 DEF Submit, Fresh, Steps
<1>2. ASSUME NEW r \in Request, Load(r) PROVE IInv'
  <2>1. CASE Finish(r, "missing")
    BY <2>1, FinishKeeps
  <2>2. CASE ~ Finish(r, "missing")
    <3>1. ReadsHold'
      BY <1>2, <2>2 DEF Load, Steps
    <3>2. TypeOK' /\ ActiveTyped' /\ FreshApart' /\ EmailHeld' /\ RowHeld' /\ LocksOwned'
      BY <1>2, <2>2 DEF Load, Steps
    <3> QED
      BY <1>2, <2>2, <3>1, <3>2 DEF Load
  <2> QED
    BY <2>1, <2>2
<1>3. ASSUME NEW r \in Request, Check(r) PROVE IInv'
  <2>1. CASE Finish(r, "taken")
    BY <2>1, FinishKeeps
  <2>2. CASE ~ Finish(r, "taken")
    BY <1>3, <2>2 DEF Check, Taken, Steps
  <2> QED
    BY <2>1, <2>2
<1>4. ASSUME NEW r \in Request, Reread(r) PROVE IInv'
  BY <1>4 DEF Reread, Reloaded, Steps
<1>5. ASSUME NEW r \in Request, Flush(r) PROVE IInv'
  <2>1. CASE Finish(r, "error")
    BY <2>1, FinishKeeps
  <2>2. CASE ~ Finish(r, "error")
    <3>1. ReadsHold'
      BY <1>5, <2>2 DEF Flush, Steps
    <3>2. TypeOK' /\ ActiveTyped' /\ FreshApart'
      BY <1>5, <2>2 DEF Flush, Steps
    <3>3. EmailHeld' /\ LocksOwned'
      BY <1>5, <2>2 DEF Flush, Steps
    <3>4. RowHeld'
      BY <1>5, <2>2 DEF Flush, Steps
    <3> QED
      BY <1>5, <2>2, <3>1, <3>2, <3>3, <3>4 DEF Flush
  <2> QED
    BY <2>1, <2>2
<1>6. ASSUME NEW r \in Request, Index(r) PROVE IInv'
  <2>1. CASE Finish(r, "error")
    BY <2>1, FinishKeeps
  <2>2. CASE ~ Finish(r, "error")
    <3>1. /\ kind[r] # "delete" /\ want[r] \in Email
          /\ pending[want[r]] \in {None, r}
      BY <1>6 DEF Index, Deciders
    <3>2. ReadsHold'
      BY <1>6, <2>2, <3>1 DEF Index, Steps
    <3>3. TypeOK' /\ ActiveTyped' /\ FreshApart' /\ EmailHeld' /\ RowHeld' /\ LocksOwned'
      BY <1>6, <2>2, <3>1 DEF Index, Steps
    <3> QED
      BY <1>6, <2>2, <3>2, <3>3 DEF Index
  <2> QED
    BY <2>1, <2>2
<1>7. ASSUME NEW r \in Request, Abort(r) \/ Fail(r) PROVE IInv'
  BY <1>7, FinishKeeps DEF Abort, Fail
<1>8. ASSUME NEW r \in Request, Commit(r) PROVE IInv'
  BY <1>8, CommitKeeps
<1>9. CASE UNCHANGED vars
  BY <1>9 DEF vars
<1>10. [Next]_vars
  OBVIOUS
<1> HIDE DEF IInv, TypeOK, ActiveTyped, FreshApart, EmailHeld, RowHeld, LocksOwned, EmailsUnique,
             Unique, ReadsHold
<1> QED
  BY <1>1, <1>2, <1>3, <1>4, <1>5, <1>6, <1>7, <1>8, <1>9, <1>10 DEF Next, Send, Step

LEMMA Invariant == Spec => []IInv
  BY InitInvariant, StepInvariant, PTL DEF Spec

-----------------------------------------------------------------------------
(* Types are kept in every reachable state.                                *)
THEOREM TypesSafe == Spec => []TypeOK
  BY Invariant, PTL DEF IInv

(* No two people ever have one email, however the SELECT before the write  *)
(* and the index interleave.                                               *)
THEOREM EmailsStayUnique == Spec => []EmailsUnique
  BY Invariant, PTL DEF IInv

(* Every lock belongs to a transaction that still runs.                    *)
THEOREM LocksHaveOwners == Spec => []LocksOwned
  BY Invariant, PTL DEF IInv

(* A deleted row never comes back.                                         *)
THEOREM GoneStaysGone == Spec => GoneForGood
<1>1. ASSUME IInv, [Next]_vars, NEW p \in Person, row[p] = Gone PROVE row'[p] = Gone
  <2> USE MarksApart, NoneApart
  <2>1. ASSUME NEW r \in Request, Commit(r) PROVE row'[p] = Gone
    BY <1>1, <2>1 DEF Commit, Stored, Renames, Enters, IInv, TypeOK, ActiveTyped, Active, RowHeld
  <2>2. CASE row' = row
    BY <1>1, <2>2
  <2>3. row' = row \/ \E r \in Request : Commit(r)
    BY <1>1 DEF Next, Send, Step, Submit, Load, Check, Reread, Flush, Index, Abort, Fail, Finish,
                Forget, vars
  <2> QED
    BY <2>1, <2>2, <2>3
<1>2. IInv /\ [Next]_vars => [\A p \in Person : row[p] = Gone => row'[p] = Gone]_vars
  BY <1>1
<1> QED
  BY Invariant, <1>2, PTL DEF Spec, GoneForGood

(* A request that waits in a circle has been overtaken: it found its email *)
(* free when it checked, and waits for a transaction that is rewriting the *)
(* row that has the email now.                                             *)
LEMMA CircleIsRaced ==
  ASSUME IInv, NEW r \in Request, InCircle(r)
  PROVE  raced[r]
<1> USE NoneApart, MarksApart DEF IInv
<1>1. PICK S \in SUBSET {s \in Request : Waiting(s)} :
        r \in S /\ \A s \in S : \E t \in S : t \in Deciders(s)
  BY DEF InCircle
<1>2. PICK t \in S : t \in Deciders(r)
  BY <1>1
<1>3. /\ pc[r] = "index" /\ pc[t] = "index" /\ t # r
      /\ pid[r] \in Person /\ want[r] \in Email /\ kind[r] # "delete"
  BY <1>1, <1>2 DEF Waiting, Deciders, ActiveTyped, Active
<1>4. t # pending[want[r]]
  BY <1>3 DEF LocksOwned
<1>5. PICK p \in Person : row[p] = want[r] /\ lockedBy[p] = t
  BY <1>2, <1>4 DEF Deciders
<1>6. p # pid[r]
  BY <1>3, <1>5 DEF RowHeld, ActiveTyped, Active
<1> QED
  BY <1>3, <1>5, <1>6 DEF ReadsHold, PastCheck, Unique, TypeOK

(* A 500 for a vanished row needs a rival that wrote the row after the     *)
(* second read, one for a taken email or a deadlock a rival that entered   *)
(* that email in another row after the check.                              *)
THEOREM ErrorsAreRaced == Spec => ErrorIsRaced
<1>1. ASSUME IInv, [Next]_vars, NEW r \in Request, answer[r] = "none", answer'[r] = "error"
      PROVE  IF pc[r] = "flush" THEN touched[r] ELSE raced[r]
  <2> USE MarksApart, NoneApart DEF IInv
  <2>1. PICK s \in Request : Send(s) \/ Step(s) \/ Fail(s)
    BY <1>1 DEF Next, vars
  <2>2. Finish(s, "error") /\ s = r
    BY <1>1, <2>1 DEF Send, Submit, Step, Load, Check, Reread, Flush, Index, Abort, Commit, Fail,
                      Finish, TypeOK
  <2>3. Flush(r) \/ Index(r) \/ Abort(r)
    BY <1>1, <2>1, <2>2 DEF Send, Submit, Step, Load, Check, Reread, Commit, Fail, Finish, TypeOK
  <2>4. CASE Flush(r)
    BY <2>4, <2>2, <1>1 DEF Flush, ReadsHold, PastRead, TypeOK, ActiveTyped, Active
  <2>5. CASE Index(r)
    BY <2>5, <2>2, <1>1 DEF Index, ReadsHold, PastCheck, TypeOK, ActiveTyped, Active
  <2>6. CASE Abort(r)
    BY <2>6, <1>1, CircleIsRaced DEF Abort, InCircle, Waiting
  <2> QED
    BY <2>3, <2>4, <2>5, <2>6
<1>2. IInv /\ [Next]_vars =>
        [\A r \in Request : answer[r] = "none" /\ answer'[r] = "error" =>
           IF pc[r] = "flush" THEN touched[r] ELSE raced[r]]_vars
  BY <1>1
<1> QED
  BY Invariant, <1>2, PTL DEF Spec, ErrorIsRaced

(* A PUT whose row nobody wrote since it was read again stores its email.  *)
THEOREM PutsAreStored == Spec => PutIsStored
<1>1. ASSUME IInv, NEW r \in Request, Commit(r), kind[r] = "update", seen[r] \in Email, ~ touched[r]
      PROVE  row'[pid[r]] = want[r]
  <2>1. row'[pid[r]] = Stored(r)
    BY <1>1 DEF Commit, IInv, TypeOK, ActiveTyped, Active
  <2>2. row[pid[r]] = seen[r]
    BY <1>1 DEF Commit, IInv, ReadsHold, PastRead
  <2> QED
    BY <1>1, <2>1, <2>2 DEF Stored, Renames
<1>2. IInv /\ [Next]_vars =>
        [\A r \in Request :
           Commit(r) /\ kind[r] = "update" /\ seen[r] \in Email /\ ~ touched[r]
             => row'[pid[r]] = want[r]]_vars
  BY <1>1
<1> QED
  BY Invariant, <1>2, PTL DEF Spec, PutIsStored
=============================================================================
