-------------------------- MODULE EnrollmentProofs --------------------------
(***************************************************************************)
(* Safety of Enrollment for every value of its constants.                  *)
(*                                                                         *)
(* LockInv says which transaction owns which row and what it knows of it;  *)
(* everything else rests on it.                                            *)
(***************************************************************************)
EXTENDS Enrollment, FiniteSetTheorems, TLAPS

(* What is known of a slot that is in use.                                 *)
Shape ==
  /\ \A r \in Request : /\ pc[r] # "idle" => args[r] \in Args
                        /\ pc[r] \in {"lookup", "save"} => args[r].key \in Key
  /\ \A a \in Admin : apc[a] # "idle" =>
       /\ aim[a] \in Aim /\ aim[a].course \in created
       /\ aim[a].op = "update" => /\ aim[a].cap \in Capacity
                                  /\ aim[a].taken <= aim[a].cap

(* Both seat columns of a row come from capacities somebody asked for.     *)
RowsMade == \A c \in live : /\ capacity[c] \in Capacity
                            /\ \E k \in Capacity : seats[c] <= k

LockInv == TypeOK /\ Shape /\ LocksHeld /\ RowsMade

LEMMA WantedPair ==
  ASSUME NEW r \in Request, args[r] \in Args
  PROVE  Wanted(r) \in Pair /\ Wanted(r) # None
  BY NoneIsNoValue DEF Wanted, Args, Pair

LEMMA LockInvInit == Init => LockInv
  BY ActorsDistinct
     DEF Init, Ledger!Init, LockInv, TypeOK, Shape, LocksHeld, RowsMade, Holding, Status

LEMMA LockInvStep == LockInv /\ [Next]_vars => LockInv'
<1> SUFFICES ASSUME LockInv, [Next]_vars PROVE LockInv'
  OBVIOUS
<1> USE CapacityPositive, ActorsDistinct, NoneIsNoValue
<1> USE DEF LockInv, tables, reqVars, admVars, Goto, Answer, EndAdmin, Release, IntegrityError, RowFree, HasSeat, ResizedSeats, Holding, Status
<1>1. ASSUME NEW r \in Request, NEW x \in Args, Submit(r, x) PROVE LockInv'
  <2>1. TypeOK' BY <1>1 DEF Submit, TypeOK
  <2>2. Shape' BY <1>1 DEF Submit, TypeOK, Shape, Args
  <2>3. LocksHeld' /\ RowsMade' BY <1>1 DEF Submit, TypeOK, LocksHeld, RowsMade
  <2> QED BY <2>1, <2>2, <2>3
<1>2. ASSUME NEW r \in Request, Lookup(r) PROVE LockInv'
  <2>1. TypeOK' BY <1>2 DEF Lookup, TypeOK, Shape
  <2>2. Shape' BY <1>2 DEF Lookup, TypeOK, Shape
  <2>3. LocksHeld' /\ RowsMade' BY <1>2 DEF Lookup, TypeOK, LocksHeld, RowsMade
  <2> QED BY <2>1, <2>2, <2>3
<1>3. ASSUME NEW r \in Request, Exists(r) PROVE LockInv'
  <2>1. TypeOK' BY <1>3 DEF Exists, TypeOK
  <2>2. Shape' BY <1>3 DEF Exists, TypeOK, Shape
  <2>3. LocksHeld' /\ RowsMade' BY <1>3 DEF Exists, TypeOK, LocksHeld, RowsMade
  <2> QED BY <2>1, <2>2, <2>3
<1>4. ASSUME NEW r \in Request, Lock(r) PROVE LockInv'
  <2>0. args[r] \in Args BY <1>4 DEF Lock, Shape
  <2>a. args[r].course \in Course /\ seats[args[r].course] \in Nat
    BY <2>0 DEF TypeOK, Args
  <2>b. /\ lockedBy' \in [Course -> Request \cup Admin \cup {None}]
        /\ left' \in [Request -> Nat]
    BY <1>4, <2>a DEF Lock, TypeOK
  <2>c. /\ pc' \in [Request -> {"idle", "lookup", "exists", "lock", "invalidate", "done"}
                                \cup Holding]
        /\ status' \in [Request -> Status] /\ body' \in [Request -> Pair \cup {None}]
    BY <1>4 DEF Lock, TypeOK
  <2>1. TypeOK' BY <1>4, <2>b, <2>c DEF Lock, TypeOK
  <2>2. Shape' BY <1>4 DEF Lock, TypeOK, Shape
  <2>3. LocksHeld' /\ RowsMade'
    BY <1>4, <2>0 DEF Lock, TypeOK, LocksHeld, RowsMade, Args
  <2> QED BY <2>1, <2>2, <2>3
<1>5. ASSUME NEW r \in Request, Insert(r) PROVE LockInv'
  <2>0. args[r] \in Args BY <1>5 DEF Insert, Shape
  <2>1. TypeOK' BY <1>5 DEF Insert, TypeOK
  <2>2. Shape' BY <1>5, <2>0 DEF Insert, TypeOK, Shape, Args
  <2>3. LocksHeld' /\ RowsMade' BY <1>5 DEF Insert, TypeOK, LocksHeld, RowsMade
  <2> QED BY <2>1, <2>2, <2>3
<1>6. ASSUME NEW r \in Request, Save(r) PROVE LockInv'
  <2>1. TypeOK' BY <1>6 DEF Save, TypeOK
  <2>2. Shape' BY <1>6 DEF Save, TypeOK, Shape
  <2>3. LocksHeld' /\ RowsMade' BY <1>6 DEF Save, TypeOK, LocksHeld, RowsMade
  <2> QED BY <2>1, <2>2, <2>3
<1>7. ASSUME NEW r \in Request, Commit(r) PROVE LockInv'
  <2>0. args[r] \in Args BY <1>7 DEF Commit, Shape
  <2>1. TypeOK' BY <1>7, <2>0 DEF Commit, TypeOK, Args, Pair, Wanted
  <2>2. Shape' BY <1>7 DEF Commit, TypeOK, Shape
  <2>3. LocksHeld' /\ RowsMade'
    BY <1>7, <2>0 DEF Commit, TypeOK, LocksHeld, RowsMade, Args
  <2> QED BY <2>1, <2>2, <2>3
<1>8. ASSUME NEW r \in Request, Respond(r) PROVE LockInv'
  <2>0. args[r] \in Args BY <1>8 DEF Respond, Shape
  <2>1. TypeOK' BY <1>8, <2>0 DEF Respond, TypeOK, Args, Pair, Wanted
  <2>2. Shape' BY <1>8 DEF Respond, TypeOK, Shape
  <2>3. LocksHeld' /\ RowsMade' BY <1>8 DEF Respond, TypeOK, LocksHeld, RowsMade
  <2> QED BY <2>1, <2>2, <2>3
<1>9. ASSUME NEW r \in Request, Fail(r) PROVE LockInv'
  <2>1. TypeOK' BY <1>9 DEF Fail, TypeOK
  <2>2. Shape' BY <1>9 DEF Fail, TypeOK, Shape
  <2>3. LocksHeld' /\ RowsMade' BY <1>9 DEF Fail, TypeOK, LocksHeld, RowsMade
  <2> QED BY <2>1, <2>2, <2>3
<1>10. ASSUME NEW c \in Course, NEW n \in Capacity, CreateCourse(c, n) PROVE LockInv'
  <2>1. TypeOK' BY <1>10 DEF CreateCourse, TypeOK
  <2>2. Shape' BY <1>10 DEF CreateCourse, TypeOK, Shape
  <2>3. LocksHeld' /\ RowsMade'
    BY <1>10 DEF CreateCourse, TypeOK, LocksHeld, RowsMade
  <2> QED BY <2>1, <2>2, <2>3
<1>11. ASSUME NEW a \in Admin, NEW c \in Course, NEW n \in Capacity, UpdateRead(a, c, n)
       PROVE  LockInv'
  <2>1. capacity[c] \in Nat /\ capacity[c] - seats[c] \in Nat /\ n \in Nat
    BY <1>11 DEF UpdateRead, TypeOK, Loadable
  <2>2. TypeOK' BY <1>11, <2>1 DEF UpdateRead, TypeOK, Aim
  <2>3. Shape' BY <1>11, <2>1 DEF UpdateRead, TypeOK, Shape, Aim
  <2>4. LocksHeld' /\ RowsMade' BY <1>11 DEF UpdateRead, TypeOK, LocksHeld, RowsMade
  <2> QED BY <2>2, <2>3, <2>4
<1>12. ASSUME NEW a \in Admin, NEW c \in Course, DeleteRead(a, c) PROVE LockInv'
  <2>1. TypeOK' BY <1>12 DEF DeleteRead, TypeOK, Aim
  <2>2. Shape' BY <1>12 DEF DeleteRead, TypeOK, Shape, Aim
  <2>3. LocksHeld' /\ RowsMade' BY <1>12 DEF DeleteRead, TypeOK, LocksHeld, RowsMade
  <2> QED BY <2>1, <2>2, <2>3
<1>13. ASSUME NEW a \in Admin, AdminWrite(a) PROVE LockInv'
  <2>0. aim[a] \in Aim BY <1>13 DEF AdminWrite, Shape
  <2>1. TypeOK' BY <1>13, <2>0 DEF AdminWrite, TypeOK, Aim
  <2>2. Shape' BY <1>13 DEF AdminWrite, TypeOK, Shape
  <2>3. LocksHeld' /\ RowsMade'
    BY <1>13, <2>0 DEF AdminWrite, TypeOK, LocksHeld, RowsMade, Aim
  <2> QED BY <2>1, <2>2, <2>3
<1>14. ASSUME NEW a \in Admin, UpdateCommit(a) PROVE LockInv'
  <2>0. /\ aim[a] \in Aim /\ aim[a].cap \in Capacity
        /\ aim[a].taken <= aim[a].cap /\ aim[a].cap - aim[a].taken \in Nat
    BY <1>14 DEF UpdateCommit, Shape, Aim
  <2>1. TypeOK' BY <1>14, <2>0 DEF UpdateCommit, TypeOK, Aim
  <2>2. Shape' BY <1>14 DEF UpdateCommit, TypeOK, Shape
  <2>3. LocksHeld' BY <1>14, <2>0 DEF UpdateCommit, TypeOK, LocksHeld, Aim
  <2>4. RowsMade' BY <1>14, <2>0 DEF UpdateCommit, TypeOK, RowsMade, Aim
  <2> QED BY <2>1, <2>2, <2>3, <2>4
<1>15. ASSUME NEW a \in Admin, DeleteCommit(a) PROVE LockInv'
  <2>0. aim[a] \in Aim BY <1>15 DEF DeleteCommit, Shape
  <2>1. TypeOK' BY <1>15 DEF DeleteCommit, TypeOK
  <2>2. Shape' BY <1>15 DEF DeleteCommit, TypeOK, Shape
  <2>3. LocksHeld' /\ RowsMade'
    BY <1>15, <2>0 DEF DeleteCommit, TypeOK, LocksHeld, RowsMade, Aim
  <2> QED BY <2>1, <2>2, <2>3
<1>16. ASSUME NEW a \in Admin, AdminFail(a) PROVE LockInv'
  <2>1. TypeOK' BY <1>16 DEF AdminFail, TypeOK
  <2>2. Shape' BY <1>16 DEF AdminFail, TypeOK, Shape
  <2>3. LocksHeld' /\ RowsMade' BY <1>16 DEF AdminFail, TypeOK, LocksHeld, RowsMade
  <2> QED BY <2>1, <2>2, <2>3
<1>17. ASSUME NEW a \in Admin, UpdateReread(a) PROVE LockInv'
  <2>0. aim[a] \in Aim /\ aim[a].course \in Course
    BY <1>17 DEF UpdateReread, Shape, Aim
  <2>1. aim' \in [Admin -> Aim \cup {None}]
    BY <1>17, <2>0 DEF UpdateReread, TypeOK, Aim
  <2>2. TypeOK' BY <1>17, <2>1 DEF UpdateReread, TypeOK
  <2>3. Shape' BY <1>17, <2>0 DEF UpdateReread, TypeOK, Shape, Aim
  <2>4. LocksHeld' /\ RowsMade' BY <1>17 DEF UpdateReread, TypeOK, LocksHeld, RowsMade
  <2> QED BY <2>2, <2>3, <2>4
<1>18. CASE UNCHANGED vars
  BY <1>18 DEF vars, TypeOK, Shape, LocksHeld, RowsMade
<1> QED
  BY <1>1, <1>2, <1>3, <1>4, <1>5, <1>6, <1>7, <1>8, <1>9, <1>10, <1>11, <1>12,
     <1>13, <1>14, <1>15, <1>16, <1>17, <1>18 DEF Next, RequestStep, AdminStep

(* Types are kept in every reachable state.                                *)
THEOREM TypesSafe == Spec => []TypeOK
<1>1. LockInv => TypeOK
  BY DEF LockInv
<1> QED
  BY <1>1, LockInvInit, LockInvStep, PTL DEF Spec

(* Lock ownership holds in every reachable state, whatever number of       *)
(* requests, administrators and courses: LocksHeld.                        *)
THEOREM LocksSafe == Spec => []LocksHeld
<1>1. LockInv => LocksHeld
  BY DEF LockInv
<1> QED
  BY <1>1, LockInvInit, LockInvStep, PTL DEF Spec

(* Whoever is waited for holds a row, and waits for nobody unless it is    *)
(* about to save a key that another one has inserted; that one waits for   *)
(* nobody.  Two for the same enrollment would both hold its course, so an  *)
(* INSERT INTO enrollments never waits at all.                             *)
LEMMA WaitsEnd ==
  ASSUME LockInv, NEW t \in Request \cup Admin, NEW u \in WaitsFor(t), NEW v \in WaitsFor(u)
  PROVE  WaitsFor(v) = {}
<1> USE ActorsDistinct DEF LockInv
<1>1. \/ u \in Request /\ pc[u] \in Holding
      \/ u \in Admin /\ apc[u] = "commit"
  <2>1. ASSUME NEW c \in Course, u = lockedBy[c]
        PROVE  \/ u \in Request /\ pc[u] \in Holding
               \/ u \in Admin /\ apc[u] = "commit"
    BY <2>1 DEF LocksHeld, WaitsFor
  <2>2. CASE t \in Request /\ pc[t] = "lock" /\ u = lockedBy[args[t].course]
    BY <2>1, <2>2 DEF Shape, Args
  <2>3. CASE t \in Admin /\ apc[t] = "write" /\ u = lockedBy[aim[t].course]
    BY <2>1, <2>3 DEF Shape, Aim
  <2> QED
    BY <2>2, <2>3 DEF WaitsFor, Holding
<1>2. ASSUME NEW w \in Request, pc[w] = "insert" PROVE WaitsFor(w) = {}
  <2>1. ASSUME NEW x \in Request \ {w}, pc[x] \in {"save", "commit"}, Wanted(x) = Wanted(w)
        PROVE  FALSE
    <3>1. args[x].course = args[w].course
      BY <2>1 DEF Wanted
    <3> QED
      BY <1>2, <2>1, <3>1 DEF LocksHeld, Holding
  <2> QED
    BY <1>2, <2>1 DEF WaitsFor
<1>3. u \in Request /\ pc[u] = "save"
  BY <1>1, <1>2 DEF WaitsFor, Holding
<1>4. v \in Request /\ pc[v] = "commit"
  BY <1>3 DEF WaitsFor
<1> QED
  BY <1>4 DEF WaitsFor

(* No number of requests and administrators ever waits in a circle, for    *)
(* course rows, enrollments and keys together: NoDeadlock.                 *)
THEOREM NobodyDeadlocks == Spec => []NoDeadlock
<1>1. LockInv => NoDeadlock
  <2> SUFFICES ASSUME LockInv, NEW S \in SUBSET (Request \cup Admin), S # {},
                      \A t \in S : WaitsFor(t) \cap S # {}
               PROVE  FALSE
    BY DEF NoDeadlock
  <2>1. PICK t \in S : TRUE
    OBVIOUS
  <2>2. PICK u \in S : u \in WaitsFor(t)
    BY <2>1
  <2>3. PICK v \in S : v \in WaitsFor(u)
    BY <2>2
  <2> QED
    BY <2>1, <2>2, <2>3, WaitsEnd
<1> QED
  BY <1>1, LockInvInit, LockInvStep, PTL DEF Spec

-----------------------------------------------------------------------------
(* What a transaction established by its INSERTs is still so when it       *)
(* commits, and a request past its commit has its rows in the tables.      *)
FreshAt(r) ==
  /\ pc[r] \in {"save", "commit"} => Wanted(r) \notin enrolled
  /\ pc[r] = "commit" /\ args[r].key # None => saved[args[r].key] = None
  /\ pc[r] = "invalidate" =>
       /\ Wanted(r) \in enrolled
       /\ args[r].key # None => saved[args[r].key] = Wanted(r)
  /\ status[r] # "none" => pc[r] = "done"

(* No two transactions about to commit have inserted the same key.         *)
KeyClash(q, r) == /\ pc[q] = "commit" /\ pc[r] = "commit"
                  /\ args[q].key = args[r].key /\ args[r].key # None

Fresh == /\ \A r \in Request : FreshAt(r)
         /\ \A q, r \in Request : q # r => ~ KeyClash(q, r)

AnswerInv == LockInv /\ Fresh /\ AnswersTrue

(* Two requests that hold their rows want different courses.               *)
LEMMA HoldersDiffer ==
  ASSUME LocksHeld, NEW q \in Request, NEW r \in Request, q # r,
         pc[q] \in Holding, pc[r] \in Holding
  PROVE  Wanted(q) # Wanted(r)
  BY DEF LocksHeld, Wanted

LEMMA AnswerInvInit == Init => AnswerInv
<1>1. Init => Fresh /\ AnswersTrue
  BY DEF Init, Ledger!Init, Fresh, FreshAt, KeyClash, AnswersTrue, AnswerTrue
<1> QED
  BY <1>1, LockInvInit DEF AnswerInv

(* A slot whose variables a step leaves alone.                             *)
SlotSame(q) == /\ pc'[q] = pc[q] /\ args'[q] = args[q]
               /\ status'[q] = status[q] /\ body'[q] = body[q]

(* A step of one request that writes no table has only its own slot to     *)
(* answer for.                                                             *)
LEMMA LocalStep ==
  ASSUME Fresh, AnswersTrue, NEW r \in Request, UNCHANGED <<enrolled, saved>>,
         \A q \in Request \ {r} : SlotSame(q),
         FreshAt(r)', AnswerTrue(r)',
         \A q \in Request \ {r} : ~ KeyClash(q, r)'
  PROVE  Fresh' /\ AnswersTrue'
<1>1. ASSUME NEW q \in Request \ {r} PROVE FreshAt(q)' /\ AnswerTrue(q)'
  BY <1>1 DEF SlotSame, Fresh, FreshAt, AnswersTrue, AnswerTrue, Wanted
<1>2. ASSUME NEW p \in Request, NEW q \in Request, p # q PROVE ~ KeyClash(p, q)'
  <2>1. CASE p = r
    BY <1>2, <2>1 DEF KeyClash
  <2>2. CASE q = r
    BY <1>2, <2>2
  <2>3. CASE p # r /\ q # r
    BY <1>2, <2>3 DEF SlotSame, Fresh, KeyClash
  <2> QED BY <2>1, <2>2, <2>3
<1>3. \A k \in Key : saved'[k] # None => saved'[k] \in enrolled'
  BY DEF AnswersTrue
<1> QED
  BY <1>1, <1>2, <1>3 DEF Fresh, AnswersTrue

LEMMA AnswerInvStep == AnswerInv /\ [Next]_vars => AnswerInv'
<1> SUFFICES ASSUME AnswerInv, [Next]_vars PROVE Fresh' /\ AnswersTrue'
  BY LockInvStep DEF AnswerInv
<1>a. /\ LockInv /\ Fresh /\ AnswersTrue
      /\ pc \in [Request -> {"idle", "lookup", "exists", "lock", "invalidate", "done"}
                              \cup Holding]
      /\ args \in [Request -> Args \cup {None}]
      /\ status \in [Request -> Status] /\ body \in [Request -> Pair \cup {None}]
      /\ saved \in [Key -> Pair \cup {None}]
  BY DEF AnswerInv, LockInv, TypeOK
<1> USE DEF tables, reqVars, admVars, Goto, Answer, Release, IntegrityError
<1>1. ASSUME NEW r \in Request, NEW x \in Args, Submit(r, x) PROVE Fresh' /\ AnswersTrue'
  <2>1. /\ UNCHANGED <<enrolled, saved>> /\ \A q \in Request \ {r} : SlotSame(q)
        /\ pc'[r] \in {"exists", "lookup"} /\ status'[r] = "none"
    BY <1>a, <1>1 DEF Submit, SlotSame
  <2>2. FreshAt(r)' /\ AnswerTrue(r)' /\ \A q \in Request \ {r} : ~ KeyClash(q, r)'
    BY <2>1 DEF FreshAt, AnswerTrue, KeyClash
  <2> QED BY <1>a, <2>1, <2>2, LocalStep
<1>2. ASSUME NEW r \in Request, Lookup(r) PROVE Fresh' /\ AnswersTrue'
  <2>1. /\ UNCHANGED <<enrolled, saved, args>> /\ \A q \in Request \ {r} : SlotSame(q)
        /\ \/ pc'[r] = "exists" /\ status'[r] = status[r]
           \/ /\ pc'[r] = "done" /\ status'[r] = "replayed"
              /\ saved[args[r].key] # None /\ body'[r] = saved[args[r].key]
    BY <1>a, <1>2 DEF Lookup, SlotSame
  <2>2. args[r].key \in Key /\ status[r] = "none"
    BY <1>a, <1>2 DEF Lookup, LockInv, Shape, Fresh, FreshAt
  <2>3. FreshAt(r)' /\ AnswerTrue(r)' /\ \A q \in Request \ {r} : ~ KeyClash(q, r)'
    BY <1>a, <2>1, <2>2 DEF FreshAt, AnswerTrue, AnswersTrue, KeyClash
  <2> QED BY <1>a, <2>1, <2>3, LocalStep
<1>3. ASSUME NEW r \in Request, Exists(r) PROVE Fresh' /\ AnswersTrue'
  <2>1. /\ UNCHANGED <<enrolled, saved, args>> /\ \A q \in Request \ {r} : SlotSame(q)
        /\ \/ pc'[r] = "lock" /\ status'[r] = status[r]
           \/ pc'[r] = "done" /\ status'[r] = "already" /\ Wanted(r) \in enrolled
    BY <1>a, <1>3 DEF Exists, SlotSame
  <2>2. status[r] = "none"
    BY <1>a, <1>3 DEF Exists, Fresh, FreshAt
  <2>3. FreshAt(r)' /\ AnswerTrue(r)' /\ \A q \in Request \ {r} : ~ KeyClash(q, r)'
    BY <2>1, <2>2 DEF FreshAt, AnswerTrue, KeyClash, Wanted
  <2> QED BY <1>a, <2>1, <2>3, LocalStep
<1>4. ASSUME NEW r \in Request, Lock(r) PROVE Fresh' /\ AnswersTrue'
  <2>1. /\ UNCHANGED <<enrolled, saved, args>> /\ \A q \in Request \ {r} : SlotSame(q)
        /\ \/ pc'[r] = "insert" /\ status'[r] = status[r]
           \/ pc'[r] = "done" /\ status'[r] \in {"missing", "full", "error"}
    BY <1>a, <1>4 DEF Lock, SlotSame
  <2>2. status[r] = "none"
    BY <1>a, <1>4 DEF Lock, Fresh, FreshAt
  <2>3. FreshAt(r)' /\ AnswerTrue(r)' /\ \A q \in Request \ {r} : ~ KeyClash(q, r)'
    BY <2>1, <2>2 DEF FreshAt, AnswerTrue, KeyClash
  <2> QED BY <1>a, <2>1, <2>3, LocalStep
<1>5. ASSUME NEW r \in Request, Insert(r) PROVE Fresh' /\ AnswersTrue'
  <2>1. /\ UNCHANGED <<enrolled, saved, args>> /\ \A q \in Request \ {r} : SlotSame(q)
        /\ \/ /\ pc'[r] = (IF args[r].key = None THEN "commit" ELSE "save")
              /\ status'[r] = status[r] /\ Wanted(r) \notin enrolled
           \/ pc'[r] = "done" /\ status'[r] = "error"
    BY <1>a, <1>5 DEF Insert, DuplicateEnrollment, SlotSame
  <2>2. status[r] = "none"
    BY <1>a, <1>5 DEF Insert, Fresh, FreshAt
  <2>3. FreshAt(r)' /\ AnswerTrue(r)' /\ \A q \in Request \ {r} : ~ KeyClash(q, r)'
    BY <2>1, <2>2 DEF FreshAt, AnswerTrue, KeyClash, Wanted
  <2> QED BY <1>a, <2>1, <2>3, LocalStep
<1>6. ASSUME NEW r \in Request, Save(r) PROVE Fresh' /\ AnswersTrue'
  <2>1. /\ UNCHANGED <<enrolled, saved, args>> /\ \A q \in Request \ {r} : SlotSame(q)
        /\ \A q \in Request \ {r} : ~ (pc[q] = "commit" /\ args[q].key = args[r].key)
        /\ \/ pc'[r] = "commit" /\ status'[r] = status[r] /\ saved[args[r].key] = None
           \/ pc'[r] = "done" /\ status'[r] = "error"
    BY <1>a, <1>6 DEF Save, KeyTaken, SlotSame
  <2>2. status[r] = "none" /\ Wanted(r) \notin enrolled
    BY <1>a, <1>6 DEF Save, Fresh, FreshAt
  <2>3. FreshAt(r)' /\ AnswerTrue(r)' /\ \A q \in Request \ {r} : ~ KeyClash(q, r)'
    BY <2>1, <2>2 DEF FreshAt, AnswerTrue, KeyClash, Wanted, SlotSame
  <2> QED BY <1>a, <2>1, <2>3, LocalStep
<1>7. ASSUME NEW r \in Request, Commit(r) PROVE Fresh' /\ AnswersTrue'
  <2>1. /\ args[r] \in Args /\ FreshAt(r) /\ status[r] = "none" /\ Wanted(r) # None
    BY <1>a, <1>7, NoneIsNoValue DEF Commit, LockInv, Shape, Fresh, FreshAt, Args, Wanted
  <2>2. /\ enrolled' = enrolled \cup {Wanted(r)} /\ UNCHANGED <<args, status, body>>
        /\ pc'[r] = "invalidate" /\ \A q \in Request \ {r} : SlotSame(q)
    BY <1>a, <1>7 DEF Commit, SlotSame
  <2>3. /\ \A k \in Key : saved'[k] = IF k = args[r].key THEN Wanted(r) ELSE saved[k]
        /\ args[r].key = None => saved' = saved
    BY <1>a, <1>7, <2>1, NoneIsNoValue DEF Commit, Args
  <2>4. \A k \in Key : saved[k] # None => saved'[k] = saved[k]
    BY <1>7, <2>1, <2>3, NoneIsNoValue DEF Commit, FreshAt
  <2>5. FreshAt(r)' /\ AnswerTrue(r)'
    BY <2>1, <2>2, <2>3 DEF FreshAt, AnswerTrue, Wanted, Args
  <2>6. ASSUME NEW q \in Request \ {r} PROVE FreshAt(q)'
    <3>1. pc[q] \in {"save", "commit"} => Wanted(q) \notin enrolled'
      BY <1>a, <1>7, <2>2, HoldersDiffer DEF Commit, LockInv, Fresh, FreshAt, Holding
    <3>2. ASSUME pc[q] = "commit", args[q].key # None PROVE saved'[args[q].key] = None
      <4>1. args[q].key \in Key /\ saved[args[q].key] = None
        BY <1>a, <3>2 DEF LockInv, Shape, Args, Fresh, FreshAt
      <4>2. args[q].key # args[r].key
        BY <1>a, <1>7, <3>2 DEF Commit, Fresh, KeyClash
      <4> QED BY <2>3, <4>1, <4>2
    <3>3. ASSUME pc[q] = "invalidate", args[q].key # None
          PROVE  saved'[args[q].key] = Wanted(q)
      <4>1. args[q] \in Args /\ saved[args[q].key] = Wanted(q)
        BY <1>a, <3>3 DEF LockInv, Shape, Fresh, FreshAt
      <4>2. args[q].key \in Key
        BY <3>3, <4>1 DEF Args
      <4> QED BY <2>4, <4>1, <4>2, WantedPair
    <3>4. FreshAt(q)
      BY <1>a DEF Fresh
    <3> QED BY <2>2, <3>1, <3>2, <3>3, <3>4 DEF FreshAt, SlotSame, Wanted
  <2>7. ASSUME NEW q \in Request \ {r} PROVE AnswerTrue(q)'
    <3>1. AnswerTrue(q) /\ FreshAt(q)
      BY <1>a DEF AnswersTrue, Fresh
    <3>2. ASSUME status[q] = "created", args[q].key # None
          PROVE  saved'[args[q].key] = Wanted(q)
      <4>1. args[q] \in Args
        BY <1>a, <3>1, <3>2 DEF LockInv, Shape, FreshAt
      <4>2. args[q].key \in Key
        BY <3>2, <4>1 DEF Args
      <4> QED BY <2>4, <3>1, <3>2, <4>1, <4>2, WantedPair DEF AnswerTrue
    <3>3. ASSUME status[q] = "replayed" PROVE body[q] = saved'[args[q].key]
      <4>1. body[q] # None
        BY <1>a, <3>1, <3>3, NoneIsNoValue DEF AnswerTrue, LockInv, TypeOK, Pair
      <4> QED BY <2>4, <3>1, <3>3, <4>1 DEF AnswerTrue
    <3> QED BY <2>2, <3>1, <3>2, <3>3 DEF AnswerTrue, SlotSame, Wanted
  <2>8. \A k \in Key : saved'[k] # None => saved'[k] \in enrolled'
    BY <1>a, <2>2, <2>3 DEF AnswersTrue
  <2>9. \A p, q \in Request : p # q => ~ KeyClash(p, q)'
    BY <1>a, <2>2 DEF Fresh, KeyClash, SlotSame
  <2> QED BY <2>5, <2>6, <2>7, <2>8, <2>9 DEF Fresh, AnswersTrue
<1>8. ASSUME NEW r \in Request, Respond(r) PROVE Fresh' /\ AnswersTrue'
  <2>1. /\ UNCHANGED <<enrolled, saved, args>> /\ \A q \in Request \ {r} : SlotSame(q)
        /\ pc'[r] = "done" /\ status'[r] = "created" /\ body'[r] = Wanted(r)
    BY <1>a, <1>8 DEF Respond, SlotSame
  <2>2. FreshAt(r) /\ pc[r] = "invalidate"
    BY <1>a, <1>8 DEF Respond, Fresh
  <2>3. FreshAt(r)' /\ AnswerTrue(r)' /\ \A q \in Request \ {r} : ~ KeyClash(q, r)'
    BY <2>1, <2>2 DEF FreshAt, AnswerTrue, KeyClash, Wanted
  <2> QED BY <1>a, <2>1, <2>3, LocalStep
<1>9. ASSUME NEW r \in Request, Fail(r) PROVE Fresh' /\ AnswersTrue'
  <2>1. /\ UNCHANGED <<enrolled, saved, args>> /\ \A q \in Request \ {r} : SlotSame(q)
        /\ pc'[r] = "done" /\ status'[r] = "error"
    BY <1>a, <1>9 DEF Fail, SlotSame
  <2>2. FreshAt(r)' /\ AnswerTrue(r)' /\ \A q \in Request \ {r} : ~ KeyClash(q, r)'
    BY <2>1 DEF FreshAt, AnswerTrue, KeyClash
  <2> QED BY <1>a, <2>1, <2>2, LocalStep
<1>10. ASSUME UNCHANGED <<enrolled, saved, reqVars>> PROVE Fresh' /\ AnswersTrue'
  BY <1>a, <1>10 DEF Fresh, FreshAt, KeyClash, AnswersTrue, AnswerTrue, Wanted
<1>11. ASSUME NEW c \in Course, NEW n \in Capacity, CreateCourse(c, n)
       PROVE  Fresh' /\ AnswersTrue'
  BY <1>10, <1>11 DEF CreateCourse
<1>12. ASSUME NEW a \in Admin,
              \/ \E c \in Course, n \in Capacity : UpdateRead(a, c, n)
              \/ \E c \in Course : DeleteRead(a, c)
              \/ AdminStep(a)
              \/ AdminFail(a)
       PROVE  Fresh' /\ AnswersTrue'
  <2>1. UNCHANGED <<enrolled, saved, reqVars>>
    BY <1>12 DEF UpdateRead, UpdateReread, DeleteRead, AdminStep, AdminWrite, UpdateCommit, DeleteCommit,
                 AdminFail
  <2> QED BY <1>10, <2>1
<1>13. CASE UNCHANGED vars
  BY <1>10, <1>13 DEF vars
<1> QED
  BY <1>1, <1>2, <1>3, <1>4, <1>5, <1>6, <1>7, <1>8, <1>9, <1>11, <1>12, <1>13
     DEF Next, RequestStep

(* No client is ever told of an enrollment that is not stored: AnswersTrue *)
(* for any number of requests, retries, keys and failures.                 *)
THEOREM AnswersSafe == Spec => []AnswersTrue
<1>1. AnswerInv => AnswersTrue
  BY DEF AnswerInv
<1> QED
  BY <1>1, AnswerInvInit, AnswerInvStep, PTL DEF Spec

-----------------------------------------------------------------------------
(* Seat conservation.  A course that has never been created has no roster, *)
(* so a new one starts with all its seats free.  On a course no PUT has    *)
(* spoilt, what a PUT read counts the students enrolled at that time: the  *)
(* roster only grows, so if the seats taken are at its commit what they    *)
(* were at its first read, they were so at its second read too, and the    *)
(* two columns change together or not at all.                              *)
ReadPast(a) ==
  apc[a] # "idle" /\ aim[a].op = "update" /\ aim[a].course \notin drifted =>
    /\ aim[a].taken <= Cardinality(Roster(aim[a].course))
    /\ apc[a] # "reread" =>
         /\ aim[a].taken + aim[a].had <= aim[a].was
         /\ aim[a].was <= aim[a].had + Cardinality(Roster(aim[a].course))

ReadsPast == \A a \in Admin : ReadPast(a)

SeatInv == AnswerInv /\ enrolled \subseteq Student \X created /\ SeatsConserved /\ ReadsPast

LEMMA RosterFinite ==
  ASSUME NEW c PROVE IsFiniteSet(Roster(c)) /\ Cardinality(Roster(c)) \in Nat
  BY StudentsFinite, FS_Subset, FS_CardinalityType DEF Roster

LEMMA SeatInvInit == Init => SeatInv
<1>1. Init => enrolled \subseteq Student \X created /\ SeatsConserved /\ ReadsPast
  BY DEF Init, Ledger!Init, SeatsConserved, ReadsPast, ReadPast
<1> QED
  BY <1>1, AnswerInvInit DEF SeatInv

LEMMA RosterGrows ==
  ASSUME NEW c, enrolled \subseteq enrolled'
  PROVE  Cardinality(Roster(c)) <= Cardinality(Roster(c)')
<1>1. IsFiniteSet(Roster(c)') /\ Roster(c) \subseteq Roster(c)'
  BY StudentsFinite, FS_Subset DEF Roster
<1> QED
  BY <1>1, FS_Subset

(* An administrator's reads stay past while its slot only moves on.        *)
LEMMA ReadKept ==
  ASSUME NEW a \in Admin, ReadPast(a), enrolled \subseteq enrolled', drifted \subseteq drifted',
         apc[a] # "idle" => aim[a] \in Aim,
         \/ apc'[a] = "idle"
         \/ aim'[a] = aim[a] /\ apc'[a] = apc[a]
         \/ aim'[a] = aim[a] /\ apc[a] = "write" /\ apc'[a] = "commit"
  PROVE  ReadPast(a)'
<1> SUFFICES ASSUME apc'[a] # "idle", aim'[a].op = "update", aim'[a].course \notin drifted'
             PROVE  /\ aim'[a].taken <= Cardinality(Roster(aim[a].course)')
                    /\ apc'[a] # "reread" =>
                         /\ aim'[a].taken + aim'[a].had <= aim'[a].was
                         /\ aim'[a].was <= aim'[a].had + Cardinality(Roster(aim[a].course)')
  BY DEF ReadPast, Roster
<1>1. /\ aim[a] \in Aim /\ aim'[a] = aim[a] /\ apc[a] # "idle"
      /\ apc[a] = "reread" => apc'[a] = "reread"
  OBVIOUS
<1>2. aim[a].taken \in Nat /\ aim[a].was \in Nat /\ aim[a].had \in Nat
  BY <1>1 DEF Aim
<1>3. /\ Cardinality(Roster(aim[a].course)) <= Cardinality(Roster(aim[a].course)')
      /\ Cardinality(Roster(aim[a].course)) \in Nat
      /\ Cardinality(Roster(aim[a].course)') \in Nat
  <2>1. IsFiniteSet(Roster(aim[a].course)')
    BY StudentsFinite, FS_Subset DEF Roster
  <2> QED BY <2>1, RosterFinite, RosterGrows, FS_CardinalityType
<1> QED
  BY <1>1, <1>2, <1>3 DEF ReadPast

LEMMA ReadsPastStep == SeatInv /\ [Next]_vars => ReadsPast'
<1> SUFFICES ASSUME SeatInv, [Next]_vars PROVE ReadsPast'
  OBVIOUS
<1>a. /\ Shape /\ SeatsConserved /\ ReadsPast
      /\ apc \in [Admin -> {"idle", "reread", "write", "commit"}]
      /\ aim \in [Admin -> Aim \cup {None}]
      /\ capacity \in [Course -> Nat] /\ seats \in [Course -> Nat]
      /\ live \subseteq Course
  BY DEF SeatInv, AnswerInv, LockInv, TypeOK
<1>b. ASSUME enrolled \subseteq enrolled', drifted \subseteq drifted',
             \A a \in Admin : \/ apc'[a] = "idle"
                              \/ aim'[a] = aim[a] /\ apc'[a] = apc[a]
                              \/ aim'[a] = aim[a] /\ apc[a] = "write" /\ apc'[a] = "commit"
      PROVE  ReadsPast'
  <2>1. ASSUME NEW a \in Admin PROVE ReadPast(a)'
    BY <1>a, <1>b, <2>1, ReadKept DEF ReadsPast, Shape
  <2> QED BY <2>1 DEF ReadsPast
<1>c. ASSUME NEW a \in Admin, UNCHANGED <<enrolled, drifted>>, ReadPast(a)',
             \A b \in Admin \ {a} : aim'[b] = aim[b] /\ apc'[b] = apc[b]
      PROVE  ReadsPast'
  <2>1. ASSUME NEW b \in Admin \ {a} PROVE ReadPast(b)'
    BY <1>a, <1>c, <2>1, ReadKept DEF ReadsPast, Shape
  <2> QED BY <1>c, <2>1 DEF ReadsPast
<1>d. ASSUME NEW c \in live \ drifted
      PROVE  /\ c \in Course /\ Cardinality(Roster(c)) \in Nat
             /\ seats[c] \in Nat /\ capacity[c] \in Nat
             /\ seats[c] + Cardinality(Roster(c)) = capacity[c]
  BY <1>a, RosterFinite DEF SeatsConserved
<1> USE DEF tables, reqVars, admVars, EndAdmin
<1>1. ASSUME NEW r \in Request,
             RequestStep(r) \/ Fail(r) \/ \E x \in Args : Submit(r, x)
      PROVE  ReadsPast'
  <2>1. enrolled \subseteq enrolled' /\ UNCHANGED <<apc, aim, drifted>>
    BY <1>1 DEF RequestStep, Submit, Lookup, Exists, Lock, Insert, Save, Commit, Respond, Fail
  <2> QED BY <1>b, <2>1
<1>2. ASSUME NEW c \in Course, NEW n \in Capacity, CreateCourse(c, n) PROVE ReadsPast'
  BY <1>b, <1>2 DEF CreateCourse
<1>3. ASSUME NEW a \in Admin, NEW c \in Course, NEW n \in Capacity, UpdateRead(a, c, n)
      PROVE  ReadsPast'
  <2>1. /\ UNCHANGED <<enrolled, drifted>> /\ c \in live
        /\ \A b \in Admin \ {a} : aim'[b] = aim[b] /\ apc'[b] = apc[b]
        /\ apc'[a] = "reread" /\ aim'[a].course = c /\ aim'[a].taken = capacity[c] - seats[c]
    BY <1>a, <1>3 DEF UpdateRead
  <2>2. ReadPast(a)'
    <3> SUFFICES ASSUME c \notin drifted PROVE aim'[a].taken <= Cardinality(Roster(c))
      BY <2>1 DEF ReadPast, Roster
    <3> QED BY <1>d, <2>1
  <2> QED BY <1>c, <2>1, <2>2
<1>4. ASSUME NEW a \in Admin, UpdateReread(a) PROVE ReadsPast'
  <2> DEFINE c == aim[a].course
  <2>1. /\ UNCHANGED <<enrolled, drifted>>
        /\ \A b \in Admin \ {a} : aim'[b] = aim[b] /\ apc'[b] = apc[b]
        /\ aim[a] \in Aim /\ apc[a] = "reread"
    BY <1>a, <1>4 DEF UpdateReread, Shape
  <2>2. CASE apc'[a] = "idle"
    BY <1>c, <2>1, <2>2 DEF ReadPast
  <2>3. CASE apc'[a] # "idle"
    <3>1. /\ c \in live /\ aim[a].taken \in Nat
          /\ aim'[a] = [aim[a] EXCEPT !.was = capacity[c], !.had = seats[c]]
      BY <1>a, <1>4, <2>1, <2>3 DEF UpdateReread, Aim
    <3>2. /\ aim'[a].course = c /\ aim'[a].taken = aim[a].taken /\ aim'[a].op = aim[a].op
          /\ aim'[a].was = capacity[c] /\ aim'[a].had = seats[c]
      BY <2>1, <3>1 DEF Aim
    <3>3. ASSUME aim[a].op = "update", c \notin drifted
          PROVE  /\ aim[a].taken <= Cardinality(Roster(c))
                 /\ aim[a].taken + seats[c] <= capacity[c]
                 /\ capacity[c] <= seats[c] + Cardinality(Roster(c))
      <4>1. aim[a].taken <= Cardinality(Roster(c))
        BY <1>a, <2>1, <3>3 DEF ReadsPast, ReadPast
      <4> QED BY <1>d, <3>1, <3>3, <4>1
    <3>4. ReadPast(a)'
      BY <2>1, <3>2, <3>3 DEF ReadPast, Roster
    <3> QED BY <1>c, <2>1, <3>4
  <2> QED BY <2>2, <2>3
<1>5. ASSUME NEW a \in Admin, NEW c \in Course, DeleteRead(a, c) PROVE ReadsPast'
  <2>1. /\ UNCHANGED <<enrolled, drifted>>
        /\ \A b \in Admin \ {a} : aim'[b] = aim[b] /\ apc'[b] = apc[b]
        /\ aim'[a].op = "delete"
    BY <1>a, <1>5 DEF DeleteRead
  <2> QED BY <1>c, <2>1 DEF ReadPast
<1>6. ASSUME NEW a \in Admin, AdminWrite(a) PROVE ReadsPast'
  BY <1>a, <1>b, <1>6 DEF AdminWrite
<1>7. ASSUME NEW a \in Admin, UpdateCommit(a) \/ DeleteCommit(a) \/ AdminFail(a)
      PROVE  ReadsPast'
  <2>1. /\ UNCHANGED enrolled /\ drifted \subseteq drifted'
        /\ apc' = [apc EXCEPT ![a] = "idle"] /\ aim' = [aim EXCEPT ![a] = None]
    BY <1>7 DEF UpdateCommit, DeleteCommit, AdminFail
  <2> QED BY <1>a, <1>b, <2>1
<1>8. CASE UNCHANGED vars
  BY <1>b, <1>8 DEF vars
<1> QED
  BY <1>1, <1>2, <1>3, <1>4, <1>5, <1>6, <1>7, <1>8 DEF Next, AdminStep

LEMMA SeatInvStep == SeatInv /\ [Next]_vars => SeatInv'
<1> DEFINE Goal == enrolled' \subseteq Student \X created' /\ SeatsConserved'
<1> SUFFICES ASSUME SeatInv, [Next]_vars PROVE Goal
  BY AnswerInvStep, ReadsPastStep DEF SeatInv
<1>a. /\ AnswerInv /\ TypeOK /\ Shape /\ LocksHeld /\ RowsMade /\ Fresh
      /\ enrolled \subseteq Student \X created /\ SeatsConserved /\ ReadsPast
  BY DEF SeatInv, AnswerInv, LockInv
<1>b. /\ created \subseteq Course /\ live \subseteq created /\ drifted \subseteq Course
      /\ capacity \in [Course -> Nat] /\ seats \in [Course -> Nat]
  BY <1>a DEF TypeOK
<1> USE DEF tables, reqVars, admVars
<1>1. ASSUME UNCHANGED <<tables, drifted>> PROVE Goal
  BY <1>a, <1>1 DEF SeatsConserved, Roster
<1>2. ASSUME NEW r \in Request, Commit(r) PROVE Goal
  <2> DEFINE c == args[r].course
             s == args[r].student
  <2>1. /\ args[r] \in Args /\ pc[r] = "commit" /\ Wanted(r) \notin enrolled
        /\ c \in live /\ seats[c] = left[r] + 1 /\ left[r] \in Nat
    BY <1>a, <1>2 DEF Commit, Shape, Fresh, FreshAt, LocksHeld, Holding, TypeOK
  <2>2. /\ s \in Student /\ c \in Course /\ Wanted(r) = <<s, c>>
    BY <2>1 DEF Args, Wanted
  <2>3. /\ enrolled' = enrolled \cup {<<s, c>>} /\ seats' = [seats EXCEPT ![c] = left[r]]
        /\ UNCHANGED <<created, live, capacity, drifted>>
    BY <1>2, <2>2 DEF Commit
  <2>4. enrolled' \subseteq Student \X created'
    BY <1>a, <1>b, <2>1, <2>2, <2>3
  <2>5. ASSUME NEW d \in live' \ drifted' PROVE seats'[d] + Cardinality(Roster(d)') = capacity'[d]
    <3>1. d \in Course /\ d \in live \ drifted
      BY <1>b, <2>3, <2>5
    <3>2. seats[d] + Cardinality(Roster(d)) = capacity[d]
      BY <1>a, <3>1 DEF SeatsConserved
    <3>3. CASE d = c
      <4>1. Roster(d)' = Roster(d) \cup {s} /\ s \notin Roster(d)
        BY <2>1, <2>2, <2>3, <3>3 DEF Roster
      <4>2. Cardinality(Roster(d)') = Cardinality(Roster(d)) + 1
        BY <4>1, RosterFinite, FS_AddElement
      <4>3. seats'[d] = left[r] /\ capacity'[d] = capacity[d]
        BY <1>b, <2>2, <2>3, <3>3
      <4>4. seats[d] = left[r] + 1 /\ left[r] \in Nat
        BY <2>1, <3>3
      <4> QED BY <3>2, <4>2, <4>3, <4>4, RosterFinite
    <3>4. CASE d # c
      <4>1. Roster(d)' = Roster(d)
        BY <2>3, <3>4 DEF Roster
      <4> QED BY <1>b, <2>3, <3>1, <3>2, <3>4, <4>1
    <3> QED BY <3>3, <3>4
  <2> QED BY <2>4, <2>5 DEF SeatsConserved
<1>3. ASSUME NEW c \in Course, NEW n \in Capacity, CreateCourse(c, n) PROVE Goal
  <2>1. n \in Nat
    BY CapacityPositive
  <2>2. ASSUME NEW d \in live' \ drifted' PROVE seats'[d] + Cardinality(Roster(d)') = capacity'[d]
    <3>1. Roster(d)' = Roster(d)
      BY <1>3 DEF CreateCourse, Roster
    <3>2. CASE d = c
      <4>1. Roster(d) = {}
        BY <1>a, <1>3, <3>2 DEF CreateCourse, Roster
      <4>2. seats'[d] = n /\ capacity'[d] = n
        BY <1>3, <1>b, <3>2 DEF CreateCourse
      <4> QED BY <2>1, <3>1, <4>1, <4>2, FS_EmptySet
    <3>3. CASE d # c
      <4>1. d \in live \ drifted /\ d \in Course
        BY <1>b, <1>3, <2>2, <3>3 DEF CreateCourse
      <4> QED BY <1>3, <1>a, <1>b, <3>1, <3>3, <4>1 DEF CreateCourse, SeatsConserved
    <3> QED BY <3>2, <3>3
  <2>3. enrolled' \subseteq Student \X created'
    BY <1>a, <1>3 DEF CreateCourse
  <2> QED BY <2>2, <2>3 DEF SeatsConserved
<1>4. ASSUME NEW a \in Admin, UpdateCommit(a) PROVE Goal
  <2> DEFINE c == aim[a].course
  <2>1. /\ aim[a] \in Aim /\ aim[a].cap \in Nat /\ aim[a].taken \in Nat
        /\ aim[a].was \in Nat /\ aim[a].had \in Nat
        /\ c \in Course /\ apc[a] = "commit" /\ aim[a].op = "update"
        /\ UNCHANGED <<enrolled, live, created>> /\ drifted \subseteq drifted'
    BY <1>a, <1>4 DEF UpdateCommit, Shape, Aim
  <2>2. ASSUME NEW d \in live' \ drifted' PROVE seats'[d] + Cardinality(Roster(d)') = capacity'[d]
    <3>1. Roster(d)' = Roster(d)
      BY <2>1 DEF Roster
    <3>2. d \in live \ drifted /\ d \in Course
      BY <1>b, <2>1, <2>2
    <3>3. seats[d] + Cardinality(Roster(d)) = capacity[d]
      BY <1>a, <3>2 DEF SeatsConserved
    <3>4. CASE d # c \/ UNCHANGED <<capacity, seats>>
      <4>1. seats'[d] = seats[d] /\ capacity'[d] = capacity[d]
        BY <1>4, <1>b, <2>1, <3>2, <3>4 DEF UpdateCommit
      <4> QED BY <3>1, <3>3, <4>1
    <3>5. CASE d = c /\ ~ UNCHANGED <<capacity, seats>>
      <4>1. aim[a].taken = capacity[c] - seats[c]
        BY <1>4, <2>1, <2>2, <3>5 DEF UpdateCommit
      <4>2. capacity[c] \in Nat /\ seats[c] \in Nat /\ Cardinality(Roster(c)) \in Nat
        BY <1>b, <2>1, RosterFinite
      <4>3. /\ aim[a].taken + aim[a].had <= aim[a].was
            /\ aim[a].was <= aim[a].had + Cardinality(Roster(c))
        BY <1>a, <2>1, <3>2, <3>5 DEF ReadsPast, ReadPast
      <4>4. aim[a].was = aim[a].had + aim[a].taken /\ Cardinality(Roster(c)) = aim[a].taken
        BY <2>1, <3>3, <3>5, <4>1, <4>2, <4>3
      <4>5. /\ capacity'[c] = IF aim[a].cap # aim[a].was THEN aim[a].cap ELSE capacity[c]
            /\ seats'[c] = IF aim[a].cap - aim[a].taken # aim[a].had
                           THEN aim[a].cap - aim[a].taken ELSE seats[c]
        BY <1>4, <1>b, <2>1 DEF UpdateCommit, ResizedSeats
      <4> QED BY <2>1, <3>1, <3>3, <3>5, <4>2, <4>4, <4>5
    <3> QED BY <3>4, <3>5
  <2> QED BY <1>a, <2>1, <2>2 DEF SeatsConserved
<1>5. ASSUME NEW a \in Admin, DeleteCommit(a) PROVE Goal
  BY <1>a, <1>5 DEF DeleteCommit, SeatsConserved, Roster
<1>6. ASSUME NEW r \in Request, ~ Commit(r),
             RequestStep(r) \/ Fail(r) \/ \E x \in Args : Submit(r, x)
      PROVE  UNCHANGED <<tables, drifted>>
  BY <1>6 DEF RequestStep, Submit, Lookup, Exists, Lock, Insert, Save, Respond, Fail
<1>7. ASSUME NEW a \in Admin,
             \/ \E c \in Course, n \in Capacity : UpdateRead(a, c, n)
             \/ \E c \in Course : DeleteRead(a, c)
             \/ UpdateReread(a)
             \/ AdminWrite(a)
             \/ AdminFail(a)
      PROVE  UNCHANGED <<tables, drifted>>
  BY <1>7 DEF UpdateRead, UpdateReread, DeleteRead, AdminWrite, AdminFail
<1>8. CASE UNCHANGED vars
  BY <1>1, <1>8 DEF vars
<1> HIDE DEF Goal
<1> QED
  BY <1>1, <1>2, <1>3, <1>4, <1>5, <1>6, <1>7, <1>8 DEF Next, AdminStep

(* No enrollment, however it fails, repeats or races, loses or invents a   *)
(* seat of a course no stale PUT overwrote: SeatsConserved.                *)
THEOREM SeatsSafe == Spec => []SeatsConserved
<1>1. SeatInv => SeatsConserved
  BY DEF SeatInv
<1> QED
  BY <1>1, SeatInvInit, SeatInvStep, PTL DEF Spec

-----------------------------------------------------------------------------
(* The seat range needs more than the code gives: between the second read  *)
(* and the commit of a PUT only enrollments may change the row, and they   *)
(* only lower its seats.  With one administrator that is so.               *)
RereadHolds(a) ==
  LET c == aim[a].course IN
  apc[a] \in {"write", "commit"} /\ aim[a].op = "update" /\ c \in live =>
    capacity[c] = aim[a].was /\ seats[c] <= aim[a].had

RangeInv == LockInv /\ SeatsInRange /\ \A a \in Admin : RereadHolds(a)

LEMMA RangeInvStep ==
  ASSUME \A a, b \in Admin : a = b, RangeInv, [Next]_vars
  PROVE  RangeInv'
<1> DEFINE Goal == SeatsInRange' /\ \A a \in Admin : RereadHolds(a)'
<1> SUFFICES Goal
  BY LockInvStep DEF RangeInv
<1>a. /\ TypeOK /\ Shape /\ LocksHeld /\ SeatsInRange
      /\ \A a \in Admin : RereadHolds(a)
      /\ created \subseteq Course /\ live \subseteq created
      /\ capacity \in [Course -> Nat] /\ seats \in [Course -> Nat]
      /\ apc \in [Admin -> {"idle", "reread", "write", "commit"}]
      /\ aim \in [Admin -> Aim \cup {None}]
  BY DEF RangeInv, LockInv, TypeOK
<1> USE DEF tables, reqVars, admVars, EndAdmin
<1>1. ASSUME UNCHANGED <<tables, admVars>> PROVE Goal
  BY <1>a, <1>1 DEF SeatsInRange, Loadable, RereadHolds
<1>2. ASSUME NEW r \in Request, Commit(r) PROVE Goal
  <2>1. /\ args[r].course \in Course /\ seats[args[r].course] = left[r] + 1 /\ left[r] \in Nat
        /\ seats' = [seats EXCEPT ![args[r].course] = left[r]]
        /\ UNCHANGED <<live, capacity, admVars>>
    BY <1>a, <1>2 DEF Commit, LocksHeld, Holding, Shape, Args, TypeOK
  <2>2. \A c \in Course : seats'[c] <= seats[c] /\ seats'[c] \in Nat
    BY <1>a, <2>1
  <2>3. SeatsInRange'
    BY <1>a, <2>1, <2>2 DEF SeatsInRange, Loadable
  <2>4. ASSUME NEW a \in Admin PROVE RereadHolds(a)'
    <3> SUFFICES ASSUME apc[a] \in {"write", "commit"}, aim[a].op = "update",
                        aim[a].course \in live
                 PROVE  /\ capacity[aim[a].course] = aim[a].was
                        /\ seats'[aim[a].course] <= aim[a].had
      BY <2>1 DEF RereadHolds
    <3>1. aim[a] \in Aim /\ aim[a].had \in Nat /\ aim[a].course \in Course
      BY <1>a DEF Shape, Aim
    <3>2. capacity[aim[a].course] = aim[a].was /\ seats[aim[a].course] <= aim[a].had
      BY <1>a DEF RereadHolds
    <3>3. seats[aim[a].course] \in Nat
      BY <1>a, <3>1
    <3> QED BY <2>2, <3>1, <3>2, <3>3
  <2> QED BY <2>3, <2>4
<1>3. ASSUME NEW c \in Course, NEW n \in Capacity, CreateCourse(c, n) PROVE Goal
  <2>1. SeatsInRange'
    BY <1>a, <1>3, CapacityPositive DEF CreateCourse, SeatsInRange, Loadable
  <2>2. ASSUME NEW a \in Admin PROVE RereadHolds(a)'
    BY <1>a, <1>3 DEF CreateCourse, RereadHolds, Shape
  <2> QED BY <2>1, <2>2
<1>4. ASSUME NEW a \in Admin, UpdateCommit(a) PROVE Goal
  <2> DEFINE c == aim[a].course
  <2>1. /\ aim[a] \in Aim /\ aim[a].cap \in Nat \ {0} /\ aim[a].taken <= aim[a].cap
        /\ aim[a].taken \in Nat /\ aim[a].had \in Nat /\ aim[a].was \in Nat
        /\ c \in live /\ c \in Course
        /\ capacity[c] = aim[a].was /\ seats[c] <= aim[a].had
        /\ seats[c] \in Nat /\ live' = live /\ apc'[a] = "idle"
    BY <1>a, <1>4, CapacityPositive DEF UpdateCommit, Shape, Aim, LocksHeld, RereadHolds
  <2>2. /\ capacity'[c] = aim[a].cap
        /\ \/ seats'[c] = aim[a].cap - aim[a].taken
           \/ seats'[c] = seats[c] /\ aim[a].cap - aim[a].taken = aim[a].had
        /\ \A d \in live \ {c} : capacity'[d] = capacity[d] /\ seats'[d] = seats[d]
    BY <1>a, <1>4, <2>1 DEF UpdateCommit, ResizedSeats
  <2>3. capacity'[c] > 0 /\ seats'[c] <= capacity'[c]
    BY <2>1, <2>2
  <2>4. SeatsInRange'
    BY <1>a, <2>1, <2>2, <2>3 DEF SeatsInRange, Loadable
  <2>5. \A b \in Admin : RereadHolds(b)'
    BY <2>1 DEF RereadHolds
  <2> QED BY <2>4, <2>5
<1>5. ASSUME NEW a \in Admin, DeleteCommit(a) PROVE Goal
  BY <1>a, <1>5 DEF DeleteCommit, SeatsInRange, Loadable, RereadHolds
<1>6. ASSUME NEW a \in Admin, UNCHANGED tables,
             \/ apc'[a] \in {"idle", "reread"}
             \/ aim'[a].op = "delete"
             \/ apc[a] = "write" /\ aim'[a] = aim[a]
      PROVE  Goal
  <2>1. SeatsInRange'
    BY <1>a, <1>6 DEF SeatsInRange, Loadable
  <2>2. RereadHolds(a)'
    BY <1>a, <1>6 DEF RereadHolds
  <2> QED BY <2>1, <2>2
<1>7. ASSUME NEW a \in Admin, UpdateReread(a) PROVE Goal
  <2>0. apc'[a] \in {"idle", "write"}
    BY <1>a, <1>7 DEF UpdateReread
  <2>1. CASE apc'[a] = "idle"
    BY <1>6, <1>7, <2>1 DEF UpdateReread
  <2>2. CASE apc'[a] = "write"
    <3>1. aim[a] \in Aim /\ aim[a].course \in Course
      BY <1>a, <1>7 DEF UpdateReread, Shape, Aim
    <3>2. /\ UNCHANGED tables
          /\ aim'[a] = [aim[a] EXCEPT !.was = capacity[aim[a].course],
                                      !.had = seats[aim[a].course]]
      BY <1>a, <1>7, <2>2 DEF UpdateReread
    <3>3. /\ aim'[a].course = aim[a].course /\ aim'[a].was = capacity[aim[a].course]
          /\ aim'[a].had = seats[aim[a].course] /\ seats[aim[a].course] \in Nat
      BY <1>a, <3>1, <3>2 DEF Aim
    <3>4. RereadHolds(a)'
      BY <3>2, <3>3 DEF RereadHolds
    <3>5. SeatsInRange'
      BY <1>a, <3>2 DEF SeatsInRange, Loadable
    <3> QED BY <3>4, <3>5
  <2> QED BY <2>0, <2>1, <2>2
<1>8. ASSUME NEW a \in Admin,
             \/ \E c \in Course, n \in Capacity : UpdateRead(a, c, n)
             \/ \E c \in Course : DeleteRead(a, c)
             \/ AdminWrite(a)
             \/ AdminFail(a)
      PROVE  Goal
  <2>1. UNCHANGED tables
    BY <1>8 DEF UpdateRead, DeleteRead, AdminWrite, AdminFail
  <2>2. \/ apc'[a] \in {"idle", "reread"}
        \/ aim'[a].op = "delete"
        \/ apc[a] = "write" /\ aim'[a] = aim[a]
    BY <1>a, <1>8 DEF UpdateRead, DeleteRead, AdminWrite, AdminFail
  <2> QED BY <1>6, <2>1, <2>2
<1>9. ASSUME NEW r \in Request, ~ Commit(r),
             RequestStep(r) \/ Fail(r) \/ \E x \in Args : Submit(r, x)
      PROVE  UNCHANGED <<tables, admVars>>
  BY <1>9 DEF RequestStep, Submit, Lookup, Exists, Lock, Insert, Save, Respond, Fail
<1>10. CASE UNCHANGED vars
  BY <1>1, <1>10 DEF vars
<1> HIDE DEF Goal
<1> QED
  BY <1>1, <1>2, <1>3, <1>4, <1>5, <1>7, <1>8, <1>9, <1>10 DEF Next, AdminStep

(* While at most one administrator writes courses at a time, every course  *)
(* can be loaded: SeatsInRange.  The run enroll_unloadable shows that two  *)
(* are enough to break it.                                                 *)
THEOREM SeatRangeAlone ==
  ASSUME \A a, b \in Admin : a = b
  PROVE  Spec => []SeatsInRange
<1>1. Init => RangeInv
  BY LockInvInit DEF Init, Ledger!Init, RangeInv, SeatsInRange, RereadHolds
<1>2. RangeInv /\ [Next]_vars => RangeInv'
  BY RangeInvStep
<1>3. RangeInv => SeatsInRange
  BY DEF RangeInv
<1> QED
  BY <1>1, <1>2, <1>3, PTL DEF Spec

-----------------------------------------------------------------------------
(* Every step maps to a step of the ledger or changes nothing in it.       *)
LEMMA LedgerStep == AnswerInv /\ [Next]_vars => [Ledger!Next]_(Ledger!ledger)
<1> SUFFICES ASSUME AnswerInv, [Next]_vars PROVE Ledger!Next \/ UNCHANGED tables
  BY DEF Ledger!ledger, tables
<1>a. TypeOK /\ Shape /\ LocksHeld /\ RowsMade /\ Fresh
  BY DEF AnswerInv, LockInv
<1>1. ASSUME NEW r \in Request, Commit(r) PROVE Ledger!Next
  <2> DEFINE c == args[r].course
             s == args[r].student
             k == args[r].key
  <2>1. /\ args[r] \in Args /\ pc[r] = "commit" /\ Wanted(r) \notin enrolled
        /\ c \in live /\ seats[c] = left[r] + 1 /\ left[r] \in Nat
        /\ k # None => saved[k] = None
    BY <1>a, <1>1 DEF Commit, Shape, Fresh, FreshAt, LocksHeld, Holding, TypeOK
  <2>2. /\ s \in Student /\ c \in Course /\ k \in Key \cup {None} /\ Wanted(r) = <<s, c>>
    BY <2>1 DEF Args, Wanted
  <2>3. left[r] = seats[c] - 1 /\ seats[c] > 0
    BY <2>1
  <2>4. Ledger!Enroll(s, c, k)
    BY <1>1, <2>1, <2>2, <2>3 DEF Commit, Ledger!Enroll
  <2> QED BY <2>2, <2>4 DEF Ledger!Next
<1>2. ASSUME NEW c \in Course, NEW n \in Capacity, CreateCourse(c, n) PROVE Ledger!Next
  BY <1>2 DEF CreateCourse, Ledger!Next, Ledger!Open
<1>3. ASSUME NEW a \in Admin, UpdateCommit(a) PROVE Ledger!Next
  <2> DEFINE c == aim[a].course
             n == IF aim[a].cap # aim[a].was THEN aim[a].cap ELSE capacity[c]
             m == IF ResizedSeats(a) # aim[a].had THEN ResizedSeats(a) ELSE seats[c]
  <2>1. /\ aim[a] \in Aim /\ c \in Course /\ c \in live
        /\ aim[a].cap \in Capacity /\ ResizedSeats(a) \in 0 .. aim[a].cap
    BY <1>a, <1>3, CapacityPositive
    DEF UpdateCommit, Shape, Aim, LocksHeld, ResizedSeats
  <2>2. PICK k \in Capacity : m \in 0 .. k
    <3>1. PICK j \in Capacity : seats[c] <= j
      BY <1>a, <2>1 DEF RowsMade
    <3>2. seats[c] \in 0 .. j
      BY <1>a, <2>1, <3>1, CapacityPositive DEF TypeOK
    <3> QED BY <2>1, <3>2
  <2>3. n \in Capacity
    BY <1>a, <2>1 DEF RowsMade
  <2>4. /\ capacity' = [capacity EXCEPT ![c] = n] /\ seats' = [seats EXCEPT ![c] = m]
        /\ UNCHANGED <<created, live, enrolled, saved>>
    BY <1>3 DEF UpdateCommit
  <2>5. Ledger!Resize(c)
    BY <2>1, <2>2, <2>3, <2>4 DEF Ledger!Resize
  <2> QED BY <2>1, <2>5 DEF Ledger!Next
<1>4. ASSUME NEW a \in Admin, DeleteCommit(a) PROVE Ledger!Next
  <2>1. aim[a].course \in Course /\ aim[a].course \in live
    BY <1>a, <1>4 DEF DeleteCommit, Shape, Aim, LocksHeld
  <2>2. Ledger!Close(aim[a].course)
    BY <1>4, <2>1 DEF DeleteCommit, Ledger!Close
  <2> QED BY <2>1, <2>2 DEF Ledger!Next
<1>5. ASSUME NEW r \in Request, ~ Commit(r),
             RequestStep(r) \/ Fail(r) \/ \E x \in Args : Submit(r, x)
      PROVE  UNCHANGED tables
  BY <1>5 DEF RequestStep, Submit, Lookup, Exists, Lock, Insert, Save, Respond, Fail, tables
<1>6. ASSUME NEW a \in Admin,
             \/ \E c \in Course, n \in Capacity : UpdateRead(a, c, n)
             \/ \E c \in Course : DeleteRead(a, c)
             \/ UpdateReread(a)
             \/ AdminWrite(a)
             \/ AdminFail(a)
      PROVE  UNCHANGED tables
  BY <1>6 DEF UpdateRead, UpdateReread, DeleteRead, AdminWrite, AdminFail, tables
<1>7. CASE UNCHANGED vars
  BY <1>7 DEF vars
<1> QED
  BY <1>1, <1>2, <1>3, <1>4, <1>5, <1>6, <1>7 DEF Next, AdminStep

(* The transactions implement the ledger: each commit is one atomic,       *)
(* once-per-key enrollment on a live course with a seat free (LedgerSpec). *)
THEOREM ImplementsLedger == Spec => LedgerSpec
<1>1. Init => Ledger!Init
  BY DEF Init
<1> QED
  BY <1>1, AnswerInvInit, AnswerInvStep, LedgerStep, PTL DEF Spec, LedgerSpec, Ledger!Spec
=============================================================================
