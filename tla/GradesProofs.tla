---------------------------- MODULE GradesProofs ----------------------------
(***************************************************************************)
(* Safety of Grades for any number of submissions and any retry limit.     *)
(***************************************************************************)
EXTENDS Grades, TLAPS

(* What a submission knows at each step.  Known is the strengthening that  *)
(* makes ConflictIsEarned inductive: every failed attempt has seen at      *)
(* least one more version than the attempt before it.                      *)
KnownAt(r) ==
  /\ -1 <= seen[r] /\ seen[r] <= version
  /\ pc[r] = "read" => attempt[r] = 1
  /\ pc[r] = "insert" => seen[r] = -1
  /\ pc[r] = "update" => seen[r] >= first[r] + attempt[r] - 1
  /\ pc[r] = "reload" => version >= first[r] + attempt[r] - 1
  /\ pc[r] = "respond" => /\ seen[r] + 1 \in 0 .. version
                          /\ log[seen[r] + 2] = r
  /\ answer[r] # "none" => pc[r] = "done"

Known == \A r \in Submission : KnownAt(r)

(* What the lock is about, apart from what is graded.                      *)
LockTypeOK ==
  /\ version \in Int /\ version >= -1
  /\ log \in Seq(Submission)
  /\ writer \in Submission \cup {None}
  /\ pc \in [Submission -> {"read", "insert", "update", "reload", "commit",
                            "respond", "done"}]
  /\ seen \in [Submission -> Int] /\ first \in [Submission -> Int]
  /\ attempt \in [Submission -> 1 .. MaxRetries]
  /\ answer \in [Submission -> {"none", "created", "invalid", "conflict", "error"}]

LockInv == /\ LockTypeOK /\ Known
           /\ EveryWriteKept /\ ConflictIsEarned /\ WriterCurrent

(* A Grade is in the hands of whoever is past its validation, and is about *)
(* to be written as asked for.                                             *)
Held ==
  /\ row \in Grade \cup {None}
  /\ grade \in [Submission -> Grade \cup {None}]
  /\ \A r \in Submission :
       /\ pc[r] \in {"insert", "update", "reload", "commit"} => Valid(Score[r])
       /\ pc[r] \in {"insert", "commit"} => grade[r] = Graded(r)

GradesInv == LockInv /\ Held /\ LastWriteStands

LEMMA LockInvInit == Init => LockInv
  BY RetriesPositive
     DEF Init, LockInv, LockTypeOK, Known, KnownAt, EveryWriteKept, ConflictIsEarned,
         WriterCurrent

LEMMA LockInvStep == LockInv /\ [Next]_vars => LockInv'
<1> SUFFICES ASSUME LockInv, [Next]_vars PROVE LockInv'
  OBVIOUS
<1> USE RetriesPositive, NoneIsNoSubmission
<1> USE DEF LockInv, Goto, Finish, LockTypeOK, Known, KnownAt
<1>1. ASSUME NEW r \in Submission, Read(r) PROVE LockInv'
  <2>a. /\ LockTypeOK' /\ version' = version /\ log' = log
        /\ \A q \in Submission \ {r} : KnownAt(q)'
    BY <1>1 DEF Read
  <2>b. KnownAt(r)'
    BY <1>1 DEF Read
  <2>1. LockTypeOK' /\ Known' BY <2>a, <2>b
  <2>2. EveryWriteKept' BY <1>1 DEF Read, EveryWriteKept
  <2>3. ConflictIsEarned' BY <1>1 DEF Read, ConflictIsEarned
  <2>4. WriterCurrent' BY <1>1 DEF Read, WriterCurrent
  <2> QED BY <2>1, <2>2, <2>3, <2>4
<1>2. ASSUME NEW r \in Submission, Insert(r) PROVE LockInv'
  <2>a. LockTypeOK'
    <3>1. CASE version # -1 /\ Finish(r, "error") /\ UNCHANGED writer
      BY <1>2, <3>1 DEF Insert
    <3>2. CASE writer' = r /\ Goto(r, "commit") /\ UNCHANGED answer
      BY <1>2, <3>2 DEF Insert
    <3> QED BY <1>2, <3>1, <3>2 DEF Insert
  <2>b. Known'
    <3>1. CASE version # -1 /\ Finish(r, "error") /\ UNCHANGED writer
      BY <1>2, <3>1 DEF Insert
    <3>2. CASE writer' = r /\ Goto(r, "commit") /\ UNCHANGED answer
      BY <1>2, <3>2 DEF Insert
    <3> QED BY <1>2, <3>1, <3>2 DEF Insert
  <2>1. LockTypeOK' /\ Known' BY <2>a, <2>b
  <2>2. EveryWriteKept' BY <1>2 DEF Insert, EveryWriteKept
  <2>3. ConflictIsEarned' BY <1>2 DEF Insert, ConflictIsEarned
  <2>4. WriterCurrent' BY <1>2 DEF Insert, WriterCurrent
  <2> QED BY <2>1, <2>2, <2>3, <2>4
<1>3. ASSUME NEW r \in Submission, Update(r) PROVE LockInv'
  <2> USE DEF Matches, LastAttempt
  <2>a. ~ LastAttempt(r) => attempt[r] + 1 \in 1 .. MaxRetries
    OBVIOUS
  <2>b. attempt' \in [Submission -> 1 .. MaxRetries]
    BY <1>3, <2>a DEF Update
  <2>c. pc' \in [Submission -> {"read", "insert", "update", "reload", "commit",
                                 "respond", "done"}]
        /\ answer' \in [Submission -> {"none", "created", "invalid", "conflict", "error"}]
        /\ writer' \in Submission \cup {None}
        /\ UNCHANGED <<version, log, seen, first>>
    BY <1>3 DEF Update
  <2>1. LockTypeOK' BY <2>b, <2>c
  <2>2. ASSUME NEW q \in Submission PROVE KnownAt(q)'
    <3>1. CASE q # r
      <4>1. pc'[q] = pc[q] /\ attempt'[q] = attempt[q] /\ answer'[q] = answer[q]
        BY <1>3, <3>1 DEF Update
      <4> QED BY <2>c, <4>1
    <3>2. CASE q = r
      BY <1>3, <2>c, <3>2 DEF Update
    <3> QED BY <3>1, <3>2
  <2>3. EveryWriteKept' BY <1>3 DEF Update, EveryWriteKept
  <2>4. ConflictIsEarned' BY <1>3 DEF Update, ConflictIsEarned
  <2>5. WriterCurrent' BY <1>3 DEF Update, WriterCurrent
  <2> QED BY <2>1, <2>2, <2>3, <2>4, <2>5
<1>4. ASSUME NEW r \in Submission, Reload(r) PROVE LockInv'
  <2>1. LockTypeOK' /\ Known' BY <1>4 DEF Reload, Reloaded
  <2>2. EveryWriteKept' BY <1>4 DEF Reload, EveryWriteKept
  <2>3. ConflictIsEarned' BY <1>4 DEF Reload, ConflictIsEarned
  <2>4. WriterCurrent' BY <1>4 DEF Reload, WriterCurrent
  <2> QED BY <2>1, <2>2, <2>3, <2>4
<1>5. ASSUME NEW r \in Submission, Commit(r) PROVE LockInv'
  <2>1. /\ seen[r] = version /\ version' = version + 1 /\ Len(log) = version + 1
        /\ pc[r] = "commit" /\ writer = r
        /\ \A q \in Submission : q # r => pc[q] # "commit"
    BY <1>5 DEF Commit, Written, WriterCurrent, EveryWriteKept
  <2>2. /\ log' \in Seq(Submission) /\ Len(log') = Len(log) + 1
        /\ log'[Len(log) + 1] = r
        /\ \A i \in 1 .. Len(log) : log'[i] = log[i]
    BY <1>5 DEF Commit
  <2>3. LockTypeOK' BY <1>5, <2>1, <2>2 DEF Commit
  <2>4. ASSUME NEW q \in Submission PROVE KnownAt(q)'
    <3>1. CASE q = r
      <4>1. pc'[q] = "respond" /\ seen'[q] = version /\ answer'[q] = "none"
        BY <1>5, <2>1, <3>1 DEF Commit
      <4> QED BY <2>1, <2>2, <3>1, <4>1
    <3>2. CASE q # r
      <4>1. /\ pc'[q] = pc[q] /\ seen'[q] = seen[q] /\ first'[q] = first[q]
            /\ attempt'[q] = attempt[q] /\ answer'[q] = answer[q]
        BY <1>5, <3>2 DEF Commit
      <4>2. seen[q] \in Int /\ first[q] \in Int /\ attempt[q] \in Int /\ version \in Int
        OBVIOUS
      <4>3. pc[q] = "respond" => log'[seen[q] + 2] = log[seen[q] + 2]
        <5>1. KnownAt(q)
          OBVIOUS
        <5>2. pc[q] = "respond" => seen[q] + 1 \in 0 .. version
          BY <5>1
        <5> HIDE DEF LockInv, KnownAt
        <5>3. pc[q] = "respond" => seen[q] + 2 \in 1 .. Len(log)
          BY <2>1, <4>2, <5>2
        <5> QED BY <2>2, <5>3
      <4> HIDE DEF LockTypeOK
      <4> QED BY <2>1, <4>1, <4>2, <4>3
    <3> QED BY <3>1, <3>2
  <2>5. EveryWriteKept'
    <3>1. ASSUME NEW q \in Submission, answer'[q] = "created"
          PROVE  seen'[q] + 1 \in 0 .. version' /\ log'[seen'[q] + 2] = q
      <4>1. answer[q] = "created" /\ seen'[q] = seen[q] /\ seen[q] \in Int
        BY <1>5, <3>1 DEF Commit
      <4>2. seen[q] + 1 \in 0 .. version /\ log[seen[q] + 2] = q
        BY <4>1 DEF EveryWriteKept
      <4>3. version \in Int
        OBVIOUS
      <4> HIDE DEF LockInv
      <4>4. seen[q] + 2 \in 1 .. Len(log)
        BY <2>1, <4>1, <4>2, <4>3
      <4> QED BY <2>1, <2>2, <4>1, <4>2, <4>3, <4>4
    <3>2. Len(log') = version' + 1
      BY <2>1, <2>2
    <3> QED BY <3>1, <3>2 DEF EveryWriteKept
  <2>6. ConflictIsEarned' BY <1>5, <2>1 DEF Commit, ConflictIsEarned
  <2>7. WriterCurrent' BY <1>5, <2>1 DEF Commit, WriterCurrent
  <2> QED BY <2>3, <2>4, <2>5, <2>6, <2>7
<1>6. ASSUME NEW r \in Submission, Respond(r) PROVE LockInv'
  <2>1. LockTypeOK' /\ Known' BY <1>6 DEF Respond
  <2>2. EveryWriteKept' BY <1>6 DEF Respond, EveryWriteKept
  <2>3. ConflictIsEarned' BY <1>6 DEF Respond, ConflictIsEarned
  <2>4. WriterCurrent' BY <1>6 DEF Respond, WriterCurrent
  <2> QED BY <2>1, <2>2, <2>3, <2>4
<1>7. ASSUME NEW r \in Submission, Fail(r) PROVE LockInv'
  <2> USE DEF WriterAfterFail
  <2>1. LockTypeOK' /\ Known' BY <1>7 DEF Fail
  <2>2. EveryWriteKept' BY <1>7 DEF Fail, EveryWriteKept
  <2>3. ConflictIsEarned' BY <1>7 DEF Fail, ConflictIsEarned
  <2>4. WriterCurrent' BY <1>7 DEF Fail, WriterCurrent
  <2> QED BY <2>1, <2>2, <2>3, <2>4
<1>8. ASSUME NEW r \in Submission, Reject(r) PROVE LockInv'
  <2>1. LockTypeOK' /\ Known' BY <1>8 DEF Reject
  <2> QED BY <1>8, <2>1 DEF Reject, EveryWriteKept, ConflictIsEarned, WriterCurrent
<1>9. CASE UNCHANGED vars
  BY <1>9 DEF vars, EveryWriteKept, ConflictIsEarned, WriterCurrent
<1> QED
  BY <1>1, <1>2, <1>3, <1>4, <1>5, <1>6, <1>7, <1>8, <1>9 DEF Next, Step, AllDone

-----------------------------------------------------------------------------
LEMMA GradedType ==
  ASSUME NEW r \in Submission, Valid(Score[r])
  PROVE  Graded(r) \in Grade
<1> DEFINE s == Score[r]
<1>1. s \in 0 .. 100
  BY DEF Valid
<1> HIDE DEF s
<1>2. Letter(s) \in {"A", "B", "C", "D", "F"}
  BY <1>1 DEF Letter
<1> QED BY <1>1, <1>2 DEF Graded, Grade, s

LEMMA HeldStep ==
  ASSUME LockInv, Held, LastWriteStands, [Next]_vars
  PROVE  Held' /\ LastWriteStands'
<1> USE DEF Held, LockInv, LockTypeOK, Goto, Finish
<1>1. ASSUME NEW r \in Submission, Reject(r) PROVE Held' /\ LastWriteStands'
  BY <1>1 DEF Reject, LastWriteStands
<1>2. ASSUME NEW r \in Submission, Read(r) PROVE Held' /\ LastWriteStands'
  <2>1. Graded(r) \in Grade
    BY <1>2, GradedType DEF Read
  <2> QED BY <1>2, <2>1 DEF Read, LastWriteStands
<1>3. ASSUME NEW r \in Submission, Insert(r) PROVE Held' /\ LastWriteStands'
  BY <1>3 DEF Insert, LastWriteStands
<1>4. ASSUME NEW r \in Submission, Update(r) PROVE Held' /\ LastWriteStands'
  <2>1. Graded(r) \in Grade
    BY <1>4, GradedType DEF Update
  <2> QED BY <1>4, <2>1 DEF Update, Rescored, LastWriteStands
<1>5. ASSUME NEW r \in Submission, Reload(r) PROVE Held' /\ LastWriteStands'
  BY <1>5 DEF Reload, LastWriteStands
<1>6. ASSUME NEW r \in Submission, Commit(r) PROVE Held' /\ LastWriteStands'
  <2>1. grade[r] = Graded(r) /\ version' = version + 1 /\ row' = grade[r]
    BY <1>6 DEF Commit, Written, WriterCurrent
  <2>2. log' = Append(log, r) /\ Len(log) = version + 1
    BY <1>6 DEF Commit, EveryWriteKept
  <2>3. log'[version' + 1] = r
    BY <2>1, <2>2
  <2>4. Held'
    BY <1>6, <2>1 DEF Commit
  <2>5. Graded(r)' = Graded(r)
    BY DEF Graded
  <2> QED BY <2>1, <2>3, <2>4, <2>5 DEF LastWriteStands, Graded
<1>7. ASSUME NEW r \in Submission, Respond(r) \/ Fail(r) PROVE Held' /\ LastWriteStands'
  BY <1>7 DEF Respond, Fail, LastWriteStands
<1>8. CASE UNCHANGED vars
  BY <1>8 DEF vars, LastWriteStands
<1> QED
  BY <1>1, <1>2, <1>3, <1>4, <1>5, <1>6, <1>7, <1>8 DEF Next, Step, AllDone

LEMMA GradesInvInit == Init => GradesInv
<1>1. Init => Held /\ LastWriteStands
  BY DEF Init, Held, LastWriteStands
<1> QED BY <1>1, LockInvInit DEF GradesInv

LEMMA GradesInvStep == GradesInv /\ [Next]_vars => GradesInv'
  BY LockInvStep, HeldStep DEF GradesInv

LEMMA GradesInvTypes == GradesInv => TypeOK
  BY DEF GradesInv, LockInv, LockTypeOK, Held, TypeOK

(* Types are kept in every reachable state.                                *)
THEOREM TypesSafe == Spec => []TypeOK
<1> QED
  BY GradesInvTypes, GradesInvInit, GradesInvStep, PTL DEF Spec

(* No committed correction is lost or shares its version with another:     *)
(* EveryWriteKept, for any number of submissions at once.                  *)
THEOREM WritesKept == Spec => []EveryWriteKept
<1>1. GradesInv => EveryWriteKept
  BY DEF GradesInv, LockInv
<1> QED
  BY <1>1, GradesInvInit, GradesInvStep, PTL DEF Spec

(* A transaction past its write is the only one, and wrote on top of the   *)
(* version still committed: WriterCurrent.                                 *)
THEOREM WritersAlone == Spec => []WriterCurrent
<1>1. GradesInv => WriterCurrent
  BY DEF GradesInv, LockInv
<1> QED
  BY <1>1, GradesInvInit, GradesInvStep, PTL DEF Spec

(* A 409 implies MaxRetries commits by others: ConflictIsEarned.           *)
THEOREM ConflictsEarned == Spec => []ConflictIsEarned
<1>1. GradesInv => ConflictIsEarned
  BY DEF GradesInv, LockInv
<1> QED
  BY <1>1, GradesInvInit, GradesInvStep, PTL DEF Spec

(* The committed grade is the score, and the letter of the score, of the   *)
(* submission that wrote its version: LastWriteStands.                     *)
THEOREM LastWritesStand == Spec => []LastWriteStands
<1>1. GradesInv => LastWriteStands
  BY DEF GradesInv
<1> QED
  BY <1>1, GradesInvInit, GradesInvStep, PTL DEF Spec

-----------------------------------------------------------------------------
(* The committed steps are Commit's and the answers; all others leave the  *)
(* grade book alone.                                                       *)
LEMMA BookStep == GradesInv /\ [Next]_vars => [Book!Next]_Book!book
<1> SUFFICES ASSUME GradesInv, [Next]_vars
             PROVE  [Book!Next]_Book!book
  OBVIOUS
<1> USE DEF GradesInv, LockInv, LockTypeOK, Goto, Finish
<1> DEFINE outcome == [r \in Submission |-> Outcome(r)]
<1>1. ASSUME NEW r \in Submission,
             UNCHANGED <<version, row>>,
             \A q \in Submission : Outcome(q)' = Outcome(q)
      PROVE  UNCHANGED Book!book
  BY <1>1 DEF Book!book
<1>2. ASSUME NEW r \in Submission, pc[r] # "done"
      PROVE  /\ answer[r] = "none"
             /\ Outcome(r) = IF pc[r] = "respond" THEN "written" ELSE "open"
  BY <1>2 DEF Known, KnownAt, Outcome
<1>3. ASSUME NEW r \in Submission, NEW a \in {"created", "invalid", "conflict", "error"},
             pc[r] # "done", Finish(r, a), UNCHANGED <<version, row>>,
             a = "created" => pc[r] = "respond",
             a \in {"invalid", "conflict"} => pc[r] # "respond"
      PROVE  Book!Next
  <2>1. outcome' = [outcome EXCEPT ![r] = IF a \in {"invalid", "conflict"} THEN "refused" ELSE a]
    BY <1>3 DEF Outcome
  <2>2. Book!Answer(r)
    BY <1>2, <1>3, <2>1 DEF Book!Answer, Book!Goes
  <2> QED BY <2>2 DEF Book!Next
<1>4. ASSUME NEW r \in Submission, Step(r) \/ Fail(r)
      PROVE  [Book!Next]_Book!book
  <2>1. CASE Commit(r)
    <3>1. /\ pc[r] = "commit" /\ version' = version + 1
          /\ row' = Graded(r) /\ UNCHANGED answer
      BY <2>1 DEF Commit, Written, WriterCurrent, Held
    <3>2. outcome' = [outcome EXCEPT ![r] = "written"]
      BY <1>2, <2>1, <3>1 DEF Commit, Outcome
    <3>3. Book!Write(r)
      BY <1>2, <3>1, <3>2 DEF Book!Write, Book!Goes
    <3> QED BY <3>3 DEF Book!Next
  <2>2. CASE Respond(r)
    BY <1>3, <2>2 DEF Respond
  <2>3. CASE Fail(r)
    BY <1>3, <2>3 DEF Fail
  <2>4. CASE Reject(r)
    BY <1>3, <2>4 DEF Reject
  <2>5. CASE Read(r) \/ Reload(r)
    BY <1>1, <2>5 DEF Read, Reload, Outcome
  <2>6. CASE Insert(r)
    <3>1. CASE Finish(r, "error")
      BY <1>3, <2>6, <3>1 DEF Insert
    <3>2. CASE Goto(r, "commit") /\ UNCHANGED answer
      BY <1>1, <2>6, <3>2 DEF Insert, Outcome
    <3> QED BY <2>6, <3>1, <3>2 DEF Insert
  <2>7. CASE Update(r)
    <3>1. CASE Finish(r, "conflict")
      BY <1>3, <2>7, <3>1 DEF Update
    <3>2. CASE (Goto(r, "commit") \/ Goto(r, "reload")) /\ UNCHANGED answer
      BY <1>1, <2>7, <3>2 DEF Update, Outcome
    <3> QED BY <2>7, <3>1, <3>2 DEF Update
  <2> QED BY <1>4, <2>1, <2>2, <2>3, <2>4, <2>5, <2>6, <2>7 DEF Step
<1>5. CASE UNCHANGED vars
  BY <1>5 DEF vars, Book!book, Outcome
<1> QED BY <1>4, <1>5 DEF Next, AllDone

(* The optimistic lock implements the atomic grade book, for any number of *)
(* submissions and attempts: ImplementsGradeBook.                          *)
THEOREM GradesAreABook == Spec => ImplementsGradeBook
<1>1. Init => Book!Init
  BY DEF Init, Book!Init, Outcome
<1> QED
  BY <1>1, GradesInvInit, GradesInvStep, BookStep, PTL DEF Spec, ImplementsGradeBook, Book!Spec
=============================================================================
