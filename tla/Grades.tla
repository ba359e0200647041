------------------------------- MODULE Grades -------------------------------
(***************************************************************************)
(* POST /grades for one (student, course) pair: GradeService.submit with   *)
(* its optimistic lock.  No statement of it touches a second grades row,   *)
(* so one pair stands for all.                                             *)
(*                                                                         *)
(* A Submission is one request; a client's retry is another one.  version  *)
(* and row are what is committed, writer the transaction whose INSERT or   *)
(* UPDATE of the row is not: another INSERT (unique index) or UPDATE (row  *)
(* lock) waits for it.  log is history: which submission committed each    *)
(* version.  Scores are whole numbers: letters change at whole ones.       *)
(***************************************************************************)
EXTENDS Integers, Sequences

CONSTANTS Submission, Score, MaxRetries, None

ASSUME ScoresAreNumbers == Score \in [Submission -> Int]
ASSUME RetriesPositive == MaxRetries \in Nat \ {0}
ASSUME NoneIsNoSubmission == None \notin Submission

VARIABLES
  version,   \* of the committed row, -1 while there is none
  row,       \* its score and letter, or None
  log,       \* log[v + 1] is the submission that wrote version v
  writer,    \* the transaction with an uncommitted write of the row
  pc, seen, attempt,   \* a submission: step, version it loaded, attempt
  grade,     \* the Grade object of a submission, or None
  first,     \* history: the version its first read returned
  answer     \* "none", "created", "invalid" (422), "conflict" (409), "error" (500)

vars == <<version, row, log, writer, pc, seen, attempt, grade, first, answer>>

(* Grade.create, Grade.update_score                                        *)
Letter(s) == CASE s >= 90 -> "A"
               [] s \in 80 .. 89 -> "B"
               [] s \in 70 .. 79 -> "C"
               [] s \in 60 .. 69 -> "D"
               [] s < 60 -> "F"

Valid(s) == s \in 0 .. 100
Grade == [score : 0 .. 100, letter : {"A", "B", "C", "D", "F"}]
Graded(r) == [score |-> Score[r], letter |-> Letter(Score[r])]

TypeOK ==
  /\ row \in Grade \cup {None}
  /\ grade \in [Submission -> Grade \cup {None}]
  /\ version \in Int /\ version >= -1
  /\ log \in Seq(Submission)
  /\ writer \in Submission \cup {None}
  /\ pc \in [Submission -> {"read", "insert", "update", "reload", "commit",
                            "respond", "done"}]
  /\ seen \in [Submission -> Int] /\ first \in [Submission -> Int]
  /\ attempt \in [Submission -> 1 .. MaxRetries]
  /\ answer \in [Submission -> {"none", "created", "invalid", "conflict", "error"}]

Init ==
  /\ version = -1
  /\ row = None
  /\ log = <<>>
  /\ writer = None
  /\ pc = [r \in Submission |-> "read"]
  /\ seen = [r \in Submission |-> -1]
  /\ first = [r \in Submission |-> -1]
  /\ grade = [r \in Submission |-> None]
  /\ attempt = [r \in Submission |-> 1]
  /\ answer = [r \in Submission |-> "none"]

-----------------------------------------------------------------------------
Goto(r, step) == pc' = [pc EXCEPT ![r] = step]

Finish(r, a) == Goto(r, "done") /\ answer' = [answer EXCEPT ![r] = a]

(* The request's schema, and the entity again, refuse any other score.     *)
Reject(r) ==
  /\ pc[r] = "read"
  /\ ~ Valid(Score[r])
  /\ Finish(r, "invalid")
  /\ UNCHANGED <<version, row, log, writer, seen, attempt, grade, first>>

(* get_for_student_course: insert when there is no row, update otherwise.  *)
Read(r) ==
  /\ pc[r] = "read"
  /\ Valid(Score[r])
  /\ grade' = [grade EXCEPT ![r] = IF version = -1 THEN Graded(r) ELSE row]
  /\ seen' = [seen EXCEPT ![r] = version]
  /\ first' = [first EXCEPT ![r] = version]
  /\ Goto(r, IF version = -1 THEN "insert" ELSE "update")
  /\ UNCHANGED <<version, row, log, writer, attempt, answer>>

(* add() only registers the row; session.commit() flushes the INSERT.  A   *)
(* second one for the pair violates uq_grade_student_course: a 500.        *)
Insert(r) ==
  /\ pc[r] = "insert"
  /\ writer = None
  /\ \/ /\ version # -1
        /\ Finish(r, "error")
        /\ UNCHANGED writer
     \/ /\ version = -1
        /\ writer' = r
        /\ Goto(r, "commit")
        /\ UNCHANGED answer
  /\ UNCHANGED <<version, row, log, seen, attempt, grade, first>>

RescoredOnce(r) ==                       \* mutant: update_score before the loop
  IF attempt[r] = 1 THEN Graded(r) ELSE grade[r]
Rescored(r) == Graded(r)

MatchesAlways(r) == TRUE                 \* mutant: no AND version = ? in WHERE
Matches(r) == version = seen[r]          \* WHERE id = ? AND version = ?

LastAttemptNever(r) == FALSE             \* mutant: retries without end
LastAttempt(r) == attempt[r] = MaxRetries

(* update_score, then the UPDATE: it waits for another writer, and matches *)
(* one row or none.                                                        *)
Update(r) ==
  /\ pc[r] = "update"
  /\ writer = None
  /\ grade' = [grade EXCEPT ![r] = Rescored(r)]
  /\ \/ /\ Matches(r)
        /\ writer' = r
        /\ Goto(r, "commit")
        /\ UNCHANGED <<attempt, answer>>
     \/ /\ ~ Matches(r) /\ LastAttempt(r)
        /\ Finish(r, "conflict")
        /\ UNCHANGED <<writer, attempt>>
     \/ /\ ~ Matches(r) /\ ~ LastAttempt(r)
        /\ attempt' = [attempt EXCEPT ![r] = attempt[r] + 1]
        /\ Goto(r, "reload")
        /\ UNCHANGED <<writer, answer>>
  /\ UNCHANGED <<version, row, log, seen, first>>

ReloadedFromIdentityMap(r) == seen[r]    \* mutant: no populate_existing
Reloaded(r) == version

(* get() with populate_existing re-reads the row.  No code deletes grades, *)
(* so it is never gone.                                                    *)
Reload(r) ==
  /\ pc[r] = "reload"
  /\ seen' = [seen EXCEPT ![r] = Reloaded(r)]
  /\ grade' = [grade EXCEPT ![r] = row]
  /\ Goto(r, "update")
  /\ UNCHANGED <<version, row, log, writer, attempt, first, answer>>

Written(r) == seen[r] + 1

Commit(r) ==
  /\ pc[r] = "commit"
  /\ version' = Written(r)
  /\ row' = grade[r]
  /\ log' = Append(log, r)
  /\ writer' = None
  /\ Goto(r, "respond")
  /\ UNCHANGED <<seen, attempt, grade, first, answer>>

(* The 201 carries grade[r] and version seen[r] + 1.                       *)
Respond(r) ==
  /\ pc[r] = "respond"
  /\ Finish(r, "created")
  /\ UNCHANGED <<version, row, log, writer, seen, attempt, grade, first>>

WriterLeft(r) == writer                  \* mutant: the rollback is forgotten
WriterAfterFail(r) == IF writer = r THEN None ELSE writer

(* Process, connection or database lost at any point; rollback if not yet  *)
(* committed, silence if committed.                                        *)
Fail(r) ==
  /\ pc[r] # "done"
  /\ Finish(r, "error")
  /\ writer' = WriterAfterFail(r)
  /\ UNCHANGED <<version, row, log, seen, attempt, grade, first>>

Step(r) == Reject(r) \/ Read(r) \/ Insert(r) \/ Update(r) \/ Reload(r) \/ Commit(r) \/ Respond(r)

(* Every submission has been answered.                                     *)
AllDone == (\A r \in Submission : pc[r] = "done") /\ UNCHANGED vars

Next == (\E r \in Submission : Step(r) \/ Fail(r)) \/ AllDone

Spec == Init /\ [][Next]_vars

(* The server runs what it accepted; only finitely many others can get     *)
(* ahead of a waiting submission, so weak fairness is enough.              *)
FairSpec == Spec /\ \A r \in Submission : WF_vars(Step(r))

-----------------------------------------------------------------------------
(* Properties                                                              *)

(* No update is lost: the row's version counts every commit, and each      *)
(* answered submission is the one, and the only one, that wrote the        *)
(* version its response carries.                                           *)
EveryWriteKept ==
  /\ Len(log) = version + 1
  /\ \A r \in Submission : answer[r] = "created" =>
       /\ seen[r] + 1 \in 0 .. version
       /\ log[seen[r] + 2] = r

(* A 409 is earned: at least MaxRetries other commits came between the     *)
(* first read and the answer, so a quiet grade never conflicts.            *)
ConflictIsEarned ==
  \A r \in Submission : answer[r] = "conflict" => version >= first[r] + MaxRetries

(* At most one transaction is past its write, and it wrote on top of the   *)
(* version still committed.                                                *)
WriterCurrent ==
  \A r \in Submission : pc[r] = "commit" => writer = r /\ seen[r] = version

(* The committed grade, its letter included, is the one asked for by the   *)
(* submission that wrote its version, after however many reloads.          *)
LastWriteStands == version >= 0 => row = Graded(log[version + 1])

(* What a submission has come to: a 409 or a 422 is a promise that nothing *)
(* of it is stored.                                                        *)
Outcome(r) == CASE answer[r] \in {"created", "error"} -> answer[r]
                [] answer[r] \in {"invalid", "conflict"} -> "refused"
                [] answer[r] = "none" -> IF pc[r] = "respond" THEN "written" ELSE "open"

Book == INSTANCE GradeBook WITH Asked <- [r \in Submission |-> Graded(r)],
                               stored <- row,
                               outcome <- [r \in Submission |-> Outcome(r)]

(* Read, check, reload and commit of any number of submissions together    *)
(* are one atomic write each: a new version on top of the committed one,   *)
(* once for whoever is told 201, never for whoever is refused.             *)
ImplementsGradeBook == Book!Spec

(* Every submission is answered, whatever conflicts it meets.              *)
SubmissionsAnswered == \A r \in Submission : <>(pc[r] = "done")
=============================================================================
