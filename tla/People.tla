------------------------------- MODULE People -------------------------------
(***************************************************************************)
(* The tables with a unique email: students, teachers (both written by     *)
(* create, update and delete) and users (register only).  One table stands *)
(* for the three: their services and repositories do the same steps.       *)
(*                                                                         *)
(* A transaction checks the email with a SELECT, and the unique index      *)
(* checks it again at the flush.  In between others commit.  An UPDATE     *)
(* or DELETE holds its row to the end and then may wait for an email: two  *)
(* UPDATEs can wait for each other, and PostgreSQL aborts one.  Columns    *)
(* other than the email matter only in that an UPDATE may have them to     *)
(* write.  The list cache, cleared before the commit, is in ListCache.     *)
(***************************************************************************)
EXTENDS FiniteSets

CONSTANTS
  Person,            \* ids; create draws one that was never used
  Email,
  Request,           \* slots: a client sends the next request when one is answered
  Unborn, Gone,      \* in place of a row's email: not created yet, deleted
  None

ASSUME MarksApart == Unborn \notin Email /\ Gone \notin Email /\ Unborn # Gone
ASSUME NoneApart == None \notin Request \cup Person \cup Email

VARIABLES
  row,               \* committed: the email of each person
  lockedBy,          \* transaction with an uncommitted version of the row
  pending,           \* transaction with an uncommitted index entry for the email
  pc, kind,          \* request: step, and "create", "update" or "delete"
  pid, want,         \* request: the person and the email it is about
  seen,              \* request: the email of the row it read last
  answer,            \* "none", "ok", "missing" (404), "taken" (409), "error" or "lost" (500)
  raced,             \* history: another one entered its email in another row since its check
  touched            \* history: another one wrote its row since its last read

locks == <<lockedBy, pending>>
request == <<kind, pid, want>>
vars == <<row, locks, pc, request, seen, answer, raced, touched>>

Steps == {"load", "check", "reread", "flush", "index", "commit", "done"}

TypeOK ==
  /\ row \in [Person -> Email \cup {Unborn, Gone}]
  /\ lockedBy \in [Person -> Request \cup {None}]
  /\ pending \in [Email -> Request \cup {None}]
  /\ pc \in [Request -> Steps]
  /\ kind \in [Request -> {"create", "update", "delete", None}]
  /\ pid \in [Request -> Person \cup {None}]
  /\ want \in [Request -> Email \cup {None}]
  /\ seen \in [Request -> Email \cup {Unborn, Gone}]
  /\ answer \in [Request -> {"none", "ok", "missing", "taken", "error", "lost"}]
  /\ raced \in [Request -> BOOLEAN]
  /\ touched \in [Request -> BOOLEAN]

Init ==
  /\ row = [p \in Person |-> Unborn]
  /\ lockedBy = [p \in Person |-> None]
  /\ pending = [e \in Email |-> None]
  /\ pc = [r \in Request |-> "done"]
  /\ kind = [r \in Request |-> None]
  /\ pid = [r \in Request |-> None]
  /\ want = [r \in Request |-> None]
  /\ seen = [r \in Request |-> Unborn]
  /\ answer = [r \in Request |-> "none"]
  /\ raced = [r \in Request |-> FALSE]
  /\ touched = [r \in Request |-> FALSE]

-----------------------------------------------------------------------------
Goto(r, step) == pc' = [pc EXCEPT ![r] = step]

(* The session closes: its locks and index entries go with it.             *)
Release(r) ==
  /\ lockedBy' = [p \in Person |-> IF lockedBy[p] = r THEN None ELSE lockedBy[p]]
  /\ pending' = [e \in Email |-> IF pending[e] = r THEN None ELSE pending[e]]

(* What a request knew ends with it.                                       *)
Forget(r) ==
  /\ Goto(r, "done")
  /\ Release(r)
  /\ kind' = [kind EXCEPT ![r] = None]
  /\ pid' = [pid EXCEPT ![r] = None]
  /\ want' = [want EXCEPT ![r] = None]
  /\ seen' = [seen EXCEPT ![r] = Unborn]

(* An exception or a 4xx: rollback, answer.                                *)
Finish(r, a) ==
  /\ Forget(r)
  /\ answer' = [answer EXCEPT ![r] = a]
  /\ raced' = [raced EXCEPT ![r] = FALSE]
  /\ touched' = [touched EXCEPT ![r] = FALSE]
  /\ UNCHANGED row

Active(r) == pc[r] # "done"
Fresh(p) == row[p] = Unborn /\ \A s \in Request : Active(s) /\ kind[s] = "create" => pid[s] # p

Submit(r, k, p, e) ==
  /\ pc[r] = "done"
  /\ k = "create" => Fresh(p)
  /\ (k = "delete") = (e = None)
  /\ kind' = [kind EXCEPT ![r] = k]
  /\ pid' = [pid EXCEPT ![r] = p]
  /\ want' = [want EXCEPT ![r] = e]
  /\ answer' = [answer EXCEPT ![r] = "none"]
  /\ Goto(r, IF k = "create" THEN "check" ELSE "load")
  /\ UNCHANGED <<row, locks, seen, raced, touched>>

(* update and delete start with get(id).                                   *)
Load(r) ==
  /\ pc[r] = "load"
  /\ \/ row[pid[r]] \notin Email /\ Finish(r, "missing")
     \/ /\ row[pid[r]] \in Email
        /\ seen' = [seen EXCEPT ![r] = row[pid[r]]]
        /\ Goto(r, IF kind[r] = "update" THEN "check" ELSE "reread")
        /\ UNCHANGED <<row, locks, request, answer, raced, touched>>

NeverTaken(r) == FALSE                   \* mutant: no get_by_email before the write
Taken(r) == \E p \in Person \ {pid[r]} : row[p] = want[r]

Check(r) ==
  /\ pc[r] = "check"
  /\ \/ Taken(r) /\ Finish(r, "taken")
     \/ /\ ~ Taken(r)
        /\ Goto(r, IF kind[r] = "create" THEN "index" ELSE "reread")
        /\ UNCHANGED <<row, locks, request, seen, answer, raced, touched>>

ReloadedFromIdentityMap(r) == seen[r]    \* mutant: the first read is kept and reused
Reloaded(r) == row[pid[r]]

(* The repository's update and delete read the row again: the first read   *)
(* kept no reference to it.  If it is gone they return silently.  The ORM  *)
(* writes the columns that differ from this read: there may be none.       *)
Reread(r) ==
  /\ pc[r] = "reread"
  /\ seen' = [seen EXCEPT ![r] = Reloaded(r)]
  /\ touched' = [touched EXCEPT ![r] = FALSE]
  /\ \/ Reloaded(r) \notin Email /\ Goto(r, "commit")
     \/ Reloaded(r) = want[r] /\ kind[r] = "update" /\ Goto(r, "commit")
     \/ Reloaded(r) \in Email /\ Goto(r, "flush")
  /\ UNCHANGED <<row, locks, request, answer, raced>>

(* The UPDATE changes the email, and with it the index.                    *)
Renames(r) == kind[r] = "update" /\ seen[r] \in Email /\ seen[r] # want[r]

(* UPDATE or DELETE ... WHERE id: waits for the row.  An UPDATE that finds *)
(* no row raises StaleDataError; a DELETE only warns.                      *)
Flush(r) ==
  /\ pc[r] = "flush"
  /\ lockedBy[pid[r]] = None
  /\ \/ row[pid[r]] \notin Email /\ kind[r] = "update" /\ Finish(r, "error")
     \/ /\ row[pid[r]] \notin Email /\ kind[r] = "delete"
        /\ Goto(r, "commit")
        /\ UNCHANGED <<row, locks, request, seen, answer, raced, touched>>
     \/ /\ row[pid[r]] \in Email
        /\ lockedBy' = [lockedBy EXCEPT ![pid[r]] = r]
        /\ Goto(r, IF Renames(r) THEN "index" ELSE "commit")
        /\ UNCHANGED <<row, pending, request, seen, answer, raced, touched>>

(* Those whose outcome decides whether the email is free.                  *)
Deciders(r) == ({pending[want[r]]}
                 \cup {lockedBy[p] : p \in {q \in Person : row[q] = want[r]}}) \ {None, r}

UniqueNever(r) == TRUE                   \* mutant: email without a unique constraint
Unique(r) == \A p \in Person \ {pid[r]} : row[p] # want[r]

(* The INSERT, or the UPDATE once it has its row, enters its email.        *)
Index(r) ==
  /\ pc[r] = "index"
  /\ Deciders(r) = {}
  /\ \/ ~ Unique(r) /\ Finish(r, "error")
     \/ /\ Unique(r)
        /\ pending' = [pending EXCEPT ![want[r]] = r]
        /\ Goto(r, "commit")
        /\ UNCHANGED <<row, lockedBy, request, seen, answer, raced, touched>>

(* PostgreSQL aborts a transaction that waits in a circle.                 *)
Waiting(r) == pc[r] = "index" /\ Deciders(r) # {}
InCircle(r) ==
  \E S \in SUBSET {s \in Request : Waiting(s)} :
    /\ r \in S
    /\ \A s \in S : (\E t \in S : t \in Deciders(s)) /\ (\E t \in S : s \in Deciders(t))

Abort(r) == InCircle(r) /\ Finish(r, "error")

-----------------------------------------------------------------------------
Nulled(r) ==                             \* mutant: delete empties the email
  IF kind[r] = "create" \/ Renames(r) THEN want[r]
  ELSE IF kind[r] = "delete" THEN None ELSE row[pid[r]]
Upserted(r) == IF kind[r] = "delete" THEN Gone ELSE want[r]   \* mutant: merge() for a row not found
Stored(r) ==
  IF kind[r] = "create" \/ Renames(r) THEN want[r]
  ELSE IF kind[r] = "delete" THEN Gone ELSE row[pid[r]]

PastCheck(r) == kind[r] # "delete" /\ pc[r] \in {"reread", "flush", "index", "commit"}
PastRead(r) == pc[r] \in {"flush", "index", "commit"}

(* What the commit of r does to what others have read.                     *)
TakesEmail(r, s) == pid[r] # pid[s] /\ Stored(r) = want[s] /\ row[pid[r]] # want[s]
WritesRow(r, s) == pid[r] = pid[s]

(* session.commit(); the response may be lost after it.                    *)
Commit(r) ==
  /\ pc[r] = "commit"
  /\ row' = [row EXCEPT ![pid[r]] = Stored(r)]
  /\ Forget(r)
  /\ raced' = [s \in Request |-> s # r /\ (raced[s] \/ (PastCheck(s) /\ TakesEmail(r, s)))]
  /\ touched' = [s \in Request |-> s # r /\ (touched[s] \/ (PastRead(s) /\ WritesRow(r, s)))]
  /\ \E a \in {"ok", "lost"} : answer' = [answer EXCEPT ![r] = a]

(* Redis, the connection or the process fails before the commit.           *)
Fail(r) == Active(r) /\ Finish(r, "lost")

Step(r) == \/ Load(r) \/ Check(r) \/ Reread(r) \/ Flush(r) \/ Index(r) \/ Abort(r)
           \/ Commit(r)

Send(r) == \E k \in {"create", "update", "delete"}, p \in Person, e \in Email \cup {None} :
             Submit(r, k, p, e)

Next == \E r \in Request : Send(r) \/ Step(r) \/ Fail(r)

Spec == Init /\ [][Next]_vars

-----------------------------------------------------------------------------
(* Properties                                                              *)

(* No two rows ever have one email, whoever checked what when: the SELECT  *)
(* before the write is not what ensures it.                                *)
EmailsUnique ==
  \A p, q \in Person : p # q /\ row[p] \in Email => row[p] # row[q]

(* Whoever waits waits for a transaction that still runs: a locked row is  *)
(* that of a request past its UPDATE or DELETE, an entered email that of   *)
(* one about to commit.                                                    *)
LocksOwned ==
  /\ \A p \in Person : lockedBy[p] # None =>
       pid[lockedBy[p]] = p /\ pc[lockedBy[p]] \in {"index", "commit"}
  /\ \A e \in Email : pending[e] # None =>
       want[pending[e]] = e /\ pc[pending[e]] = "commit"

(* A 500 has a rival behind it that wrote just what the request had read:  *)
(* a PUT that finds no row had it deleted after its second read; an email  *)
(* the index refuses, or a deadlock, had it entered in another row after   *)
(* the check.  A sequential client gets 404 or 409.                        *)
ErrorIsRaced ==
  [][\A r \in Request : answer[r] = "none" /\ answer'[r] = "error" =>
       IF pc[r] = "flush" THEN touched[r] ELSE raced[r]]_vars

(* A PUT that found its student when it read the row again, and whose row  *)
(* nobody wrote since, stores the email it answers with.                   *)
PutIsStored ==
  [][\A r \in Request :
       Commit(r) /\ kind[r] = "update" /\ seen[r] \in Email /\ ~ touched[r]
         => row'[pid[r]] = want[r]]_vars

(* Nothing brings a deleted row back, however late its PUT commits.        *)
GoneForGood == [][\A p \in Person : row[p] = Gone => row'[p] = Gone]_vars
=============================================================================
