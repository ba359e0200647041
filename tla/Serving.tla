------------------------------- MODULE Serving -------------------------------
(***************************************************************************)
(* A writing request on its way: nginx hands it to a replica of the        *)
(* backend, and to the next one when that fails; a replica checks its      *)
(* token and runs its handler inside the middleware.  What the handler     *)
(* does in the tables is the business of other modules; here it commits    *)
(* once, or refuses, or raises.                                            *)
(*                                                                         *)
(* nginx passes on a request it has already sent only if its method is     *)
(* idempotent: "put" stands for PUT and DELETE.  The replica it gave up on *)
(* may still be working.                                                   *)
(***************************************************************************)
EXTENDS Sessions, FiniteSets

CONSTANTS
  Request,
  Replica,
  MaxFails      \* max_fails: failed tries that take a replica out of rotation

ASSUME MaxFailsPositive == MaxFails \in Nat \ {0}
ASSUME NoneIsNoReplica == None \notin Replica
ASSUME ReplicasFinite == IsFiniteSet(Replica)

VARIABLES
  kind,         \* request: "none", "post" or "put"
  token,        \* request: the token it carries, or None
  tried,        \* request: the replicas nginx has tried for it
  waiting,      \* request: the replica nginx waits for, or None
  answer,       \* request: "none", "ok", "refused" (4xx), "error" (500), "gateway" (502, 504)
  job,          \* request, replica: what the replica is doing with it
  effects,      \* request: how often it was committed
  up,           \* replica: running
  fails,        \* replica: failures nginx counts against it
  counted,      \* history: the replicas that counted a request in http_requests_total
  granted       \* history: the last minute a user was let in, or None

front == <<kind, token, tried, waiting, answer>>
back == <<job, effects, up, counted, granted>>
vars == <<sessions, front, back, fails>>

Token == [user : User, iat : 0 .. clock, type : {"access", "refresh"}]
Ended == {"ok", "refused", "error"}

TypeOK ==
  /\ SessionsTypeOK
  /\ kind \in [Request -> {"none", "post", "put"}]
  /\ token \in [Request -> Token \cup {None}]
  /\ tried \in [Request -> SUBSET Replica]
  /\ waiting \in [Request -> Replica \cup {None}]
  /\ answer \in [Request -> Ended \cup {"none", "gateway"}]
  /\ job \in [Request -> [Replica -> Ended \cup {"none", "arrived", "handling", "committed"}]]
  /\ effects \in [Request -> Nat]
  /\ up \in [Replica -> BOOLEAN]
  /\ fails \in [Replica -> 0 .. MaxFails]
  /\ counted \in [Request -> SUBSET Replica]
  /\ granted \in [User -> Time \cup {None}]

Init ==
  /\ SessionsInit
  /\ kind = [r \in Request |-> "none"]
  /\ token = [r \in Request |-> None]
  /\ tried = [r \in Request |-> {}]
  /\ waiting = [r \in Request |-> None]
  /\ answer = [r \in Request |-> "none"]
  /\ job = [r \in Request |-> [b \in Replica |-> "none"]]
  /\ effects = [r \in Request |-> 0]
  /\ up = [b \in Replica |-> TRUE]
  /\ fails = [b \in Replica |-> 0]
  /\ counted = [r \in Request |-> {}]
  /\ granted = [u \in User |-> None]

-----------------------------------------------------------------------------
(* The client.  A slot is used again once no replica works for it.         *)
Presentable == {None} \cup {[user |-> p.user, iat |-> p.iat, type |-> y] :
                              p \in pairs, y \in {"access", "refresh"}}

Send(r, k, t) ==
  /\ kind[r] = "none" \/ answer[r] # "none"
  /\ \A b \in Replica : job[r][b] = "none"
  /\ kind' = [kind EXCEPT ![r] = k]
  /\ token' = [token EXCEPT ![r] = t]
  /\ tried' = [tried EXCEPT ![r] = {}]
  /\ answer' = [answer EXCEPT ![r] = "none"]
  /\ effects' = [effects EXCEPT ![r] = 0]
  /\ counted' = [counted EXCEPT ![r] = {}]
  /\ UNCHANGED <<sessions, waiting, job, up, fails, granted>>

-----------------------------------------------------------------------------
(* nginx.  Its checks are passive: only tries that fail count, and a 500   *)
(* is no failure.                                                          *)
Eligible(r, b) == b \notin tried[r] /\ fails[b] < MaxFails
Choosing(r) == kind[r] # "none" /\ answer[r] = "none" /\ waiting[r] = None

Failed(b) == fails' = [fails EXCEPT ![b] = IF @ < MaxFails THEN @ + 1 ELSE @]

Connect(r, b) ==
  /\ Choosing(r) /\ Eligible(r, b)
  /\ tried' = [tried EXCEPT ![r] = @ \cup {b}]
  /\ \/ /\ up[b]
        /\ waiting' = [waiting EXCEPT ![r] = b]
        /\ job' = [job EXCEPT ![r][b] = "arrived"]
        /\ UNCHANGED fails
     \/ Failed(b) /\ UNCHANGED <<waiting, job>>
  /\ UNCHANGED <<sessions, kind, token, answer, effects, up, counted, granted>>

NoneLeft(r) ==
  /\ Choosing(r)
  /\ \A b \in Replica : ~ Eligible(r, b)
  /\ answer' = [answer EXCEPT ![r] = "gateway"]
  /\ UNCHANGED <<sessions, kind, token, tried, waiting, back, fails>>

Return(r, b) ==
  /\ waiting[r] = b
  /\ job[r][b] \in Ended
  /\ answer' = [answer EXCEPT ![r] = job[r][b]]
  /\ waiting' = [waiting EXCEPT ![r] = None]
  /\ job' = [job EXCEPT ![r][b] = "none"]
  /\ UNCHANGED <<sessions, kind, token, tried, effects, up, counted, granted, fails>>

PassedOnAlways(r) == answer                       \* mutant: proxy_next_upstream non_idempotent
PassedOn(r) == IF kind[r] = "post" THEN [answer EXCEPT ![r] = "gateway"] ELSE answer

(* The connection broke, or proxy_read_timeout ran out.                    *)
GiveUp(r, b) ==
  /\ waiting[r] = b
  /\ waiting' = [waiting EXCEPT ![r] = None]
  /\ answer' = PassedOn(r)
  /\ Failed(b)
  /\ UNCHANGED <<sessions, kind, token, tried, back>>

(* fail_timeout is over.                                                   *)
Readmit(b) ==
  /\ fails[b] > 0
  /\ fails' = [fails EXCEPT ![b] = 0]
  /\ UNCHANGED <<sessions, front, back>>

-----------------------------------------------------------------------------
(* A replica.                                                              *)
Becomes(r, b, j) == job' = [job EXCEPT ![r][b] = j]

CountsSuccess(r, b) ==                               \* mutant: a 4xx is not counted
  counted' = IF job'[r][b] = "ok" THEN [counted EXCEPT ![r] = @ \cup {b}] ELSE counted
Counts(r, b) == counted' = [counted EXCEPT ![r] = @ \cup {b}]

(* The dependencies run before the handler: 401 or 403, or the handler.    *)
Authorize(r, b) ==
  /\ job[r][b] = "arrived"
  /\ Authorized(token[r])
  /\ Becomes(r, b, "handling")
  /\ granted' = [granted EXCEPT ![token[r].user] = clock]
  /\ UNCHANGED <<sessions, front, fails, effects, up, counted>>

Reject(r, b) ==
  /\ job[r][b] = "arrived"
  /\ ~ Authorized(token[r])
  /\ Becomes(r, b, "refused")
  /\ Counts(r, b)
  /\ UNCHANGED <<sessions, front, fails, effects, up, granted>>

UndecidedTooLong(r, b) == job[r][b] \in {"handling", "committed"}   \* mutant: a 4xx after the commit
Undecided(r, b) == job[r][b] = "handling"

(* The handler: a 404, 409 or 422, or one commit and then the answer.      *)
Refuse(r, b) ==
  /\ Undecided(r, b)
  /\ Becomes(r, b, "refused")
  /\ Counts(r, b)
  /\ UNCHANGED <<sessions, front, fails, effects, up, granted>>

Commit(r, b) ==
  /\ job[r][b] = "handling"
  /\ Becomes(r, b, "committed")
  /\ effects' = [effects EXCEPT ![r] = @ + 1]
  /\ UNCHANGED <<sessions, front, fails, up, counted, granted>>

Complete(r, b) ==
  /\ job[r][b] = "committed"
  /\ Becomes(r, b, "ok")
  /\ Counts(r, b)
  /\ UNCHANGED <<sessions, front, fails, effects, up, granted>>

(* An exception passes both middlewares: logged, not counted, and a 500.   *)
Raise(r, b) ==
  /\ job[r][b] \in {"handling", "committed"}
  /\ Becomes(r, b, "error")
  /\ UNCHANGED <<sessions, front, fails, effects, up, counted, granted>>

(* The answer of a replica nginx no longer waits for.                      *)
Unheard(r, b) ==
  /\ job[r][b] \in Ended
  /\ waiting[r] # b
  /\ Becomes(r, b, "none")
  /\ UNCHANGED <<sessions, front, fails, effects, up, counted, granted>>

Crash(b) ==
  /\ up[b]
  /\ up' = [up EXCEPT ![b] = FALSE]
  /\ job' = [r \in Request |-> [job[r] EXCEPT ![b] = "none"]]
  /\ UNCHANGED <<sessions, front, fails, effects, counted, granted>>

Restart(b) ==
  /\ ~ up[b]
  /\ up' = [up EXCEPT ![b] = TRUE]
  /\ UNCHANGED <<sessions, front, fails, job, effects, counted, granted>>

-----------------------------------------------------------------------------
Nginx(r) == \/ NoneLeft(r)
            \/ \E b \in Replica : Connect(r, b) \/ Return(r, b) \/ GiveUp(r, b)

Work(r, b) == \/ Authorize(r, b) \/ Reject(r, b)
              \/ Refuse(r, b) \/ Commit(r, b) \/ Complete(r, b) \/ Raise(r, b)
              \/ Unheard(r, b)

Next == \/ SessionsNext /\ UNCHANGED <<front, back, fails>>
        \/ \E r \in Request :
             \/ \E k \in {"post", "put"}, t \in Presentable : Send(r, k, t)
             \/ Nginx(r)
             \/ \E b \in Replica : Work(r, b)
        \/ \E b \in Replica : Readmit(b) \/ Crash(b) \/ Restart(b)

Spec == Init /\ [][Next]_vars

-----------------------------------------------------------------------------
(* Properties                                                              *)

(* Nobody reads is_active between a refresh and the next: a deactivated    *)
(* user is let in for the rest of an access token's life, and no longer,   *)
(* on whatever replica and however often the request is sent again.        *)
CutOff == \A u \in User : off[u] # None /\ granted[u] # None =>
                            granted[u] <= off[u] + Patience + AccessMinutes

(* A POST is committed once however replicas fail; a PUT or DELETE at most *)
(* once by each replica it was passed to.                                  *)
NotRepeated == \A r \in Request :
  effects[r] <= IF kind[r] = "post" THEN 1 ELSE Cardinality(tried[r])

(* A 4xx says that nothing happened, unless nginx passed the request on:   *)
(* then the first replica may have done it, and the 404 or the 401 of an   *)
(* expired token comes from the second.                                    *)
RefusalIsTrue == \A r \in Request : answer[r] = "refused" =>
  effects[r] = 0 \/ (kind[r] = "put" /\ Cardinality(tried[r]) > 1)

(* http_requests_total has every answer but the 500s: each 2xx and 4xx a   *)
(* client got was counted, and a 500 by a replica that did not count it.   *)
MetricsSeeAnswers == \A r \in Request :
  /\ answer[r] \in {"ok", "refused"} => counted[r] # {}
  /\ answer[r] = "error" => counted[r] # tried[r]
=============================================================================
