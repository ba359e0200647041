--------------------------- MODULE ServingProofs ---------------------------
(***************************************************************************)
(* Safety of Serving for any users, replicas and requests, any lifetimes   *)
(* of tokens and any limits.                                               *)
(***************************************************************************)
EXTENDS Serving, FiniteSetTheorems, TLAPS

(* Whatever speaks for a user was made of a row read before the user was   *)
(* deactivated, at most Patience earlier.                                  *)
InTime(u, t) == t <= clock /\ (off[u] # None => t <= off[u] + Patience)

Signed ==
  /\ \A u \in User : off[u] # None => off[u] <= clock
  /\ \A u \in User : granted[u] # None => granted[u] <= clock
  /\ \A d \in Desk : desk[d] # None =>
       /\ desk[d].since <= clock /\ clock <= desk[d].since + Patience
       /\ off[desk[d].user] # None => desk[d].since <= off[desk[d].user]
  /\ \A p \in pairs : InTime(p.user, p.iat)
  /\ \A r \in Request : token[r] # None => InTime(token[r].user, token[r].iat)

(* Replicas that may still commit a request, or refused it.                *)
Open(r) == {b \in Replica : job[r][b] \in {"arrived", "handling", "refused"}}

Budget(r) == IF kind[r] = "post" THEN 1 ELSE Cardinality(tried[r])

Spending ==
  \A r \in Request :
    /\ effects[r] + Cardinality(Open(r))
         <= IF answer[r] = "refused" THEN Budget(r) - 1 ELSE Budget(r)
    /\ kind[r] = "post" /\ Choosing(r) => effects[r] = 0 /\ Open(r) = {}

Jobs ==
  \A r \in Request :
    /\ kind[r] = "none" => tried[r] = {} /\ answer[r] = "none"
    /\ waiting[r] # None => answer[r] = "none" /\ waiting[r] \in tried[r] /\ kind[r] # "none"
    /\ \A b \in Replica : job[r][b] # "none" => b \in tried[r]

Metrics ==
  \A r \in Request :
    /\ counted[r] \subseteq tried[r]
    /\ \A b \in Replica :
         /\ job[r][b] \in {"ok", "refused"} => b \in counted[r]
         /\ job[r][b] \in {"arrived", "handling", "committed", "error"} => b \notin counted[r]
    /\ answer[r] \in {"ok", "refused"} => counted[r] # {}
    /\ answer[r] = "error" => \E b \in tried[r] \ counted[r] : job[r][b] = "none"

IInv == TypeOK /\ Signed /\ CutOff /\ Jobs /\ Spending /\ Metrics

-----------------------------------------------------------------------------
(* Counting.                                                               *)
LEMMA Counted ==
  ASSUME NEW r
  PROVE  /\ IsFiniteSet(Open(r)) /\ Cardinality(Open(r)) \in Nat
         /\ \A S \in SUBSET Open(r) : IsFiniteSet(S) /\ Cardinality(S) \in Nat
                                      /\ Cardinality(S) <= Cardinality(Open(r))
         /\ \A b \in Open(r) : Cardinality(Open(r) \ {b}) = Cardinality(Open(r)) - 1
         /\ \A b : b \notin Open(r) => Cardinality(Open(r) \cup {b}) = Cardinality(Open(r)) + 1
<1>1. IsFiniteSet(Open(r))
  BY ReplicasFinite, FS_Subset DEF Open
<1> QED BY <1>1, FS_Subset, FS_CardinalityType, FS_RemoveElement, FS_AddElement

LEMMA TriedCounted ==
  ASSUME TypeOK, NEW r \in Request
  PROVE  /\ Cardinality(tried[r]) \in Nat
         /\ \A b \in Replica \ tried[r] : Cardinality(tried[r] \cup {b}) = Cardinality(tried[r]) + 1
<1>1. IsFiniteSet(tried[r])
  BY ReplicasFinite, FS_Subset DEF TypeOK
<1> QED BY <1>1, FS_CardinalityType, FS_AddElement

LEMMA NoneCounted == Cardinality({}) = 0
  BY FS_EmptySet

-----------------------------------------------------------------------------
LEMMA InitInvariant == Init => IInv
<1> SUFFICES ASSUME Init PROVE IInv
  OBVIOUS
<1>1. TypeOK
  BY TimesPositive, MaxFailsPositive
  DEF Init, SessionsInit, TypeOK, SessionsTypeOK, Time, Pair
<1>2. Signed /\ CutOff /\ Jobs /\ Metrics
  BY DEF Init, SessionsInit, Signed, CutOff, Jobs, Metrics
<1>3. \A r \in Request : Open(r) = {}
  BY DEF Init, Open
<1>4. \A r \in Request : effects[r] = 0 /\ answer[r] = "none" /\ kind[r] = "none" /\ tried[r] = {}
  BY DEF Init
<1>5. Spending
  BY <1>3, <1>4, NoneCounted DEF Spending, Budget
<1> QED BY <1>1, <1>2, <1>5 DEF IInv

-----------------------------------------------------------------------------
(* Types.                                                                  *)
LEMMA SessionsType ==
  ASSUME SessionsTypeOK, SessionsNext
  PROVE  SessionsTypeOK'
<1> USE TimesPositive, NoneIsNobody DEF SessionsTypeOK, Time, Pair
<1>1. ASSUME NEW d \in Desk, NEW u \in User, Login(d, u) PROVE SessionsTypeOK'
  BY <1>1 DEF Login
<1>2. ASSUME NEW d \in Desk, NEW p \in pairs, Refresh(d, p) PROVE SessionsTypeOK'
  BY <1>2 DEF Refresh
<1>3. ASSUME NEW d \in Desk, Issue(d) PROVE SessionsTypeOK'
  BY <1>3 DEF Issue, IssuedAt
<1>4. ASSUME NEW u \in User, Deactivate(u) PROVE SessionsTypeOK'
  BY <1>4 DEF Deactivate
<1>5. CASE Tick
  <2>1. clock' \in Time
    BY <1>5 DEF Tick
  <2>2. pairs' \subseteq pairs
    BY <1>5 DEF Tick
  <2> QED BY <1>5, <2>1, <2>2 DEF Tick
<1> QED BY <1>1, <1>2, <1>3, <1>4, <1>5 DEF SessionsNext

LEMMA PresentableType ==
  ASSUME SessionsTypeOK PROVE Presentable \subseteq Token \cup {None}
  BY DEF SessionsTypeOK, Presentable, Token, Pair

Doing == Ended \cup {"none", "arrived", "handling", "committed"}

LEMMA JobBecomes ==
  ASSUME TypeOK, NEW r \in Request, NEW b \in Replica, NEW j \in Doing, Becomes(r, b, j)
  PROVE  /\ job' \in [Request -> [Replica -> Doing]]
         /\ \A q \in Request, c \in Replica :
              job'[q][c] = IF q = r /\ c = b THEN j ELSE job[q][c]
  BY DEF TypeOK, Becomes, Doing

LEMMA CountedBecomes ==
  ASSUME TypeOK, NEW r \in Request, NEW b \in Replica, Counts(r, b)
  PROVE  /\ counted' \in [Request -> SUBSET Replica]
         /\ \A q \in Request : counted'[q] = IF q = r THEN counted[q] \cup {b} ELSE counted[q]
  BY DEF TypeOK, Counts

LEMMA TypeStep ==
  ASSUME TypeOK, [Next]_vars PROVE TypeOK'
<1> USE MaxFailsPositive DEF TypeOK
<1>1. CASE SessionsNext /\ UNCHANGED <<front, back, fails>>
  <2>1. clock \in Time /\ clock' \in Time /\ clock <= clock'
    BY <1>1, SessionsType, TimesPositive
    DEF SessionsTypeOK, SessionsNext, Login, Refresh, Issue, Deactivate, Tick, Time
  <2>2. Token \subseteq Token'
    BY <2>1 DEF Token, Time
  <2> QED BY <1>1, <2>2, SessionsType DEF front, back
<1>2. ASSUME NEW r \in Request, NEW k \in {"post", "put"}, NEW t \in Presentable, Send(r, k, t)
      PROVE  TypeOK'
  <2>1. t \in Token \cup {None}
    BY PresentableType
  <2> QED BY <1>2, <2>1 DEF Send, sessions, SessionsTypeOK, Token, Pair, Time
<1>3. ASSUME NEW r \in Request, NoneLeft(r) PROVE TypeOK'
  BY <1>3 DEF NoneLeft, sessions, SessionsTypeOK, back, Token, Time, Pair
<1>4. ASSUME NEW r \in Request, NEW b \in Replica, Connect(r, b) PROVE TypeOK'
  <2>1. tried' \in [Request -> SUBSET Replica] /\ fails' \in [Replica -> 0 .. MaxFails]
    BY <1>4 DEF Connect, Failed
  <2>2. waiting' \in [Request -> Replica \cup {None}]
    BY <1>4 DEF Connect
  <2>3. UNCHANGED job \/ Becomes(r, b, "arrived")
    BY <1>4 DEF Connect, Becomes
  <2>4. job' \in [Request -> [Replica -> Doing]]
    BY <2>3, JobBecomes DEF Doing
  <2> QED BY <1>4, <2>1, <2>2, <2>4 DEF Connect, sessions, SessionsTypeOK, Doing, Token, Pair, Time
<1>5. ASSUME NEW r \in Request, NEW b \in Replica, Return(r, b) PROVE TypeOK'
  BY <1>5 DEF Return, sessions, SessionsTypeOK, Token, Ended, Time, Pair
<1>6. ASSUME NEW r \in Request, NEW b \in Replica, GiveUp(r, b) PROVE TypeOK'
  BY <1>6 DEF GiveUp, PassedOn, Failed, sessions, SessionsTypeOK, back, Token, Time, Pair
<1>7. ASSUME NEW r \in Request, NEW b \in Replica, Authorize(r, b) PROVE TypeOK'
  <2>1. token[r] \in Token /\ clock \in Time
    BY <1>7 DEF Authorize, Authorized, SessionsTypeOK
  <2>2. token[r].user \in User
    BY <2>1 DEF Token
  <2>3. granted' \in [User -> Time \cup {None}]
    BY <1>7, <2>1, <2>2 DEF Authorize
  <2> QED BY <1>7, <2>3 DEF Authorize, Becomes, front, sessions, SessionsTypeOK, Token, Pair, Time
<1>8. ASSUME NEW r \in Request, NEW b \in Replica,
             Reject(r, b) \/ Refuse(r, b) \/ Complete(r, b) \/ Raise(r, b) \/ Unheard(r, b)
      PROVE  TypeOK'
  <2>1. job' \in [Request -> [Replica -> Doing]]
    BY <1>8, JobBecomes DEF Reject, Refuse, Complete, Raise, Unheard, Doing, Ended
  <2>2. counted' \in [Request -> SUBSET Replica]
    BY <1>8, CountedBecomes DEF Reject, Refuse, Complete, Raise, Unheard
  <2>3. UNCHANGED <<sessions, front, fails, effects, up, granted>>
    BY <1>8 DEF Reject, Refuse, Complete, Raise, Unheard
  <2> QED BY <2>1, <2>2, <2>3 DEF front, sessions, SessionsTypeOK, Doing, Token, Pair, Time
<1>9. ASSUME NEW r \in Request, NEW b \in Replica, Commit(r, b) PROVE TypeOK'
  BY <1>9 DEF Commit, Becomes, front, sessions, SessionsTypeOK, Token, Pair, Time
<1>10. ASSUME NEW b \in Replica, Readmit(b) \/ Crash(b) \/ Restart(b) PROVE TypeOK'
  <2>1. up' \in [Replica -> BOOLEAN] /\ fails' \in [Replica -> 0 .. MaxFails]
    <3>1. CASE Readmit(b)
      BY <3>1 DEF Readmit, back
    <3>2. CASE up' = [up EXCEPT ![b] = FALSE] /\ UNCHANGED fails
      BY <3>2
    <3>3. CASE Restart(b)
      BY <3>3 DEF Restart
    <3> QED BY <1>10, <3>1, <3>2, <3>3 DEF Crash
  <2>2. UNCHANGED <<sessions, front, effects, counted, granted>>
    BY <1>10 DEF Readmit, Crash, Restart, back
  <2>3. UNCHANGED job \/ job' = [r \in Request |-> [job[r] EXCEPT ![b] = "none"]]
    BY <1>10 DEF Readmit, Crash, Restart, back
  <2>4. \A r \in Request : [job[r] EXCEPT ![b] = "none"] \in [Replica -> Doing]
    BY DEF Doing
  <2>5. job' \in [Request -> [Replica -> Doing]]
    <3>1. CASE UNCHANGED job
      BY <3>1 DEF Doing
    <3>2. CASE job' = [r \in Request |-> [job[r] EXCEPT ![b] = "none"]]
      BY <2>4, <3>2
    <3> QED BY <2>3, <3>1, <3>2
  <2> QED BY <2>1, <2>2, <2>5 DEF front, sessions, SessionsTypeOK, Doing, Token, Pair, Time
<1>11. CASE UNCHANGED vars
  BY <1>11 DEF vars, front, back, sessions, SessionsTypeOK, Token, Pair, Time
<1> QED
  BY <1>1, <1>2, <1>3, <1>4, <1>5, <1>6, <1>7, <1>8, <1>9, <1>10, <1>11 DEF Next, Nginx, Work

-----------------------------------------------------------------------------
(* The time a user has left.                                               *)
LEMMA SessionsSign ==
  ASSUME TypeOK, Signed, CutOff, SessionsNext, UNCHANGED <<token, granted>>
  PROVE  Signed' /\ CutOff'
<1> USE TimesPositive, NoneIsNobody DEF TypeOK, SessionsTypeOK, Time, Pair, Token, InTime
<1>1. ASSUME NEW d \in Desk, NEW u \in User, Login(d, u) PROVE Signed' /\ CutOff'
  BY <1>1 DEF Login, IsActive, Signed, CutOff
<1>2. ASSUME NEW d \in Desk, NEW p \in pairs, Refresh(d, p) PROVE Signed' /\ CutOff'
  BY <1>2 DEF Refresh, Refreshable, IsActive, Signed, CutOff
<1>3. ASSUME NEW d \in Desk, Issue(d) PROVE Signed' /\ CutOff'
  BY <1>3 DEF Issue, IssuedAt, Signed, CutOff
<1>4. ASSUME NEW u \in User, Deactivate(u) PROVE Signed' /\ CutOff'
  <2>1. Signed'
    BY <1>4 DEF Deactivate, IsActive, Signed
  <2>2. CutOff'
    BY <1>4 DEF Deactivate, IsActive, Signed, CutOff
  <2> QED BY <2>1, <2>2
<1>5. CASE Tick
  <2>1. clock' = clock + 1 /\ UNCHANGED <<off, desk, token, granted>>
    BY <1>5 DEF Tick
  <2>2. pairs' \subseteq pairs
    BY <1>5 DEF Tick
  <2>3. \A d \in Desk : desk[d] # None => clock < desk[d].since + Patience
    BY <1>5 DEF Tick
  <2>4. Signed'
    BY <2>1, <2>2, <2>3 DEF Signed
  <2> QED BY <2>1, <2>4 DEF CutOff
<1> QED BY <1>1, <1>2, <1>3, <1>4, <1>5 DEF SessionsNext

LEMMA SignedStep ==
  ASSUME TypeOK, Signed, CutOff, [Next]_vars PROVE Signed' /\ CutOff'
<1>1. CASE SessionsNext /\ UNCHANGED <<front, back, fails>>
  BY <1>1, SessionsSign DEF front, back
<1>2. ASSUME NEW r \in Request, NEW k \in {"post", "put"}, NEW t \in Presentable, Send(r, k, t)
      PROVE  Signed' /\ CutOff'
  <2>1. t # None => InTime(t.user, t.iat)
    BY DEF Presentable, Signed
  <2>2. UNCHANGED <<clock, off, pairs, desk, granted>> /\ token' = [token EXCEPT ![r] = t]
    BY <1>2 DEF Send, sessions
  <2> QED BY <2>1, <2>2 DEF Signed, CutOff, InTime, TypeOK
<1>3. ASSUME NEW r \in Request, NEW b \in Replica, Authorize(r, b) PROVE Signed' /\ CutOff'
  <2>1. token[r] \in Token /\ token[r] # None /\ Authentic(token[r])
    BY <1>3 DEF Authorize, Authorized, TypeOK
  <2>2. /\ UNCHANGED <<clock, off, pairs, desk, token>>
        /\ granted' = [granted EXCEPT ![token[r].user] = clock]
    BY <1>3 DEF Authorize, sessions, front
  <2>3. \A u \in User : granted'[u] = IF u = token[r].user THEN clock ELSE granted[u]
    BY <2>2 DEF TypeOK
  <2>4. Signed'
    BY <2>2, <2>3 DEF Signed, InTime, TypeOK, SessionsTypeOK, Time
  <2>5. off[token[r].user] # None => clock <= off[token[r].user] + Patience + AccessMinutes
    <3>1. token[r].user \in User /\ token[r].iat \in Nat /\ clock \in Nat
      BY <2>1, TimesPositive DEF Token, Time, TypeOK, SessionsTypeOK
    <3>2. /\ clock <= token[r].iat + AccessMinutes
          /\ off[token[r].user] # None => token[r].iat <= off[token[r].user] + Patience
      BY <2>1 DEF Authentic, Unexpired, Signed, InTime
    <3>3. off[token[r].user] # None => off[token[r].user] \in Nat
      BY <3>1, TimesPositive DEF TypeOK, SessionsTypeOK, Time
    <3> QED BY <3>1, <3>2, <3>3, TimesPositive
  <2> QED BY <2>2, <2>3, <2>4, <2>5 DEF CutOff
<1>4. CASE UNCHANGED <<sessions, token, granted>>
  BY <1>4 DEF sessions, Signed, CutOff, InTime
<1>5. ASSUME NEW r \in Request, NoneLeft(r) PROVE UNCHANGED <<sessions, token, granted>>
  BY <1>5 DEF NoneLeft, back
<1>6. ASSUME NEW r \in Request, NEW b \in Replica, Connect(r, b) \/ Return(r, b) \/ GiveUp(r, b)
      PROVE  UNCHANGED <<sessions, token, granted>>
  BY <1>6 DEF Connect, Return, GiveUp, back
<1>7. ASSUME NEW r \in Request, NEW b \in Replica,
             Reject(r, b) \/ Refuse(r, b) \/ Commit(r, b) \/ Complete(r, b) \/ Raise(r, b)
               \/ Unheard(r, b)
      PROVE  UNCHANGED <<sessions, token, granted>>
  BY <1>7 DEF Reject, Refuse, Commit, Complete, Raise, Unheard, front
<1>8. ASSUME NEW b \in Replica, Readmit(b) \/ Crash(b) \/ Restart(b)
      PROVE  UNCHANGED <<sessions, token, granted>>
  BY <1>8 DEF Readmit, Crash, Restart, front, back
<1>9. CASE UNCHANGED vars
  BY <1>4, <1>9 DEF vars, front, back
<1> QED
  BY <1>1, <1>2, <1>3, <1>4, <1>5, <1>6, <1>7, <1>8, <1>9 DEF Next, Nginx, Work

-----------------------------------------------------------------------------
(* What a step of a request leaves alone: the state of the others.         *)
LEMMA JobsStep ==
  ASSUME TypeOK, Jobs, Metrics, [Next]_vars PROVE Jobs' /\ Metrics'
<1> USE NoneIsNoReplica DEF TypeOK, Ended
<1>1. CASE UNCHANGED <<front, job, counted>>
  BY <1>1 DEF front, Jobs, Metrics
<1>2. ASSUME NEW r \in Request, NEW k \in {"post", "put"}, NEW t \in Presentable, Send(r, k, t)
      PROVE  Jobs' /\ Metrics'
  BY <1>2 DEF Send, Jobs, Metrics
<1>3. ASSUME NEW r \in Request, NoneLeft(r) PROVE Jobs' /\ Metrics'
  BY <1>3 DEF NoneLeft, Choosing, back, Jobs, Metrics
<1>4. ASSUME NEW r \in Request, NEW b \in Replica, Connect(r, b) PROVE Jobs' /\ Metrics'
  <2>1. Jobs'
    BY <1>4 DEF Connect, Choosing, Jobs
  <2>2. b \notin counted[r] /\ job[r][b] = "none"
    BY <1>4 DEF Connect, Eligible, Jobs, Metrics
  <2>3. Metrics'
    BY <1>4, <2>2 DEF Connect, Choosing, Metrics
  <2> QED BY <2>1, <2>3
<1>5. ASSUME NEW r \in Request, NEW b \in Replica, Return(r, b) PROVE Jobs' /\ Metrics'
  <2>1. Jobs'
    BY <1>5 DEF Return, Jobs
  <2>2. Metrics'
    BY <1>5 DEF Return, Jobs, Metrics
  <2> QED BY <2>1, <2>2
<1>6. ASSUME NEW r \in Request, NEW b \in Replica, GiveUp(r, b) PROVE Jobs' /\ Metrics'
  BY <1>6 DEF GiveUp, PassedOn, back, Jobs, Metrics
<1>7. ASSUME NEW r \in Request, NEW b \in Replica,
             Reject(r, b) \/ Refuse(r, b) \/ Complete(r, b)
      PROVE  Jobs' /\ Metrics'
  <2>1. PICK j \in {"ok", "refused"} : Becomes(r, b, j)
    BY <1>7 DEF Reject, Refuse, Complete
  <2>2. Counts(r, b) /\ UNCHANGED front /\ job[r][b] \in {"arrived", "handling", "committed"}
    BY <1>7 DEF Reject, Refuse, Complete, Undecided
  <2>3. \A q \in Request, c \in Replica : job'[q][c] = IF q = r /\ c = b THEN j ELSE job[q][c]
    BY <2>1, JobBecomes DEF Doing
  <2>4. \A q \in Request : counted'[q] = IF q = r THEN counted[q] \cup {b} ELSE counted[q]
    BY <2>2, CountedBecomes
  <2>5. b \in tried[r] /\ b \notin counted[r]
    BY <2>2 DEF Jobs, Metrics
  <2>6. Jobs'
    BY <2>2, <2>3, <2>5 DEF Jobs, front
  <2>7. ASSUME NEW q \in Request, answer'[q] = "error"
        PROVE  \E c \in tried'[q] \ counted'[q] : job'[q][c] = "none"
    <3>1. PICK c \in tried[q] \ counted[q] : job[q][c] = "none"
      BY <2>7, <2>2 DEF Metrics, front
    <3>2. c \in Replica /\ tried'[q] = tried[q]
      BY <3>1, <2>2 DEF front
    <3>3. ~ (q = r /\ c = b)
      BY <2>2, <3>1
    <3>4. job'[q][c] = "none"
      BY <2>3, <3>1, <3>2, <3>3
    <3>5. c \notin counted'[q]
      BY <2>4, <3>1, <3>3
    <3> QED BY <3>1, <3>2, <3>4, <3>5
  <2>8. ASSUME NEW q \in Request
        PROVE  /\ counted'[q] \subseteq tried'[q]
               /\ \A c \in Replica :
                    /\ job'[q][c] \in {"ok", "refused"} => c \in counted'[q]
                    /\ job'[q][c] \in {"arrived", "handling", "committed", "error"}
                         => c \notin counted'[q]
               /\ answer'[q] \in {"ok", "refused"} => counted'[q] # {}
    <3>1. UNCHANGED <<tried, answer>>
      BY <2>2 DEF front
    <3>2. CASE q = r
      <4>1. counted'[q] = counted[q] \cup {b} /\ counted[q] \subseteq tried[q] /\ tried'[q] = tried[q]
        BY <2>4, <3>1, <3>2 DEF Metrics
      <4>2. ASSUME NEW c \in Replica
            PROVE  /\ job'[q][c] \in {"ok", "refused"} => c \in counted'[q]
                   /\ job'[q][c] \in {"arrived", "handling", "committed", "error"}
                        => c \notin counted'[q]
        <5>1. CASE c = b
          BY <2>1, <2>3, <3>2, <4>1, <5>1
        <5>2. CASE c # b
          BY <2>3, <4>1, <5>2 DEF Metrics
        <5> QED BY <5>1, <5>2
      <4> QED BY <2>5, <3>2, <4>1, <4>2
    <3>3. CASE q # r
      BY <2>3, <2>4, <3>1, <3>3 DEF Metrics
    <3> QED BY <3>2, <3>3
  <2>9. Metrics'
    BY <2>7, <2>8 DEF Metrics
  <2> QED BY <2>6, <2>9
<1>8. ASSUME NEW r \in Request, NEW b \in Replica,
             Authorize(r, b) \/ Commit(r, b) \/ Raise(r, b) \/ Unheard(r, b)
      PROVE  Jobs' /\ Metrics'
  <2>1. PICK j \in {"handling", "committed", "error", "none"} :
          /\ Becomes(r, b, j) /\ UNCHANGED <<front, counted>>
          /\ j = "none" \/ job[r][b] \in {"arrived", "handling", "committed"}
          /\ job[r][b] # "none"
    BY <1>8 DEF Authorize, Commit, Raise, Unheard
  <2>2. \A q \in Request, c \in Replica : job'[q][c] = IF q = r /\ c = b THEN j ELSE job[q][c]
    BY <2>1, JobBecomes DEF Doing
  <2>3. Jobs'
    BY <2>1, <2>2 DEF Jobs, front
  <2>4. ASSUME NEW q \in Request, answer'[q] = "error"
        PROVE  \E c \in tried'[q] \ counted'[q] : job'[q][c] = "none"
    <3>1. PICK c \in tried[q] \ counted[q] : job[q][c] = "none"
      BY <2>4, <2>1 DEF Metrics, front
    <3>2. job'[q][c] = "none" /\ c \notin counted'[q] /\ tried'[q] = tried[q]
      BY <3>1, <2>1, <2>2 DEF front
    <3> QED BY <3>1, <3>2
  <2>5. \A q \in Request :
          /\ counted'[q] \subseteq tried'[q]
          /\ \A c \in Replica :
               /\ job'[q][c] \in {"ok", "refused"} => c \in counted'[q]
               /\ job'[q][c] \in {"arrived", "handling", "committed", "error"} => c \notin counted'[q]
          /\ answer'[q] \in {"ok", "refused"} => counted'[q] # {}
    <3>1. b \in tried[r] /\ (j # "none" => b \notin counted[r])
      BY <2>1 DEF Jobs, Metrics
    <3> QED BY <2>1, <2>2, <3>1 DEF Metrics, front
  <2>6. Metrics'
    BY <2>4, <2>5 DEF Metrics
  <2> QED BY <2>3, <2>6
<1>9. ASSUME NEW b \in Replica, Crash(b) PROVE Jobs' /\ Metrics'
  BY <1>9 DEF Crash, front, Jobs, Metrics
<1>10. ASSUME NEW b \in Replica, Readmit(b) \/ Restart(b) PROVE UNCHANGED <<front, job, counted>>
  BY <1>10 DEF Readmit, Restart, back
<1>11. ASSUME (SessionsNext /\ UNCHANGED <<front, back, fails>>) \/ UNCHANGED vars
       PROVE  UNCHANGED <<front, job, counted>>
  BY <1>11 DEF vars, back
<1> QED
  BY <1>1, <1>2, <1>3, <1>4, <1>5, <1>6, <1>7, <1>8, <1>9, <1>10, <1>11 DEF Next, Nginx, Work

-----------------------------------------------------------------------------
(* The commits that are left.  A step concerns one request, and Account is *)
(* what Spending says of it.                                               *)
Account(r) ==
  /\ effects[r] + Cardinality(Open(r))
       <= IF answer[r] = "refused" THEN Budget(r) - 1 ELSE Budget(r)
  /\ kind[r] = "post" /\ Choosing(r) => effects[r] = 0 /\ Open(r) = {}

LEMMA AccountElse ==
  ASSUME NEW r, Account(r),
         UNCHANGED <<kind[r], tried[r], waiting[r], answer[r], job[r], effects[r]>>
  PROVE  Account(r)'
<1>1. Open(r)' = Open(r) /\ Budget(r)' = Budget(r) /\ Choosing(r)' = Choosing(r)
  BY DEF Open, Budget, Choosing
<1> QED BY <1>1 DEF Account

(* Nothing is opened, and nothing new is told.                             *)
LEMMA AccountLess ==
  ASSUME TypeOK, NEW r \in Request, Account(r), UNCHANGED <<kind[r], tried[r], waiting[r], answer[r]>>,
         effects'[r] = effects[r], Open(r)' \subseteq Open(r)
  PROVE  Account(r)'
<1>1. Budget(r)' = Budget(r) /\ Choosing(r)' = Choosing(r)
  BY DEF Budget, Choosing
<1>2. Budget(r) \in Nat
  BY TriedCounted DEF Budget
<1> QED BY <1>1, <1>2, Counted DEF Account, TypeOK

LEMMA SpendingStep ==
  ASSUME TypeOK, Jobs, Spending, [Next]_vars PROVE Spending'
<1> SUFFICES ASSUME NEW q \in Request PROVE Account(q)'
  BY DEF Spending, Account
<1>0. Account(q)
  BY DEF Spending, Account
<1>t. /\ effects[q] \in Nat /\ Cardinality(Open(q)) \in Nat /\ Cardinality(tried[q]) \in Nat
      /\ Budget(q) \in Nat
  BY Counted, TriedCounted DEF TypeOK, Budget
<1> USE NoneIsNoReplica
<1>1. ASSUME (SessionsNext /\ UNCHANGED <<front, back, fails>>) \/ UNCHANGED vars PROVE Account(q)'
  BY <1>0, <1>1, AccountElse DEF vars, front, back
<1>2. ASSUME NEW r \in Request, NEW k \in {"post", "put"}, NEW t \in Presentable, Send(r, k, t)
      PROVE  Account(q)'
  <2>1. CASE q # r
    BY <1>0, <1>2, <2>1, AccountElse DEF Send, TypeOK
  <2>2. CASE q = r
    <3>1. Open(q)' = {} /\ effects'[q] = 0 /\ answer'[q] = "none" /\ tried'[q] = {}
      BY <1>2, <2>2 DEF Send, Open, TypeOK
    <3>2. Budget(q)' \in Nat
      BY <3>1, NoneCounted DEF Budget
    <3> QED BY <3>1, <3>2, NoneCounted DEF Account
  <2> QED BY <2>1, <2>2
<1>3. ASSUME NEW r \in Request, NoneLeft(r) PROVE Account(q)'
  <2>1. CASE q # r
    BY <1>0, <1>3, <2>1, AccountElse DEF NoneLeft, TypeOK, back
  <2>2. CASE q = r
    <3>1. /\ Open(q)' = Open(q) /\ Budget(q)' = Budget(q) /\ effects'[q] = effects[q]
          /\ answer'[q] = "gateway" /\ answer[q] = "none"
      BY <1>3, <2>2 DEF NoneLeft, Choosing, Open, Budget, TypeOK, back
    <3> QED BY <1>0, <3>1 DEF Account, Choosing
  <2> QED BY <2>1, <2>2
<1>4. ASSUME NEW r \in Request, NEW b \in Replica, Connect(r, b) PROVE Account(q)'
  <2>1. CASE q # r
    BY <1>0, <1>4, <2>1, AccountElse DEF Connect, TypeOK
  <2>2. CASE q = r
    <3>1. /\ Choosing(q) /\ answer'[q] = "none" /\ kind'[q] = kind[q] /\ effects'[q] = effects[q]
          /\ tried'[q] = tried[q] \cup {b} /\ b \in Replica \ tried[q] /\ answer[q] = "none"
      BY <1>4, <2>2 DEF Connect, Eligible, Choosing, TypeOK
    <3>2. b \notin Open(q)
      BY <3>1 DEF Jobs, Open
    <3>3. Cardinality(tried'[q]) = Cardinality(tried[q]) + 1
      BY <3>1, TriedCounted
    <3>4. CASE waiting'[q] = b /\ Open(q)' = Open(q) \cup {b}
      <4>1. Cardinality(Open(q)') = Cardinality(Open(q)) + 1 /\ ~ Choosing(q)'
        BY <3>2, <3>4, Counted DEF Choosing
      <4>2. kind[q] = "post" => effects[q] = 0 /\ Cardinality(Open(q)) = 0
        BY <1>0, <3>1, NoneCounted DEF Account
      <4> QED BY <1>0, <1>t, <3>1, <3>3, <4>1, <4>2 DEF Account, Budget
    <3>5. CASE waiting'[q] = waiting[q] /\ Open(q)' = Open(q)
      <4>1. Choosing(q)' = Choosing(q)
        BY <3>1, <3>5 DEF Choosing
      <4> QED BY <1>0, <1>t, <3>1, <3>3, <3>5, <4>1 DEF Account, Budget
    <3>6. (waiting'[q] = b /\ Open(q)' = Open(q) \cup {b})
            \/ (waiting'[q] = waiting[q] /\ Open(q)' = Open(q))
      <4>1. CASE /\ waiting' = [waiting EXCEPT ![r] = b]
                 /\ job' = [job EXCEPT ![r][b] = "arrived"]
        BY <2>2, <4>1 DEF Open, TypeOK
      <4>2. CASE UNCHANGED <<waiting, job>>
        BY <4>2 DEF Open
      <4> QED BY <1>4, <4>1, <4>2 DEF Connect
    <3> QED BY <3>4, <3>5, <3>6
  <2> QED BY <2>1, <2>2
<1>5. ASSUME NEW r \in Request, NEW b \in Replica, Return(r, b) PROVE Account(q)'
  <2>1. CASE q # r
    BY <1>0, <1>5, <2>1, AccountElse DEF Return, TypeOK
  <2>2. CASE q = r
    <3>1. /\ answer'[q] = job[q][b] /\ answer[q] = "none" /\ job[q][b] \in Ended
          /\ effects'[q] = effects[q] /\ Budget(q)' = Budget(q)
      BY <1>5, <2>2 DEF Return, Budget, Jobs, TypeOK
    <3>2. Open(q)' = Open(q) \ {b}
      BY <1>5, <2>2 DEF Return, Open, TypeOK
    <3>3. ~ Choosing(q)'
      BY <3>1 DEF Choosing, Ended
    <3>4. CASE job[q][b] = "refused"
      <4>1. b \in Open(q)
        BY <3>4 DEF Open
      <4>2. Cardinality(Open(q)') = Cardinality(Open(q)) - 1
        BY <3>2, <4>1, Counted
      <4> QED BY <1>0, <1>t, <3>1, <3>3, <4>2 DEF Account
    <3>5. CASE job[q][b] # "refused"
      <4>1. Open(q)' = Open(q)
        BY <3>1, <3>2, <3>5 DEF Open, Ended
      <4> QED BY <1>0, <1>t, <3>1, <3>3, <3>5, <4>1 DEF Account
    <3> QED BY <3>4, <3>5
  <2> QED BY <2>1, <2>2
<1>6. ASSUME NEW r \in Request, NEW b \in Replica, GiveUp(r, b) PROVE Account(q)'
  <2>1. CASE q # r
    BY <1>0, <1>6, <2>1, AccountElse DEF GiveUp, PassedOn, TypeOK, back
  <2>2. CASE q = r
    <3>1. /\ Open(q)' = Open(q) /\ Budget(q)' = Budget(q) /\ effects'[q] = effects[q]
          /\ kind'[q] = kind[q] /\ answer[q] = "none"
          /\ answer'[q] = IF kind[q] = "post" THEN "gateway" ELSE "none"
      BY <1>6, <2>2 DEF GiveUp, PassedOn, Open, Budget, Jobs, TypeOK, back
    <3> QED BY <1>0, <3>1 DEF Account, Choosing
  <2> QED BY <2>1, <2>2
<1>7. ASSUME NEW r \in Request, NEW b \in Replica,
             \/ Authorize(r, b) \/ Reject(r, b) \/ Refuse(r, b)
             \/ Complete(r, b) \/ Raise(r, b) \/ Unheard(r, b)
      PROVE  Account(q)'
  <2>1. PICK j \in Doing :
          /\ Becomes(r, b, j) /\ UNCHANGED <<front, effects>>
          /\ j \in {"handling", "refused"} => job[r][b] \in {"arrived", "handling"}
          /\ j # "arrived"
    BY <1>7 DEF Authorize, Reject, Refuse, Complete, Raise, Unheard, Undecided, Doing, Ended
  <2>2. \A s \in Request, c \in Replica : job'[s][c] = IF s = r /\ c = b THEN j ELSE job[s][c]
    BY <2>1, JobBecomes
  <2>3. Open(q)' \subseteq Open(q)
    BY <2>1, <2>2 DEF Open
  <2> QED BY <1>0, <2>1, <2>3, AccountLess DEF front
<1>8. ASSUME NEW r \in Request, NEW b \in Replica, Commit(r, b) PROVE Account(q)'
  <2>1. CASE q # r
    BY <1>0, <1>8, <2>1, AccountElse DEF Commit, Becomes, front, TypeOK
  <2>2. CASE q = r
    <3>1. /\ effects'[q] = effects[q] + 1 /\ Open(q)' = Open(q) \ {b} /\ b \in Open(q)
          /\ UNCHANGED <<kind[q], tried[q], waiting[q], answer[q]>>
      BY <1>8, <2>2 DEF Commit, Becomes, Open, front, TypeOK
    <3>2. Cardinality(Open(q)') = Cardinality(Open(q)) - 1
      BY <3>1, Counted
    <3>3. Budget(q)' = Budget(q) /\ Choosing(q)' = Choosing(q)
      BY <3>1 DEF Budget, Choosing
    <3> QED BY <1>0, <1>t, <3>1, <3>2, <3>3 DEF Account
  <2> QED BY <2>1, <2>2
<1>9. ASSUME NEW b \in Replica, Readmit(b) \/ Crash(b) \/ Restart(b) PROVE Account(q)'
  <2>1. UNCHANGED <<front, effects>>
    BY <1>9 DEF Readmit, Crash, Restart, back
  <2>2. Open(q)' \subseteq Open(q)
    BY <1>9 DEF Readmit, Crash, Restart, back, Open, TypeOK
  <2> QED BY <1>0, <2>1, <2>2, AccountLess DEF front
<1> QED
  BY <1>1, <1>2, <1>3, <1>4, <1>5, <1>6, <1>7, <1>8, <1>9 DEF Next, Nginx, Work

-----------------------------------------------------------------------------
LEMMA Invariant == Spec => []IInv
<1>1. IInv /\ [Next]_vars => IInv'
  BY TypeStep, SignedStep, JobsStep, SpendingStep DEF IInv
<1> QED BY InitInvariant, <1>1, PTL DEF Spec

(* TypeOK: the states of a request, of its jobs and of the sessions.       *)
THEOREM TypesSafe == Spec => []TypeOK
<1>1. IInv => TypeOK
  BY DEF IInv
<1> QED BY Invariant, <1>1, PTL

(* CutOff: with tokens of any lifetimes, nobody is let in longer after     *)
(* being deactivated than an access token and a login in flight last.      *)
THEOREM DeactivatedAreCutOff == Spec => []CutOff
<1>1. IInv => CutOff
  BY DEF IInv
<1> QED BY Invariant, <1>1, PTL

(* NotRepeated: however replicas fail, a POST is committed at most once,   *)
(* and a PUT or DELETE at most once by each replica it was passed to.      *)
THEOREM PostsNotRepeated == Spec => []NotRepeated
<1>1. ASSUME IInv, NEW r \in Request PROVE effects[r] <= Budget(r)
  <2>1. /\ effects[r] \in Nat /\ Cardinality(Open(r)) \in Nat /\ Budget(r) \in Nat
    BY <1>1, Counted, TriedCounted DEF IInv, TypeOK, Budget
  <2> QED BY <1>1, <2>1 DEF IInv, Spending
<1>2. IInv => NotRepeated
  BY <1>1 DEF NotRepeated, Budget
<1> QED BY Invariant, <1>2, PTL

(* RefusalIsTrue: a 4xx means nothing was committed, except for a PUT or   *)
(* DELETE that went to more than one replica.                              *)
THEOREM RefusalsAreTrue == Spec => []RefusalIsTrue
<1>1. ASSUME IInv, NEW r \in Request, answer[r] = "refused"
      PROVE  effects[r] = 0 \/ (kind[r] = "put" /\ Cardinality(tried[r]) > 1)
  <2>1. /\ effects[r] \in Nat /\ Cardinality(Open(r)) \in Nat /\ Cardinality(tried[r]) \in Nat
    BY <1>1, Counted, TriedCounted DEF IInv, TypeOK
  <2>2. effects[r] + Cardinality(Open(r)) <= Budget(r) - 1
    BY <1>1 DEF IInv, Spending
  <2>3. kind[r] \in {"post", "put"}
    BY <1>1 DEF IInv, TypeOK, Jobs
  <2> QED BY <2>1, <2>2, <2>3 DEF Budget
<1>2. IInv => RefusalIsTrue
  BY <1>1 DEF RefusalIsTrue
<1> QED BY Invariant, <1>2, PTL

(* MetricsSeeAnswers: every 2xx and 4xx was counted, and of a 500 that was *)
(* answered some replica keeps no count.                                   *)
THEOREM MetricsAreComplete == Spec => []MetricsSeeAnswers
<1>1. IInv => MetricsSeeAnswers
  BY DEF IInv, Metrics, MetricsSeeAnswers
<1> QED BY Invariant, <1>1, PTL
=============================================================================
