------------------------------ MODULE Sessions ------------------------------
(***************************************************************************)
(* Login, refresh and the bearer check.  Tokens are signed, never stored:  *)
(* a login or a refresh reads the user, then issues a pair of an access    *)
(* and a refresh token; every other endpoint believes the access token     *)
(* until it expires and reads no user.                                     *)
(*                                                                         *)
(* A pair is named by its user and the minute it is stamped with.  User    *)
(* rows change from outside: User.deactivate has no caller.  Users who     *)
(* fail the password check, and those never registered, get nothing and    *)
(* are left out.                                                           *)
(***************************************************************************)
EXTENDS Integers

CONSTANTS
  User,
  Allowed,          \* the users whose role the endpoint asks for
  Desk,             \* logins and refreshes in flight
  AccessMinutes,
  RefreshMinutes,
  Patience,         \* how long one of them can take
  EndOfTime,        \* bound: the last minute looked at
  None

ASSUME TimesPositive ==
  /\ AccessMinutes \in Nat /\ RefreshMinutes \in Nat
  /\ Patience \in Nat /\ EndOfTime \in Nat
ASSUME NoneIsNobody == None \notin User /\ None \notin Int

VARIABLES
  clock,
  off,       \* when a user was deactivated, or None
  pairs,     \* the token pairs handed out and not wholly expired
  desk       \* a login or refresh past its read: [user, since], or None

sessions == <<clock, off, pairs, desk>>

Time == 0 .. EndOfTime

(* No token is ever stamped later than now: one that were would outlive    *)
(* its minutes.                                                            *)
Pair == [user : User, iat : 0 .. clock]

SessionsTypeOK ==
  /\ clock \in Time
  /\ off \in [User -> Time \cup {None}]
  /\ pairs \subseteq Pair
  /\ desk \in [Desk -> [user : User, since : Time] \cup {None}]

SessionsInit ==
  /\ clock = 0
  /\ off = [u \in User |-> None]
  /\ pairs = {}
  /\ desk = [d \in Desk |-> None]

-----------------------------------------------------------------------------
(* jose raises if exp < now: a token still counts in its last minute.      *)
Unexpired(iat, minutes) == clock <= iat + minutes

IsActive(u) == off[u] = None

(* login: the row is read, then the password verified, which takes time.   *)
Login(d, u) ==
  /\ desk[d] = None
  /\ IsActive(u)
  /\ desk' = [desk EXCEPT ![d] = [user |-> u, since |-> clock]]
  /\ UNCHANGED <<clock, off, pairs>>

(* refresh: decode, type, then the row.                                    *)
RefreshUnread(p) == Unexpired(p.iat, RefreshMinutes)      \* mutant: is_active not checked
Refreshable(p) == Unexpired(p.iat, RefreshMinutes) /\ IsActive(p.user)

Refresh(d, p) ==
  /\ desk[d] = None
  /\ Refreshable(p)
  /\ desk' = [desk EXCEPT ![d] = [user |-> p.user, since |-> clock]]
  /\ UNCHANGED <<clock, off, pairs>>

(* The token pair of either.  iat and exp are counted from the clock in    *)
(* UTC, as decode reads them.                                              *)
IssuedAtLocal == clock + 1               \* mutant: datetime.now() east of Greenwich, read as UTC
IssuedAt == clock

Issue(d) ==
  /\ desk[d] # None
  /\ pairs' = pairs \cup {[user |-> desk[d].user, iat |-> IssuedAt]}
  /\ desk' = [desk EXCEPT ![d] = None]
  /\ UNCHANGED <<clock, off>>

(* get_current_user and require_role.  The role was read at issue; no code *)
(* changes it.                                                             *)
Authentic(t) == t.type = "access" /\ Unexpired(t.iat, AccessMinutes)

Authorized(t) == t # None /\ Authentic(t) /\ t.user \in Allowed

Deactivate(u) ==
  /\ IsActive(u)
  /\ off' = [off EXCEPT ![u] = clock]
  /\ UNCHANGED <<clock, pairs, desk>>

(* A minute passes; nothing at a desk outlives Patience.                   *)
Tick ==
  /\ clock < EndOfTime
  /\ \A d \in Desk : desk[d] # None => clock < desk[d].since + Patience
  /\ clock' = clock + 1
  /\ pairs' = {p \in pairs : clock < p.iat + RefreshMinutes \/ clock < p.iat + AccessMinutes}
  /\ UNCHANGED <<off, desk>>

SessionsNext == \/ \E d \in Desk : \/ Issue(d)
                                   \/ \E u \in User : Login(d, u)
                                   \/ \E p \in pairs : Refresh(d, p)
                \/ \E u \in User : Deactivate(u)
                \/ Tick
=============================================================================
