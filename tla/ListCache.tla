----------------------------- MODULE ListCache -----------------------------
(***************************************************************************)
(* The cached list pages of courses (students and teachers are cached the  *)
(* same way, without the enrollment).  The table is a version number that  *)
(* every commit increases; a page is the two versions its two queries saw. *)
(*                                                                         *)
(* Two write paths invalidate in opposite order.  The service's create,    *)
(* update, deactivate and delete clear the cache before their router       *)
(* commits; the enrollment router commits, then clears.  Clearing is a     *)
(* SCAN with one DELETE per key, so it takes many steps.                   *)
(***************************************************************************)
EXTENDS Naturals

CONSTANTS
  Page,          \* cache keys: offset, limit and search
  Reader,        \* list requests, each sent again and again
  ServiceWrite,  \* writes that go through the service
  EnrollWrite,   \* enrollments
  None

Write == ServiceWrite \cup EnrollWrite
ASSUME WritesApart == ServiceWrite \cap EnrollWrite = {}
ASSUME NoneApart == None \notin Page

VARIABLES
  version,       \* of the committed table
  cache,         \* page -> [items, total], the versions cached, or None
  reading,       \* reader: the page it lists, or None
  at,            \* reader: step
  items, total,  \* reader: what its queries returned
  pc,            \* write: step
  keys,          \* write: keys its SCAN has still to delete
  clean          \* history: the cached page raced with no write (see Fill)

readers == <<reading, at, items, total>>
vars == <<version, cache, readers, pc, keys, clean>>

Versions == [items : Nat, total : Nat]

Init ==
  /\ version = 0
  /\ cache = [p \in Page |-> None]
  /\ reading = [r \in Reader |-> None]
  /\ at = [r \in Reader |-> "get"]
  /\ items = [r \in Reader |-> 0]
  /\ total = [r \in Reader |-> 0]
  /\ pc = [w \in Write |-> "write"]
  /\ keys = [w \in Write |-> {}]
  /\ clean = [p \in Page |-> TRUE]

TypeOK ==
  /\ version \in Nat
  /\ cache \in [Page -> Versions \cup {None}]
  /\ reading \in [Reader -> Page \cup {None}]
  /\ at \in [Reader -> {"get", "list", "count", "set"}]
  /\ items \in [Reader -> Nat] /\ total \in [Reader -> Nat]
  /\ pc \in [Write -> {"write", "scan", "delete", "commit", "done"}]
  /\ keys \in [Write -> SUBSET Page]
  /\ clean \in [Page -> BOOLEAN]

-----------------------------------------------------------------------------
(* GET /courses: cached() around two queries, each with a snapshot of its  *)
(* own (READ COMMITTED).  A hit answers and changes nothing.               *)
Hit(r, p) ==
  /\ at[r] = "get"
  /\ cache[p] # None
  /\ UNCHANGED vars

Get(r, p) ==
  /\ at[r] = "get"
  /\ cache[p] = None
  /\ reading' = [reading EXCEPT ![r] = p]
  /\ at' = [at EXCEPT ![r] = "list"]
  /\ UNCHANGED <<version, cache, items, total, pc, keys, clean>>

List(r) ==
  /\ at[r] = "list"
  /\ items' = [items EXCEPT ![r] = version]
  /\ at' = [at EXCEPT ![r] = "count"]
  /\ UNCHANGED <<version, cache, reading, total, pc, keys, clean>>

Count(r) ==
  /\ at[r] = "count"
  /\ total' = [total EXCEPT ![r] = version]
  /\ at' = [at EXCEPT ![r] = "set"]
  /\ UNCHANGED <<version, cache, reading, items, pc, keys, clean>>

LoadedItems(r) == [items |-> items[r]]   \* mutant: _page_to_json drops the total
Loaded(r) == [items |-> items[r], total |-> total[r]]
Current(page) == page = [items |-> version, total |-> version]

(* A service write has passed, or may have passed, a page it will make     *)
(* stale when it commits.                                                  *)
Passed(w, p) == w \in ServiceWrite /\ (pc[w] = "commit" \/ (pc[w] = "delete" /\ p \notin keys[w]))

Fill(r) ==
  /\ at[r] = "set"
  /\ cache' = [cache EXCEPT ![reading[r]] = Loaded(r)]
  /\ clean' = [clean EXCEPT ![reading[r]] =
                 Current(Loaded(r)) /\ \A w \in Write : ~ Passed(w, reading[r])]
  /\ at' = [at EXCEPT ![r] = "get"]
  /\ reading' = [reading EXCEPT ![r] = None]
  /\ UNCHANGED <<version, items, total, pc, keys>>

(* The request fails at any point, Redis or the database included.         *)
ReaderFail(r) ==
  /\ at[r] # "get"
  /\ at' = [at EXCEPT ![r] = "get"]
  /\ reading' = [reading EXCEPT ![r] = None]
  /\ UNCHANGED <<version, cache, items, total, pc, keys, clean>>

KeptForEver(p) == FALSE                  \* mutant: set without ex=
HasTtl(p) == cache[p] # None

Ttl(p) ==
  /\ HasTtl(p)
  /\ cache' = [cache EXCEPT ![p] = None]
  /\ UNCHANGED <<version, readers, pc, keys, clean>>

-----------------------------------------------------------------------------
Goto(w, step) == pc' = [pc EXCEPT ![w] = step]

(* The statements of the write are flushed; nobody else sees them yet.     *)
Flush(w) ==
  /\ pc[w] = "write"
  /\ Goto(w, IF w \in ServiceWrite THEN "scan" ELSE "commit")
  /\ UNCHANGED <<version, cache, readers, keys, clean>>

(* SCAN returns every key there from its start to its end, and perhaps     *)
(* some of those that come or go meanwhile.                                *)
Scanned == {S \in SUBSET Page : {p \in Page : cache[p] # None} \subseteq S}

Scan(w) ==
  /\ pc[w] = "scan"
  /\ keys' \in {[keys EXCEPT ![w] = S] : S \in Scanned}
  /\ Goto(w, "delete")
  /\ UNCHANGED <<version, cache, readers, clean>>

Delete(w, p) ==
  /\ pc[w] = "delete"
  /\ p \in keys[w]
  /\ keys' = [keys EXCEPT ![w] = @ \ {p}]
  /\ cache' = [cache EXCEPT ![p] = None]
  /\ UNCHANGED <<version, readers, pc, clean>>

ScanEnds(w) ==
  /\ pc[w] = "delete"
  /\ keys[w] = {}
  /\ Goto(w, IF w \in ServiceWrite THEN "commit" ELSE "done")
  /\ UNCHANGED <<version, cache, readers, keys, clean>>

NoInvalidation(w) == "done"              \* mutant: the enrollment forgets the cache
AfterCommit(w) == IF w \in EnrollWrite THEN "scan" ELSE "done"

Commit(w) ==
  /\ pc[w] = "commit"
  /\ version' = version + 1
  /\ Goto(w, AfterCommit(w))
  /\ UNCHANGED <<cache, readers, keys, clean>>

(* Redis or the process fails.  A service write rolls back; an enrollment  *)
(* that had committed leaves its pages stale.                              *)
WriteFail(w) ==
  /\ pc[w] # "done"
  /\ Goto(w, "done")
  /\ keys' = [keys EXCEPT ![w] = {}]
  /\ clean' = IF w \in EnrollWrite /\ pc[w] \in {"scan", "delete"}
              THEN [p \in Page |-> FALSE] ELSE clean
  /\ UNCHANGED <<version, cache, readers>>

Reading(r) == \/ \E p \in Page : Hit(r, p) \/ Get(r, p)
              \/ List(r) \/ Count(r) \/ Fill(r)
Writing(w) == \/ Flush(w) \/ Scan(w) \/ ScanEnds(w) \/ Commit(w)
              \/ \E p \in Page : Delete(w, p)

Next == \/ \E r \in Reader : Reading(r) \/ ReaderFail(r)
        \/ \E p \in Page : Ttl(p)
        \/ \E w \in Write : Writing(w) \/ WriteFail(w)

Spec == Init /\ [][Next]_vars

(* Redis expires a key when its time is over, and requests run on.         *)
FairSpec == /\ Spec
            /\ \A p \in Page : WF_vars(Ttl(p))
            /\ \A r \in Reader : WF_vars(List(r) \/ Count(r) \/ Fill(r))
            /\ \A w \in Write : WF_vars(Writing(w))

-----------------------------------------------------------------------------
(* Properties                                                              *)

(* A page that raced with no write when it was filled is stale only while  *)
(* an enrollment that has committed is still clearing it: outside the race *)
(* the invalidation, key by key and whichever way round, is exact.         *)
StaleHasCause ==
  \A p \in Page : cache[p] # None /\ clean[p] /\ ~ Current(cache[p]) =>
    \E w \in EnrollWrite : pc[w] = "scan" \/ (pc[w] = "delete" /\ p \in keys[w])

(* Whatever raced or failed, the TTL ends it: once the writes are over,    *)
(* stale pages disappear and do not come back.                             *)
FreshAgain == <>[](\A p \in Page : cache[p] # None => Current(cache[p]))
=============================================================================
