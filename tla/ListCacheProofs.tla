--------------------------- MODULE ListCacheProofs ---------------------------
(***************************************************************************)
(* Theorems about ListCache, for any sets of pages, readers and writes.    *)
(*                                                                         *)
(* StaleHasCause needs to know that a clean page has not been passed by a  *)
(* service write (CleanAhead), or the commit of that write would make it   *)
(* stale with nobody left to clear it.                                     *)
(***************************************************************************)
EXTENDS ListCache, TLAPS

CleanAhead ==
  \A p \in Page : cache[p] # None /\ clean[p] => \A w \in Write : ~ Passed(w, p)

(* Readers know their page from Get on.                                    *)
ReaderHasPage == \A r \in Reader : at[r] # "get" => reading[r] \in Page

(* Only enrollments clear after their commit, only service writes before.  *)
IInv == TypeOK /\ ReaderHasPage /\ CleanAhead /\ StaleHasCause

-----------------------------------------------------------------------------
LEMMA InitInvariant == Init => IInv
  BY DEF Init, IInv, TypeOK, ReaderHasPage, CleanAhead, StaleHasCause

LEMMA StepInvariant == IInv /\ [Next]_vars => IInv'
<1> SUFFICES ASSUME IInv, [Next]_vars PROVE IInv'
  OBVIOUS
<1> USE WritesApart, NoneApart
<1> USE DEF IInv, TypeOK, Versions, Write, Goto, readers, ReaderHasPage, CleanAhead, Passed,
            StaleHasCause, Current
<1>1. ASSUME NEW r \in Reader, NEW p \in Page, Get(r, p) PROVE IInv'
  BY <1>1 DEF Get
<1>2. ASSUME NEW r \in Reader, List(r) PROVE IInv'
  BY <1>2 DEF List
<1>3. ASSUME NEW r \in Reader, Count(r) PROVE IInv'
  BY <1>3 DEF Count
<1>4. ASSUME NEW r \in Reader, Fill(r) PROVE IInv'
  <2> DEFINE p == reading[r]
             raced == ~ (Current(Loaded(r)) /\ \A w \in Write : ~ Passed(w, p))
  <2>1. p \in Page /\ Loaded(r) \in Versions
    BY <1>4 DEF Fill, Loaded
  <2>2. cache' = [cache EXCEPT ![p] = Loaded(r)]
    BY <1>4 DEF Fill
  <2>3. /\ raced => clean' = [clean EXCEPT ![p] = FALSE]
        /\ ~ raced => clean' = [clean EXCEPT ![p] = TRUE]
    BY <1>4 DEF Fill
  <2>4. UNCHANGED <<version, pc, keys>>
    BY <1>4 DEF Fill
  <2>5. TypeOK' /\ ReaderHasPage'
    BY <1>4, <2>1, <2>2, <2>3 DEF Fill
  <2>6. CleanAhead' /\ StaleHasCause'
    <3>1. CASE raced
      BY <2>1, <2>2, <2>3, <2>4, <3>1
    <3>2. CASE ~ raced
      BY <2>1, <2>2, <2>3, <2>4, <3>2
    <3> QED BY <3>1, <3>2
  <2> QED BY <2>5, <2>6
<1>5. ASSUME NEW r \in Reader, ReaderFail(r) PROVE IInv'
  BY <1>5 DEF ReaderFail
<1>6. ASSUME NEW p \in Page, Ttl(p) PROVE IInv'
  BY <1>6 DEF Ttl, HasTtl
<1>7. ASSUME NEW w \in Write, Flush(w) PROVE IInv'
  BY <1>7 DEF Flush
<1>8. ASSUME NEW w \in Write, Scan(w) PROVE IInv'
  BY <1>8 DEF Scan, Scanned
<1>9. ASSUME NEW w \in Write, NEW p \in Page, Delete(w, p) PROVE IInv'
  BY <1>9 DEF Delete
<1>10. ASSUME NEW w \in Write, ScanEnds(w) PROVE IInv'
  BY <1>10 DEF ScanEnds
<1>11. ASSUME NEW w \in Write, Commit(w) PROVE IInv'
  BY <1>11 DEF Commit, AfterCommit
<1>12. ASSUME NEW w \in Write, WriteFail(w) PROVE IInv'
  BY <1>12 DEF WriteFail
<1>13. CASE UNCHANGED vars
  BY <1>13 DEF vars
<1>14. ASSUME NEW r \in Reader, NEW p \in Page, Hit(r, p) PROVE IInv'
  BY <1>14, <1>13 DEF Hit
<1> QED BY <1>1, <1>2, <1>3, <1>4, <1>5, <1>6, <1>7, <1>8, <1>9, <1>10, <1>11, <1>12, <1>13,
           <1>14
        DEF Next, Reading, Writing

(* Types are kept in every reachable state.                                *)
THEOREM TypesSafe == Spec => []TypeOK
<1>1. IInv => TypeOK
  BY DEF IInv
<1> QED BY InitInvariant, StepInvariant, <1>1, PTL DEF Spec

(* A list page that raced with no write is stale only while a committed    *)
(* enrollment is still clearing it.                                        *)
THEOREM StalePagesExplained == Spec => []StaleHasCause
<1>1. IInv => StaleHasCause
  BY DEF IInv
<1> QED BY InitInvariant, StepInvariant, <1>1, PTL DEF Spec
=============================================================================
