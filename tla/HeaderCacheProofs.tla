-------------------------- MODULE HeaderCacheProofs -------------------------
(***************************************************************************)
(* What cached_task_header guarantees for any number of files, readers and *)
(* saves and any capacity.                                                 *)
(***************************************************************************)
EXTENDS HeaderCache, TLAPS, FiniteSetTheorems, WellFoundedInduction

\* A non-empty set of naturals has a least element.
LEMMA NatMin ==
    ASSUME NEW T \in SUBSET Nat, T # {}
    PROVE  \E x \in T : \A y \in T : x <= y
<1> DEFINE Less == {ss \in Nat \X Nat : ss[1] < ss[2]}
<1>1. IsWellFoundedOn(Less, Nat)
  BY NatLessThanWellFounded DEF OpToRel
<1>2. \E x \in T : \A y \in T : ~(<<y, x>> \in Less)
  <2> HIDE DEF Less
  <2> QED BY <1>1, WFMin
<1>3. PICK x \in T : \A y \in T : ~(<<y, x>> \in Less)
  BY <1>2
<1>4. \A y \in T : x <= y
  <2> TAKE y \in T
  <2>1. x \in Nat /\ y \in Nat
    OBVIOUS
  <2>2. ~(y < x)
    <3>1. <<y, x>> \in Nat \X Nat /\ <<y, x>>[1] = y /\ <<y, x>>[2] = x
      BY <2>1
    <3> QED BY <3>1, <1>3
  <2> QED BY <2>1, <2>2
<1> QED BY <1>4

----------------------------------------------------------------------------
\* The inductive invariant: types, what entries and pending inserts say about the disk,
\* and the answers already given.
IInv == TypeOK /\ EntriesFollowStamps /\ AnswerFresh

\* At the start there is no entry and no call.
LEMMA InitIInv == Init => IInv
<1> SUFFICES ASSUME Init PROVE IInv
  OBVIOUS
<1>1. TypeOK
  BY CacheAssumption DEF Init, TypeOK, Entry, Call, NoEntry
<1>2. \A r \in Readers : call[r] \in [at : {"idle"}, path : Paths, stamp : {0}, header : {0}, base : {0}]
  BY DEF Init
<1>3. EntriesFollowStamps
  BY <1>2 DEF Init, EntriesFollowStamps
<1>4. AnswerFresh
  BY <1>2 DEF AnswerFresh
<1> QED BY <1>1, <1>3, <1>4 DEF IInv

\* Past capacity evict_lru removes one path, the one that was used longest ago.
LEMMA VictimIsOldest ==
    ASSUME NEW s \in SUBSET Paths, NEW e \in [Paths -> Entry], Cardinality(s) > Cap
    PROVE  \E x \in s : /\ Victims(s, e) = {x}
                        /\ \A q \in s : e[x].access <= e[q].access
<1>1. s # {}
  BY FS_EmptySet, CacheAssumption
<1>2. \E p \in s : \A q \in s : e[p].access <= e[q].access
  <2> DEFINE T == {e[p].access : p \in s}
  <2>1. T \in SUBSET Nat /\ T # {}
    BY <1>1 DEF Entry
  <2>2. PICK x \in T : \A y \in T : x <= y
    BY <2>1, NatMin
  <2>3. PICK p \in s : e[p].access = x
    BY <2>2
  <2> QED BY <2>2, <2>3
<1> DEFINE x == CHOOSE p \in s : \A q \in s : e[p].access <= e[q].access
<1>3. x \in s /\ \A q \in s : e[x].access <= e[q].access
  BY <1>2
<1>4. Victims(s, e) = {x}
  BY DEF Victims
<1> HIDE DEF x
<1> QED BY <1>3, <1>4

\* What is evicted was cached.
LEMMA VictimsWithin ==
    ASSUME NEW s \in SUBSET Paths, NEW e \in [Paths -> Entry]
    PROVE  Victims(s, e) \in SUBSET s
<1>1. CASE Cardinality(s) > Cap
  <2>1. PICK x \in s : Victims(s, e) = {x}
    BY <1>1, VictimIsOldest
  <2> QED BY <2>1
<1>2. CASE ~(Cardinality(s) > Cap)
  BY <1>2 DEF Victims
<1> QED BY <1>1, <1>2

\* Every step of a reader and every save keeps the invariant.
LEMMA StepIInv == IInv /\ [Next]_vars => IInv'
<1> SUFFICES ASSUME IInv, [Next]_vars PROVE IInv'
  OBVIOUS
<1> USE DEF IInv
<1>1. ASSUME NEW p \in Paths, Save(p) PROVE IInv'
  <2>1. TypeOK'
    BY <1>1 DEF Save, TypeOK
  <2>2. \A q \in Paths : disk[q] <= disk'[q] /\ disk[q] \in Nat /\ disk'[q] \in Nat
    BY <1>1 DEF Save, TypeOK
  <2>3. EntriesFollowStamps'
    BY <1>1, <2>2 DEF Save, TypeOK, EntriesFollowStamps, Entry, Call
  <2>4. AnswerFresh'
    BY <1>1 DEF Save, AnswerFresh
  <2> QED BY <2>1, <2>3, <2>4
<1>2. ASSUME NEW r \in Readers, NEW p \in Paths, Fingerprint(r, p) PROVE IInv'
  <2>1. TypeOK'
    BY <1>2 DEF Fingerprint, TypeOK, Call
  <2>3. EntriesFollowStamps'
    BY <1>2 DEF Fingerprint, TypeOK, EntriesFollowStamps, Call
  <2>4. AnswerFresh'
    BY <1>2 DEF Fingerprint, TypeOK, AnswerFresh
  <2> QED BY <2>1, <2>3, <2>4
<1>3. ASSUME NEW r \in Readers, LookupHit(r) PROVE IInv'
  <2> DEFINE p == call[r].path
  <2>0. p \in Paths /\ p \in cached /\ entry[p] \in Entry /\ call[r] \in Call
    BY <1>3 DEF LookupHit, Hit, TypeOK, Call
  <2>a. nextAccess' \in Nat /\ disk' = disk /\ cached' = cached
    BY <1>3 DEF LookupHit, TypeOK
  <2>b. entry' \in [Paths -> Entry]
    BY <1>3, <2>0, <2>a DEF LookupHit, TypeOK, Entry
  <2>c. entry[p].header \in Nat
    BY <2>0 DEF Entry
  <2>d. call' \in [Readers -> Call]
    BY <1>3, <2>0, <2>c DEF LookupHit, TypeOK, Call
  <2>1. TypeOK'
    BY <2>a, <2>b, <2>d DEF TypeOK
  <2>3. EntriesFollowStamps'
    BY <1>3, <2>0 DEF LookupHit, TypeOK, EntriesFollowStamps, Call, Entry
  <2>4. AnswerFresh'
    BY <1>3, <2>0 DEF LookupHit, Hit, TypeOK, AnswerFresh, EntriesFollowStamps, Call, Entry
  <2> QED BY <2>1, <2>3, <2>4
<1>4. ASSUME NEW r \in Readers, LookupMiss(r) PROVE IInv'
  <2>1. TypeOK'
    BY <1>4 DEF LookupMiss, TypeOK, Call, Entry, NoEntry
  <2>3. EntriesFollowStamps'
    BY <1>4 DEF LookupMiss, TypeOK, EntriesFollowStamps, Call
  <2>4. AnswerFresh'
    BY <1>4 DEF LookupMiss, TypeOK, AnswerFresh, Call
  <2> QED BY <2>1, <2>3, <2>4
<1>5. ASSUME NEW r \in Readers, ReadHeader(r) PROVE IInv'
  <2>1. TypeOK'
    BY <1>5 DEF ReadHeader, TypeOK, Call
  <2>3. EntriesFollowStamps'
    BY <1>5 DEF ReadHeader, TypeOK, EntriesFollowStamps, Call
  <2>4. AnswerFresh'
    BY <1>5 DEF ReadHeader, TypeOK, AnswerFresh, Call
  <2> QED BY <2>1, <2>3, <2>4
<1>6. ASSUME NEW r \in Readers, ReadFails(r) \/ Return(r) PROVE IInv'
  <2>1. TypeOK'
    BY <1>6 DEF ReadFails, Return, NoCall, TypeOK, Call
  <2>3. EntriesFollowStamps'
    BY <1>6 DEF ReadFails, Return, NoCall, TypeOK, EntriesFollowStamps, Call
  <2>4. AnswerFresh'
    BY <1>6 DEF ReadFails, Return, NoCall, TypeOK, AnswerFresh, Call
  <2> QED BY <2>1, <2>3, <2>4
<1>7. ASSUME NEW r \in Readers, Insert(r) PROVE IInv'
  <2> DEFINE p == call[r].path
             e == [entry EXCEPT ![p] = [header |-> call[r].header, stamp |-> call[r].stamp,
                                        access |-> nextAccess + 1]]
             gone == Victims(cached \cup {p}, e)
  <2>0. p \in Paths /\ call[r] \in Call /\ call[r].at = "insert"
    BY <1>7 DEF Insert, TypeOK, Call
  <2>a. e \in [Paths -> Entry] /\ cached \cup {p} \in SUBSET Paths
    BY <2>0 DEF TypeOK, Call, Entry
  <2>b. gone \in SUBSET (cached \cup {p})
    BY <2>a, VictimsWithin
  <2>c. /\ cached' = (cached \cup {p}) \ gone
        /\ entry' = [q \in Paths |-> IF q \in gone THEN NoEntry ELSE e[q]]
        /\ call' = [call EXCEPT ![r].at = "done"]
        /\ nextAccess' = nextAccess + 1 /\ disk' = disk
    BY <1>7 DEF Insert
  <2>d. \A q \in cached \cup {p} : e[q].stamp <= e[q].header /\ e[q].header <= disk[q]
    BY <2>0 DEF TypeOK, EntriesFollowStamps, Call, Entry
  <2> HIDE DEF gone, e
  <2>1. TypeOK'
    BY <2>0, <2>a, <2>c DEF TypeOK, Call, Entry, NoEntry
  <2>3. EntriesFollowStamps'
    BY <2>0, <2>a, <2>c, <2>d DEF TypeOK, EntriesFollowStamps, Call, Entry
  <2>4. AnswerFresh'
    BY <2>0, <2>c DEF TypeOK, EntriesFollowStamps, AnswerFresh, Call
  <2> QED BY <2>1, <2>3, <2>4
<1>8. CASE UNCHANGED vars
  BY <1>8 DEF vars, TypeOK, EntriesFollowStamps, AnswerFresh
<1> QED BY <1>1, <1>2, <1>3, <1>4, <1>5, <1>6, <1>7, <1>8 DEF Next

\* Files, entries and calls keep their types for any number of files, readers and saves.
THEOREM CacheTypeCorrect == Spec => []TypeOK
<1>1. IInv => TypeOK
  BY DEF IInv
<1> QED BY <1>1, InitIInv, StepIInv, PTL DEF Spec

\* cached_task_header never answers with a header older than the file was when it was
\* called, for any number of files, readers, saves and evictions.
THEOREM AnswersAreFresh == Spec => []AnswerFresh
<1>1. IInv => AnswerFresh
  BY DEF IInv
<1> QED BY <1>1, InitIInv, StepIInv, PTL DEF Spec

----------------------------------------------------------------------------
\* No entry was used later than the clock says, and the cache is within its capacity.
LruInv ==
    /\ \A p \in cached : entry[p].access <= nextAccess
    /\ CacheBounded

\* The facts about an insert that the bound and the freshness of the clock rest on.
LEMMA InsertFacts ==
    ASSUME IInv, LruInv, NEW r \in Readers, Insert(r)
    PROVE  LruInv' /\ call[r].path \in cached'
<1> DEFINE p == call[r].path
           s == cached \cup {p}
           e == [entry EXCEPT ![p] = [header |-> call[r].header, stamp |-> call[r].stamp,
                                      access |-> nextAccess + 1]]
           gone == Victims(s, e)
<1>0. p \in Paths /\ call[r] \in Call /\ nextAccess \in Nat /\ Cap \in Nat \ {0}
  BY CacheAssumption DEF IInv, TypeOK, Call
<1>1. e \in [Paths -> Entry] /\ s \in SUBSET Paths
  BY <1>0 DEF IInv, TypeOK, Call, Entry
<1>2. \A q \in Paths : e[q].access \in Nat
  BY <1>1 DEF Entry
<1>3. e[p].access = nextAccess + 1 /\ \A q \in cached : q # p => e[q].access <= nextAccess
  BY <1>0 DEF IInv, TypeOK, LruInv, Entry
<1>4. /\ cached' = s \ gone
      /\ entry' = [q \in Paths |-> IF q \in gone THEN NoEntry ELSE e[q]]
      /\ nextAccess' = nextAccess + 1
  BY DEF Insert
<1>5. IsFiniteSet(cached) /\ IsFiniteSet(s)
  BY <1>1, FS_Subset, CacheAssumption DEF IInv, TypeOK
<1>6. Cardinality(cached) \in Nat /\ Cardinality(s) \in Nat /\ Cardinality(cached) <= Cap
  BY <1>5, FS_CardinalityType DEF LruInv, CacheBounded
<1>7. Cardinality(s) <= Cap + 1
  <2>1. Cardinality(s) = IF p \in cached THEN Cardinality(cached) ELSE Cardinality(cached) + 1
    BY <1>5, FS_AddElement
  <2> QED BY <1>0, <1>6, <2>1
<1>8. gone \in SUBSET s
  BY <1>1, VictimsWithin
<1>9. p \notin gone /\ Cardinality(s \ gone) <= Cap
  <2>1. CASE Cardinality(s) > Cap
    <3>0. \E x \in s : gone = {x} /\ \A q \in s : e[x].access <= e[q].access
      <4> HIDE DEF e, s
      <4> QED BY <1>1, <2>1, VictimIsOldest
    <3>1. PICK x \in s : gone = {x} /\ \A q \in s : e[x].access <= e[q].access
      BY <3>0
    <3>2. \E q \in s : q # p
      <4>1. CASE s = {p}
        <5>1. Cardinality(s) = 1
          BY <4>1, FS_Singleton
        <5> QED BY <5>1, <2>1, <1>0
      <4> QED BY <4>1
    <3>3. x # p
      <4>1. PICK q \in s : q # p
        BY <3>2
      <4>2. q \in cached /\ e[q].access <= nextAccess /\ e[q].access \in Nat
        BY <4>1, <1>1, <1>2, <1>3
      <4>3. SUFFICES ASSUME x = p PROVE FALSE
        OBVIOUS
      <4>4. nextAccess + 1 <= e[q].access
        BY <4>1, <4>3, <3>1, <1>3
      <4> HIDE DEF e
      <4> QED BY <4>2, <4>4, <1>0
    <3>4. Cardinality(s \ {x}) = Cardinality(s) - 1
      BY <1>5, <3>1, FS_RemoveElement
    <3> HIDE DEF gone, s
    <3> QED BY <3>1, <3>3, <3>4, <1>0, <1>6, <1>7
  <2>2. CASE ~(Cardinality(s) > Cap)
    <3>1. gone = {}
      BY <2>2 DEF Victims
    <3>2. s \ gone = s
      BY <3>1
    <3> HIDE DEF gone, s
    <3> QED BY <3>1, <3>2, <2>2, <1>0, <1>6
  <2> QED BY <2>1, <2>2
<1>10. p \in cached'
  BY <1>4, <1>9
<1>11. CacheBounded'
  BY <1>4, <1>9 DEF CacheBounded
<1>12. \A q \in cached' : entry'[q].access <= nextAccess'
  <2> TAKE q \in cached'
  <2>1. q \in s /\ q \notin gone /\ q \in Paths
    BY <1>4, <1>1
  <2>2. entry'[q].access = e[q].access
    BY <1>4, <2>1
  <2>3. e[q].access <= nextAccess + 1
    <3>1. CASE q = p
      BY <3>1, <1>3, <1>0
    <3>2. CASE q # p
      BY <3>2, <2>1, <1>2, <1>3, <1>0
    <3> QED BY <3>1, <3>2
  <2> QED BY <2>2, <2>3, <1>4
<1> QED BY <1>10, <1>11, <1>12 DEF LruInv

\* Every other step leaves the cache within its capacity and its clock ahead.
LEMMA StepLruInv == IInv /\ LruInv /\ [Next]_vars => LruInv'
<1> SUFFICES ASSUME IInv, LruInv, [Next]_vars PROVE LruInv'
  OBVIOUS
<1>1. ASSUME NEW r \in Readers, LookupHit(r) PROVE LruInv'
  <2>1. /\ cached' = cached /\ nextAccess \in Nat /\ nextAccess' = nextAccess + 1
        /\ entry' = [entry EXCEPT ![call[r].path].access = nextAccess + 1]
    BY <1>1 DEF LookupHit, IInv, TypeOK
  <2>2. \A q \in cached : entry'[q].access <= nextAccess'
    BY <2>1 DEF IInv, TypeOK, LruInv, Entry
  <2> QED BY <2>1, <2>2 DEF LruInv, CacheBounded
<1>2. ASSUME NEW r \in Readers, LookupMiss(r) PROVE LruInv'
  <2>1. /\ cached' = cached \ {call[r].path} /\ nextAccess' = nextAccess
        /\ entry' = [entry EXCEPT ![call[r].path] = NoEntry]
    BY <1>2 DEF LookupMiss
  <2>2. \A q \in cached' : entry'[q].access <= nextAccess'
    BY <2>1 DEF IInv, TypeOK, LruInv
  <2>3. IsFiniteSet(cached)
    BY FS_Subset, CacheAssumption DEF IInv, TypeOK
  <2>4. /\ Cardinality(cached') <= Cardinality(cached)
        /\ Cardinality(cached') \in Nat /\ Cardinality(cached) \in Nat
    BY <2>1, <2>3, FS_Subset, FS_CardinalityType
  <2>5. Cardinality(cached) <= Cap /\ Cap \in Nat
    BY CacheAssumption DEF LruInv, CacheBounded
  <2>6. CacheBounded'
    BY <2>4, <2>5 DEF CacheBounded
  <2> QED BY <2>2, <2>6 DEF LruInv
<1>3. ASSUME NEW r \in Readers, Insert(r) PROVE LruInv'
  BY <1>3, InsertFacts
<1>4. ASSUME UNCHANGED <<cached, entry, nextAccess>> PROVE LruInv'
  BY <1>4 DEF LruInv, CacheBounded
<1> QED
  BY <1>1, <1>2, <1>3, <1>4
     DEF Next, vars, Save, Fingerprint, ReadHeader, ReadFails, Return

\* At the start the cache is empty.
LEMMA InitLruInv == Init => LruInv
  BY FS_EmptySet, CacheAssumption DEF Init, LruInv, CacheBounded

\* The header cache holds at most MAX_HEADER_CACHE_ENTRIES headers outside its mutex,
\* for any capacity, any number of files and any number of concurrent readers.
THEOREM CacheStaysBounded == Spec => []CacheBounded
<1>1. IInv /\ LruInv => CacheBounded
  BY DEF LruInv
<1> QED BY <1>1, InitIInv, StepIInv, InitLruInv, StepLruInv, PTL DEF Spec

\* Both promises of cached_task_header together.
THEOREM CacheIsSound == Spec => []CacheSound
<1>1. AnswerFresh /\ CacheBounded => CacheSound
  BY DEF CacheSound
<1> QED BY <1>1, AnswersAreFresh, CacheStaysBounded, PTL

\* evict_lru never throws out the header whose insert called it, for any capacity.
THEOREM InsertIsKept == Spec => InsertKept
<1>1. IInv /\ LruInv /\ [Next]_vars =>
        [\A r \in Readers : call[r].at = "insert" /\ call'[r].at = "done"
                              => call[r].path \in cached']_vars
  <2> SUFFICES ASSUME IInv, LruInv, Next,
                      NEW r \in Readers, call[r].at = "insert", call'[r].at = "done"
               PROVE  call[r].path \in cached'
    OBVIOUS
  <2>2. Insert(r)
    BY DEF Next, Save, Fingerprint, LookupHit, LookupMiss, ReadHeader, ReadFails, Insert,
           Return, NoCall, IInv, TypeOK
  <2> QED BY <2>2, InsertFacts
<1> QED BY <1>1, InitIInv, StepIInv, InitLruInv, StepLruInv, PTL DEF Spec, InsertKept
=============================================================================
