-------------------------- MODULE OutputManagerProofs --------------------------
(***************************************************************************)
(* Theorems about OutputManager for every counter width, cache limit and   *)
(* number of saves.                                                        *)
(***************************************************************************)
EXTENDS OutputManager, FiniteSetTheorems, TLAPS

-----------------------------------------------------------------------------
(* Type correctness *)

\* The counter of an unsigned type stays in its range.
LEMMA NextIdType ==
    ASSUME NEW c \in OutputId
    PROVE  /\ (c + 1) % IdMod \in OutputId
           /\ (c + 1) % IdMod = IF c = IdMod - 1 THEN 0 ELSE c + 1
<1>1. IdMod \in Nat /\ IdMod > 0 /\ c \in Nat /\ c < IdMod
  BY OutputIdAssumption DEF OutputId
<1>2. CASE c = IdMod - 1
  BY <1>1, <1>2 DEF OutputId
<1>3. CASE c # IdMod - 1
  BY <1>1, <1>3 DEF OutputId
<1> QED BY <1>2, <1>3

\* One step keeps the types.
LEMMA TypeStep == TypeOK /\ [Next]_vars => TypeOK'
<1> SUFFICES ASSUME TypeOK, [Next]_vars PROVE TypeOK'
  OBVIOUS
<1> USE DEF TypeOK, Cached
<1>1. ASSUME NEW outputType \in OutputType, RequestOutput(outputType)
      PROVE  TypeOK'
  <2>1. CASE UNCHANGED vars
    BY <2>1 DEF vars
  <2>2. CASE outputType = "Serial"
    <3>1. NextId \in OutputId
      BY NextIdType DEF NextId
    <3>2. Kept \subseteq Cached
      BY DEF Kept
    <3>3. /\ m_results' \in [Kept \cup {m_idCounter} -> 0 .. created]
          /\ Kept \cup {m_idCounter} \subseteq OutputId
      BY <1>1, <2>2, <3>2 DEF RequestOutput, Null
    <3> QED BY <1>1, <2>2, <3>1, <3>3 DEF RequestOutput
  <2> QED BY <1>1, <2>1, <2>2 DEF RequestOutput
<1>2. ASSUME NEW outputId \in OutputId, NEW isJson \in BOOLEAN,
             SaveOutput(outputId, isJson)
      PROVE  TypeOK'
  <2>1. CASE UNCHANGED vars
    BY <2>1 DEF vars
  <2>2. CASE outputId \in Cached /\ created' = created + 1
    <3>1. m_results' \in [Cached -> 0 .. created']
      BY <1>2, <2>2 DEF SaveOutput, vars
    <3> QED BY <1>2, <2>2, <3>1 DEF SaveOutput, vars
  <2> QED BY <1>2, <2>1, <2>2 DEF SaveOutput
<1>3. ASSUME NEW outputId \in OutputId, ConsumeOutput(outputId)
      PROVE  TypeOK'
  <2>1. CASE UNCHANGED vars
    BY <2>1 DEF vars
  <2>2. CASE outputId \in Cached
    BY <1>3, <2>2 DEF ConsumeOutput, vars, Null
  <2> QED BY <1>3, <2>1, <2>2 DEF ConsumeOutput
<1>4. CASE UNCHANGED vars
  BY <1>4 DEF vars
<1> QED BY <1>1, <1>2, <1>3, <1>4 DEF Next

\* Every variable of the output cache keeps its type: ids stay in the range of
\* TOutputId and an id holds null or an object that was made.
THEOREM TypeCorrect == Spec => []TypeOK
<1>1. Init => TypeOK
  BY OutputIdAssumption DEF Init, TypeOK, Cached, OutputId, NoId, Null
<1> QED BY <1>1, TypeStep, PTL DEF Spec

-----------------------------------------------------------------------------
(* The cache is a window of the ids handed out last *)

\* The inductive invariant: the window never spans the whole counter, which is
\* why the next id cannot be in it.
CacheInv ==
    /\ TypeOK
    /\ IsFiniteSet(Cached)
    /\ CacheBounded
    /\ CachedIdsAreRecent

\* A window shorter than the counter's range does not reach round to the
\* counter itself.
LEMMA NextIdOutsideWindow ==
    ASSUME NEW c \in OutputId, NEW n \in Nat, n < IdMod
    PROVE  c \notin IdsBefore(c, n)
BY OutputIdAssumption DEF IdsBefore, OutputId

\* Handing out the id c extends the window before c to the one before its
\* successor.
LEMMA WindowExtends ==
    ASSUME NEW c \in OutputId, NEW n \in Nat, n + 1 < IdMod
    PROVE  IdsBefore((c + 1) % IdMod, n + 1) = IdsBefore(c, n) \cup {c}
<1> DEFINE d == (c + 1) % IdMod
           back(x, k) == IF k <= x THEN x - k ELSE x - k + IdMod
<1>1. IdMod \in Nat /\ c \in Nat /\ c < IdMod
  BY OutputIdAssumption DEF OutputId
<1>2. d = IF c = IdMod - 1 THEN 0 ELSE c + 1
  BY NextIdType
<1>3. back(d, 1) = c
  BY <1>1, <1>2
<1>4. \A k \in 1 .. n : back(d, k + 1) = back(c, k)
  BY <1>1, <1>2
<1> HIDE DEF d
<1>5. IdsBefore(d, n + 1) \subseteq IdsBefore(c, n) \cup {c}
  <2> SUFFICES ASSUME NEW k \in 1 .. (n + 1)
               PROVE  back(d, k) \in IdsBefore(c, n) \cup {c}
    BY DEF IdsBefore
  <2>1. CASE k = 1
    BY <1>3, <2>1
  <2>2. CASE k # 1
    <3>1. k - 1 \in 1 .. n /\ (k - 1) + 1 = k
      BY <2>2
    <3>2. back(d, k) = back(c, k - 1)
      BY <1>4, <3>1
    <3> QED BY <3>1, <3>2 DEF IdsBefore
  <2> QED BY <2>1, <2>2
<1>6. IdsBefore(c, n) \cup {c} \subseteq IdsBefore(d, n + 1)
  <2>1. c \in IdsBefore(d, n + 1)
    <3>1. 1 \in 1 .. (n + 1)
      OBVIOUS
    <3> QED BY <1>3, <3>1 DEF IdsBefore
  <2>2. ASSUME NEW k \in 1 .. n PROVE back(c, k) \in IdsBefore(d, n + 1)
    <3>1. k + 1 \in 1 .. (n + 1)
      OBVIOUS
    <3> QED BY <1>4, <3>1 DEF IdsBefore
  <2> QED BY <2>1, <2>2 DEF IdsBefore
<1> QED BY <1>5, <1>6 DEF d

\* In a state of the invariant the next id is free, whatever was requested,
\* saved and consumed before.
LEMMA CacheInvFreesNextId == CacheInv => NextIdIsFree
<1> SUFFICES ASSUME CacheInv PROVE NextIdIsFree
  OBVIOUS
<1>1. Cardinality(Cached) \in Nat /\ Cardinality(Cached) < IdMod
  BY FS_CardinalityType, OutputIdAssumption DEF CacheInv, CacheBounded
<1> QED BY <1>1, NextIdOutsideWindow DEF CacheInv, TypeOK, CachedIdsAreRecent, NextIdIsFree

\* The invariant holds throughout: a request extends the window or, over the
\* limit, starts a new one; saving and consuming leave the ids alone.
THEOREM CacheInvariant == Spec => []CacheInv
<1>1. Init => CacheInv
  <2> SUFFICES ASSUME Init PROVE CacheInv
    OBVIOUS
  <2>1. TypeOK
    BY OutputIdAssumption DEF Init, TypeOK, Cached, OutputId, NoId, Null
  <2>2. Cached = {}
    BY DEF Init, Cached
  <2>3. IsFiniteSet(Cached) /\ Cardinality(Cached) = 0
    BY <2>2, FS_EmptySet
  <2>4. CachedIdsAreRecent
    BY <2>2, <2>3 DEF CachedIdsAreRecent, IdsBefore
  <2> QED BY <2>1, <2>3, <2>4, OutputIdAssumption DEF CacheInv, CacheBounded
<1>2. CacheInv /\ TypeOK' /\ [Next]_vars => CacheInv'
  <2> SUFFICES ASSUME CacheInv, TypeOK', [Next]_vars PROVE CacheInv'
    OBVIOUS
  <2>0. CASE Cached' = Cached /\ m_idCounter' = m_idCounter
    BY <2>0 DEF CacheInv, CacheBounded, CachedIdsAreRecent
  <2>1. ASSUME NEW outputType \in OutputType, RequestOutput(outputType),
               ~UNCHANGED vars
        PROVE  CacheInv'
    <3> DEFINE n == Cardinality(Kept)
    <3>1. Cached' = Kept \cup {m_idCounter} /\ m_idCounter' = NextId
      BY <2>1 DEF RequestOutput, Cached
    <3>2. /\ IsFiniteSet(Kept)
          /\ n \in Nat
          /\ n <= CacheSizeLimit
          /\ Kept = IdsBefore(m_idCounter, n)
      <4>1. CASE Cardinality(Cached) > CacheSizeLimit
        BY <4>1, FS_EmptySet, OutputIdAssumption DEF Kept, IdsBefore
      <4>2. CASE ~(Cardinality(Cached) > CacheSizeLimit)
        <5>1. Kept = Cached
          BY <4>2 DEF Kept
        <5>2. Cardinality(Cached) \in Nat
          BY FS_CardinalityType DEF CacheInv
        <5> QED BY <5>1, <5>2, <4>2, OutputIdAssumption DEF CacheInv, CachedIdsAreRecent
      <4> QED BY <4>1, <4>2
    <3>3. m_idCounter \in OutputId
      BY DEF CacheInv, TypeOK
    <3>4. m_idCounter \notin Kept
      BY <3>2, <3>3, NextIdOutsideWindow, OutputIdAssumption
    <3>5. IsFiniteSet(Cached') /\ Cardinality(Cached') = n + 1
      BY <3>1, <3>2, <3>4, FS_AddElement
    <3>6. Cached' = IdsBefore(m_idCounter', n + 1)
      BY <3>1, <3>2, <3>3, WindowExtends, OutputIdAssumption DEF NextId
    <3> QED BY <3>2, <3>5, <3>6, OutputIdAssumption DEF CacheInv, CacheBounded, CachedIdsAreRecent
  <2>2. ASSUME NEW outputId \in OutputId, NEW isJson \in BOOLEAN,
               SaveOutput(outputId, isJson)
        PROVE  CacheInv'
    BY <2>0, <2>2 DEF SaveOutput, vars, Cached, CacheInv, TypeOK
  <2>3. ASSUME NEW outputId \in OutputId, ConsumeOutput(outputId)
        PROVE  CacheInv'
    BY <2>0, <2>3 DEF ConsumeOutput, vars, Cached, CacheInv, TypeOK
  <2>4. CASE UNCHANGED vars
    BY <2>0, <2>4 DEF vars, Cached
  <2> QED BY <2>1, <2>2, <2>3, <2>4 DEF Next
<1> QED BY <1>1, <1>2, TypeCorrect, PTL DEF Spec

\* The cached ids are the ones handed out last, modulo the counter's width, and
\* a reset never forgets a newer id than one it keeps (OutputManager.cpp:37-51).
THEOREM CacheIsWindow == Spec => []CachedIdsAreRecent
<1>1. CacheInv => CachedIdsAreRecent
  BY DEF CacheInv
<1> QED BY <1>1, CacheInvariant, PTL

\* requestOutput never hands out an id that the cache still holds, and the
\* cache holds at most one id over its limit, for every width of the counter
\* that exceeds the limit by two.
THEOREM IdsAreFree == Spec => [](NextIdIsFree /\ CacheBounded)
<1>1. CacheInv => NextIdIsFree /\ CacheBounded
  BY CacheInvFreesNextId DEF CacheInv
<1> QED BY <1>1, CacheInvariant, PTL

\* The cache never holds more than one id over its limit, for every limit
\* (OutputManager.cpp:41-49).
THEOREM CacheIsBounded == Spec => []CacheBounded
BY IdsAreFree, PTL

-----------------------------------------------------------------------------
(* Who owns a result *)

\* Objects are moved, not copied, and only ever made by a save: the invariant
\* for OneOwner is the one for what m_lastSavedId leads to as well.
OwnerInv == TypeOK /\ OneOwner /\ LastSavedIsNewest

\* No result is both in the cache and with a caller, and the last saved id
\* leads to the newest result or to none.
THEOREM Ownership == Spec => [](OneOwner /\ LastSavedIsNewest)
<1>1. Init => OneOwner /\ LastSavedIsNewest
  BY DEF Init, OneOwner, LastSavedIsNewest, Live, Cached
<1>2. OwnerInv /\ [Next]_vars => (OneOwner /\ LastSavedIsNewest)'
  <2> SUFFICES ASSUME OwnerInv, [Next]_vars PROVE (OneOwner /\ LastSavedIsNewest)'
    OBVIOUS
  <2>0. CASE UNCHANGED vars
    BY <2>0 DEF vars, OwnerInv, OneOwner, LastSavedIsNewest, Live, Cached
  <2> USE DEF OwnerInv, TypeOK, OneOwner, LastSavedIsNewest, Live, Cached, Null
  <2>1. ASSUME NEW outputType \in OutputType, RequestOutput(outputType), ~UNCHANGED vars
        PROVE  (OneOwner /\ LastSavedIsNewest)'
    <3>1. /\ m_results' = [id \in Kept \cup {m_idCounter} |->
                             IF id = m_idCounter THEN 0 ELSE m_results[id]]
          /\ UNCHANGED <<m_lastSavedId, created, released>>
      BY <2>1 DEF RequestOutput
    <3>2. Kept \subseteq Cached
      BY DEF Kept
    <3> QED BY <3>1, <3>2
  <2>2. ASSUME NEW outputId \in OutputId, NEW isJson \in BOOLEAN,
               SaveOutput(outputId, isJson), ~UNCHANGED vars
        PROVE  (OneOwner /\ LastSavedIsNewest)'
    <3>1. /\ outputId \in Cached
          /\ m_results' = [m_results EXCEPT ![outputId] = created + 1]
          /\ created' = created + 1
          /\ m_lastSavedId' = outputId
          /\ released' = released
      BY <2>2 DEF SaveOutput
    <3>2. \A i \in DOMAIN m_results : m_results[i] \in 0 .. created
      OBVIOUS
    <3> QED BY <3>1, <3>2
  <2>3. ASSUME NEW outputId \in OutputId, ConsumeOutput(outputId), ~UNCHANGED vars
        PROVE  (OneOwner /\ LastSavedIsNewest)'
    <3>1. /\ outputId \in Cached
          /\ m_results' = [m_results EXCEPT ![outputId] = 0]
          /\ released' = released \cup ({m_results[outputId]} \ {0})
          /\ UNCHANGED <<m_lastSavedId, created>>
      BY <2>3 DEF ConsumeOutput
    <3> QED BY <3>1
  <2> QED BY <2>0, <2>1, <2>2, <2>3 DEF Next
<1> QED BY <1>1, <1>2, TypeCorrect, PTL DEF Spec, OwnerInv

\* What call() finds under the last saved id is the newest result or null,
\* never an older one (OutputManager.cpp:96, Wasm3Rune.cpp:325-330).
THEOREM LastSaved == Spec => []LastSavedIsNewest
BY Ownership, PTL

\* A pending result is lost to a reset of a cache over its limit and to
\* nothing else: without a reset the new id is free and overwrites no entry.
THEOREM NoSilentLoss == Spec => PendingLostOnlyByReset
<1> DEFINE Lossless ==
        \A id \in Cached :
          LET object == m_results[id]
          IN object # Null /\ object \notin Live' =>
                \/ object \in released'
                \/ id \in Cached' /\ m_results'[id] = created'
                \/ Cardinality(Cached) > CacheSizeLimit
<1>1. TypeOK /\ NextIdIsFree /\ [Next]_vars => Lossless
  <2> SUFFICES ASSUME TypeOK, NextIdIsFree, [Next]_vars,
                      NEW id \in Cached,
                      m_results[id] # Null, m_results[id] \notin Live',
                      ~(Cardinality(Cached) > CacheSizeLimit)
               PROVE  \/ m_results[id] \in released'
                      \/ id \in Cached' /\ m_results'[id] = created'
    OBVIOUS
  <2>0. CASE UNCHANGED vars
    BY <2>0 DEF vars, Live, Cached
  <2>1. ASSUME NEW outputType \in OutputType, RequestOutput(outputType), ~UNCHANGED vars
        PROVE  FALSE
    <3>1. id # m_idCounter /\ id \in Kept
      BY DEF NextIdIsFree, Kept
    <3>2. id \in Cached' /\ m_results'[id] = m_results[id]
      BY <2>1, <3>1 DEF RequestOutput, Cached
    <3> QED BY <3>2 DEF Live, Cached
  <2>2. ASSUME NEW outputId \in OutputId, NEW isJson \in BOOLEAN,
               SaveOutput(outputId, isJson), ~UNCHANGED vars
        PROVE  id \in Cached' /\ m_results'[id] = created'
    <3>1. id \in Cached' /\ (id # outputId => m_results'[id] = m_results[id])
      BY <2>2 DEF SaveOutput, Cached, TypeOK
    <3>2. id = outputId => m_results'[id] = created'
      BY <2>2 DEF SaveOutput, Cached, TypeOK
    <3> QED BY <3>1, <3>2 DEF Live, Cached
  <2>3. ASSUME NEW outputId \in OutputId, ConsumeOutput(outputId), ~UNCHANGED vars
        PROVE  m_results[id] \in released'
    <3>1. id \in Cached' /\ (id # outputId => m_results'[id] = m_results[id])
      BY <2>3 DEF ConsumeOutput, Cached, TypeOK
    <3>2. id = outputId
      BY <3>1 DEF Live, Cached
    <3> QED BY <2>3, <3>2 DEF ConsumeOutput
  <2> QED BY <2>0, <2>1, <2>2, <2>3 DEF Next
<1> QED BY <1>1, TypeCorrect, IdsAreFree, PTL DEF Spec, PendingLostOnlyByReset
=============================================================================
