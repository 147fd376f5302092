---------------------------- MODULE OutputManager ----------------------------
(***************************************************************************)
(* src/src/OutputManager.cpp: the per-rune cache of outputs.  A rune asks  *)
(* for an output id, saves JSON under it, and the embedder's call()        *)
(* consumes what was saved last.  Ids are a wrapping unsigned counter, and *)
(* the whole cache is dropped when it holds more than a fixed number of    *)
(* ids.                                                                    *)
(*                                                                         *)
(* A JsonResult object is the serial number of its creation; 0 stands for  *)
(* the null pointer an id holds before a save and after a consume.         *)
(***************************************************************************)
EXTENDS Integers, FiniteSets

CONSTANTS
    IdMod,          \* number of values of TOutputId: 2^32 in the code
    CacheSizeLimit, \* cacheSizeLimit: 10'000 in the code
    MaxSaves        \* bound of the model: JsonResult objects made in a behaviour

ASSUME OutputIdAssumption ==
    /\ IdMod \in Nat
    /\ CacheSizeLimit \in Nat
    /\ CacheSizeLimit + 1 < IdMod

ASSUME MaxSavesAssumption == MaxSaves \in Nat

VARIABLES
    m_results,     \* id -> result object or Null
    m_idCounter,   \* the next id
    m_lastSavedId, \* an id, or NoId while the optional is empty
    created,       \* ghost: how many JsonResult objects were ever made
    released       \* ghost: the objects consumeOutput moved out to its caller

vars == <<m_results, m_idCounter, m_lastSavedId, created, released>>

OutputId   == 0 .. (IdMod - 1)
NoId       == -1
Null       == 0
OutputType == {"Serial", "Ble", "Pin", "Wifi"}
Cached     == DOMAIN m_results
Live       == {m_results[id] : id \in Cached} \ {Null}

Init ==
    /\ m_results = [id \in {} |-> Null]
    /\ m_idCounter = 0
    /\ m_lastSavedId = NoId
    /\ created = 0
    /\ released = {}

-----------------------------------------------------------------------------
\* Variants that a slip in requestOutput would give, for the mutation checks:
\* no limit, the limit applied one id too early, a reset that also restarts the
\* ids, a counter that does not wrap.
KeptWithoutLimit == Cached
KeptOffByOne     == IF Cardinality(Cached) >= CacheSizeLimit THEN {} ELSE Cached
NextIdRestarting ==
    IF Cardinality(Cached) > CacheSizeLimit THEN 0 ELSE (m_idCounter + 1) % IdMod
NextIdUnwrapped  == m_idCounter + 1

\* What requestOutput keeps of the cache: nothing once it is over the limit.
Kept == IF Cardinality(Cached) > CacheSizeLimit THEN {} ELSE Cached

\* The counter is an unsigned integer.
NextId == (m_idCounter + 1) % IdMod

\* Only Serial outputs exist; the others are refused and leave no trace.
RequestOutput(outputType) ==
    \/ /\ outputType # "Serial"
       /\ UNCHANGED vars
    \/ /\ outputType = "Serial"
       /\ m_results' = [id \in Kept \cup {m_idCounter} |->
                          IF id = m_idCounter THEN Null ELSE m_results[id]]
       /\ m_idCounter' = NextId
       /\ UNCHANGED <<m_lastSavedId, created, released>>

\* A slip for the mutation checks: the id is recorded before the JSON is parsed.
SaveOutputRecordingFirst(outputId, isJson) ==
    \/ /\ outputId \notin Cached
       /\ UNCHANGED vars
    \/ /\ outputId \in Cached
       /\ m_lastSavedId' = outputId
       /\ isJson => created < MaxSaves
       /\ created' = IF isJson THEN created + 1 ELSE created
       /\ m_results' = IF isJson THEN [m_results EXCEPT ![outputId] = created + 1] ELSE m_results
       /\ UNCHANGED <<m_idCounter, released>>

\* A slip for the mutation checks: a result that waits under the id stays there.
SaveOutputKeepingFirst(outputId, isJson) ==
    \/ /\ outputId \notin Cached \/ ~isJson
       /\ UNCHANGED vars
    \/ /\ outputId \in Cached
       /\ isJson
       /\ created < MaxSaves
       /\ created' = created + 1
       /\ m_results' = [m_results EXCEPT ![outputId] = IF @ = Null THEN created + 1 ELSE @]
       /\ m_lastSavedId' = outputId
       /\ UNCHANGED <<m_idCounter, released>>

\* An id that was never requested (or was dropped) and a buffer that is not
\* JSON are refused before anything changes.
SaveOutput(outputId, isJson) ==
    \/ /\ outputId \notin Cached \/ ~isJson
       /\ UNCHANGED vars
    \/ /\ outputId \in Cached
       /\ isJson
       /\ created < MaxSaves
       /\ created' = created + 1
       /\ m_results' = [m_results EXCEPT ![outputId] = created + 1]
       /\ m_lastSavedId' = outputId
       /\ UNCHANGED <<m_idCounter, released>>

\* A slip for the mutation checks: the pointer is copied instead of moved.
ConsumeOutputCopying(outputId) ==
    /\ outputId \in Cached
    /\ released' = released \cup ({m_results[outputId]} \ {Null})
    /\ UNCHANGED <<m_results, m_idCounter, m_lastSavedId, created>>

\* The pointer is moved to the caller; the id stays, holding null.
ConsumeOutput(outputId) ==
    \/ /\ outputId \notin Cached
       /\ UNCHANGED vars
    \/ /\ outputId \in Cached
       /\ m_results' = [m_results EXCEPT ![outputId] = Null]
       /\ released' = released \cup ({m_results[outputId]} \ {Null})
       /\ UNCHANGED <<m_idCounter, m_lastSavedId, created>>

Next ==
    \/ \E outputType \in OutputType : RequestOutput(outputType)
    \/ \E outputId \in OutputId, isJson \in BOOLEAN : SaveOutput(outputId, isJson)
    \/ \E outputId \in OutputId : ConsumeOutput(outputId)

Spec == Init /\ [][Next]_vars

-----------------------------------------------------------------------------
TypeOK ==
    /\ m_results \in [Cached -> 0 .. created]
    /\ Cached \subseteq OutputId
    /\ m_idCounter \in OutputId
    /\ m_lastSavedId \in OutputId \cup {NoId}
    /\ created \in Nat
    /\ released \subseteq 1 .. created

\* Although consumeOutput keeps every id it empties, the cache never holds
\* more than one id over the limit (OutputManager.cpp:41-49).
CacheBounded == Cardinality(Cached) <= CacheSizeLimit + 1

\* The id requestOutput hands out next is not one the cache still holds, so
\* line 49 never overwrites a pending output, not even after the counter has
\* wrapped around (OutputManager.cpp:37-51).
NextIdIsFree == m_idCounter \notin Cached

\* The n ids handed out before the counter reached c, modulo its width.
IdsBefore(c, n) == {IF k <= c THEN c - k ELSE c - k + IdMod : k \in 1 .. n}

\* The cached ids are the ones most recently handed out, without a gap: a
\* reset forgets older ids only, never a newer one (OutputManager.cpp:41-51).
CachedIdsAreRecent == Cached = IdsBefore(m_idCounter, Cardinality(Cached))

\* An object has one owner: it sits under one id, or it has been moved out to
\* a caller, never both, so no two consumers are given the same result
\* (OutputManager.cpp:101-113).
OneOwner ==
    /\ Live \cap released = {}
    /\ \A i, j \in Cached : m_results[i] = m_results[j] /\ i # j => m_results[i] = Null

\* What call() will read through m_lastSavedId is the newest result ever made
\* or nothing: a refused save moves neither (OutputManager.cpp:70-98).
LastSavedIsNewest ==
    m_lastSavedId \in Cached => m_results[m_lastSavedId] \in {Null, created}

\* A pending result disappears only by being moved out, by a newer save under
\* its own id, or because the cache was over its limit (OutputManager.cpp:41,
\* 87, 108).
PendingLostOnlyByReset ==
    [][\A id \in Cached :
          LET object == m_results[id]
          IN object # Null /\ object \notin Live' =>
                \/ object \in released'
                \/ id \in Cached' /\ m_results'[id] = created'
                \/ Cardinality(Cached) > CacheSizeLimit]_vars

=============================================================================
