-------------------------- MODULE Wasm3RuntimeProofs --------------------------
(***************************************************************************)
(* Theorems about Wasm3Runtime for every set of blobs, whatever they       *)
(* export, every counter width and any number of loads.                    *)
(***************************************************************************)
EXTENDS Wasm3Runtime, WellFoundedInduction, TLAPS

-----------------------------------------------------------------------------
(* The search for a function *)

\* A non-empty set of numbers up to n has a largest one.
LEMMA LargestExists ==
    ASSUME NEW n \in Nat, NEW S \in SUBSET (1 .. n), S # {}
    PROVE  \E x \in S : \A y \in S : y <= x
<1> DEFINE T == {n - x : x \in S}
<1>1. T \subseteq Nat /\ T # {}
  <2>1. \A x \in S : n - x \in Nat
    OBVIOUS
  <2> QED BY <2>1
<1>2. PICK t \in T : \A u \in T : ~(<<u, t>> \in OpToRel(<, Nat))
  <2> HIDE DEF T
  <2> QED BY ONLY <1>1, WFMin, NatLessThanWellFounded
<1>3. ASSUME NEW u \in T PROVE t <= u
  <2>1. t \in Nat /\ u \in Nat
    BY <1>1
  <2>2. <<u, t>> \notin OpToRel(<, Nat)
    BY <1>2
  <2>3. u < t => <<u, t>> \in OpToRel(<, Nat)
    BY ONLY <2>1 DEF OpToRel
  <2>4. ~(u < t)
    BY ONLY <2>2, <2>3
  <2> QED BY ONLY <2>1, <2>4
<1>4. PICK x \in S : t = n - x
  OBVIOUS
<1>5. ASSUME NEW y \in S PROVE y <= x
  <2>1. n - y \in T
    OBVIOUS
  <2>2. n - x <= n - y
    BY <1>3, <1>4, <2>1
  <2> QED BY <2>2
<1> QED BY <1>5

\* What is found is one of the modules.
LEMMA FoundIsExporter ==
    ASSUME NEW blobs \in Seq(Blob), NEW name, Exporters(blobs, name) # {}
    PROVE  FindFunction(blobs, name) \in DOMAIN blobs
<1>1. Len(blobs) \in Nat /\ DOMAIN blobs = 1 .. Len(blobs)
  OBVIOUS
<1>2. Exporters(blobs, name) \in SUBSET (1 .. Len(blobs))
  BY <1>1 DEF Exporters
<1>3. \E x \in Exporters(blobs, name) : \A y \in Exporters(blobs, name) : y <= x
  BY ONLY <1>1, <1>2, LargestExists, Exporters(blobs, name) # {}
<1>4. FindFunction(blobs, name) \in Exporters(blobs, name)
  BY <1>3 DEF FindFunction
<1> QED BY <1>4 DEF Exporters

\* A module that exports the name is found first while it is the newest.
LEMMA NewestIsFound ==
    ASSUME NEW blobs \in Seq(Blob), Len(blobs) > 0, NEW name,
           name \in Exports[blobs[Len(blobs)]]
    PROVE  FindFunction(blobs, name) = Len(blobs)
<1>1. Len(blobs) \in Nat /\ DOMAIN blobs = 1 .. Len(blobs)
  OBVIOUS
<1>2. Len(blobs) \in Exporters(blobs, name)
  BY <1>1 DEF Exporters
<1>3. \A y \in Exporters(blobs, name) : y \in Nat /\ y <= Len(blobs)
  BY <1>1 DEF Exporters
<1> QED BY <1>1, <1>2, <1>3 DEF FindFunction

-----------------------------------------------------------------------------
(* Type correctness *)

LEMMA TypeInit == Init => TypeOK
BY RuntimeAssumption DEF Init, TypeOK, RuneId, Load, None

\* The counter of an unsigned type stays in its range.
LEMMA NextRuneIdType ==
    ASSUME m_runeIdCounter \in RuneId
    PROVE  /\ NextRuneId \in RuneId
           /\ m_runeIdCounter + 1 < IdMod => NextRuneId = m_runeIdCounter + 1
<1>1. IdMod \in Nat /\ IdMod > 0 /\ m_runeIdCounter \in Nat /\ m_runeIdCounter < IdMod
  BY RuntimeAssumption DEF RuneId
<1>2. CASE m_runeIdCounter = IdMod - 1
  BY <1>1, <1>2 DEF RuneId, NextRuneId
<1>3. CASE m_runeIdCounter # IdMod - 1
  BY <1>1, <1>3 DEF RuneId, NextRuneId
<1> QED BY <1>2, <1>3

\* A load extends the modules and leaves the old ones where they are.
LEMMA LoadAppends ==
    ASSUME TypeOK, NEW blob \in Blob
    PROVE  LET blobs == Append(modules, blob)
           IN /\ blobs \in Seq(Blob)
              /\ Len(blobs) = Len(modules) + 1
              /\ DOMAIN blobs = 1 .. (Len(modules) + 1)
              /\ Load = DOMAIN modules
              /\ Load \subseteq 1 .. (Len(modules) + 1)
              /\ \A load \in Load : blobs[load] = modules[load]
              /\ blobs[Len(modules) + 1] = blob
BY DEF TypeOK, Load

LEMMA TypeStep == TypeOK /\ [Next]_vars => TypeOK'
<1> SUFFICES ASSUME TypeOK, [Next]_vars PROVE TypeOK'
  OBVIOUS
<1>1. ASSUME NEW blob \in Blob, LoadRune(blob)
      PROVE  TypeOK'
  <2> DEFINE blobs == Append(modules, blob)
  <2>1. /\ blobs \in Seq(Blob) /\ Len(blobs) = Len(modules) + 1
        /\ DOMAIN blobs = 1 .. Len(blobs) /\ Load \subseteq 1 .. Len(blobs)
    BY LoadAppends
  <2>2. UNCHANGED <<m_runeIdCounter, runes, returned>>
    BY <1>1 DEF LoadRune
  <2>3. CASE UNCHANGED <<modules, running>>
    BY <2>2, <2>3 DEF TypeOK, Load
  <2>4. CASE modules' = blobs
    <3>1. Load' = 1 .. Len(blobs)
      BY <2>4 DEF Load
    <3>2. running' \in [on : Load', code : Load', call : Load'] \cup {None}
      <4>1. CASE UNCHANGED running
        BY <4>1, <3>1, <2>1 DEF TypeOK
      <4>2. CASE /\ \A name \in {"_manifest", "_call"} : Exporters(blobs, name) # {}
                 /\ running' = [on   |-> Len(blobs),
                                code |-> FindFunction(blobs, "_manifest"),
                                call |-> FindFunction(blobs, "_call")]
        <5>1. /\ FindFunction(blobs, "_manifest") \in Load'
              /\ FindFunction(blobs, "_call") \in Load'
          <6> HIDE DEF blobs
          <6> QED BY <2>1, <3>1, <4>2, FoundIsExporter
        <5>2. Len(blobs) \in Load'
          BY <2>1, <3>1 DEF TypeOK
        <5> QED BY <4>2, <5>1, <5>2
      <4>3. UNCHANGED modules \/ UNCHANGED running \/
              /\ \A name \in {"_manifest", "_call"} : Exporters(blobs, name) # {}
              /\ running' = [on   |-> Len(blobs),
                             code |-> FindFunction(blobs, "_manifest"),
                             call |-> FindFunction(blobs, "_call")]
        BY <1>1 DEF LoadRune
      <4>4. modules' # modules
        BY <2>1, <2>4 DEF TypeOK
      <4> QED BY <4>1, <4>2, <4>3, <4>4
    <3>3. DOMAIN runes \subseteq Load' /\ runes \in [DOMAIN runes -> [id : RuneId, call : Load']]
      <4>1. Load \subseteq Load'
        BY <2>1, <3>1
      <4>2. [id : RuneId, call : Load] \subseteq [id : RuneId, call : Load']
        BY <4>1
      <4> QED BY <4>1, <4>2 DEF TypeOK
    <3> QED BY <2>1, <2>2, <2>4, <3>2, <3>3 DEF TypeOK
  <2> QED BY <1>1, <2>3, <2>4 DEF LoadRune
<1>2. CASE ManifestReturns
  <2>1. running \in [on : Load, code : Load, call : Load]
    BY <1>2 DEF ManifestReturns, TypeOK, None, Load
  <2>2. m_runeIdCounter' \in RuneId
    BY <1>2, NextRuneIdType DEF ManifestReturns, TypeOK
  <2>3. returned' \in Seq(RuneId)
    BY <1>2 DEF ManifestReturns, TypeOK
  <2>4. /\ DOMAIN runes' = DOMAIN runes \cup {running.on}
        /\ runes' \in [DOMAIN runes' -> [id : RuneId, call : Load]]
    BY <1>2, <2>1 DEF ManifestReturns, TypeOK
  <2>5. Load' = Load /\ modules' = modules /\ running' = None
    BY <1>2 DEF ManifestReturns, Load
  <2> QED BY <2>1, <2>2, <2>3, <2>4, <2>5 DEF TypeOK
<1>3. CASE ManifestTraps
  BY <1>3 DEF ManifestTraps, TypeOK, Load
<1>4. ASSUME NEW load \in Load, Call(load)
      PROVE  TypeOK'
  BY <1>4 DEF Call, TypeOK, Load
<1>5. ASSUME NEW load \in Load, ReleaseRune(load)
      PROVE  TypeOK'
  BY <1>5 DEF ReleaseRune, TypeOK, Load
<1>6. CASE CallEnds
  BY <1>6 DEF CallEnds, TypeOK, Load
<1>7. CASE UNCHANGED vars
  BY <1>7 DEF vars, TypeOK, Load
<1> QED BY <1>1, <1>2, <1>3, <1>4, <1>5, <1>6, <1>7 DEF Next

\* Type correctness of the runtime (Wasm3Runtime.cpp:24-87).
THEOREM TypeCorrect == Spec => []TypeOK
BY TypeInit, TypeStep, PTL DEF Spec

-----------------------------------------------------------------------------
(* Every complete rune runs its own code *)

\* The strengthening of OwnCode: the _call found for the rune that is being
\* constructed is its own too.
OwnInv ==
    /\ OwnCode
    /\ \A load \in Load : Complete(modules[load]) /\ running.on = load => running.call = load

LEMMA OwnInit == Init => OwnInv
BY DEF Init, OwnInv, OwnCode, Load, None

LEMMA OwnStep == TypeOK /\ OwnInv /\ [Next]_vars => OwnInv'
<1> SUFFICES ASSUME TypeOK, OwnInv, [Next]_vars PROVE OwnInv'
  OBVIOUS
<1>1. ASSUME NEW blob \in Blob, LoadRune(blob)
      PROVE  OwnInv'
  <2> DEFINE blobs == Append(modules, blob)
  <2>1. /\ blobs \in Seq(Blob) /\ Len(blobs) = Len(modules) + 1
        /\ Len(modules) \in Nat
        /\ Load = 1 .. Len(modules)
        /\ \A load \in Load : blobs[load] = modules[load]
    BY LoadAppends DEF TypeOK, Load
  <2>2. Idle /\ UNCHANGED runes
    BY <1>1 DEF LoadRune
  <2>3. CASE UNCHANGED <<modules, running>>
    BY <2>2, <2>3 DEF OwnInv, OwnCode, Load
  <2>4. CASE modules' = blobs
    <3>1. Load' = 1 .. Len(blobs) /\ Load' = Load \cup {Len(blobs)}
      BY <2>1, <2>4 DEF Load
    <3>2. ASSUME NEW load \in Load, Complete(blobs[load]), load \in DOMAIN runes
          PROVE  runes[load].call = load
      BY <3>2, <2>1 DEF OwnInv, OwnCode
    <3>3. Len(blobs) \notin DOMAIN runes
      BY <2>1 DEF TypeOK
    <3>4. CASE UNCHANGED running
      <4>1. running' = None /\ \A load \in Load' : load # None.on
        BY <3>4, <2>2, <3>1 DEF Idle, None
      <4> QED BY <2>2, <2>4, <3>1, <3>2, <3>3, <4>1 DEF OwnInv, OwnCode
    <3>5. CASE running' = [on   |-> Len(blobs),
                           code |-> FindFunction(blobs, "_manifest"),
                           call |-> FindFunction(blobs, "_call")]
      <4>1. ASSUME Complete(blobs[Len(blobs)])
            PROVE  running'.code = Len(blobs) /\ running'.call = Len(blobs)
        <5>1. Len(blobs) > 0
          BY <2>1
        <5>2. /\ "_manifest" \in Exports[blobs[Len(blobs)]]
              /\ "_call" \in Exports[blobs[Len(blobs)]]
          BY <4>1 DEF Complete
        <5>3. /\ FindFunction(blobs, "_manifest") = Len(blobs)
              /\ FindFunction(blobs, "_call") = Len(blobs)
          <6> HIDE DEF blobs
          <6> QED BY <5>1, <5>2, <2>1, NewestIsFound
        <5> QED BY <3>5, <5>3
      <4>2. running'.on = Len(blobs)
        BY <3>5
      <4> HIDE DEF blobs
      <4> QED BY <2>2, <2>4, <3>1, <3>2, <3>3, <4>1, <4>2 DEF OwnInv, OwnCode
    <3> QED BY <1>1, <2>1, <2>4, <3>4, <3>5 DEF LoadRune, TypeOK
  <2> QED BY <1>1, <2>3, <2>4 DEF LoadRune
<1>2. CASE ManifestReturns
  <2>1. Load' = Load /\ modules' = modules /\ running' = None
    BY <1>2 DEF ManifestReturns, Load
  <2>2. \A load \in Load : load # None.on
    BY DEF Load, None
  <2>3. ASSUME NEW load \in Load, Complete(modules[load]), load \in DOMAIN runes'
        PROVE  runes'[load].call = load
    BY <1>2, <2>3 DEF ManifestReturns, OwnInv, OwnCode
  <2> QED BY <2>1, <2>2, <2>3 DEF OwnInv, OwnCode
<1>3. CASE ManifestTraps \/ CallEnds
  BY <1>3 DEF ManifestTraps, CallEnds, OwnInv, OwnCode, Load, None
<1>4. ASSUME NEW load \in Load, Call(load)
      PROVE  OwnInv'
  BY <1>4 DEF Call, OwnInv, OwnCode, Load
<1>5. ASSUME NEW load \in Load, ReleaseRune(load)
      PROVE  OwnInv'
  BY <1>5 DEF ReleaseRune, OwnInv, OwnCode, Load
<1>6. CASE UNCHANGED vars
  BY <1>6 DEF vars, OwnInv, OwnCode, Load
<1> QED BY <1>1, <1>2, <1>3, <1>4, <1>5, <1>6 DEF Next

\* Whatever was loaded into the runtime before, and whatever became of it, a
\* complete rune runs its own module (Wasm3Rune.cpp:276-300).
THEOREM RunsOwnCode == Spec => []OwnCode
<1>1. Spec => [](TypeOK /\ OwnInv)
  BY TypeInit, TypeStep, OwnInit, OwnStep, PTL DEF Spec
<1>2. OwnInv => OwnCode
  BY DEF OwnInv
<1> QED BY <1>1, <1>2, PTL

-----------------------------------------------------------------------------
(* Rune ids *)

\* The strengthening of IdsInOrder: until it wraps, the counter is the number
\* of runes returned, and every rune that is held has a smaller id.
IdInv ==
    /\ Len(returned) < IdMod => m_runeIdCounter = Len(returned)
    /\ Len(returned) <= IdMod => \A load \in DOMAIN runes : runes[load].id < Len(returned)
    /\ IdsInOrder

LEMMA IdInit == Init => IdInv
BY DEF Init, IdInv, IdsInOrder

LEMMA IdStep == TypeOK /\ IdInv /\ [Next]_vars => IdInv'
<1> SUFFICES ASSUME TypeOK, IdInv, [Next]_vars PROVE IdInv'
  OBVIOUS
<1> USE DEF IdInv, IdsInOrder
<1>1. CASE ManifestReturns
  <2>1. /\ returned \in Seq(RuneId) /\ m_runeIdCounter \in RuneId
        /\ IdMod \in Nat /\ Len(returned) \in Nat /\ m_runeIdCounter \in Nat
    BY RuntimeAssumption DEF TypeOK, RuneId
  <2>2. /\ returned' = Append(returned, m_runeIdCounter)
        /\ Len(returned') = Len(returned) + 1
        /\ \A i \in 1 .. Len(returned) : returned'[i] = returned[i]
        /\ returned'[Len(returned) + 1] = m_runeIdCounter
    BY <1>1, <2>1 DEF ManifestReturns
  <2>3. Len(returned') < IdMod => m_runeIdCounter' = Len(returned')
    BY <1>1, <2>1, <2>2, NextRuneIdType DEF ManifestReturns
  <2>4. \A i \in 1 .. Len(returned') : i <= IdMod => returned'[i] = i - 1
    BY <2>1, <2>2
  <2>5. /\ DOMAIN runes' = DOMAIN runes \cup {running.on}
        /\ running.on \notin DOMAIN runes
        /\ runes'[running.on].id = m_runeIdCounter
        /\ \A load \in DOMAIN runes : runes'[load] = runes[load]
    BY <1>1 DEF ManifestReturns
  <2>6. ASSUME Len(returned') <= IdMod
        PROVE  /\ m_runeIdCounter = Len(returned)
               /\ \A load \in DOMAIN runes :
                     runes[load].id \in Nat /\ runes[load].id < Len(returned)
    BY <2>1, <2>2, <2>6 DEF TypeOK, RuneId
  <2>7. Len(returned') <= IdMod => \A load \in DOMAIN runes' : runes'[load].id < Len(returned')
    BY <2>1, <2>2, <2>5, <2>6
  <2>8. ASSUME Len(returned') <= IdMod,
               NEW load \in DOMAIN runes', NEW other \in DOMAIN runes',
               runes'[load].id = runes'[other].id
        PROVE  load = other
    <3>1. Len(returned) <= IdMod
      BY <2>1, <2>2, <2>8
    <3>2. CASE load \in DOMAIN runes /\ other \in DOMAIN runes
      BY <2>5, <2>8, <3>1, <3>2
    <3>3. CASE load = running.on \/ other = running.on
      BY <2>5, <2>6, <2>8, <2>1, <3>3
    <3> QED BY <2>5, <3>2, <3>3
  <2> QED BY <2>3, <2>4, <2>7, <2>8
<1>2. ASSUME NEW load \in Load, ReleaseRune(load)
      PROVE  IdInv'
  BY <1>2 DEF ReleaseRune
<1>3. CASE UNCHANGED <<m_runeIdCounter, runes, returned>>
  BY <1>3
<1> QED BY <1>1, <1>2, <1>3 DEF Next, LoadRune, ManifestTraps, Call, CallEnds, vars

\* loadRune hands out rune ids in order, and held runes have different ids
\* until the counter wraps (Wasm3Runtime.cpp:68-78).
THEOREM RuneIds == Spec => []IdsInOrder
<1>1. Spec => [](TypeOK /\ IdInv)
  BY TypeInit, TypeStep, IdInit, IdStep, PTL DEF Spec
<1>2. IdInv => IdsInOrder
  BY DEF IdInv
<1> QED BY <1>1, <1>2, PTL
=============================================================================
