---------------------------- MODULE Wasm3RuneProofs ----------------------------
(***************************************************************************)
(* Theorems about a rune and its results, for every counter width, cache   *)
(* limit, number of saves and number of calls.                             *)
(***************************************************************************)
EXTENDS Wasm3Rune, OutputManagerProofs, SequenceTheorems

-----------------------------------------------------------------------------
(* The rune drives its OutputManager through that component's operations *)

\* A step of the rune is a step of its OutputManager or leaves it alone.
LEMMA RuneStepDrivesOutputs == TypeOK /\ [RuneNext]_runeVars => [Next]_vars
<1> SUFFICES ASSUME TypeOK, [RuneNext]_runeVars PROVE Next \/ UNCHANGED vars
  OBVIOUS
<1>1. ASSUME NEW outputType \in 0 .. 5, HostRequestOutput(outputType)
      PROVE  Next
  <2>1. OutputTypeFromInt[outputType] \in OutputType
    BY <1>1 DEF HostRequestOutput, OutputTypeFromInt, OutputType
  <2> QED BY <1>1, <2>1 DEF HostRequestOutput, Next
<1>2. ASSUME NEW outputId \in OutputId, NEW buffer \in {"empty", "json", "other"},
             HostConsumeOutput(outputId, buffer)
      PROVE  Next \/ UNCHANGED vars
  <2>1. (buffer = "json") \in BOOLEAN
    OBVIOUS
  <2> QED BY <1>2, <2>1 DEF HostConsumeOutput, Next
<1>3. CASE CallReturns
  <2>1. CASE NothingToConsume
    BY <1>3, <2>1 DEF CallReturns
  <2>2. CASE ~NothingToConsume
    <3>1. m_lastSavedId \in OutputId /\ ConsumeOutput(m_lastSavedId)
      BY <1>3, <2>2 DEF CallReturns, NothingToConsume, TypeOK
    <3> QED BY <3>1 DEF Next
  <2> QED BY <2>1, <2>2
<1>4. CASE ConstructionThrows \/ StartManifest \/ ManifestReturns \/ ManifestTraps
           \/ StartCall \/ CallTraps
  BY <1>4 DEF ConstructionThrows, StartManifest, ManifestReturns, ManifestTraps,
              StartCall, CallTraps
<1>5. CASE UNCHANGED runeVars
  BY <1>5 DEF runeVars
<1> QED BY <1>1, <1>2, <1>3, <1>4, <1>5 DEF RuneNext

\* Whatever wasm does, the rune's OutputManager only takes steps of its own
\* specification, so every theorem about that module is one about the rune.
THEOREM DrivesOutputs == RuneSpec => Spec
<1>1. RuneInit => Init /\ TypeOK
  BY OutputIdAssumption DEF RuneInit, Init, TypeOK, Cached, OutputId, NoId, Null
<1>2. TypeOK /\ [RuneNext]_runeVars => TypeOK'
  BY RuneStepDrivesOutputs, TypeStep
<1> QED BY <1>1, <1>2, RuneStepDrivesOutputs, PTL DEF RuneSpec, Spec

\* What the OutputManager guarantees in every state of the rune.
OutputsInv == TypeOK /\ NextIdIsFree /\ OneOwner /\ LastSavedIsNewest

LEMMA OutputsInvariant == RuneSpec => []OutputsInv
BY DrivesOutputs, TypeCorrect, IdsAreFree, Ownership, PTL DEF OutputsInv

-----------------------------------------------------------------------------
(* How the operations move the slot *)

LEMMA SlotType == OutputsInv => Slot \in {Null, created} /\ (Slot # Null => Slot \notin released)
BY DEF OutputsInv, LastSavedIsNewest, OneOwner, Live, Slot

\* A request keeps the slot, unless it resets the whole cache.
LEMMA SlotAfterRequest ==
    ASSUME OutputsInv, NEW t \in OutputType, RequestOutput(t)
    PROVE  /\ UNCHANGED <<created, released>>
           /\ Slot' = Slot \/ (Slot' = Null /\ Live' = {})
<1>1. CASE UNCHANGED vars
  BY <1>1 DEF vars, Slot, Cached
<1>2. CASE t = "Serial"
  <2>1. /\ m_results' = [id \in Kept \cup {m_idCounter} |->
                           IF id = m_idCounter THEN Null ELSE m_results[id]]
        /\ UNCHANGED <<m_lastSavedId, created, released>>
    BY <1>2 DEF RequestOutput
  <2>2. CASE Kept = {}
    BY <2>1, <2>2 DEF Slot, Live, Cached
  <2>3. CASE Kept = Cached
    BY <2>1, <2>3 DEF Slot, Cached, OutputsInv, NextIdIsFree
  <2> QED BY <2>1, <2>2, <2>3 DEF Kept
<1> QED BY <1>1, <1>2 DEF RequestOutput

\* A save that succeeds fills the slot with the new result; one that is refused
\* changes nothing.
LEMMA SlotAfterSave ==
    ASSUME TypeOK, NEW id \in OutputId, NEW isJson \in BOOLEAN, SaveOutput(id, isJson)
    PROVE  \/ UNCHANGED vars
           \/ /\ Slot' = created'
              /\ created' = created + 1
              /\ created < MaxSaves
              /\ released' = released
BY DEF SaveOutput, Slot, Cached, TypeOK

\* Consuming the last saved id empties the slot.
LEMMA SlotAfterConsume ==
    ASSUME TypeOK, ~NothingToConsume, ConsumeOutput(m_lastSavedId)
    PROVE  /\ Slot = m_results[m_lastSavedId]
           /\ Slot' = Null
           /\ created' = created
           /\ released' = released \cup ({Slot} \ {Null})
BY DEF ConsumeOutput, NothingToConsume, Slot, Cached, TypeOK

-----------------------------------------------------------------------------
(* Type correctness *)

\* The rune's own variables keep their types: every call has one outcome, and
\* every result made has a call it was made in.
THEOREM RuneTypeCorrect == RuneSpec => []RuneTypeOK
<1>1. RuneInit => RuneTypeOK
  <2> SUFFICES ASSUME RuneInit PROVE RuneTypeOK
    OBVIOUS
  <2>1. TypeOK
    BY OutputIdAssumption DEF RuneInit, Init, TypeOK, Cached, OutputId, NoId, Null
  <2>2. created = 0 /\ outcome = <<>> /\ madeIn = <<>> /\ own = 0 /\ phase \in Phase
    BY DEF RuneInit, Init, Phase, Null
  <2>3. outcome \in Seq(Trapped .. created) /\ madeIn \in Seq(Nat) /\ Calls = 0
        /\ Len(madeIn) = 0
    BY <2>2 DEF Calls
  <2> QED BY <2>1, <2>2, <2>3, MaxCallsAssumption DEF RuneTypeOK
<1>2. RuneTypeOK /\ TypeOK' /\ [RuneNext]_runeVars => RuneTypeOK'
  <2> SUFFICES ASSUME RuneTypeOK, TypeOK', [RuneNext]_runeVars PROVE RuneTypeOK'
    OBVIOUS
  <2> USE MaxCallsAssumption DEF RuneTypeOK, Calls
  <2>0. created \in Nat
    BY DEF TypeOK
  <2>1. ASSUME NEW outputType \in 0 .. 5, HostRequestOutput(outputType)
        PROVE  RuneTypeOK'
    <3>1. created' = created
      BY <2>1 DEF HostRequestOutput, RequestOutput, vars
    <3> QED BY <2>1, <3>1 DEF HostRequestOutput, Null
  <2>2. ASSUME NEW outputId \in OutputId, NEW buffer \in {"empty", "json", "other"},
               HostConsumeOutput(outputId, buffer)
        PROVE  RuneTypeOK'
    <3>1. CASE UNCHANGED <<vars, own, madeIn>>
      BY <2>2, <3>1 DEF HostConsumeOutput, vars
    <3>2. CASE created' = created + 1 /\ own' = created' /\ madeIn' = Append(madeIn, Current)
      <4>1. Current \in Nat
        BY <2>2, <2>0 DEF HostConsumeOutput, Current, Running
      <4>2. outcome' \in Seq(Trapped .. created')
        BY <2>0, <2>2, <3>2, SeqMonotonic DEF HostConsumeOutput, Trapped
      <4> QED BY <2>0, <2>2, <3>2, <4>1, <4>2 DEF HostConsumeOutput
    <3> QED BY <2>0, <2>2, <3>1, <3>2 DEF HostConsumeOutput, SaveOutput, vars
  <2>3. CASE CallReturns
    <3>1. created' = created /\ madeIn' = madeIn /\ phase' \in Phase /\ own' = Null
      BY <2>3 DEF CallReturns, ConsumeOutput, vars, Phase
    <3>2. \E o \in Trapped .. created : outcome' = Append(outcome, o)
      <4>1. CASE NothingToConsume
        BY <2>0, <2>3, <4>1 DEF CallReturns, Trapped, NoOutput
      <4>2. CASE ~NothingToConsume
        <5>1. m_results[m_lastSavedId] \in 0 .. created
          BY <4>2 DEF NothingToConsume, TypeOK
        <5> QED BY <2>0, <2>3, <4>2, <5>1 DEF CallReturns, Trapped
      <4> QED BY <4>1, <4>2
    <3> QED BY <2>0, <3>1, <3>2 DEF Null
  <2>4. CASE CallTraps
    BY <2>0, <2>4 DEF CallTraps, vars, Trapped, Null, Phase
  <2>5. CASE ConstructionThrows \/ StartManifest \/ ManifestReturns \/ ManifestTraps
             \/ StartCall
    BY <2>0, <2>5 DEF ConstructionThrows, StartManifest, ManifestReturns, ManifestTraps,
                      StartCall, vars, Phase, Null
  <2>6. CASE UNCHANGED runeVars
    BY <2>6 DEF runeVars, vars
  <2> QED BY <2>1, <2>2, <2>3, <2>4, <2>5, <2>6 DEF RuneNext
<1> QED BY <1>1, <1>2, DrivesOutputs, TypeCorrect, PTL DEF RuneSpec

-----------------------------------------------------------------------------
(* What the calls deliver *)

LEMMA RuneInvInit == RuneInit => RuneInv
BY DEF RuneInit, Init, RuneInv, DeliveredInOrder, StaleOnlyAfterTraps, Calls, Slot,
       Cached, NoId, Null

LEMMA SlotRange ==
    RuneTypeOK => /\ created \in Nat
                  /\ Slot \in 0 .. created
                  /\ Slot # Null => madeIn[Slot] \in Nat
<1> SUFFICES ASSUME RuneTypeOK
             PROVE  created \in Nat /\ Slot \in 0 .. created
                    /\ (Slot # Null => madeIn[Slot] \in Nat)
  OBVIOUS
<1>1. created \in Nat /\ Slot \in 0 .. created
  BY DEF RuneTypeOK, TypeOK, Slot, Null
<1>2. Slot # Null => Slot \in 1 .. Len(madeIn)
  BY <1>1 DEF RuneTypeOK, Null
<1> QED BY <1>1, <1>2, ElementOfSeq DEF RuneTypeOK

\* Saving and requesting do not touch what was delivered.
LEMMA RuneInvHost ==
    ASSUME RuneTypeOK, OutputsInv, RuneInv, [RuneNext]_runeVars,
           UNCHANGED <<phase, outcome>>
    PROVE  RuneInv'
<1> USE DEF Calls
<1>1. ASSUME NEW outputType \in 0 .. 5, HostRequestOutput(outputType)
      PROVE  RuneInv'
  <2>1. UNCHANGED <<created, released>> /\ (Slot' = Slot \/ (Slot' = Null /\ Live' = {}))
    <3>1. OutputTypeFromInt[outputType] \in OutputType
      BY <1>1 DEF HostRequestOutput, OutputTypeFromInt, OutputType
    <3> QED BY <1>1, <3>1, SlotAfterRequest DEF HostRequestOutput
  <2>2. madeIn' = madeIn /\ own' = IF own \in Live' THEN own ELSE Null
    BY <1>1 DEF HostRequestOutput
  <2> QED BY <2>1, <2>2 DEF RuneInv, DeliveredInOrder, StaleOnlyAfterTraps
<1>2. ASSUME NEW outputId \in OutputId, NEW buffer \in {"empty", "json", "other"},
             HostConsumeOutput(outputId, buffer)
      PROVE  RuneInv'
  <2>1. CASE UNCHANGED <<vars, own, madeIn>>
    BY <2>1 DEF vars, RuneInv, DeliveredInOrder, StaleOnlyAfterTraps, Slot, Cached
  <2>2. CASE /\ SaveOutput(outputId, buffer = "json")
             /\ created' # created
             /\ own' = created'
             /\ madeIn' = Append(madeIn, Current)
    <3>1. Slot' = created' /\ created' = created + 1 /\ released' = released
      BY <2>2, SlotAfterSave DEF RuneTypeOK, vars
    <3>2. /\ Slot' \in Nat /\ madeIn'[Slot'] = Current
          /\ \A i \in 1 .. created : madeIn'[i] = madeIn[i]
      BY <2>2, <3>1 DEF RuneTypeOK, TypeOK
    <3>3. (phase = "manifest" /\ Current = 0 /\ Calls = 0) \/ Current = Calls + 1
      BY DEF Current, RuneInv
    <3>4. \A c \in 1 .. Calls : outcome[c] > 0 => outcome[c] \in 1 .. created
      BY DEF RuneInv, RuneTypeOK, TypeOK
    <3>5. Calls \in Nat
      BY DEF RuneTypeOK
    <3>6. DeliveredInOrder'
      BY DEF RuneInv, DeliveredInOrder
    <3>7. StaleOnlyAfterTraps'
      BY <3>2, <3>4 DEF RuneInv, StaleOnlyAfterTraps
    <3>8. Slot' # Null =>
            /\ madeIn'[Slot'] <= Calls' + 1
            /\ \A k \in 1 .. Calls' : madeIn'[Slot'] <= k => outcome'[k] = Trapped
      BY <3>2, <3>3, <3>5
    <3> QED BY <3>1, <3>6, <3>7, <3>8, <2>2 DEF RuneInv
  <2>3. created' = created => UNCHANGED vars
    BY <1>2 DEF HostConsumeOutput, SaveOutput, vars, RuneTypeOK, TypeOK
  <2> QED BY <1>2, <2>1, <2>2, <2>3 DEF HostConsumeOutput
<1>3. CASE UNCHANGED runeVars
  BY <1>3 DEF runeVars, vars, RuneInv, DeliveredInOrder, StaleOnlyAfterTraps, Slot, Cached
<1> QED
  BY <1>1, <1>2, <1>3 DEF RuneNext, ConstructionThrows, StartManifest, ManifestReturns,
     ManifestTraps, StartCall, CallReturns, CallTraps

\* What a call that ends normally does to the mailbox.
LEMMA CallReturnsTakesSlot ==
    ASSUME RuneTypeOK, CallReturns
    PROVE  /\ outcome' = Append(outcome, IF NothingToConsume THEN NoOutput ELSE Slot)
           /\ NothingToConsume => Slot = Null /\ released' = released
           /\ ~NothingToConsume => released' = released \cup ({Slot} \ {Null})
           /\ Slot' = Null
           /\ UNCHANGED <<created, madeIn>>
<1>1. CASE NothingToConsume
  BY <1>1 DEF CallReturns, NothingToConsume, Slot, Cached, vars, RuneTypeOK, TypeOK,
              OutputId, NoId
<1>2. CASE ~NothingToConsume
  BY <1>2, SlotAfterConsume DEF CallReturns, RuneTypeOK
<1> QED BY <1>1, <1>2

LEMMA RuneInvReturn ==
    ASSUME RuneTypeOK, OutputsInv, RuneInv, CallReturns
    PROVE  RuneInv'
<1> DEFINE o == IF NothingToConsume THEN NoOutput ELSE Slot
<1>1. /\ outcome' = Append(outcome, o)
      /\ o > 0 => o = Slot /\ released' = released \cup {Slot}
      /\ released \subseteq released'
      /\ Slot' = Null
      /\ UNCHANGED <<created, madeIn>>
  BY CallReturnsTakesSlot DEF NoOutput, Null
<1>2. o \in Int /\ (o > 0 => Slot = created /\ Slot \notin released /\ Slot # Null)
  BY SlotType, <1>1 DEF NoOutput, Null, RuneTypeOK, TypeOK
<1> HIDE DEF o
<1>3. /\ Calls \in Nat
      /\ Calls' = Calls + 1
      /\ outcome'[Calls + 1] = o
      /\ \A c \in 1 .. Calls : outcome'[c] = outcome[c] /\ outcome[c] \in Int
  BY <1>1, <1>2 DEF Calls, RuneTypeOK, TypeOK, Trapped
<1>4. own' = Null /\ phase' = "ready"
  BY DEF CallReturns
<1>5. \A c \in 1 .. Calls : outcome[c] > 0 =>
          outcome[c] \in released /\ outcome[c] \in 1 .. created
  BY DEF RuneInv, RuneTypeOK, TypeOK
<1>6. created \in Nat
  BY DEF RuneTypeOK, TypeOK
<1>7. \A c \in 1 .. (Calls + 1) : outcome'[c] > 0 => outcome'[c] \in released'
  <2> TAKE c \in 1 .. (Calls + 1)
  <2>1. CASE c = Calls + 1
    BY <2>1, <1>1, <1>3
  <2>2. CASE c \in 1 .. Calls
    BY <2>2, <1>1, <1>3, <1>5
  <2> QED BY <2>1, <2>2, <1>3
<1>8. DeliveredInOrder'
  <2> SUFFICES ASSUME NEW i \in 1 .. (Calls + 1), NEW j \in 1 .. (Calls + 1),
                      i < j, outcome'[i] > 0, outcome'[j] > 0
               PROVE  outcome'[i] < outcome'[j]
    BY <1>3 DEF DeliveredInOrder
  <2>1. i \in 1 .. Calls /\ outcome'[i] = outcome[i]
    BY <1>3
  <2>2. CASE j = Calls + 1
    <3>1. outcome'[j] = created /\ created \notin released
      BY <2>2, <1>1, <1>2, <1>3
    <3>2. outcome'[i] \in 1 .. created /\ outcome'[i] \in released
      BY <2>1, <1>5
    <3> QED BY <3>1, <3>2, <1>6
  <2>3. CASE j \in 1 .. Calls
    BY <2>1, <2>3, <1>3 DEF RuneInv, DeliveredInOrder
  <2> QED BY <2>2, <2>3, <1>3
<1>9. StaleOnlyAfterTraps'
  <2> SUFFICES ASSUME NEW c \in 1 .. (Calls + 1), outcome'[c] > 0
               PROVE  /\ madeIn[outcome'[c]] <= c
                      /\ \A k \in 1 .. (c - 1) :
                           madeIn[outcome'[c]] <= k => outcome'[k] = Trapped
    BY <1>1, <1>3 DEF StaleOnlyAfterTraps
  <2>1. CASE c = Calls + 1
    BY <2>1, <1>1, <1>2, <1>3 DEF RuneInv
  <2>2. CASE c \in 1 .. Calls
    BY <2>2, <1>3 DEF RuneInv, StaleOnlyAfterTraps
  <2> QED BY <2>1, <2>2, <1>3
<1> QED
  BY <1>1, <1>3, <1>4, <1>7, <1>8, <1>9 DEF RuneInv

LEMMA RuneInvTrap ==
    ASSUME RuneTypeOK, RuneInv, CallTraps
    PROVE  RuneInv'
<1>1. /\ outcome' = Append(outcome, Trapped)
      /\ own' = Null /\ phase' = "ready"
      /\ UNCHANGED <<created, released, madeIn>>
      /\ Slot' = Slot
  BY DEF CallTraps, vars, Slot, Cached
<1>2. /\ Calls \in Nat
      /\ Calls' = Calls + 1
      /\ outcome'[Calls + 1] = Trapped
      /\ \A c \in 1 .. Calls : outcome'[c] = outcome[c]
  BY <1>1 DEF Calls, RuneTypeOK, TypeOK, Trapped
<1>3. ~(Trapped > 0)
  BY DEF Trapped
<1>4. DeliveredInOrder'
  BY <1>2, <1>3 DEF RuneInv, DeliveredInOrder
<1>5. StaleOnlyAfterTraps'
  <2> SUFFICES ASSUME NEW c \in 1 .. (Calls + 1), outcome'[c] > 0
               PROVE  /\ madeIn[outcome'[c]] <= c
                      /\ \A k \in 1 .. (c - 1) :
                           madeIn[outcome'[c]] <= k => outcome'[k] = Trapped
    BY <1>1, <1>2 DEF StaleOnlyAfterTraps
  <2>1. c \in 1 .. Calls
    BY <1>2, <1>3
  <2> QED BY <2>1, <1>2 DEF RuneInv, StaleOnlyAfterTraps
<1>6. Slot' # Null =>
         /\ madeIn'[Slot'] <= Calls' + 1
         /\ \A k \in 1 .. Calls' : madeIn'[Slot'] <= k => outcome'[k] = Trapped
  <2> SUFFICES ASSUME Slot # Null
               PROVE  /\ madeIn[Slot] <= Calls + 2
                      /\ \A k \in 1 .. (Calls + 1) : madeIn[Slot] <= k => outcome'[k] = Trapped
    <3>1. Calls' + 1 = Calls + 2
      BY <1>2
    <3> QED BY <3>1, <1>1, <1>2
  <2>1. madeIn[Slot] \in Nat
    BY SlotRange
  <2>2. madeIn[Slot] <= Calls + 2
    BY <2>1, <1>2 DEF RuneInv
  <2>3. ASSUME NEW k \in 1 .. (Calls + 1), madeIn[Slot] <= k
        PROVE  outcome'[k] = Trapped
    <3>1. CASE k = Calls + 1
      BY <3>1, <1>2
    <3>2. CASE k \in 1 .. Calls
      BY <3>2, <2>3, <1>2 DEF RuneInv
    <3> QED BY <3>1, <3>2, <1>2
  <2> QED BY <2>2, <2>3
<1>7. \A c \in 1 .. Calls' : outcome'[c] > 0 => outcome'[c] \in released'
  <2> SUFFICES ASSUME NEW c \in 1 .. (Calls + 1), outcome'[c] > 0
               PROVE  outcome'[c] \in released
    BY <1>1, <1>2
  <2>1. c \in 1 .. Calls
    BY <1>2, <1>3
  <2> QED BY <2>1, <1>2 DEF RuneInv
<1> QED BY <1>1, <1>4, <1>5, <1>6, <1>7 DEF RuneInv

LEMMA RuneInvStep ==
    ASSUME RuneTypeOK, OutputsInv, RuneInv, [RuneNext]_runeVars
    PROVE  RuneInv'
<1>1. CASE UNCHANGED <<phase, outcome>>
  BY <1>1, RuneInvHost
<1>2. CASE CallReturns
  BY <1>2, RuneInvReturn
<1>3. CASE CallTraps
  BY <1>3, RuneInvTrap
<1>4. CASE ConstructionThrows \/ StartManifest \/ ManifestReturns \/ ManifestTraps \/ StartCall
  <2>1. /\ UNCHANGED <<vars, outcome, madeIn>> /\ own' \in {own, Null}
        /\ phase' \in {"linking", "manifest"} => phase = "linking"
    BY <1>4 DEF ConstructionThrows, StartManifest, ManifestReturns, ManifestTraps, StartCall
  <2> QED
    BY <2>1 DEF vars, RuneInv, DeliveredInOrder, StaleOnlyAfterTraps, Slot, Cached, Calls
<1> QED
  BY <1>1, <1>2, <1>3, <1>4 DEF RuneNext, HostRequestOutput, HostConsumeOutput, runeVars

LEMMA RuneInvariant == RuneSpec => []RuneInv
<1>1. RuneTypeOK /\ OutputsInv /\ RuneInv /\ [RuneNext]_runeVars => RuneInv'
  BY RuneInvStep
<1> QED BY RuneInvInit, <1>1, RuneTypeCorrect, OutputsInvariant, PTL DEF RuneSpec

\* Results are delivered in the order they were saved, each at most once, for
\* every counter width and however often ids are reused.
THEOREM InOrder == RuneSpec => []DeliveredInOrder
BY RuneInvariant, PTL DEF RuneInv

\* Only a run of trapped calls lets a call return a result it did not save.
THEOREM StaleResults == RuneSpec => []StaleOnlyAfterTraps
BY RuneInvariant, PTL DEF RuneInv

\* A call that ends normally returns what it saved last, unless the cache was
\* reset after the save.
THEOREM OwnResult == RuneSpec => ReturnsOwnLastSave
<1>1. ASSUME RuneTypeOK, RuneInv, [RuneNext]_runeVars,
             phase = "calling", phase' = "ready", own # Null
      PROVE  outcome'[Calls + 1] \in {own, Trapped}
  <2>1. CallReturns \/ CallTraps
    BY <1>1 DEF RuneNext, ConstructionThrows, StartManifest, ManifestReturns, ManifestTraps,
                StartCall, HostRequestOutput, HostConsumeOutput, runeVars
  <2>2. CASE CallReturns
    BY <1>1, <2>2, CallReturnsTakesSlot DEF RuneInv, Calls, RuneTypeOK
  <2>3. CASE CallTraps
    BY <1>1, <2>3 DEF CallTraps, Calls, RuneTypeOK
  <2> QED BY <2>1, <2>2, <2>3
<1> QED BY <1>1, RuneTypeCorrect, RuneInvariant, PTL DEF RuneSpec, ReturnsOwnLastSave

-----------------------------------------------------------------------------
(* The rune implements the one-slot mailbox *)

LEMMA MailboxStep ==
    ASSUME RuneTypeOK, OutputsInv, [RuneNext]_runeVars
    PROVE  [Mailbox!Next]_(Mailbox!vars)
<1> USE DEF Mailbox!vars, Mailbox!Running, Mailbox!Null, Null
<1>1. ASSUME NEW outputType \in 0 .. 5, HostRequestOutput(outputType)
      PROVE  Mailbox!Lose \/ UNCHANGED Mailbox!vars
  <2>1. OutputTypeFromInt[outputType] \in OutputType
    BY <1>1 DEF HostRequestOutput, OutputTypeFromInt, OutputType
  <2> QED BY <1>1, <2>1, SlotAfterRequest DEF HostRequestOutput, Running, Mailbox!Lose
<1>2. ASSUME NEW outputId \in OutputId, NEW buffer \in {"empty", "json", "other"},
             HostConsumeOutput(outputId, buffer)
      PROVE  Mailbox!Save \/ UNCHANGED Mailbox!vars
  <2>1. CASE UNCHANGED vars
    BY <1>2, <2>1 DEF HostConsumeOutput, vars, Slot, Cached
  <2>2. CASE SaveOutput(outputId, buffer = "json")
    <3>1. (buffer = "json") \in BOOLEAN
      OBVIOUS
    <3>2. CASE /\ Slot' = created'
               /\ created' = created + 1
               /\ created < MaxSaves
      BY <1>2, <3>2 DEF HostConsumeOutput, Running, Mailbox!Save
    <3> QED BY <2>1, <2>2, <3>1, <3>2, SlotAfterSave DEF RuneTypeOK
  <2> QED BY <1>2, <2>1, <2>2 DEF HostConsumeOutput
<1>3. CASE CallReturns
  <2>1. PICK o \in IF Slot # Null THEN {Slot} ELSE {NullPtr, NoOutput} :
             outcome' = Append(outcome, o)
    BY <1>3, CallReturnsTakesSlot DEF NullPtr
  <2>2. Slot' = 0 /\ created' = created
    BY <1>3, CallReturnsTakesSlot
  <2>3. phase = "calling" /\ phase' = "ready"
    BY <1>3 DEF CallReturns
  <2> QED
    BY <2>1, <2>2, <2>3 DEF Mailbox!CallReturns, Mailbox!NullPtr, Mailbox!NoOutput, NullPtr,
       NoOutput, Mailbox!Next
<1>4. CASE CallTraps
  BY <1>4 DEF CallTraps, Mailbox!CallTraps, Mailbox!Trapped, Trapped, vars, Slot, Cached,
     Mailbox!Next
<1>5. CASE ConstructionThrows \/ StartManifest
  BY <1>5 DEF ConstructionThrows, StartManifest, Mailbox!Construct, vars, Slot, Cached,
     Mailbox!Next
<1>6. CASE ManifestReturns \/ ManifestTraps
  BY <1>6 DEF ManifestReturns, ManifestTraps, Mailbox!ManifestEnds, vars, Slot, Cached,
     Mailbox!Next
<1>7. CASE StartCall
  BY <1>7 DEF StartCall, Mailbox!StartCall, Calls, vars, Slot, Cached, Mailbox!Next
<1>8. CASE UNCHANGED runeVars
  BY <1>8 DEF runeVars, vars, Slot, Cached
<1> QED
  BY <1>1, <1>2, <1>3, <1>4, <1>5, <1>6, <1>7, <1>8 DEF RuneNext, Mailbox!Next

\* Ids, cache and resets are invisible to the embedder beyond the loss of what
\* is in the slot: the rune is a mailbox that holds the newest result.
THEOREM ImplementsResultMailbox == RuneSpec => ImplementsMailbox
<1>1. RuneInit => Mailbox!Init
  BY DEF RuneInit, Init, Mailbox!Init, Mailbox!Null, Slot, Cached, NoId, Null
<1>2. RuneTypeOK /\ OutputsInv /\ [RuneNext]_runeVars => [Mailbox!Next]_(Mailbox!vars)
  BY MailboxStep
<1> QED
  BY <1>1, <1>2, RuneTypeCorrect, OutputsInvariant, PTL DEF RuneSpec, ImplementsMailbox,
     Mailbox!Spec
=============================================================================
