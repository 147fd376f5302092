-------------------- MODULE RandomCapabilityDelegateProofs --------------------
(***************************************************************************)
(* Theorems about RandomCapabilityDelegate for every set of capabilities,  *)
(* delegates, keys and parameters, every counter width and any number of   *)
(* grants: also when ids are used again.                                   *)
(***************************************************************************)
EXTENDS RandomCapabilityDelegate, CapabilitiesDelegatesManagerProofs

-----------------------------------------------------------------------------
(* The manager inside the composition *)

\* Every step of the composition is one of the manager, or leaves it alone.
LEMMA ManagerSteps == [RandNext]_randVars => [Next]_vars
<1> SUFFICES ASSUME [RandNext]_randVars PROVE [Next]_vars
  OBVIOUS
<1>1. ASSUME NEW granted \in BOOLEAN, RequestCapabilityReply(granted) PROVE Next
  BY <1>1 DEF Next
<1>2. ASSUME NEW accepted \in BOOLEAN, ParamChangeReply(accepted) PROVE Next
  BY <1>2 DEF Next
<1>3. CASE RandRequestCapability
  BY <1>1, <1>3 DEF RandRequestCapability, AfterFailure
<1>4. CASE RandRequestParamChange
  BY <1>2, <1>4 DEF RandRequestParamChange
<1>5. ASSUME NEW isFloatSized \in BOOLEAN, RandRequestInput(isFloatSized) PROVE Next
  BY <1>5 DEF RandRequestInput, Next
<1>6. CASE UNCHANGED randVars
  BY <1>6 DEF randVars
<1> QED BY <1>3, <1>4, <1>5, <1>6 DEF RandNext

\* The manager with the built-in delegate behaves as the manager with any: what
\* is proved of CapabilitiesDelegatesManager holds of the composition.
THEOREM RefinesManager == RandSpec => Spec
<1>1. RandInit => Init
  BY DEF RandInit
<1> QED BY <1>1, ManagerSteps, PTL DEF RandSpec, Spec

-----------------------------------------------------------------------------
(* Type correctness *)

RandTypes ==
    /\ DOMAIN m_engines \subseteq CapabilityId
    /\ m_engines \in [DOMAIN m_engines -> Range]
    /\ \A id \in DOMAIN m_engines : NotFloat \notin {m_engines[id].first, m_engines[id].second}
    /\ served \in {None} \cup [id : CapabilityId, first : Int, second : Int]

\* The generators' ranges hold floats only, and the composition keeps its types.
THEOREM RandTypeCorrect == RandSpec => []RandTypeOK
<1>1. RandInit => RandTypes
  BY DEF RandInit, RandTypes
<1>2. TypeOK /\ RandTypes /\ [RandNext]_randVars => RandTypes'
  <2> SUFFICES ASSUME TypeOK, RandTypes, [RandNext]_randVars PROVE RandTypes'
    OBVIOUS
  <2> USE DEF RandTypes
  <2>1. CASE RandRequestCapability
    <3>1. frame.id \in CapabilityId
      BY <2>1 DEF RandRequestCapability, TypeOK, Frame, None
    <3>2. [first |-> 0, second |-> TwoPi] \in Range /\ NotFloat \notin {0, TwoPi}
      BY RandAssumption DEF Range
    <3>3. CASE UNCHANGED m_engines
      BY <2>1, <3>3 DEF RandRequestCapability
    <3>4. CASE m_engines' = With(m_engines, frame.id, [first |-> 0, second |-> TwoPi])
      BY <2>1, <3>1, <3>2, <3>4 DEF RandRequestCapability, With
    <3> QED BY <2>1, <3>3, <3>4 DEF RandRequestCapability
  <2>2. CASE RandRequestParamChange
    <3>1. CASE UNCHANGED m_engines
      BY <2>2, <3>1 DEF RandRequestParamChange
    <3>2. CASE ~UNCHANGED m_engines
      <4> DEFINE range == [m_engines[frame.id] EXCEPT ![Bound(frame.key)] = frame.param]
      <4>1. /\ frame.id \in DOMAIN m_engines /\ frame.param # NotFloat
            /\ m_engines' = [m_engines EXCEPT ![frame.id] = range]
        BY <2>2, <3>2 DEF RandRequestParamChange, Settable
      <4>2. frame.param \in Int
        BY <2>2, RandAssumption DEF RandRequestParamChange, TypeOK, Frame, None
      <4>3. range \in Range /\ NotFloat \notin {range.first, range.second}
        BY <4>1, <4>2 DEF Range, Bound
      <4> HIDE DEF range
      <4> QED BY <2>2, <4>1, <4>3 DEF RandRequestParamChange
    <3> QED BY <3>1, <3>2
  <2>3. ASSUME NEW isFloatSized \in BOOLEAN, RandRequestInput(isFloatSized)
        PROVE  RandTypes'
    BY <2>3 DEF RandRequestInput, Range
  <2>4. CASE ~ToDefault /\ Next /\ UNCHANGED m_engines /\ served' = None
    BY <2>4
  <2>5. CASE UNCHANGED randVars
    BY <2>5 DEF randVars
  <2> QED BY <2>1, <2>2, <2>3, <2>4, <2>5 DEF RandNext
<1>3. TypeOK /\ RandTypes => RandTypeOK
  BY DEF RandTypes, RandTypeOK
<1> QED BY <1>1, <1>2, <1>3, RefinesManager, TypeCorrect, PTL DEF RandSpec

-----------------------------------------------------------------------------
(* The two places a parameter lives in *)

\* The parameters of a capability without the one that its delegate is being
\* asked about.
Agreed(id) ==
    IF frame.kind = "param" /\ frame.id = id /\ inserted
    THEN Without(Params(id), frame.key)
    ELSE Params(id)

\* The range that parameters stand for.
RangeOf(parameters) ==
    [first  |-> IF "low_bound" \in DOMAIN parameters THEN parameters["low_bound"] ELSE 0,
     second |-> IF "upp_bound" \in DOMAIN parameters THEN parameters["upp_bound"] ELSE TwoPi]

\* ShownRangeIsUsed says nothing of a capability whose delegate is being asked
\* about a parameter; inductively its range is the one agreed on before.  No
\* other code runs while the built-in delegate does, so what the manager checked
\* before it asked still holds.
RangeInv ==
    /\ Owned \subseteq DOMAIN m_engines
    /\ \A id \in Owned : m_engines[id] = RangeOf(Agreed(id))
    /\ ToDefault /\ frame.kind = "input" => m_capabilityData[frame.id].availability

\* Setting one of the two keys in the parameters sets that bound of the range.
LEMMA RangeOfWith ==
    ASSUME NEW f, NEW k \in {"low_bound", "upp_bound"}, NEW v
    PROVE  RangeOf(With(f, k, v)) = [RangeOf(f) EXCEPT ![Bound(k)] = v]
BY DEF RangeOf, With, Bound

\* A step that gives the built-in delegate no new capability and changes neither
\* ranges nor what was agreed on.
LEMMA RangesKept ==
    ASSUME RangeInv, UNCHANGED m_engines, Owned' \subseteq Owned,
           \A id \in Owned' : Agreed(id)' = Agreed(id),
           (ToDefault /\ frame.kind = "input" => m_capabilityData[frame.id].availability)'
    PROVE  RangeInv'
BY DEF RangeInv, RangeOf

\* Steps of the manager while the built-in delegate is not asked.
LEMMA OtherSteps ==
    ASSUME TypeOK, HeldInv, RangeInv, ~ToDefault, Next, UNCHANGED m_engines
    PROVE  RangeInv'
<1> USE DEF Owned, Known, ToDefault
<1>0. CASE UNCHANGED vars
  BY <1>0, RangesKept DEF vars, Agreed, Params
<1>1. ASSUME NEW capability \in Capability, CreateCapability(capability), ~UNCHANGED vars
      PROVE  RangeInv'
  BY <1>1, RangesKept DEF CreateCapability, Agreed, Params, None
<1>2. ASSUME NEW granted \in BOOLEAN, RequestCapabilityReply(granted)
      PROVE  RangeInv'
  <2>1. /\ frame.kind = "grant" /\ frame.to # Default /\ frame' = None
        /\ \/ UNCHANGED m_capabilityData
           \/ m_capabilityData' = With(m_capabilityData, frame.id,
                 [capability |-> frame.capability, owner |-> frame.to,
                  parameters |-> [k \in {} |-> None], availability |-> TRUE])
    BY <1>2 DEF RequestCapabilityReply, None
  <2>2. /\ Owned' \subseteq Owned
        /\ \A id \in Owned' : m_capabilityData'[id] = m_capabilityData[id]
    BY <2>1 DEF With
  <2> QED BY <2>1, <2>2, RangesKept DEF Agreed, Params, None
<1>3. ASSUME NEW id \in CapabilityId, NEW key \in Key, NEW param \in Param,
             SetCapabilityParam(id, key, param), ~UNCHANGED vars
      PROVE  RangeInv'
  <2> DEFINE data == m_capabilityData[id]
             new == [data EXCEPT !.parameters = With(Params(id), key, param)]
  <2>1. /\ frame = None
        /\ id \in Known
        /\ inserted' = (key \notin DOMAIN Params(id))
        /\ m_capabilityData' = IF inserted' THEN [m_capabilityData EXCEPT ![id] = new]
                                            ELSE m_capabilityData
        /\ frame' = [kind |-> "param", to |-> data.owner, id |-> id,
                     key |-> key, param |-> param]
    BY <1>3 DEF SetCapabilityParam
  <2>2. data \in CapabilityData /\ Params(id) \in ParamMap
    BY <2>1 DEF TypeOK, CapabilityData, ParamMap, Params
  <2>3. new.owner = data.owner /\ new.parameters = With(Params(id), key, param)
    BY <2>2, FieldsKept
  <2>4. Owned' = Owned
    <3> HIDE DEF new
    <3> QED BY <2>1, <2>3
  <2>5. Agreed(id)' = Params(id)
    <3>1. CASE inserted'
      <4>1. Params(id)' = With(Params(id), key, param)
        <5> HIDE DEF new
        <5> QED BY <2>1, <2>3, <3>1 DEF Params
      <4> QED BY <2>1, <2>2, <3>1, <4>1, RollbackRestores DEF Agreed
    <3>2. CASE ~inserted'
      BY <2>1, <3>2 DEF Agreed, Params
    <3> QED BY <3>1, <3>2
  <2>6. \A i \in Known : i # id => Agreed(i)' = Params(i)
    BY <2>1 DEF Agreed, Params
  <2>7. \A i \in Known : Agreed(i) = Params(i)
    BY <2>1 DEF Agreed, None
  <2>8. \A i \in Owned' : Agreed(i)' = Agreed(i)
    BY <2>4, <2>5, <2>6, <2>7
  <2> QED BY <2>1, <2>4, <2>8, RangesKept
<1>4. ASSUME NEW accepted \in BOOLEAN, ParamChangeReply(accepted)
      PROVE  RangeInv'
  <2>1. /\ frame.kind = "param" /\ frame.to # Default /\ frame' = None
        /\ frame.id \in Known /\ m_capabilityData[frame.id].owner = frame.to
    BY <1>4 DEF ParamChangeReply, None, HeldInv, HeldEntryExists
  <2>2. /\ DOMAIN m_capabilityData' = Known
        /\ \A i \in Known : i # frame.id => m_capabilityData'[i] = m_capabilityData[i]
        /\ m_capabilityData'[frame.id].owner = frame.to
    BY <1>4, <2>1 DEF ParamChangeReply, TypeOK, CapabilityData
  <2>3. \A i \in Owned' : i \in Owned /\ i # frame.id
    BY <2>1, <2>2
  <2>4. \A i \in Owned' : Agreed(i)' = Agreed(i)
    BY <2>1, <2>2, <2>3 DEF Agreed, Params, None
  <2> QED BY <2>1, <2>3, <2>4, RangesKept DEF None
<1>5. ASSUME NEW id \in CapabilityId, NEW bufferIsNull \in BOOLEAN,
             GetInput(id, bufferIsNull), ~UNCHANGED vars
      PROVE  RangeInv'
  BY <1>5, RangesKept DEF GetInput, MayAskInput, Agreed, Params, None
<1>6. CASE InputReply
  BY <1>6, RangesKept DEF InputReply, Agreed, Params, None
<1>7. CASE LoadRuneReturns
  BY <1>7, RangesKept DEF LoadRuneReturns, Agreed, Params, None
<1>8. ASSUME NEW id \in CapabilityId, NEW available \in BOOLEAN,
             SetCapabilityAvailability(id, available), ~UNCHANGED vars
      PROVE  RangeInv'
  <2> DEFINE data == m_capabilityData[id]
             new == [data EXCEPT !.availability = available]
  <2>1. /\ id \in Known
        /\ m_capabilityData' = [m_capabilityData EXCEPT ![id] = new]
        /\ UNCHANGED <<frame, inserted>>
    BY <1>8 DEF SetCapabilityAvailability
  <2>2. new.owner = data.owner /\ new.parameters = data.parameters
    BY <2>1, FieldsKept DEF TypeOK
  <2> HIDE DEF new
  <2>3. Owned' = Owned
    BY <2>1, <2>2
  <2>4. \A i \in Owned' : Agreed(i)' = Agreed(i)
    BY <2>1, <2>2, <2>3 DEF Agreed, Params
  <2> QED BY <2>1, <2>3, <2>4, RangesKept
<1> QED BY <1>0, <1>1, <1>2, <1>3, <1>4, <1>5, <1>6, <1>7, <1>8 DEF Next

\* Steps of the built-in delegate and of the manager it replies to.
LEMMA RangesInvariant == RandSpec => []RangeInv
<1>1. RandInit => RangeInv
  BY DEF RandInit, Init, RangeInv, Owned, Known, ToDefault, None
<1>2. TypeOK /\ HeldInv /\ RangeInv /\ [RandNext]_randVars => RangeInv'
  <2> SUFFICES ASSUME TypeOK, HeldInv, RangeInv, [RandNext]_randVars PROVE RangeInv'
    OBVIOUS
  <2>1. CASE RandRequestCapability
    <3>1. frame.kind = "grant" /\ frame' = None
      BY <2>1 DEF RandRequestCapability, RequestCapabilityReply
    <3>2. CASE UNCHANGED <<m_capabilityData, m_engines>>
      BY <3>1, <3>2, RangesKept DEF Owned, Known, Agreed, Params, ToDefault, None
    <3>3. CASE ~UNCHANGED <<m_capabilityData, m_engines>>
      <4>1. /\ frame.id \notin DOMAIN m_engines
            /\ m_engines' = With(m_engines, frame.id, [first |-> 0, second |-> TwoPi])
            /\ m_capabilityData' = With(m_capabilityData, frame.id,
                  [capability |-> frame.capability, owner |-> frame.to,
                   parameters |-> [k \in {} |-> None], availability |-> TRUE])
        BY <2>1, <3>3 DEF RandRequestCapability, RequestCapabilityReply, MayAllocate, AfterFailure
      <4>2. \A i : i = frame.id =>
               /\ i \in DOMAIN m_engines'
               /\ m_engines'[i] = RangeOf(Agreed(i))'
        BY <3>1, <4>1 DEF With, Agreed, RangeOf, Params, None
      <4>3. \A i \in Owned' : i # frame.id =>
               /\ i \in DOMAIN m_engines'
               /\ m_engines'[i] = RangeOf(Agreed(i))'
        <5> SUFFICES ASSUME NEW i \in Owned', i # frame.id
                     PROVE  i \in DOMAIN m_engines' /\ m_engines'[i] = RangeOf(Agreed(i))'
          OBVIOUS
        <5>1. i \in Owned /\ m_capabilityData'[i] = m_capabilityData[i]
          BY <4>1 DEF Owned, Known, With
        <5>2. i \in DOMAIN m_engines /\ m_engines'[i] = m_engines[i] /\ i \in DOMAIN m_engines'
          BY <4>1, <5>1 DEF RangeInv, With
        <5>3. Agreed(i)' = Agreed(i)
          BY <3>1, <5>1 DEF Agreed, Params, None
        <5> QED BY <5>1, <5>2, <5>3 DEF RangeInv, RangeOf
      <4> QED BY <3>1, <4>2, <4>3 DEF RangeInv, RangeOf, ToDefault, None
    <3> QED BY <3>2, <3>3
  <2>2. CASE RandRequestParamChange
    <3>0. PICK id, key : id = frame.id /\ key = frame.key
      OBVIOUS
    <3>1. /\ frame.kind = "param" /\ frame.to = Default /\ frame' = None
          /\ id \in Known /\ m_capabilityData[id].owner = frame.to
      BY <2>2, <3>0 DEF RandRequestParamChange, ToDefault, ParamChangeReply, HeldInv, HeldEntryExists
    <3>2. PICK accepted \in BOOLEAN :
             /\ m_capabilityData' = [m_capabilityData EXCEPT ![id] =
                   [m_capabilityData[id] EXCEPT !.parameters =
                      IF accepted THEN With(Params(id), key, frame.param) ELSE AfterDenial(id, key)]]
             /\ accepted => /\ Settable
                            /\ m_engines' = [m_engines EXCEPT ![id][Bound(key)] = frame.param]
             /\ ~accepted => UNCHANGED m_engines
      BY <2>2, <3>0 DEF RandRequestParamChange, ParamChangeReply
    <3> DEFINE map == IF accepted THEN With(Params(id), key, frame.param) ELSE AfterDenial(id, key)
               new == [m_capabilityData[id] EXCEPT !.parameters = map]
    <3>3. new.owner = m_capabilityData[id].owner /\ new.parameters = map
      BY <3>1, FieldsKept DEF TypeOK
    <3>4. m_capabilityData' = [m_capabilityData EXCEPT ![id] = new]
      BY <3>2
    <3> HIDE DEF new, map
    <3>5. Owned' = Owned /\ id \in Owned
      BY <3>1, <3>3, <3>4 DEF Owned, Known
    <3>6. \A i \in Owned : i # id => Agreed(i)' = Agreed(i)
      BY <3>0, <3>1, <3>4 DEF Agreed, Params, Owned, Known, None
    <3>7. Agreed(id)' = map
      BY <3>1, <3>3, <3>4 DEF Agreed, Params, Known, None
    <3>8. CASE ~accepted
      <4>1. map = Agreed(id)
        BY <3>0, <3>1, <3>8 DEF map, Agreed, AfterDenial
      <4> QED BY <3>1, <3>2, <3>5, <3>6, <3>7, <3>8, <4>1, RangesKept DEF ToDefault, None
    <3>9. CASE accepted
      <4>1. key \in {"low_bound", "upp_bound"}
        BY <3>0, <3>2, <3>9 DEF Settable
      <4>2. map = With(Agreed(id), key, frame.param)
        BY <3>0, <3>1, <3>9, AssignAfterEmplace DEF map, Agreed
      <4>3. m_engines'[id] = [RangeOf(Agreed(id)) EXCEPT ![Bound(key)] = frame.param]
        BY <3>2, <3>5, <3>9 DEF RangeInv
      <4>4. m_engines'[id] = RangeOf(Agreed(id))'
        BY <3>7, <4>1, <4>2, <4>3, RangeOfWith DEF RangeOf
      <4>5. /\ DOMAIN m_engines' = DOMAIN m_engines
            /\ \A i \in DOMAIN m_engines : i # id => m_engines'[i] = m_engines[i]
        BY <3>2, <3>9
      <4>6. \A i \in Owned' : m_engines'[i] = RangeOf(Agreed(i))'
        BY <3>5, <3>6, <4>4, <4>5 DEF RangeInv, RangeOf
      <4> QED BY <3>1, <3>5, <4>5, <4>6 DEF RangeInv, RangeOf, ToDefault, None
    <3> QED BY <3>8, <3>9
  <2>3. ASSUME NEW isFloatSized \in BOOLEAN, RandRequestInput(isFloatSized)
        PROVE  RangeInv'
    BY <2>3, RangesKept
       DEF RandRequestInput, InputReply, Owned, Known, Agreed, Params, ToDefault, None
  <2>4. CASE ~ToDefault /\ Next /\ UNCHANGED m_engines
    BY <2>4, OtherSteps
  <2>5. CASE UNCHANGED randVars
    BY <2>5, RangesKept DEF randVars, vars, Owned, Known, Agreed, Params, ToDefault, RangeInv
  <2> QED BY <2>1, <2>2, <2>3, <2>4, <2>5 DEF RandNext
<1> QED BY <1>1, <1>2, RefinesManager, TypeCorrect, HeldInvariant, PTL DEF RandSpec

\* A capability that the built-in delegate granted has a generator for as long
\* as it is owned by it, also when ids are used again.
THEOREM EngineForOwned == RandSpec => []OwnedHaveEngine
<1>1. RangeInv => OwnedHaveEngine
  BY DEF RangeInv, OwnedHaveEngine
<1> QED BY <1>1, RangesInvariant, PTL

LEMMA ShownFromInv == RangeInv => ShownRangeIsUsed
BY DEF RangeInv, ShownRangeIsUsed, Agreed, RangeOf, Shown

\* Between calls the parameters the embedder is shown are the range the
\* generator draws from: both sides accept and roll back the same changes.
THEOREM RangeAsShown == RandSpec => []ShownRangeIsUsed
BY RangesInvariant, ShownFromInv, PTL

\* Input is only ever drawn for an available capability of the built-in
\* delegate, from the range the embedder is shown, which is a proper one.
THEOREM DrawnFromShownRange == RandSpec => DrawnAsShown
<1> DEFINE Proper ==
        served' # None =>
          /\ served'.id \in Owned
          /\ m_capabilityData[served'.id].availability
          /\ served'.first = Shown(served'.id, "low_bound", 0)
          /\ served'.second = Shown(served'.id, "upp_bound", TwoPi)
          /\ NaN \notin {served'.first, served'.second} => served'.first < served'.second
<1>1. RandTypeOK /\ HeldInv /\ RangeInv /\ RandNext => Proper
  <2> SUFFICES ASSUME RandTypeOK, HeldInv, RangeInv, RandNext, served' # None PROVE Proper
    OBVIOUS
  <2>1. PICK isFloatSized \in BOOLEAN : RandRequestInput(isFloatSized)
    BY DEF RandNext, RandRequestCapability, RandRequestParamChange
  <2> DEFINE id == frame.id
  <2>2. /\ ToDefault /\ frame.kind = "input"
        /\ id \in DOMAIN m_engines /\ ~RangeIsInvalid(m_engines[id])
        /\ served' = [id |-> id, first |-> m_engines[id].first, second |-> m_engines[id].second]
    BY <2>1 DEF RandRequestInput
  <2>3. id \in Owned /\ m_capabilityData[id].availability
    BY <2>2 DEF HeldInv, HeldEntryExists, Owned, ToDefault, RangeInv
  <2>4. m_engines[id] = [first  |-> Shown(id, "low_bound", 0),
                         second |-> Shown(id, "upp_bound", TwoPi)]
    BY <2>2, <2>3, ShownFromInv DEF ShownRangeIsUsed
  <2>5. served'.first \in Int /\ served'.second \in Int
    BY <2>2 DEF RandTypeOK, Range
  <2>6. NaN \notin {served'.first, served'.second} => served'.first < served'.second
    BY <2>2, <2>5 DEF RangeIsInvalid
  <2> QED BY <2>2, <2>3, <2>4, <2>6
<1> QED BY <1>1, RefinesManager, RandTypeCorrect, HeldInvariant, RangesInvariant, PTL
        DEF RandSpec, DrawnAsShown
=============================================================================
