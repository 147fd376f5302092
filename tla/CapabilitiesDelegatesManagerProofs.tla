------------------ MODULE CapabilitiesDelegatesManagerProofs ------------------
(***************************************************************************)
(* Theorems about CapabilitiesDelegatesManager for every set of            *)
(* capabilities, delegates, keys and parameters and every counter width.   *)
(***************************************************************************)
EXTENDS CapabilitiesDelegatesManager, WellFoundedInduction, TLAPS

ParamMap == UNION {[keys -> Param] : keys \in SUBSET Key}

-----------------------------------------------------------------------------
(* The operators on parameter maps *)

\* Setting a key of a parameter map gives a parameter map with that key.
LEMMA WithType ==
    ASSUME NEW f \in ParamMap, NEW k \in Key, NEW v \in Param
    PROVE  /\ With(f, k, v) \in ParamMap
           /\ k \in DOMAIN With(f, k, v)
           /\ With(f, k, v)[k] = v
<1>1. f \in [DOMAIN f -> Param] /\ DOMAIN f \subseteq Key
  BY DEF ParamMap
<1>2. With(f, k, v) \in [DOMAIN f \cup {k} -> Param] /\ DOMAIN f \cup {k} \in SUBSET Key
  BY <1>1 DEF With
<1> QED BY <1>2 DEF With, ParamMap

\* Removing a key of a parameter map gives a parameter map.
LEMMA WithoutType ==
    ASSUME NEW f \in ParamMap, NEW k
    PROVE  Without(f, k) \in ParamMap
<1>1. f \in [DOMAIN f -> Param] /\ DOMAIN f \subseteq Key
  BY DEF ParamMap
<1>2. Without(f, k) \in [DOMAIN f \ {k} -> Param] /\ DOMAIN f \ {k} \in SUBSET Key
  BY <1>1 DEF Without
<1> QED BY <1>2 DEF ParamMap

\* The rollback of an emplace restores the map it was made on.
LEMMA RollbackRestores ==
    ASSUME NEW f \in ParamMap, NEW k, NEW v, k \notin DOMAIN f
    PROVE  Without(With(f, k, v), k) = f
BY DEF With, Without, ParamMap

\* Assigning a key that was emplaced is setting it in the map before.
LEMMA AssignAfterEmplace ==
    ASSUME NEW f, NEW k, NEW v
    PROVE  With(Without(f, k), k, v) = With(f, k, v)
BY DEF With, Without

\* Updating one field of a capability's data leaves its other fields alone.
LEMMA FieldsKept ==
    ASSUME NEW data \in CapabilityData, NEW x
    PROVE  LET p == [data EXCEPT !.parameters = x]
               a == [data EXCEPT !.availability = x]
           IN /\ p.capability = data.capability /\ a.capability = data.capability
              /\ p.owner = data.owner           /\ a.owner = data.owner
              /\ p.availability = data.availability
              /\ a.parameters = data.parameters
              /\ p.parameters = x               /\ a.availability = x
BY DEF CapabilityData

-----------------------------------------------------------------------------
(* Type correctness *)

\* A non-empty set of natural numbers has a smallest one.
LEMMA SmallestExists ==
    ASSUME NEW S \in SUBSET Nat, S # {}
    PROVE  \E x \in S : \A y \in S : x <= y
<1>1. PICK x \in S : \A y \in S : ~(<<y, x>> \in OpToRel(<, Nat))
  BY WFMin, NatLessThanWellFounded
<1>2. ASSUME NEW y \in S PROVE x <= y
  <2>1. x \in Nat /\ y \in Nat
    OBVIOUS
  <2>2. y < x => <<y, x>> \in OpToRel(<, Nat)
    BY ONLY <2>1 DEF OpToRel
  <2>3. ~(y < x)
    BY ONLY <1>1, <2>2, y \in S
  <2> QED BY ONLY <2>1, <2>3
<1> QED BY <1>2

LEMMA DefaultIsDelegate == Default \in Delegate
BY DEF Delegate

\* The constructor binds a capability to a delegate that supports it, and to
\* the first of them.
LEMMA FirstDelegateSupports ==
    ASSUME delegates \in DelegateVectors, NEW c, Supporters(c) # {}
    PROVE  /\ FirstDelegate(c) \in Delegate
           /\ FirstDelegate(c) \in Supporters(c)
           /\ \A e \in Supporters(c) : FirstDelegate(c) <= e
<1>1. /\ delegates \in Seq(SUBSET Capability)
      /\ Supporters(c) \subseteq Nat
      /\ Supporters(c) \subseteq DOMAIN delegates
  BY CapabilityAssumption DEF Supporters
<1>2. \E d \in Supporters(c) : \A e \in Supporters(c) : d <= e
  BY <1>1, SmallestExists
<1> QED BY <1>1, <1>2 DEF FirstDelegate, Delegate

\* Every variable of the manager keeps its type: in particular a callback in
\* progress is always addressed to a delegate.
THEOREM TypeCorrect == Spec => []TypeOK
<1>1. Init => TypeOK
  <2> SUFFICES ASSUME Init PROVE TypeOK
    OBVIOUS
  <2>1. m_delegates \in [DOMAIN m_delegates -> Delegate] /\ DOMAIN m_delegates \subseteq Capability
    BY FirstDelegateSupports DEF Init
  <2>2. m_capabilityData \in [Known -> CapabilityData] /\ Known \subseteq CapabilityId
    BY DEF Init, Known
  <2>3. m_idCounter \in CapabilityId /\ grants \in 0 .. MaxGrants
    BY CapabilityAssumption DEF Init, CapabilityId
  <2>4. frame \in Frame /\ inserted \in BOOLEAN /\ shared \in BOOLEAN
    BY DEF Init, Frame
  <2>5. delegates \in DelegateVectors
    BY DEF Init
  <2> QED BY <2>1, <2>2, <2>3, <2>4, <2>5 DEF TypeOK
<1>2. TypeOK /\ [Next]_vars => TypeOK'
  <2> SUFFICES ASSUME TypeOK, [Next]_vars PROVE TypeOK'
    OBVIOUS
  <2> USE DEF TypeOK, Known
  <2>0. CASE UNCHANGED vars
    BY <2>0 DEF vars
  <2>1. ASSUME NEW capability \in Capability, CreateCapability(capability), ~UNCHANGED vars
        PROVE  TypeOK'
    <3>1. m_delegates' = WithDelegateFor(capability) /\ HasDelegate(capability)
      BY <2>1 DEF CreateCapability
    <3>2. /\ m_delegates' \in [DOMAIN m_delegates' -> Delegate]
          /\ DOMAIN m_delegates' \subseteq Capability
          /\ capability \in DOMAIN m_delegates'
      BY <3>1, DefaultIsDelegate DEF WithDelegateFor, With
    <3>3. NextId \in CapabilityId
      BY CapabilityAssumption DEF NextId, CapabilityId
    <3>4. frame' \in Frame
      BY <2>1, <3>2, <3>3 DEF CreateCapability, Frame
    <3> QED BY <2>1, <3>2, <3>4 DEF CreateCapability
  <2>2. ASSUME NEW granted \in BOOLEAN, RequestCapabilityReply(granted)
        PROVE  TypeOK'
    <3>1. frame \in [kind : {"grant"}, to : Delegate, id : CapabilityId, capability : Capability]
      BY <2>2 DEF RequestCapabilityReply, Frame, None
    <3>2. CASE granted
      <4> DEFINE data == [capability |-> frame.capability, owner |-> frame.to,
                          parameters |-> [k \in {} |-> None], availability |-> TRUE]
      <4>1. [k \in {} |-> None] \in ParamMap
        <5>1. [k \in {} |-> None] \in [{} -> Param]
          OBVIOUS
        <5> QED BY <5>1 DEF ParamMap
      <4>2. data \in CapabilityData
        BY <3>1, <4>1 DEF CapabilityData, ParamMap
      <4>3. m_capabilityData' = With(m_capabilityData, frame.id, data)
        BY <2>2, <3>2 DEF RequestCapabilityReply
      <4>4. /\ m_capabilityData' \in [DOMAIN m_capabilityData' -> CapabilityData]
            /\ DOMAIN m_capabilityData' \subseteq CapabilityId
        BY <3>1, <4>2, <4>3 DEF With
      <4>5. m_idCounter' \in CapabilityId /\ grants' \in 0 .. MaxGrants
        BY <2>2, <3>1, <3>2, CapabilityAssumption DEF RequestCapabilityReply
      <4>6. frame' \in Frame
        BY <2>2 DEF RequestCapabilityReply, Frame
      <4> HIDE DEF data
      <4> QED BY <2>2, <4>4, <4>5, <4>6 DEF RequestCapabilityReply
    <3>3. CASE ~granted
      BY <2>2, <3>3 DEF RequestCapabilityReply, Frame
    <3> QED BY <3>2, <3>3
  <2>3. ASSUME NEW id \in CapabilityId, NEW key \in Key, NEW param \in Param,
               SetCapabilityParam(id, key, param), ~UNCHANGED vars
        PROVE  TypeOK'
    <3>1. id \in Known /\ m_capabilityData[id] \in CapabilityData /\ Params(id) \in ParamMap
      BY <2>3 DEF SetCapabilityParam, CapabilityData, ParamMap, Params
    <3>2. frame' \in Frame
      <4>1. m_capabilityData[id].owner \in Delegate
        BY <3>1 DEF CapabilityData
      <4>2. frame' = [kind |-> "param", to |-> m_capabilityData[id].owner, id |-> id,
                      key |-> key, param |-> param]
        BY <2>3 DEF SetCapabilityParam
      <4> QED BY <4>1, <4>2 DEF Frame
    <3>6. inserted' \in BOOLEAN
      BY <2>3 DEF SetCapabilityParam
    <3>3. With(Params(id), key, param) \in ParamMap
      BY <3>1, WithType
    <3>4. [m_capabilityData[id] EXCEPT !.parameters = With(Params(id), key, param)] \in CapabilityData
      BY <3>1, <3>3 DEF CapabilityData, ParamMap
    <3>5. /\ m_capabilityData' \in [DOMAIN m_capabilityData' -> CapabilityData]
          /\ DOMAIN m_capabilityData' \subseteq CapabilityId
      BY <2>3, <3>1, <3>4 DEF SetCapabilityParam
    <3> QED BY <2>3, <3>2, <3>5, <3>6 DEF SetCapabilityParam
  <2>4. ASSUME NEW accepted \in BOOLEAN, ParamChangeReply(accepted)
        PROVE  TypeOK'
    <3> DEFINE map == IF accepted THEN With(Params(frame.id), frame.key, frame.param)
                                  ELSE AfterDenial(frame.id, frame.key)
    <3>1. frame \in [kind : {"param"}, to : Delegate, id : CapabilityId, key : Key, param : Param]
      BY <2>4 DEF ParamChangeReply, Frame, None
    <3>2. CASE frame.id \in Known
      <4>1. m_capabilityData[frame.id] \in CapabilityData /\ Params(frame.id) \in ParamMap
        BY <3>2 DEF CapabilityData, ParamMap, Params
      <4>2. map \in ParamMap
        BY <3>1, <4>1, WithType, WithoutType DEF AfterDenial
      <4>3. [m_capabilityData[frame.id] EXCEPT !.parameters = map] \in CapabilityData
        BY <4>1, <4>2 DEF CapabilityData, ParamMap
      <4>4. m_capabilityData' \in [Known -> CapabilityData]
        BY <2>4, <3>2, <4>3 DEF ParamChangeReply
      <4> QED BY <2>4, <4>4 DEF ParamChangeReply, Frame
    <3>3. CASE frame.id \notin Known
      BY <2>4, <3>3 DEF ParamChangeReply, Frame
    <3> QED BY <3>2, <3>3
  <2>5. ASSUME NEW id \in CapabilityId, NEW bufferIsNull \in BOOLEAN,
               GetInput(id, bufferIsNull), ~UNCHANGED vars
        PROVE  TypeOK'
    BY <2>5 DEF GetInput, MayAskInput, Frame, CapabilityData
  <2>6. CASE InputReply
    BY <2>6 DEF InputReply, Frame
  <2>7. CASE LoadRuneReturns
    BY <2>7 DEF LoadRuneReturns
  <2>8. ASSUME NEW id \in CapabilityId, NEW available \in BOOLEAN,
               SetCapabilityAvailability(id, available), ~UNCHANGED vars
        PROVE  TypeOK'
    <3>1. [m_capabilityData[id] EXCEPT !.availability = available] \in CapabilityData
      BY <2>8 DEF SetCapabilityAvailability, CapabilityData
    <3> QED BY <2>8, <3>1 DEF SetCapabilityAvailability
  <2> QED BY <2>0, <2>1, <2>2, <2>3, <2>4, <2>5, <2>6, <2>7, <2>8 DEF Next
<1> QED BY <1>1, <1>2, PTL DEF Spec

-----------------------------------------------------------------------------
(* Who is asked, and what survives the question *)

\* The delegate bound to c is the first that supports it, or the built-in one
\* because none does.
BoundRight(c) ==
    \/ /\ m_delegates[c] \in Supporters(c)
       /\ \A e \in Supporters(c) : m_delegates[c] <= e
    \/ m_delegates[c] = Default /\ c \in DefaultCapability /\ Supporters(c) = {}

\* BoundAsPassed speaks of granted capabilities; inductively the same is true
\* of every capability in the map and of the one being granted.
BindingInv ==
    /\ \A c \in Capability : Supporters(c) # {} => c \in DOMAIN m_delegates
    /\ \A c \in DOMAIN m_delegates : BoundRight(c)
    /\ \A id \in Known :
          /\ m_capabilityData[id].capability \in DOMAIN m_delegates
          /\ m_capabilityData[id].owner = m_delegates[m_capabilityData[id].capability]
    /\ frame.kind = "grant" =>
          /\ frame.capability \in DOMAIN m_delegates
          /\ frame.to = m_delegates[frame.capability]

\* HeldEntryExists is inductive once it is known that only setCapabilityParam
\* leaves a rollback pending.
HeldInv == HeldEntryExists /\ (inserted => frame.kind = "param")

LEMMA BindingInvariant == Spec => []BindingInv
<1>1. Init => BindingInv
  <2> SUFFICES ASSUME Init PROVE BindingInv
    OBVIOUS
  <2>1. \A c \in DOMAIN m_delegates : BoundRight(c)
    BY FirstDelegateSupports DEF Init, BoundRight
  <2>2. \A c \in Capability : Supporters(c) # {} => c \in DOMAIN m_delegates
    BY DEF Init
  <2> QED BY <2>1, <2>2 DEF Init, BindingInv, Known, None
<1>2. TypeOK /\ BindingInv /\ [Next]_vars => BindingInv'
  <2> SUFFICES ASSUME TypeOK, BindingInv, [Next]_vars PROVE BindingInv'
    OBVIOUS
  <2> USE DEF BindingInv, BoundRight, Known
  <2>0. CASE UNCHANGED vars
    BY <2>0 DEF vars, Supporters
  <2>1. ASSUME NEW capability \in Capability, CreateCapability(capability), ~UNCHANGED vars
        PROVE  BindingInv'
    <3>1. /\ HasDelegate(capability)
          /\ m_delegates' = WithDelegateFor(capability)
          /\ frame'.kind = "grant" /\ frame'.capability = capability
          /\ frame'.to = m_delegates'[capability]
          /\ UNCHANGED <<delegates, m_capabilityData>>
      BY <2>1 DEF CreateCapability
    <3>2. CASE capability \in DOMAIN m_delegates
      <4>1. m_delegates' = m_delegates
        BY <3>1, <3>2 DEF WithDelegateFor
      <4> QED BY <3>1, <3>2, <4>1 DEF Supporters
    <3>3. CASE capability \notin DOMAIN m_delegates
      <4>1. /\ DOMAIN m_delegates' = DOMAIN m_delegates \cup {capability}
            /\ m_delegates'[capability] = Default
            /\ \A c \in DOMAIN m_delegates : m_delegates'[c] = m_delegates[c]
        BY <3>1, <3>3 DEF WithDelegateFor, With
      <4>2. Supporters(capability) = {} /\ capability \in DefaultCapability
        BY <3>1, <3>3 DEF HasDelegate
      <4>3. \A c : Supporters(c)' = Supporters(c)
        BY <3>1 DEF Supporters
      <4>4. \A c \in DOMAIN m_delegates' : BoundRight(c)'
        BY <4>1, <4>2, <4>3
      <4>5. \A id \in Known' :
               /\ m_capabilityData'[id].capability \in DOMAIN m_delegates'
               /\ m_capabilityData'[id].owner = m_delegates'[m_capabilityData'[id].capability]
        BY <3>1, <4>1
      <4>6. \A c \in Capability : Supporters(c)' # {} => c \in DOMAIN m_delegates'
        BY <4>1, <4>3
      <4> QED BY <3>1, <4>1, <4>4, <4>5, <4>6
    <3> QED BY <3>2, <3>3
  <2>2. ASSUME NEW granted \in BOOLEAN, RequestCapabilityReply(granted)
        PROVE  BindingInv'
    BY <2>2 DEF RequestCapabilityReply, With, None, Supporters
  <2>3. ASSUME UNCHANGED <<delegates, m_delegates>>, Known' = Known, frame'.kind # "grant",
               \A id \in Known :
                   /\ m_capabilityData'[id].capability = m_capabilityData[id].capability
                   /\ m_capabilityData'[id].owner = m_capabilityData[id].owner
        PROVE  BindingInv'
    BY <2>3 DEF Supporters
  <2>4. ASSUME NEW id \in CapabilityId, NEW key \in Key, NEW param \in Param,
               SetCapabilityParam(id, key, param), ~UNCHANGED vars
        PROVE  BindingInv'
    <3>1. /\ UNCHANGED <<delegates, m_delegates>>
          /\ id \in Known
          /\ frame'.kind = "param"
          /\ \/ m_capabilityData' = m_capabilityData
             \/ m_capabilityData' =
                  [m_capabilityData EXCEPT ![id] = [m_capabilityData[id] EXCEPT
                        !.parameters = With(Params(id), key, param)]]
      BY <2>4 DEF SetCapabilityParam
    <3>2. m_capabilityData[id] \in CapabilityData
      BY <3>1 DEF TypeOK
    <3>3. \A i \in Known :
             /\ m_capabilityData'[i].capability = m_capabilityData[i].capability
             /\ m_capabilityData'[i].owner = m_capabilityData[i].owner
      <4> DEFINE data == m_capabilityData[id]
                 new == [data EXCEPT !.parameters = With(Params(id), key, param)]
      <4>1. new.capability = data.capability /\ new.owner = data.owner
        BY <3>2, FieldsKept
      <4>2. \/ m_capabilityData' = m_capabilityData
            \/ m_capabilityData' = [m_capabilityData EXCEPT ![id] = new]
        BY <3>1
      <4> HIDE DEF new
      <4> QED BY <3>1, <4>1, <4>2
    <3> QED BY <2>3, <3>1, <3>3
  <2>5. ASSUME NEW accepted \in BOOLEAN, ParamChangeReply(accepted)
        PROVE  BindingInv'
    BY <2>3, <2>5 DEF ParamChangeReply, None, TypeOK, CapabilityData
  <2>6. ASSUME NEW id \in CapabilityId, NEW bufferIsNull \in BOOLEAN,
               GetInput(id, bufferIsNull), ~UNCHANGED vars
        PROVE  BindingInv'
    BY <2>3, <2>6 DEF GetInput
  <2>7. CASE InputReply
    BY <2>3, <2>7 DEF InputReply, None
  <2>8. CASE LoadRuneReturns
    BY <2>3, <2>8 DEF LoadRuneReturns, None
  <2>9. ASSUME NEW id \in CapabilityId, NEW available \in BOOLEAN,
               SetCapabilityAvailability(id, available), ~UNCHANGED vars
        PROVE  BindingInv'
    <3>1. /\ UNCHANGED <<delegates, m_delegates, frame>>
          /\ Known' = Known
          /\ \A i \in Known :
                /\ m_capabilityData'[i].capability = m_capabilityData[i].capability
                /\ m_capabilityData'[i].owner = m_capabilityData[i].owner
      <4>1. /\ UNCHANGED <<delegates, m_delegates, frame>>
            /\ id \in Known
            /\ m_capabilityData' = [m_capabilityData EXCEPT
                  ![id] = [m_capabilityData[id] EXCEPT !.availability = available]]
        BY <2>9 DEF SetCapabilityAvailability
      <4>2. m_capabilityData[id] \in CapabilityData
        BY <4>1 DEF TypeOK
      <4> QED BY <4>1, <4>2, FieldsKept
    <3> QED BY <3>1 DEF Supporters
  <2> QED BY <2>0, <2>1, <2>2, <2>4, <2>5, <2>6, <2>7, <2>8, <2>9 DEF Next
<1> QED BY <1>1, <1>2, TypeCorrect, PTL DEF Spec

\* Every granted capability belongs to the first of the embedder's delegates
\* that supports it, the built-in one only when none does.
THEOREM Binding == Spec => []BoundAsPassed
<1>1. BindingInv => BoundAsPassed
  BY DEF BindingInv, BoundAsPassed, BoundRight
<1> QED BY <1>1, BindingInvariant, PTL

LEMMA HeldInvariant == Spec => []HeldInv
<1>1. Init => HeldInv
  BY DEF Init, HeldInv, HeldEntryExists, None
<1>2. TypeOK /\ HeldInv /\ [Next]_vars => HeldInv'
  <2> SUFFICES ASSUME TypeOK, HeldInv, [Next]_vars PROVE HeldInv'
    OBVIOUS
  <2> USE DEF HeldInv, HeldEntryExists, Known
  <2>0. CASE UNCHANGED vars
    BY <2>0 DEF vars, Params
  <2>1. ASSUME NEW capability \in Capability, CreateCapability(capability), ~UNCHANGED vars
        PROVE  HeldInv'
    BY <2>1 DEF CreateCapability, None
  <2>2. CASE frame' = None /\ inserted' = FALSE
    BY <2>2 DEF None
  <2>3. ASSUME NEW granted \in BOOLEAN, RequestCapabilityReply(granted)
        PROVE  HeldInv'
    BY <2>2, <2>3 DEF RequestCapabilityReply, TypeOK
  <2>4. ASSUME NEW id \in CapabilityId, NEW key \in Key, NEW param \in Param,
               SetCapabilityParam(id, key, param), ~UNCHANGED vars
        PROVE  HeldInv'
    <3> DEFINE data == m_capabilityData[id]
               new == [data EXCEPT !.parameters = With(Params(id), key, param)]
    <3>1. /\ id \in Known
          /\ inserted' = (key \notin DOMAIN Params(id))
          /\ m_capabilityData' = IF inserted' THEN [m_capabilityData EXCEPT ![id] = new]
                                              ELSE m_capabilityData
          /\ frame' = [kind |-> "param", to |-> data.owner, id |-> id,
                       key |-> key, param |-> param]
      BY <2>4 DEF SetCapabilityParam
    <3>2. data \in CapabilityData /\ Params(id) \in ParamMap
      BY <3>1 DEF TypeOK, CapabilityData, ParamMap, Params
    <3>3. new.owner = data.owner /\ new.parameters = With(Params(id), key, param)
      BY <3>2, FieldsKept
    <3>4. key \in DOMAIN With(Params(id), key, param) /\ With(Params(id), key, param)[key] = param
      BY <3>2, WithType
    <3>5. CASE inserted'
      <4>1. m_capabilityData'[id] = new /\ id \in Known'
        BY <3>1, <3>5
      <4> HIDE DEF data, new
      <4> QED BY <3>1, <3>3, <3>4, <4>1 DEF Params, data
    <3>6. CASE ~inserted'
      BY <3>1, <3>6 DEF Params
    <3> QED BY <3>5, <3>6
  <2>5. ASSUME NEW accepted \in BOOLEAN, ParamChangeReply(accepted)
        PROVE  HeldInv'
    BY <2>2, <2>5 DEF ParamChangeReply
  <2>6. ASSUME NEW id \in CapabilityId, NEW bufferIsNull \in BOOLEAN,
               GetInput(id, bufferIsNull), ~UNCHANGED vars
        PROVE  HeldInv'
    BY <2>6 DEF GetInput, MayAskInput, None
  <2>7. CASE InputReply
    BY <2>7 DEF InputReply, None
  <2>8. CASE LoadRuneReturns
    BY <2>8 DEF LoadRuneReturns, None
  <2>9. ASSUME NEW id \in CapabilityId, NEW available \in BOOLEAN,
               SetCapabilityAvailability(id, available), ~UNCHANGED vars
        PROVE  HeldInv'
    <3> DEFINE data == m_capabilityData[id]
               new == [data EXCEPT !.availability = available]
    <3>1. /\ id \in Known
          /\ m_capabilityData' = [m_capabilityData EXCEPT ![id] = new]
          /\ UNCHANGED <<frame, inserted>>
      BY <2>9 DEF SetCapabilityAvailability
    <3>2. data \in CapabilityData
      BY <3>1 DEF TypeOK
    <3>3. new.owner = data.owner /\ new.parameters = data.parameters
      BY <3>2, FieldsKept
    <3> HIDE DEF new
    <3> QED BY <3>1, <3>3 DEF Params
  <2> QED BY <2>0, <2>1, <2>3, <2>4, <2>5, <2>6, <2>7, <2>8, <2>9 DEF Next
<1> QED BY <1>1, <1>2, TypeCorrect, PTL DEF Spec

\* Whatever the delegate does with the context while it is asked, the entry the
\* manager will touch after the reply is still there, with the same owner and
\* the emplaced key.
THEOREM HeldIterators == Spec => []HeldEntryExists
<1>1. HeldInv => HeldEntryExists
  BY DEF HeldInv
<1> QED BY <1>1, HeldInvariant, PTL

-----------------------------------------------------------------------------
(* Ids *)

\* With fewer grants than ids the counter has not wrapped: the granted ids are
\* those up to it, and a denied id is the one offered again.
NumberingInv ==
    /\ m_idCounter = grants
    /\ Known = 1 .. grants
    /\ frame.kind = "grant" => frame.id = IF grants + 1 = IdMod THEN 0 ELSE grants + 1

LEMMA NumberingInvariant ==
    ASSUME MaxGrants < IdMod
    PROVE  Spec => []NumberingInv
<1>1. Init => NumberingInv
  BY DEF Init, NumberingInv, Known, None
<1>2. TypeOK /\ NumberingInv /\ [Next]_vars => NumberingInv'
  <2> SUFFICES ASSUME TypeOK, NumberingInv, [Next]_vars PROVE NumberingInv'
    OBVIOUS
  <2> USE DEF NumberingInv, Known
  <2>0. CASE UNCHANGED vars
    BY <2>0 DEF vars
  <2>1. ASSUME NEW capability \in Capability, CreateCapability(capability), ~UNCHANGED vars
        PROVE  NumberingInv'
    <3>1. NextId = IF grants + 1 = IdMod THEN 0 ELSE grants + 1
      <4>1. ASSUME NEW n \in 0 .. (IdMod - 1)
            PROVE  (n + 1) % IdMod = IF n + 1 = IdMod THEN 0 ELSE n + 1
        BY CapabilityAssumption
      <4> QED BY <4>1, CapabilityAssumption DEF NextId, TypeOK
    <3> QED BY <2>1, <3>1 DEF CreateCapability
  <2>2. ASSUME NEW granted \in BOOLEAN, RequestCapabilityReply(granted)
        PROVE  NumberingInv'
    <3>1. CASE granted
      <4>1. /\ m_idCounter' = grants + 1 /\ grants' = grants + 1
            /\ Known' = Known \cup {grants + 1}
            /\ frame'.kind # "grant"
        BY <2>2, <3>1, CapabilityAssumption DEF RequestCapabilityReply, With, None, TypeOK
      <4>2. grants \in Nat
        BY DEF TypeOK
      <4> QED BY <4>1, <4>2
    <3>2. CASE ~granted
      BY <2>2, <3>2 DEF RequestCapabilityReply, None
    <3> QED BY <3>1, <3>2
  <2>3. CASE Known' = Known /\ UNCHANGED <<m_idCounter, grants>> /\
             (frame'.kind # "grant" \/ frame' = frame)
    BY <2>3
  <2>4. ASSUME NEW id \in CapabilityId, NEW key \in Key, NEW param \in Param,
               SetCapabilityParam(id, key, param), ~UNCHANGED vars
        PROVE  NumberingInv'
    BY <2>3, <2>4 DEF SetCapabilityParam
  <2>5. ASSUME NEW accepted \in BOOLEAN, ParamChangeReply(accepted)
        PROVE  NumberingInv'
    BY <2>3, <2>5 DEF ParamChangeReply, None
  <2>6. ASSUME NEW id \in CapabilityId, NEW bufferIsNull \in BOOLEAN,
               GetInput(id, bufferIsNull), ~UNCHANGED vars
        PROVE  NumberingInv'
    BY <2>3, <2>6 DEF GetInput
  <2>7. CASE InputReply
    BY <2>3, <2>7 DEF InputReply, None
  <2>8. CASE LoadRuneReturns
    BY <2>3, <2>8 DEF LoadRuneReturns
  <2>9. ASSUME NEW id \in CapabilityId, NEW available \in BOOLEAN,
               SetCapabilityAvailability(id, available), ~UNCHANGED vars
        PROVE  NumberingInv'
    BY <2>3, <2>9 DEF SetCapabilityAvailability
  <2> QED BY <2>0, <2>1, <2>2, <2>4, <2>5, <2>6, <2>7, <2>8, <2>9 DEF Next
<1> QED BY <1>1, <1>2, TypeCorrect, PTL DEF Spec

\* A delegate is never asked to grant an id that a capability of the rune
\* already has, as long as there are fewer grants than ids.
THEOREM OfferedIds ==
    ASSUME MaxGrants < IdMod
    PROVE  Spec => []OfferedIdIsFree
<1>1. TypeOK /\ NumberingInv => OfferedIdIsFree
  BY CapabilityAssumption DEF TypeOK, NumberingInv, OfferedIdIsFree
<1> QED BY <1>1, TypeCorrect, NumberingInvariant, PTL

-----------------------------------------------------------------------------
(* The registry *)

RegistryState == [id \in Known |-> Settled(id)]

\* With no emplaced parameter waiting for its delegate the registry is the map
\* itself.
LEMMA RegistryIsData ==
    ASSUME TypeOK, ~(frame.kind = "param" /\ inserted)
    PROVE  RegistryState = m_capabilityData
BY DEF RegistryState, Settled, TypeOK

\* With one waiting, the registry is the map without it.
LEMMA RegistryHidesEmplaced ==
    ASSUME TypeOK, HeldInv, frame.kind = "param", inserted
    PROVE  RegistryState = [m_capabilityData EXCEPT ![frame.id] =
              [m_capabilityData[frame.id] EXCEPT
                  !.parameters = Without(Params(frame.id), frame.key)]]
BY DEF RegistryState, Settled, TypeOK, HeldInv, HeldEntryExists

\* Updates of the two fields commute, and of two to one field the later wins.
LEMMA UpdatesCombine ==
    ASSUME NEW data \in CapabilityData, NEW x, NEW y
    PROVE  /\ [[data EXCEPT !.parameters = x] EXCEPT !.availability = y]
                = [[data EXCEPT !.availability = y] EXCEPT !.parameters = x]
           /\ [[data EXCEPT !.parameters = x] EXCEPT !.parameters = y]
                = [data EXCEPT !.parameters = y]
           /\ [data EXCEPT !.parameters = data.parameters] = data
BY DEF CapabilityData

\* Without one, before and after a step, the registry moves with the map.
LEMMA RegistryMovesWithData ==
    ASSUME TypeOK, TypeOK', ~(frame.kind = "param" /\ inserted),
           ~(frame'.kind = "param" /\ inserted')
    PROVE  RegistryState = m_capabilityData /\ RegistryState' = m_capabilityData'
<1>1. RegistryState = m_capabilityData
  BY RegistryIsData
<1>2. RegistryState' = m_capabilityData'
  BY RegistryIsData DEF RegistryState, Settled, TypeOK
<1> QED BY <1>1, <1>2

\* Asking a delegate about a parameter does not change the registry.
LEMMA ParamQuestionKeepsRegistry ==
    ASSUME TypeOK, TypeOK', HeldInv', NEW id, NEW key \in Key, NEW param \in Param,
           SetCapabilityParam(id, key, param)
    PROVE  RegistryState' = RegistryState
<1> DEFINE reg == RegistryState
           data == m_capabilityData[id]
           new == [data EXCEPT !.parameters = With(Params(id), key, param)]
<1>0. frame = None /\ ~(frame.kind = "param")
  BY DEF SetCapabilityParam, None
<1>1. CASE UNCHANGED vars
  BY <1>1 DEF vars, RegistryState, Settled, Params, Known
<1>2. CASE ~UNCHANGED vars
  <2>1. /\ id \in Known
        /\ inserted' = (key \notin DOMAIN Params(id))
        /\ m_capabilityData' = IF inserted' THEN [m_capabilityData EXCEPT ![id] = new]
                                            ELSE m_capabilityData
        /\ frame' = [kind |-> "param", to |-> data.owner, id |-> id,
                     key |-> key, param |-> param]
    BY <1>2 DEF SetCapabilityParam
  <2>2. reg = m_capabilityData
    BY <1>0, RegistryIsData
  <2>3. data \in CapabilityData /\ Params(id) \in ParamMap /\ Params(id) = data.parameters
    BY <2>1 DEF TypeOK, CapabilityData, ParamMap, Params
  <2>4. CASE inserted'
    <3>1. m_capabilityData' = [m_capabilityData EXCEPT ![id] = new]
          /\ Params(id)' = new.parameters /\ m_capabilityData'[id] = new
      BY <2>1, <2>4 DEF Params, Known
    <3>2. new.parameters = With(Params(id), key, param)
      BY <2>3, FieldsKept
    <3>3. Without(With(Params(id), key, param), key) = Params(id)
      BY <2>1, <2>3, <2>4, RollbackRestores
    <3>4. reg' = [m_capabilityData' EXCEPT ![id] =
                    [m_capabilityData'[id] EXCEPT !.parameters = Without(Params(id)', key)]]
      BY <2>1, <2>4, RegistryHidesEmplaced DEF RegistryState, Settled, TypeOK, Known
    <3>5. [m_capabilityData'[id] EXCEPT !.parameters = Without(Params(id)', key)]
            = [new EXCEPT !.parameters = Params(id)]
      BY <3>1, <3>2, <3>3
    <3>6. [new EXCEPT !.parameters = Params(id)] = data
      BY <2>3, UpdatesCombine
    <3>7. reg' = [m_capabilityData' EXCEPT ![id] = data]
      BY <3>4, <3>5, <3>6
    <3>8. reg' = m_capabilityData
      <4> HIDE DEF new, reg
      <4> QED BY <2>1, <3>1, <3>7 DEF TypeOK, Known
    <3> HIDE DEF reg
    <3> QED BY <2>2, <3>8 DEF reg
  <2>5. CASE ~inserted'
    <3>1. reg' = m_capabilityData'
      BY <2>5, RegistryMovesWithData, <1>0
    <3> QED BY <2>1, <2>2, <2>5, <3>1
  <2> QED BY <2>4, <2>5
<1> QED BY <1>1, <1>2

\* The reply changes the registry if it is a yes, as the rune asked.
LEMMA ParamReplySetsRegistry ==
    ASSUME TypeOK, TypeOK', HeldInv, NEW accepted \in BOOLEAN, ParamChangeReply(accepted)
    PROVE  /\ frame.id \in Known
           /\ RegistryState' =
                 IF accepted
                 THEN [RegistryState EXCEPT ![frame.id].parameters =
                          With(RegistryState[frame.id].parameters, frame.key, frame.param)]
                 ELSE RegistryState
<1> DEFINE reg == RegistryState
           id == frame.id
           data == m_capabilityData[id]
           map == IF accepted THEN With(Params(id), frame.key, frame.param)
                              ELSE AfterDenial(id, frame.key)
           settled == IF inserted THEN Without(Params(id), frame.key) ELSE Params(id)
<1>1. /\ frame.kind = "param"
      /\ frame' = None
      /\ m_capabilityData' = [m_capabilityData EXCEPT ![id] =
                                [data EXCEPT !.parameters = map]]
  BY DEF ParamChangeReply
<1>2. id \in Known /\ data \in CapabilityData /\ Params(id) = data.parameters
  BY <1>1 DEF HeldInv, HeldEntryExists, TypeOK, Params
<1>3. reg' = m_capabilityData'
  BY <1>1, RegistryIsData DEF None, RegistryState, Settled, TypeOK
<1>4. reg = [m_capabilityData EXCEPT ![id] = [data EXCEPT !.parameters = settled]]
  <2>1. CASE inserted
    BY <1>1, <2>1, RegistryHidesEmplaced
  <2>2. CASE ~inserted
    <3>1. [data EXCEPT !.parameters = settled] = data
      BY <1>2, <2>2, UpdatesCombine
    <3>2. reg = m_capabilityData
      BY <2>2, RegistryIsData
    <3> HIDE DEF reg
    <3> QED BY <1>2, <3>1, <3>2 DEF TypeOK
  <2> QED BY <2>1, <2>2
<1>5. reg[id] = [data EXCEPT !.parameters = settled] /\ reg[id].parameters = settled
  <2>1. [data EXCEPT !.parameters = settled].parameters = settled
    BY <1>2, FieldsKept
  <2> HIDE DEF settled, reg
  <2> QED BY <1>2, <1>4, <2>1 DEF Known
<1>6. CASE accepted
  <2>1. With(settled, frame.key, frame.param) = With(Params(id), frame.key, frame.param)
    BY AssignAfterEmplace
  <2>2. [reg[id] EXCEPT !.parameters = With(reg[id].parameters, frame.key, frame.param)]
          = [data EXCEPT !.parameters = map]
    <3>1. With(reg[id].parameters, frame.key, frame.param) = map
      BY <1>5, <1>6, <2>1
    <3> HIDE DEF reg, settled, map
    <3>2. ASSUME NEW d \in CapabilityData, NEW x, NEW y
          PROVE  [[d EXCEPT !.parameters = x] EXCEPT !.parameters = y] = [d EXCEPT !.parameters = y]
      BY DEF CapabilityData
    <3>3. [[data EXCEPT !.parameters = settled] EXCEPT !.parameters = map]
            = [data EXCEPT !.parameters = map]
      BY <1>2, <3>2
    <3> QED BY <1>5, <3>1, <3>3
  <2>3. reg' = [reg EXCEPT ![id] = [data EXCEPT !.parameters = map]]
    BY <1>1, <1>2, <1>3, <1>4 DEF TypeOK, Known
  <2>4. reg' = [reg EXCEPT ![id].parameters =
                  With(reg[id].parameters, frame.key, frame.param)]
    BY <2>2, <2>3
  <2> QED BY <1>2, <1>6, <2>4
<1>7. CASE ~accepted
  <2>1. map = settled
    BY <1>7 DEF AfterDenial
  <2>2. reg' = reg
    BY <1>1, <1>3, <1>4, <2>1
  <2> QED BY <1>2, <1>7, <2>2
<1> QED BY <1>6, <1>7

\* The application's changes go through, whatever a delegate is being asked.
LEMMA AvailabilitySetsRegistry ==
    ASSUME TypeOK, NEW id, NEW available \in BOOLEAN, SetCapabilityAvailability(id, available)
    PROVE  RegistryState' = IF id \in Known
                            THEN [RegistryState EXCEPT ![id].availability = available]
                            ELSE RegistryState
<1> DEFINE data == m_capabilityData[id]
           new == [data EXCEPT !.availability = available]
<1>0. CASE id \notin Known
  <2>1. UNCHANGED vars
    BY <1>0 DEF SetCapabilityAvailability
  <2> QED BY <1>0, <2>1 DEF vars, RegistryState, Settled, Params, Known
<1> SUFFICES ASSUME id \in Known
             PROVE  RegistryState' = [RegistryState EXCEPT ![id].availability = available]
  BY <1>0
<1>1. /\ m_capabilityData' = [m_capabilityData EXCEPT ![id] = new]
      /\ UNCHANGED <<frame, inserted>>
  BY DEF SetCapabilityAvailability
<1>2. data \in CapabilityData
  BY DEF TypeOK
<1>3. new.parameters = data.parameters
  BY <1>2, FieldsKept
<1>4. \A i \in Known : Settled(i)' = IF i = id
                                     THEN [Settled(id) EXCEPT !.availability = available]
                                     ELSE Settled(i)
  <2> SUFFICES ASSUME NEW i \in Known
               PROVE  Settled(i)' = IF i = id
                                    THEN [Settled(id) EXCEPT !.availability = available]
                                    ELSE Settled(i)
    OBVIOUS
  <2>1. CASE i # id
    <3>1. m_capabilityData'[i] = m_capabilityData[i]
      BY <1>1, <2>1 DEF TypeOK
    <3> QED BY <1>1, <2>1, <3>1 DEF Settled, Params
  <2>2. CASE i = id
    <3>1. m_capabilityData'[id] = new
      BY <1>1 DEF TypeOK
    <3>2. Params(id)' = Params(id)
      BY <1>3, <3>1 DEF Params
    <3>3. [new EXCEPT !.parameters = Without(Params(id), frame.key)]
            = [[data EXCEPT !.parameters = Without(Params(id), frame.key)]
                  EXCEPT !.availability = available]
      BY <1>2, UpdatesCombine
    <3> QED BY <1>1, <2>2, <3>1, <3>2, <3>3 DEF Settled
  <2> QED BY <2>1, <2>2
<1>5. DOMAIN m_capabilityData' = DOMAIN m_capabilityData
  BY <1>1 DEF TypeOK
<1> QED BY <1>1, <1>4, <1>5 DEF RegistryState, Known

\* The manager implements the registry: the parameter it puts into its map
\* before the delegate has agreed is never a parameter of the registry, and
\* every other step of the manager is a step of the registry or none.
THEOREM Implementation ==
    ASSUME MaxGrants < IdMod
    PROVE  Spec => ImplementsRegistry
<1> USE DEF Registry!None
<1>0. \A f, x, v : Registry!With(f, x, v) = With(f, x, v)
  BY DEF Registry!With, With
<1>1. Init => Registry!Init
  BY DEF Init, Registry!Init, Known, None
<1>2. /\ TypeOK /\ TypeOK' /\ BindingInv /\ HeldInv /\ HeldInv' /\ OfferedIdIsFree'
      /\ [Next]_vars
      => [Registry!Next]_(Registry!vars)
  <2> SUFFICES ASSUME TypeOK, TypeOK', BindingInv, HeldInv, HeldInv', OfferedIdIsFree',
                      [Next]_vars
               PROVE  Registry!Next \/ (RegistryState' = RegistryState /\ frame' = frame)
    BY DEF Registry!vars, RegistryState
  <2> DEFINE reg == RegistryState
             Simple == ~(frame.kind = "param" /\ inserted)
  <2>a. Simple => reg = m_capabilityData
    BY RegistryIsData
  <2>b. Simple' => reg' = m_capabilityData'
    BY RegistryIsData DEF RegistryState, Settled, TypeOK
  <2>0. CASE UNCHANGED vars
    BY <2>0 DEF vars, RegistryState, Settled, Params, Known
  <2>1. ASSUME NEW capability \in Capability, CreateCapability(capability), ~UNCHANGED vars
        PROVE  Registry!Next
    <3> DEFINE delegate == m_delegates'[capability]
    <3>1. /\ frame = None
          /\ frame' = [kind |-> "grant", to |-> delegate, id |-> NextId,
                       capability |-> capability]
          /\ m_capabilityData' = m_capabilityData
          /\ m_delegates' = WithDelegateFor(capability)
      BY <2>1 DEF CreateCapability
    <3>2. reg = m_capabilityData /\ reg' = reg
      BY <3>1, <2>a, <2>b DEF None
    <3>3. NextId \in CapabilityId /\ delegate \in Delegate
      BY <3>1 DEF TypeOK, Frame, None
    <3>4. NextId \notin DOMAIN reg
      BY <3>1, <3>2 DEF OfferedIdIsFree, Known
    <3>5. \A other \in DOMAIN reg :
             reg[other].capability = capability => reg[other].owner = delegate
      BY <3>1, <3>2 DEF BindingInv, WithDelegateFor, Known
    <3>6. Registry!AskGrant(capability, delegate, NextId)
      BY <3>1, <3>2, <3>4, <3>5 DEF Registry!AskGrant, RegistryState, None
    <3> QED BY <3>3, <3>6 DEF Registry!Next
  <2>2. ASSUME NEW granted \in BOOLEAN, RequestCapabilityReply(granted)
        PROVE  Registry!Next
    <3>1. frame.kind = "grant" /\ frame' = None
      BY <2>2 DEF RequestCapabilityReply
    <3>2. reg = m_capabilityData /\ reg' = m_capabilityData'
      BY <3>1, <2>a, <2>b DEF None
    <3>3. CASE granted
      <4>1. Registry!Grant
        BY <2>2, <3>1, <3>2, <3>3, <1>0
           DEF RequestCapabilityReply, Registry!Grant, RegistryState, None
      <4> QED BY <4>1 DEF Registry!Next
    <3>4. CASE ~granted
      <4>1. Registry!NoEffect
        BY <2>2, <3>1, <3>2, <3>4
           DEF RequestCapabilityReply, Registry!NoEffect, RegistryState, None
      <4> QED BY <4>1 DEF Registry!Next
    <3> QED BY <3>3, <3>4
  <2>3. ASSUME NEW id \in CapabilityId, NEW bufferIsNull \in BOOLEAN,
               GetInput(id, bufferIsNull), ~UNCHANGED vars
        PROVE  Registry!Next
    <3>1. /\ frame = None
          /\ id \in Known /\ m_capabilityData[id].availability
          /\ frame' = [kind |-> "input", to |-> m_capabilityData[id].owner, id |-> id]
          /\ m_capabilityData' = m_capabilityData
      BY <2>3 DEF GetInput, MayAskInput
    <3>2. reg = m_capabilityData /\ reg' = reg
      BY <3>1, <2>a, <2>b DEF None
    <3>3. Registry!AskInput(id)
      BY <3>1, <3>2 DEF Registry!AskInput, RegistryState, None, Known
    <3> QED BY <3>3 DEF Registry!Next
  <2>4. CASE InputReply
    <3>1. frame.kind = "input" /\ frame' = None /\ m_capabilityData' = m_capabilityData
      BY <2>4 DEF InputReply
    <3>2. reg' = reg
      BY <3>1, <2>a, <2>b DEF None
    <3>3. Registry!NoEffect
      BY <3>1, <3>2 DEF Registry!NoEffect, RegistryState, None
    <3> QED BY <3>3 DEF Registry!Next
  <2>5. CASE LoadRuneReturns
    <3>1. frame = None /\ frame' = frame /\ m_capabilityData' = m_capabilityData
      BY <2>5 DEF LoadRuneReturns
    <3> QED BY <3>1, <2>a, <2>b DEF None
  <2>6. ASSUME NEW id \in CapabilityId, NEW key \in Key, NEW param \in Param,
               SetCapabilityParam(id, key, param), ~UNCHANGED vars
        PROVE  Registry!Next
    <3>1. /\ frame = None
          /\ id \in Known
          /\ frame' = [kind |-> "param", to |-> m_capabilityData[id].owner, id |-> id,
                       key |-> key, param |-> param]
      BY <2>6 DEF SetCapabilityParam
    <3>2. reg = m_capabilityData
      BY <3>1, <2>a DEF None
    <3>3. reg' = reg
      BY <2>6, ParamQuestionKeepsRegistry
    <3>4. Registry!AskParam(id, key, param)
      BY <3>1, <3>2, <3>3 DEF Registry!AskParam, RegistryState, None, Known
    <3> QED BY <3>4 DEF Registry!Next
  <2>7. ASSUME NEW accepted \in BOOLEAN, ParamChangeReply(accepted)
        PROVE  Registry!Next
    <3>1. frame.kind = "param" /\ frame' = None
      BY <2>7 DEF ParamChangeReply
    <3>2. reg' = IF accepted
                 THEN [reg EXCEPT ![frame.id].parameters =
                          With(reg[frame.id].parameters, frame.key, frame.param)]
                 ELSE reg
      BY <2>7, ParamReplySetsRegistry
    <3>3. CASE accepted
      <4>1. Registry!AcceptParam
        BY <3>1, <3>2, <3>3, <1>0 DEF Registry!AcceptParam, RegistryState, None
      <4> QED BY <4>1 DEF Registry!Next
    <3>4. CASE ~accepted
      <4>1. Registry!NoEffect
        BY <3>1, <3>2, <3>4 DEF Registry!NoEffect, RegistryState, None
      <4> QED BY <4>1 DEF Registry!Next
    <3> QED BY <3>3, <3>4
  <2>8. ASSUME NEW id \in CapabilityId, NEW available \in BOOLEAN,
               SetCapabilityAvailability(id, available), ~UNCHANGED vars
        PROVE  Registry!Next
    <3>1. id \in Known /\ frame' = frame
      BY <2>8 DEF SetCapabilityAvailability
    <3>2. reg' = [reg EXCEPT ![id].availability = available]
      BY <2>8, <3>1, AvailabilitySetsRegistry
    <3>3. id \in DOMAIN reg
      BY <3>1 DEF RegistryState
    <3>4. Registry!SetAvailability(id, available)
      BY <3>1, <3>2, <3>3 DEF Registry!SetAvailability, RegistryState
    <3> QED BY <3>4 DEF Registry!Next
  <2> HIDE DEF reg, Simple
  <2>9. CASE Next
    BY <2>0, <2>1, <2>2, <2>3, <2>4, <2>5, <2>6, <2>7, <2>8, <2>9 DEF Next
  <2> QED BY <2>0, <2>9
<1> QED BY <1>1, <1>2, TypeCorrect, BindingInvariant, HeldInvariant, OfferedIds, PTL
        DEF Spec, ImplementsRegistry, Registry!Spec
=============================================================================
