--------------------- MODULE CapabilitiesDelegatesManager ---------------------
(***************************************************************************)
(* src/src/capabilities/CapabilitiesDelegatesManager.cpp: the capabilities *)
(* of one rune.  The rune's wasm asks for a capability, sets its           *)
(* parameters and reads its input; each of these calls a delegate of the   *)
(* embedder, and control leaves the manager in the middle of the           *)
(* operation.  An operation is therefore two actions: up to the callback,  *)
(* and from the delegate's reply on.  While a delegate holds control it    *)
(* may use the IContext of the rune.                                       *)
(***************************************************************************)
EXTENDS Integers, Sequences, FiniteSets

CONSTANTS
    Capability,        \* the enum
    DelegateVectors,   \* loadRune's argument: the getSupportedCapabilities() of each delegate
    DefaultCapability, \* capabilities with a delegate in g_defaultDelegateFactories
    Key, Param,
    IdMod,             \* number of values of TId: 2^32 in the code
    MaxGrants          \* bound of the model: capabilities granted in a behaviour

ASSUME CapabilityAssumption ==
    /\ DelegateVectors \subseteq Seq(SUBSET Capability)
    /\ DefaultCapability \subseteq Capability
    /\ IdMod \in Nat \ {0}
    /\ MaxGrants \in Nat

VARIABLES
    delegates,        \* the delegates this rune was loaded with
    m_delegates,      \* capability -> delegate
    m_capabilityData, \* id -> CapabilityData
    m_idCounter,
    frame,            \* the delegate callback in progress and its arguments
    inserted,         \* the local of setCapabilityParam that outlives the callback
    shared,           \* loadRune has returned: the embedder holds the IContext
    grants            \* ghost: how many capabilities were granted

vars == <<delegates, m_delegates, m_capabilityData, m_idCounter, frame, inserted, shared, grants>>

CapabilityId == 0 .. (IdMod - 1)
Default      == 0                                  \* the built-in delegate
Delegate     == {Default} \cup UNION {DOMAIN v : v \in DelegateVectors}
None         == [kind |-> "none"]                  \* no callback in progress
Known        == DOMAIN m_capabilityData
Params(id)   == m_capabilityData[id].parameters

With(f, x, v) == [y \in DOMAIN f \cup {x} |-> IF y = x THEN v ELSE f[y]]
Without(f, x) == [y \in DOMAIN f \ {x} |-> f[y]]

Supporters(c) == {d \in DOMAIN delegates : c \in delegates[d]}

\* A slip for the mutation checks: a later delegate replaces an earlier one.
LastDelegate(c) == CHOOSE d \in Supporters(c) : \A e \in Supporters(c) : e <= d

\* The constructor inserts the delegates in their order into a map that keeps
\* the first one of each capability.
FirstDelegate(c) == CHOOSE d \in Supporters(c) : \A e \in Supporters(c) : d <= e

Init ==
    /\ delegates \in DelegateVectors
    /\ m_delegates = [c \in {x \in Capability : Supporters(x) # {}} |-> FirstDelegate(c)]
    /\ m_capabilityData = [id \in {} |-> None]
    /\ m_idCounter = 0
    /\ frame = None
    /\ inserted = FALSE
    /\ shared = FALSE
    /\ grants = 0

-----------------------------------------------------------------------------
(* createCapability *)

\* getDelegateForCapability: the default delegate is made when there is no
\* other, and stays.
HasDelegate(capability) ==
    capability \in DOMAIN m_delegates \cup DefaultCapability

WithDelegateFor(capability) ==
    IF capability \in DOMAIN m_delegates
    THEN m_delegates
    ELSE With(m_delegates, capability, Default)

\* Slips for the mutation checks: the id is not advanced, or does not wrap.
NextIdStuck     == m_idCounter
NextIdUnwrapped == m_idCounter + IdMod

NextId == (m_idCounter + 1) % IdMod

CreateCapability(capability) ==
    /\ frame = None
    /\ \/ /\ ~HasDelegate(capability)
          /\ UNCHANGED vars
       \/ /\ HasDelegate(capability)
          /\ m_delegates' = WithDelegateFor(capability)
          /\ frame' = [kind |-> "grant", to |-> m_delegates'[capability],
                       id |-> NextId, capability |-> capability]
          /\ UNCHANGED <<delegates, m_capabilityData, m_idCounter, inserted, shared, grants>>

\* A denied id is offered again next time.
RequestCapabilityReply(granted) ==
    /\ frame.kind = "grant"
    /\ \/ /\ ~granted
          /\ UNCHANGED <<m_capabilityData, m_idCounter, grants>>
       \/ /\ granted
          /\ grants < MaxGrants
          /\ m_idCounter' = frame.id
          /\ m_capabilityData' = With(m_capabilityData, frame.id,
                                      [capability   |-> frame.capability,
                                       owner        |-> frame.to,
                                       parameters   |-> [k \in {} |-> None],
                                       availability |-> TRUE])
          /\ grants' = grants + 1
    /\ frame' = None
    /\ UNCHANGED <<delegates, m_delegates, inserted, shared>>

-----------------------------------------------------------------------------
(* setCapabilityParam *)

\* emplace: the new parameter is in the map while the delegate is asked about
\* it, unless the key was there already.
SetCapabilityParam(id, key, param) ==
    /\ frame = None
    /\ \/ /\ id \notin Known
          /\ UNCHANGED vars
       \/ /\ id \in Known
          /\ inserted' = (key \notin DOMAIN Params(id))
          /\ m_capabilityData' = IF inserted'
                THEN [m_capabilityData EXCEPT ![id].parameters = With(Params(id), key, param)]
                ELSE m_capabilityData
          /\ frame' = [kind |-> "param", to |-> m_capabilityData[id].owner, id |-> id,
                       key |-> key, param |-> param]
          /\ UNCHANGED <<delegates, m_delegates, m_idCounter, shared, grants>>

\* A slip for the mutation checks: the key is erased although it was there.
AfterDenialErasing(id, key) == Without(Params(id), key)

\* The map after the delegate has denied the parameter.
AfterDenial(id, key) == IF inserted THEN Without(Params(id), key) ELSE Params(id)

ParamChangeReply(accepted) ==
    /\ frame.kind = "param"
    /\ m_capabilityData' = [m_capabilityData EXCEPT ![frame.id].parameters =
            IF accepted THEN With(Params(frame.id), frame.key, frame.param)
                        ELSE AfterDenial(frame.id, frame.key)]
    /\ inserted' = FALSE
    /\ frame' = None
    /\ UNCHANGED <<delegates, m_delegates, m_idCounter, shared, grants>>

-----------------------------------------------------------------------------
(* getInput *)

MayAskInput(id) == id \in Known /\ m_capabilityData[id].availability

GetInput(id, bufferIsNull) ==
    /\ frame = None
    /\ \/ /\ bufferIsNull \/ ~MayAskInput(id)
          /\ UNCHANGED vars
       \/ /\ ~bufferIsNull
          /\ MayAskInput(id)
          /\ frame' = [kind |-> "input", to |-> m_capabilityData[id].owner, id |-> id]
          /\ UNCHANGED <<delegates, m_delegates, m_capabilityData, m_idCounter, inserted, shared, grants>>

\* The delegate wrote the buffer or denied: the manager keeps nothing of it.
InputReply ==
    /\ frame.kind = "input"
    /\ frame' = None
    /\ UNCHANGED <<delegates, m_delegates, m_capabilityData, m_idCounter, inserted, shared, grants>>

-----------------------------------------------------------------------------
(* IContext, in the embedder's hands once loadRune has returned *)

LoadRuneReturns ==
    /\ ~shared
    /\ frame = None
    /\ shared' = TRUE
    /\ UNCHANGED <<delegates, m_delegates, m_capabilityData, m_idCounter, frame, inserted, grants>>

\* A slip for the mutation checks: a retracted capability is erased.
SetCapabilityAvailabilityErasing(id, available) ==
    /\ shared
    /\ id \in Known
    /\ m_capabilityData' = IF available THEN m_capabilityData ELSE Without(m_capabilityData, id)
    /\ UNCHANGED <<delegates, m_delegates, m_idCounter, frame, inserted, shared, grants>>

SetCapabilityAvailability(id, available) ==
    /\ shared
    /\ \/ /\ id \notin Known
          /\ UNCHANGED vars
       \/ /\ id \in Known
          /\ m_capabilityData' = [m_capabilityData EXCEPT ![id].availability = available]
          /\ UNCHANGED <<delegates, m_delegates, m_idCounter, frame, inserted, shared, grants>>

Next ==
    \/ \E capability \in Capability : CreateCapability(capability)
    \/ \E granted \in BOOLEAN : RequestCapabilityReply(granted)
    \/ \E id \in CapabilityId, key \in Key, param \in Param : SetCapabilityParam(id, key, param)
    \/ \E accepted \in BOOLEAN : ParamChangeReply(accepted)
    \/ \E id \in CapabilityId, bufferIsNull \in BOOLEAN : GetInput(id, bufferIsNull)
    \/ InputReply
    \/ LoadRuneReturns
    \/ \E id \in CapabilityId, available \in BOOLEAN : SetCapabilityAvailability(id, available)

Spec == Init /\ [][Next]_vars

-----------------------------------------------------------------------------
CapabilityData ==
    [capability : Capability,
     owner : Delegate,
     parameters : UNION {[keys -> Param] : keys \in SUBSET Key},
     availability : BOOLEAN]

Frame ==
    {None}
    \cup [kind : {"grant"}, to : Delegate, id : CapabilityId, capability : Capability]
    \cup [kind : {"param"}, to : Delegate, id : CapabilityId, key : Key, param : Param]
    \cup [kind : {"input"}, to : Delegate, id : CapabilityId]

TypeOK ==
    /\ delegates \in DelegateVectors
    /\ m_delegates \in [DOMAIN m_delegates -> Delegate]
    /\ DOMAIN m_delegates \subseteq Capability
    /\ m_capabilityData \in [Known -> CapabilityData]
    /\ Known \subseteq CapabilityId
    /\ m_idCounter \in CapabilityId
    /\ frame \in Frame
    /\ inserted \in BOOLEAN
    /\ shared \in BOOLEAN
    /\ grants \in 0 .. MaxGrants

\* The map iterators that setCapabilityParam and getInput hold across the
\* delegate's callback still point at the capability, its owner is the delegate
\* that was asked, and the emplaced key is there to be assigned or erased,
\* whatever the delegate did with the context meanwhile
\* (CapabilitiesDelegatesManager.cpp:133-162, 186-197).
HeldEntryExists ==
    /\ frame.kind \in {"param", "input"} =>
          /\ frame.id \in Known
          /\ m_capabilityData[frame.id].owner = frame.to
    /\ frame.kind = "param" =>
          /\ frame.key \in DOMAIN Params(frame.id)
          /\ inserted => Params(frame.id)[frame.key] = frame.param

\* Every capability belongs to the first delegate passed to loadRune that
\* supports it; the built-in one is used only when none does, and stays out of
\* the way of the embedder's for good (CapabilitiesDelegatesManager.cpp:20-42,
\* 56-68).  RuneVm.hpp:58 promises less: there, one of several is chosen randomly.
BoundAsPassed ==
    \A id \in Known :
        LET c == m_capabilityData[id].capability
            d == m_capabilityData[id].owner
        IN /\ m_delegates[c] = d
           /\ \/ d \in Supporters(c) /\ \A e \in Supporters(c) : d <= e
              \/ d = Default /\ c \in DefaultCapability /\ Supporters(c) = {}

\* The id a delegate is asked to grant is not one a capability still has, also
\* after denials (CapabilitiesDelegatesManager.cpp:88-110); this needs fewer
\* grants than ids.
OfferedIdIsFree == frame.kind = "grant" => frame.id \notin Known

\* What the embedder is promised: the registry without the parameter that is
\* in the map only while its delegate is being asked.
Settled(id) ==
    IF frame.kind = "param" /\ frame.id = id /\ inserted
    THEN [m_capabilityData[id] EXCEPT !.parameters = Without(Params(id), frame.key)]
    ELSE m_capabilityData[id]

Registry == INSTANCE CapabilityRegistry WITH
    Id <- CapabilityId,
    registry <- [id \in Known |-> Settled(id)],
    question <- frame
ImplementsRegistry == Registry!Spec
=============================================================================
