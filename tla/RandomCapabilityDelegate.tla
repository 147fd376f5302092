------------------------ MODULE RandomCapabilityDelegate ------------------------
(***************************************************************************)
(* src/src/capabilities/delegates/RandomCapabilityDelegate.cpp, the        *)
(* built-in delegate, composed with the manager that asks it: the replies  *)
(* that CapabilitiesDelegatesManager leaves open are determined where the  *)
(* delegate is this one.  It keeps a generator with a range per capability *)
(* id, next to the parameters the manager keeps and shows to the embedder. *)
(*                                                                         *)
(* The embedder's code does not run while the built-in delegate does.      *)
(* Floats are integers here, NaN and a parameter of another type two more. *)
(***************************************************************************)
EXTENDS CapabilitiesDelegatesManager

CONSTANTS
    NaN,       \* a float that compares as neither less nor greater
    NotFloat,  \* a parameter that holds another alternative of the variant
    TwoPi      \* the default upper bound

ASSUME RandAssumption ==
    /\ Param \subseteq Int /\ NaN \in Int /\ NotFloat \in Int
    /\ TwoPi \in Int \ {NaN, NotFloat} /\ 0 \notin {NaN, NotFloat}

VARIABLES
    m_engines, \* id -> the range its generator draws from
    served     \* ghost: the id and the range this step drew an input from

randVars == <<vars, m_engines, served>>

ToDefault == frame # None /\ frame.to = Default
Owned     == {id \in Known : m_capabilityData[id].owner = Default}

RandInit ==
    /\ Init
    /\ m_engines = [id \in {} |-> None]
    /\ served = None

-----------------------------------------------------------------------------
(* requestCapability *)

\* Slips for the mutation checks: an id that has an engine is accepted (and
\* emplace leaves its engine as it is), a failed emplace is reported as granted.
MayAllocateAgain(id) == TRUE
AfterFailureGranting == TRUE

\* An id that has an engine is denied.
MayAllocate(id) == id \notin DOMAIN m_engines

\* The generator cannot be seeded: the exception becomes a denial.
AfterFailure == FALSE

RandRequestCapability ==
    /\ ToDefault
    /\ frame.kind = "grant"
    /\ \/ /\ MayAllocate(frame.id) /\ frame.capability = "Rand"
          /\ RequestCapabilityReply(TRUE)
          /\ m_engines' = IF frame.id \in DOMAIN m_engines THEN m_engines
                          ELSE With(m_engines, frame.id, [first |-> 0, second |-> TwoPi])
       \/ /\ MayAllocate(frame.id) /\ frame.capability = "Rand"
          /\ RequestCapabilityReply(AfterFailure)
          /\ UNCHANGED m_engines
       \/ /\ ~(MayAllocate(frame.id) /\ frame.capability = "Rand")
          /\ RequestCapabilityReply(FALSE)
          /\ UNCHANGED m_engines
    /\ served' = None

-----------------------------------------------------------------------------
(* requestCapabilityParamChange *)

\* A slip for the mutation checks: the other bound is set.
BoundSwapped(key) == IF key = "low_bound" THEN "second" ELSE "first"

Bound(key) == IF key = "low_bound" THEN "first" ELSE "second"

\* A slip for the mutation checks: the alternative of the variant is not checked.
SettableUntyped ==
    /\ frame.id \in DOMAIN m_engines
    /\ frame.key \in {"low_bound", "upp_bound"}

\* An unknown key and a parameter that is no float are exceptions that become
\* denials.
Settable ==
    /\ frame.id \in DOMAIN m_engines
    /\ frame.key \in {"low_bound", "upp_bound"}
    /\ frame.param # NotFloat

RandRequestParamChange ==
    /\ ToDefault
    /\ frame.kind = "param"
    /\ \/ /\ Settable
          /\ m_engines' = [m_engines EXCEPT ![frame.id][Bound(frame.key)] = frame.param]
          /\ ParamChangeReply(TRUE)
       \/ /\ ~Settable
          /\ ParamChangeReply(FALSE)
          /\ UNCHANGED m_engines
    /\ served' = None

-----------------------------------------------------------------------------
(* requestRuneInputFromCapability *)

\* A slip for the mutation checks: the bounds are not compared.
RangeIsInvalidNever(range) == FALSE

\* range.second <= range.first, on floats.
RangeIsInvalid(range) ==
    /\ range.first # NaN /\ range.second # NaN
    /\ range.second <= range.first

\* A buffer of any other size than that of a float is denied.
RandRequestInput(isFloatSized) ==
    /\ ToDefault
    /\ frame.kind = "input"
    /\ InputReply
    /\ served' = IF frame.id \in DOMAIN m_engines /\ isFloatSized
                    /\ ~RangeIsInvalid(m_engines[frame.id])
                 THEN [id |-> frame.id, first |-> m_engines[frame.id].first,
                       second |-> m_engines[frame.id].second]
                 ELSE None
    /\ UNCHANGED m_engines

RandNext ==
    \/ RandRequestCapability
    \/ RandRequestParamChange
    \/ \E isFloatSized \in BOOLEAN : RandRequestInput(isFloatSized)
    \/ ~ToDefault /\ Next /\ UNCHANGED m_engines /\ served' = None

RandSpec == RandInit /\ [][RandNext]_randVars

-----------------------------------------------------------------------------
Range == [first : Int, second : Int]

RandTypeOK ==
    /\ TypeOK
    /\ DOMAIN m_engines \subseteq CapabilityId
    /\ m_engines \in [DOMAIN m_engines -> Range]
    /\ \A id \in DOMAIN m_engines : NotFloat \notin {m_engines[id].first, m_engines[id].second}
    /\ served \in {None} \cup [id : CapabilityId, first : Int, second : Int]

\* A capability that the built-in delegate granted has a generator for as long
\* as it is owned by it, also when ids are used again after the counter has
\* wrapped (RandomCapabilityDelegate.cpp:33-60 with
\* CapabilitiesDelegatesManager.cpp:88-101).
OwnedHaveEngine == Owned \subseteq DOMAIN m_engines

\* The bound that the embedder is shown by getParamsForCapability; the range of
\* a new generator while it is not set.
Shown(id, key, default) == IF key \in DOMAIN Params(id) THEN Params(id)[key] ELSE default

\* Between calls, the parameters the manager shows are the range the delegate
\* draws from: a parameter that one side accepted or dropped, the other did too
\* (CapabilitiesDelegatesManager.cpp:133-162, RandomCapabilityDelegate.cpp:80-97).
ShownRangeIsUsed ==
    \A id \in Owned : ~(frame.kind = "param" /\ frame.id = id) =>
        m_engines[id] = [first  |-> Shown(id, "low_bound", 0),
                         second |-> Shown(id, "upp_bound", TwoPi)]

\* Input is drawn only for a capability that is available at that moment, from
\* the range the embedder is shown, and never from one that is empty or upside
\* down (CapabilitiesDelegatesManager.cpp:192, RandomCapabilityDelegate.cpp:137).
DrawnAsShown ==
    [][served' # None =>
          /\ served'.id \in Owned
          /\ m_capabilityData[served'.id].availability
          /\ served'.first = Shown(served'.id, "low_bound", 0)
          /\ served'.second = Shown(served'.id, "upp_bound", TwoPi)
          /\ NaN \notin {served'.first, served'.second} => served'.first < served'.second]_randVars
=============================================================================
