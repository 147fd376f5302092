-------------------------- MODULE CapabilityRegistry --------------------------
(***************************************************************************)
(* What a rune's capabilities promise to the embedder and its delegates,   *)
(* with no map that is filled before it is allowed to be: a registry that  *)
(* changes only when a delegate has agreed.  The comments of IDelegate and *)
(* IContext in src/include/rune_vm/Capabilities.hpp are its words;         *)
(* CapabilitiesDelegatesManager implements it.                             *)
(***************************************************************************)
EXTENDS Integers

CONSTANTS Capability, Delegate, Id, Key, Param

VARIABLES
    registry, \* id -> [capability, owner, parameters, availability]
    question  \* what a delegate is being asked at this moment

vars == <<registry, question>>

None == [kind |-> "none"]

Init ==
    /\ registry = [id \in {} |-> None]
    /\ question = None

With(f, x, v) == [y \in DOMAIN f \cup {x} |-> IF y = x THEN v ELSE f[y]]

\* An id that is not in use is offered, to the one delegate that answers for
\* this capability.
AskGrant(capability, delegate, id) ==
    /\ question = None
    /\ id \notin DOMAIN registry
    /\ \A other \in DOMAIN registry :
          registry[other].capability = capability => registry[other].owner = delegate
    /\ question' = [kind |-> "grant", to |-> delegate, id |-> id, capability |-> capability]
    /\ UNCHANGED registry

Grant ==
    /\ question.kind = "grant"
    /\ registry' = With(registry, question.id,
                        [capability   |-> question.capability,
                         owner        |-> question.to,
                         parameters   |-> [k \in {} |-> None],
                         availability |-> TRUE])
    /\ question' = None

AskParam(id, key, param) ==
    /\ question = None
    /\ id \in DOMAIN registry
    /\ question' = [kind |-> "param", to |-> registry[id].owner, id |-> id,
                    key |-> key, param |-> param]
    /\ UNCHANGED registry

AcceptParam ==
    /\ question.kind = "param"
    /\ registry' = [registry EXCEPT ![question.id].parameters =
                        With(registry[question.id].parameters, question.key, question.param)]
    /\ question' = None

\* Input is asked for only while the embedder has not retracted the capability.
AskInput(id) ==
    /\ question = None
    /\ id \in DOMAIN registry
    /\ registry[id].availability
    /\ question' = [kind |-> "input", to |-> registry[id].owner, id |-> id]
    /\ UNCHANGED registry

\* A denial of any question, and the answer to a request for input.
NoEffect ==
    /\ question # None
    /\ question' = None
    /\ UNCHANGED registry

\* The embedder may do this at any time, also while a delegate is being asked.
SetAvailability(id, available) ==
    /\ id \in DOMAIN registry
    /\ registry' = [registry EXCEPT ![id].availability = available]
    /\ UNCHANGED question

Next ==
    \/ \E capability \in Capability, delegate \in Delegate, id \in Id :
          AskGrant(capability, delegate, id)
    \/ \E id \in Id, key \in Key, param \in Param : AskParam(id, key, param)
    \/ \E id \in Id : AskInput(id)
    \/ Grant \/ AcceptParam \/ NoEffect
    \/ \E id \in Id, available \in BOOLEAN : SetAvailability(id, available)

Spec == Init /\ [][Next]_vars
=============================================================================
