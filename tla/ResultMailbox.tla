---------------------------- MODULE ResultMailbox ----------------------------
(***************************************************************************)
(* What a rune promises its embedder about results, with no ids and no     *)
(* cache: a mailbox with one slot.  Saving replaces what is in the slot, a *)
(* call that ends takes what is there, and the slot can also be lost.      *)
(* Wasm3Rune implements it with an OutputManager (src/src/OutputManager.cpp *)
(* and src/src/wasm_backends/wasm3/Wasm3Rune.cpp).                         *)
(***************************************************************************)
EXTENDS Integers, Sequences

CONSTANTS MaxSaves, MaxCalls

Null == 0
NullPtr  == 0   \* outcomes of a call: a null result, ...
NoOutput == -1  \* ... an exception: there is no output to consume, ...
Trapped  == -2  \* ... an exception: the wasm function failed

VARIABLES
    phase,   \* where the rune is between its construction and its calls
    slot,    \* the result the next call takes, or Null
    made,    \* how many results were saved so far
    outcome  \* what each call so far ended with

vars == <<phase, slot, made, outcome>>

Phase   == {"linking", "manifest", "ready", "calling", "failed"}
Running == phase \in {"manifest", "calling"}

Init ==
    /\ phase = "linking"
    /\ slot = Null
    /\ made = 0
    /\ outcome = <<>>

Construct ==
    /\ phase = "linking" /\ phase' \in {"manifest", "failed"}
    /\ UNCHANGED <<slot, made, outcome>>

ManifestEnds ==
    /\ phase = "manifest" /\ phase' \in {"ready", "failed"}
    /\ UNCHANGED <<slot, made, outcome>>

StartCall ==
    /\ phase = "ready" /\ phase' = "calling"
    /\ Len(outcome) < MaxCalls
    /\ UNCHANGED <<slot, made, outcome>>

Save ==
    /\ Running
    /\ made < MaxSaves
    /\ made' = made + 1
    /\ slot' = made + 1
    /\ UNCHANGED <<phase, outcome>>

Lose ==
    /\ Running
    /\ slot' = Null
    /\ UNCHANGED <<phase, made, outcome>>

\* The call takes the slot; with an empty slot it returns null or throws.
CallReturns ==
    /\ phase = "calling" /\ phase' = "ready"
    /\ \E o \in IF slot # Null THEN {slot} ELSE {NullPtr, NoOutput} :
          outcome' = Append(outcome, o)
    /\ slot' = Null
    /\ UNCHANGED made

\* A call that traps leaves the slot as it is.
CallTraps ==
    /\ phase = "calling" /\ phase' = "ready"
    /\ outcome' = Append(outcome, Trapped)
    /\ UNCHANGED <<slot, made>>

Next ==
    \/ Construct \/ ManifestEnds \/ StartCall
    \/ Save \/ Lose
    \/ CallReturns \/ CallTraps

Spec == Init /\ [][Next]_vars
=============================================================================
