------------------------------ MODULE Wasm3Rune ------------------------------
(***************************************************************************)
(* src/src/wasm_backends/wasm3/Wasm3Rune.cpp with the output half of       *)
(* src/src/HostFunctions.cpp: a rune is constructed (link, find _manifest  *)
(* and _call, run _manifest), then called any number of times.  While wasm *)
(* runs it calls host functions; what it saved is returned by call().      *)
(* The wasm code is arbitrary: it may call the host functions in any order *)
(* with any argument, and trap at any point.                               *)
(***************************************************************************)
EXTENDS OutputManager, Sequences

CONSTANT
    MaxCalls  \* bound of the model: call()s in a behaviour

ASSUME MaxCallsAssumption == MaxCalls \in Nat

VARIABLES
    phase,    \* what the rune's native code is executing
    outcome,  \* what each call() so far ended with
    madeIn,   \* ghost: the call each result was saved in; 0 is the manifest
    own       \* ghost: the newest result the running wasm saved that a reset
              \* has not dropped, or Null

runeVars == <<vars, phase, outcome, madeIn, own>>

NullPtr  == 0
NoOutput == -1
Trapped  == -2
Phase    == {"linking", "manifest", "ready", "calling", "failed"}
Running  == phase \in {"manifest", "calling"}
Calls    == Len(outcome)
Current  == IF phase = "manifest" THEN 0 ELSE Calls + 1

\* fromInt<OutputType>: any other integer makes the wrapper trap.
OutputTypeFromInt == <<"Serial", "Ble", "Pin", "Wifi">>

RuneInit ==
    /\ Init
    /\ phase = "linking"
    /\ outcome = <<>>
    /\ madeIn = <<>>
    /\ own = Null

-----------------------------------------------------------------------------
(* Construction *)

\* A host function with another signature, or no _manifest or _call.
ConstructionThrows ==
    /\ phase = "linking"
    /\ phase' = "failed"
    /\ UNCHANGED <<vars, outcome, madeIn, own>>

StartManifest ==
    /\ phase = "linking"
    /\ phase' = "manifest"
    /\ UNCHANGED <<vars, outcome, madeIn, own>>

ManifestReturns ==
    /\ phase = "manifest"
    /\ phase' = "ready"
    /\ own' = Null
    /\ UNCHANGED <<vars, outcome, madeIn>>

\* The constructor throws: there is no rune to call.
ManifestTraps ==
    /\ phase = "manifest"
    /\ phase' = "failed"
    /\ own' = Null
    /\ UNCHANGED <<vars, outcome, madeIn>>

-----------------------------------------------------------------------------
(* Host functions, called by the running wasm *)

HostRequestOutput(outputType) ==
    /\ Running
    /\ outputType \in DOMAIN OutputTypeFromInt
    /\ RequestOutput(OutputTypeFromInt[outputType])
    /\ own' = IF own \in Live' THEN own ELSE Null
    /\ UNCHANGED <<phase, outcome, madeIn>>

\* An empty buffer is refused before the OutputManager sees it.
HostConsumeOutput(outputId, buffer) ==
    /\ Running
    /\ \/ /\ buffer = "empty"
          /\ UNCHANGED <<vars, own, madeIn>>
       \/ /\ buffer # "empty"
          /\ SaveOutput(outputId, buffer = "json")
          /\ IF created' = created
             THEN UNCHANGED <<own, madeIn>>
             ELSE own' = created' /\ madeIn' = Append(madeIn, Current)
    /\ UNCHANGED <<phase, outcome>>

-----------------------------------------------------------------------------
(* call() *)

StartCall ==
    /\ phase = "ready"
    /\ Calls < MaxCalls
    /\ phase' = "calling"
    /\ UNCHANGED <<vars, outcome, madeIn, own>>

\* wasm3 reports an error, an argument a wrapper cannot convert among them:
\* call() throws before it looks at the outputs.
CallTraps ==
    /\ phase = "calling"
    /\ phase' = "ready"
    /\ outcome' = Append(outcome, Trapped)
    /\ own' = Null
    /\ UNCHANGED <<vars, madeIn>>

\* Nothing was ever saved, or the last saved id is no longer cached: the
\* CHECK_THROW on lastSavedId, then the one on consumeOutput.
NothingToConsume ==
    \/ m_lastSavedId = NoId
    \/ m_lastSavedId \notin Cached

\* Otherwise call() returns the pointer of the last saved id, null or not.
CallReturns ==
    /\ phase = "calling"
    /\ phase' = "ready"
    /\ \/ /\ NothingToConsume
          /\ outcome' = Append(outcome, NoOutput)
          /\ UNCHANGED vars
       \/ /\ ~NothingToConsume
          /\ outcome' = Append(outcome, m_results[m_lastSavedId])
          /\ ConsumeOutput(m_lastSavedId)
    /\ own' = Null
    /\ UNCHANGED madeIn

RuneNext ==
    \/ ConstructionThrows \/ StartManifest \/ ManifestReturns \/ ManifestTraps
    \/ \E outputType \in 0 .. 5 : HostRequestOutput(outputType)
    \/ \E outputId \in OutputId, buffer \in {"empty", "json", "other"} :
          HostConsumeOutput(outputId, buffer)
    \/ StartCall \/ CallReturns \/ CallTraps

RuneSpec == RuneInit /\ [][RuneNext]_runeVars

-----------------------------------------------------------------------------
RuneTypeOK ==
    /\ TypeOK
    /\ phase \in Phase
    /\ outcome \in Seq(Trapped .. created)
    /\ madeIn \in Seq(Nat)
    /\ Len(madeIn) = created
    /\ own \in 0 .. created

\* Results reach the embedder in the order they were saved and each at most
\* once, whatever ids they were saved under and however often an id is reused
\* (Wasm3Rune.cpp:325-330).
DeliveredInOrder ==
    \A i, j \in 1 .. Calls :
        i < j /\ outcome[i] > 0 /\ outcome[j] > 0 => outcome[i] < outcome[j]

\* A call hands out a result of an earlier execution only if every call since
\* then, the one that saved it included, trapped: a call that ends normally
\* leaves nothing behind that a later call could mistake for its own
\* (Wasm3Rune.cpp:315-330).
StaleOnlyAfterTraps ==
    \A c \in 1 .. Calls :
        LET saver == madeIn[outcome[c]]
        IN outcome[c] > 0 =>
             /\ saver <= c
             /\ \A k \in 1 .. (c - 1) : saver <= k => outcome[k] = Trapped

\* A call that ends normally and saved a result since the last cache reset
\* returns the last one it saved: it neither throws nor returns null or an
\* older result (Wasm3Rune.cpp:325-330 with OutputManager.cpp:41-49).
ReturnsOwnLastSave ==
    [][phase = "calling" /\ phase' = "ready" /\ own # Null =>
          outcome'[Calls + 1] \in {own, Trapped}]_runeVars

\* The rune is a mailbox with one slot: m_lastSavedId and the entry under it.
Slot == IF m_lastSavedId \in Cached THEN m_results[m_lastSavedId] ELSE Null
Mailbox == INSTANCE ResultMailbox WITH slot <- Slot, made <- created
ImplementsMailbox == Mailbox!Spec

\* The strengthening of DeliveredInOrder and StaleOnlyAfterTraps: what was
\* delivered was released, what the running wasm saved last is in the slot, and
\* every call since the slot was filled trapped.
RuneInv ==
    /\ \A c \in 1 .. Calls : outcome[c] > 0 => outcome[c] \in released
    /\ DeliveredInOrder
    /\ StaleOnlyAfterTraps
    /\ own # Null => own = Slot
    /\ Slot # Null =>
         /\ madeIn[Slot] <= Calls + 1
         /\ \A k \in 1 .. Calls : madeIn[Slot] <= k => outcome[k] = Trapped
    /\ phase \in {"linking", "manifest"} => Calls = 0
=============================================================================
