----------------------------- MODULE HostFunctions -----------------------------
(***************************************************************************)
(* The boundary between the wasm of a rune and its HostContext: the linker *)
(* and the wrappers of src/src/wasm_backends/wasm3/Wasm3Rune.cpp, which    *)
(* turn the slots of a wasm stack into the arguments of a C++ function,    *)
(* and the ten functions of src/src/HostFunctions.cpp, which check them,   *)
(* call one of three managers and answer with one integer.  Two managers   *)
(* are the rune's own; the ModelManager is the engine's, and its other     *)
(* runes use it too, before this rune is loaded and between its calls.     *)
(*                                                                         *)
(* The wasm is arbitrary, but remembers what it was answered.  A pointer   *)
(* is an address in its memory and stands for what is there: the bytes of  *)
(* a key or a value, a model file, or a list of descriptor strings; it is  *)
(* never null to the host, which adds it to the base of the memory.        *)
(***************************************************************************)
EXTENDS CapabilitiesDelegatesManager, SequencesExt

CONSTANTS
    Imports,     \* host function imports a rune may have: functions from their names
                 \* to the types of the parameters
    Passed,      \* name -> the slots wasm may put on the stack for it
    BlobAt,      \* address -> the model file in the rune's memory
    StringsAt,   \* address -> the descriptor strings in the rune's memory
    IntMod, SizeMod, Blob, TensorSizes, Descriptions, ViewSize, MaxLoads, MaxRuns,
    CacheSizeLimit, MaxSaves,
    MaxOutputs   \* bound of the model: outputs requested in a behaviour

VARIABLES
    m_results, m_outputCounter, m_lastSavedId, created, released,  \* HostContext::m_outputManager
    m_models, m_modelCounter, loads, runs, answer,                 \* HostContext::m_modelManager,
                                                                   \* the engine's
    imports,   \* of the rune's module
    phase,     \* what the rune is doing
    pending,   \* the slots of the call that waits for a delegate
    known,     \* what the wasm knows from the answers it was given
    foreign    \* ghost: the ids of the models that other runes loaded

outputVars == <<m_results, m_outputCounter, m_lastSavedId, created, released>>
modelVars  == <<m_models, m_modelCounter, loads, runs, answer>>
hostVars   == <<vars, outputVars, modelVars, imports, phase, pending, known, foreign>>

Outputs == INSTANCE OutputManager WITH m_idCounter <- m_outputCounter
Models  == INSTANCE ModelManager WITH m_idCounter <- m_modelCounter

\* A slip for the mutation checks: the error code is an id.
SmallError == 1

RC_InputError == IdMod - 2

-----------------------------------------------------------------------------
(* Signatures and arguments *)

\* The C++ types of the parameters after HostContext*.
Parameters ==
    [request_capability           |-> <<"Capability">>,
     request_capability_set_param |-> <<"u32", "view", "view", "ValueType">>,
     request_provider_response    |-> <<"view", "u32">>,
     tfm_preload_model            |-> <<"view", "u32", "u32">>,
     tfm_model_invoke             |-> <<"u32", "view", "view">>,
     request_output               |-> <<"OutputType">>,
     consume_output               |-> <<"u32", "view">>,
     _debug                       |-> <<"view">>,
     rune_model_load              |-> <<"view", "view", "strings", "strings">>,
     rune_model_infer             |-> <<"u32", "WasmPtr", "WasmPtr">>]

FromInt ==
    [Capability |-> <<"Rand", "Sound", "Accel", "Image", "Raw">>,
     OutputType |-> <<"Serial", "Ble", "Pin", "Wifi">>,
     ValueType  |-> [n \in {1, 2, 5, 6} |-> CASE n = 1 -> "Int32" [] n = 2 -> "Float32"
                                             [] n = 5 -> "Uint8" [] n = 6 -> "Int16"]]

\* A slip for the mutation checks: a list of strings is taken for one pointer.
SigShort(type) ==
    IF type = "view" THEN <<"*", "i">> ELSE IF type \in {"strings", "WasmPtr"} THEN <<"*">> ELSE <<"i">>

\* m3_type_to_sig
Sig(type) ==
    CASE type \in {"view", "strings"} -> <<"*", "i">>
      [] type = "WasmPtr"             -> <<"*">>
      [] OTHER                        -> <<"i">>

Signature(f) == FlattenSeq([i \in DOMAIN Parameters[f] |-> Sig(Parameters[f][i])])

\* Both letters are an i32 to wasm3.
Links(f) == imports[f] = [i \in DOMAIN Signature(f) |-> "i32"]

\* How far arg_from_stack advances the stack pointer.
SlotsOf(type) == IF type \in {"view", "strings"} THEN 2 ELSE 1

\* The slots that get_args_from_stack has read before the i-th parameter.
SlotsBefore(f, i) ==
    LET sum[n \in 0 .. Len(Parameters[f])] ==
            IF n = 0 THEN 0 ELSE sum[n - 1] + SlotsOf(Parameters[f][n])
    IN sum[i - 1]

ArgFromStack(type, slots, p) ==
    CASE type \in DOMAIN FromInt      -> FromInt[type][slots[p]]
      [] type \in {"view", "strings"} -> [at |-> slots[p], size |-> slots[p + 1]]
      [] OTHER                        -> slots[p]

Args(f, slots) ==
    [i \in DOMAIN Parameters[f] |-> ArgFromStack(Parameters[f][i], slots, SlotsBefore(f, i) + 1)]

\* fromInt throws on any other integer.
Converts(f, slots) ==
    \A i \in DOMAIN Parameters[f] :
        Parameters[f][i] \in DOMAIN FromInt =>
            slots[SlotsBefore(f, i) + 1] \in DOMAIN FromInt[Parameters[f][i]]

\* resize, and as many strings read from memory.
Strings(list) == SubSeq(StringsAt[list.at], 1, list.size)

SizeOf == [Uint8 |-> 1, Int16 |-> 2, Int32 |-> 4, Float32 |-> 4]

\* What wasm may pass denotes something: an id is one of its type's values, an
\* address has a key, a value, a model or strings at it.
ASSUME HostAssumption ==
    /\ IdMod > 2 /\ MaxOutputs \in Nat
    /\ Outputs!OutputIdAssumption /\ Outputs!MaxSavesAssumption
    /\ Models!WidthAssumption /\ Models!ModelAssumption
    /\ \A links \in Imports : DOMAIN links \subseteq DOMAIN Parameters
    /\ DOMAIN Parameters \subseteq DOMAIN Passed
    /\ \A f \in DOMAIN Passed : <<>> \notin Passed[f]   \* each function has a parameter
    /\ \A i \in DOMAIN FromInt.Capability : FromInt.Capability[i] \in Capability
    /\ \A s \in Passed.request_capability_set_param :
          /\ s[1] \in CapabilityId
          /\ [at |-> s[2], size |-> s[3]] \in Key
          /\ \A t \in DOMAIN SizeOf : [type |-> t, at |-> s[4], size |-> SizeOf[t]] \in Param
    /\ \A s \in Passed.request_provider_response : s[3] \in CapabilityId
    /\ \A s \in Passed.consume_output : s[1] \in Outputs!OutputId
    /\ \A s \in Passed.tfm_preload_model : BlobAt[s[1]] \in Blob
    /\ \A s \in Passed.rune_model_load :
          /\ BlobAt[s[3]] \in Blob
          /\ << Strings([at |-> s[5], size |-> s[6]]), Strings([at |-> s[7], size |-> s[8]]) >>
                \in Descriptions
    /\ \A s \in Passed.tfm_model_invoke :
          s[1] \in Models!ModelId /\ s[3] \in ViewSize /\ s[5] \in ViewSize
    /\ \A s \in Passed.rune_model_infer : s[1] \in Models!ModelId

-----------------------------------------------------------------------------
(* What the wasm makes of an answer, by the slots it passed *)

\* The file and the descriptors of the model that a call loads.
LoadedBy(f, slots) ==
    IF f = "tfm_preload_model"
    THEN [blob |-> BlobAt[slots[1]], inputs |-> <<>>, outputs |-> <<>>]
    ELSE [blob    |-> BlobAt[slots[3]],
          inputs  |-> Strings([at |-> slots[5], size |-> slots[6]]),
          outputs |-> Strings([at |-> slots[7], size |-> slots[8]])]

Learned(f, slots, result) ==
    CASE f = "request_capability" /\ result # RC_InputError ->
            [known EXCEPT !.capabilities =
                With(@, result, [capability |-> FromInt.Capability[slots[1]],
                                 parameters |-> [k \in {} |-> None]])]
      [] f = "request_capability_set_param" /\ result = 0 ->
            [known EXCEPT !.capabilities[slots[1]].parameters =
                With(@, [at |-> slots[2], size |-> slots[3]],
                     [type |-> FromInt.ValueType[slots[6]], at |-> slots[4], size |-> slots[5]])]
      [] f \in {"tfm_preload_model", "rune_model_load"} /\ result # RC_InputError ->
            [known EXCEPT !.models = With(@, result, LoadedBy(f, slots))]
      [] f = "request_output" /\ result # RC_InputError ->
            [known EXCEPT !.outputs = @ \cup {result}]
      [] OTHER -> known

\* The wrapper writes the result over the first slot and wasm goes on.
Return(f, slots, result) ==
    /\ known' = Learned(f, slots, result)
    /\ pending' = <<>>
    /\ UNCHANGED <<imports, phase, foreign>>

\* The manager asks a delegate, or refuses.
AskOrRefuse(f, slots) ==
    \/ /\ frame' = None
       /\ Return(f, slots, RC_InputError)
    \/ /\ frame' # None
       /\ pending' = slots
       /\ UNCHANGED <<imports, phase, known, foreign>>

\* Wasm calls an import and its arguments can be converted.
Calls(f, slots) ==
    /\ phase = "wasm"
    /\ frame = None
    /\ f \in DOMAIN imports
    /\ Converts(f, slots)

-----------------------------------------------------------------------------
(* Linking, and the wasm that runs *)

\* A fresh engine: other runes may load models before this rune is linked.
HostInit ==
    /\ Init
    /\ Outputs!Init
    /\ Models!Init
    /\ imports \in Imports
    /\ phase = "linking"
    /\ pending = <<>>
    /\ known = [capabilities |-> [id \in {} |-> None],
                models       |-> [id \in {} |-> None],
                outputs      |-> {}]
    /\ foreign = {}

\* An import the rune does not have is not looked up; one with another
\* signature makes the constructor throw.
LinkAll ==
    /\ phase = "linking"
    /\ phase' = IF \A f \in DOMAIN imports : Links(f) THEN "wasm" ELSE "failed"
    /\ UNCHANGED <<vars, outputVars, modelVars, imports, pending, known, foreign>>

ManifestReturns ==
    /\ phase = "wasm"
    /\ LoadRuneReturns
    /\ phase' = "idle"
    /\ UNCHANGED <<outputVars, modelVars, imports, pending, known, foreign>>

StartCall ==
    /\ phase = "idle"
    /\ phase' = "wasm"
    /\ UNCHANGED <<vars, outputVars, modelVars, imports, pending, known, foreign>>

\* call() consumes the output that was saved last.
CallReturns ==
    /\ phase = "wasm"
    /\ shared
    /\ frame = None
    /\ Outputs!ConsumeOutput(m_lastSavedId)
    /\ phase' = "idle"
    /\ UNCHANGED <<vars, modelVars, imports, pending, known, foreign>>

\* Wasm fails, or a wrapper cannot convert an argument: the host function is
\* not called.  A rune whose manifest traps is never handed out.
Trap ==
    /\ phase = "wasm"
    /\ frame = None
    /\ phase' = IF shared THEN "idle" ELSE "failed"
    /\ UNCHANGED <<vars, outputVars, modelVars, imports, pending, known, foreign>>

-----------------------------------------------------------------------------
(* Capability functions *)

RequestCapability(slots) ==
    /\ Calls("request_capability", slots)
    /\ CreateCapability(Args("request_capability", slots)[1])
    /\ AskOrRefuse("request_capability", slots)
    /\ UNCHANGED <<outputVars, modelVars>>

CapabilityAnswer(granted) ==
    /\ RequestCapabilityReply(granted)
    /\ Return("request_capability", pending, IF granted THEN frame.id ELSE RC_InputError)
    /\ UNCHANGED <<outputVars, modelVars>>

\* readParameter: sizeof(T) bytes are copied from a value of that size.
ReadParameter(value, valueType) ==
    [type |-> valueType, at |-> value.at, size |-> SizeOf[valueType]]

RequestCapabilitySetParam(slots) ==
    LET args    == Args("request_capability_set_param", slots)
        id      == args[1]
        key     == args[2]
        value   == args[3]
        type    == args[4]
        refused == key.size = 0 \/ value.size # SizeOf[type]
    IN
    /\ Calls("request_capability_set_param", slots)
    /\ \/ refused /\ UNCHANGED vars
       \/ ~refused /\ SetCapabilityParam(id, key, ReadParameter(value, type))
    /\ AskOrRefuse("request_capability_set_param", slots)
    /\ UNCHANGED <<outputVars, modelVars>>

\* A slip for the mutation checks: the manager's result is not looked at.
SetParamResultIgnored(accepted) == 0

SetParamResult(accepted) == IF accepted THEN 0 ELSE RC_InputError

SetParamAnswer(accepted) ==
    /\ ParamChangeReply(accepted)
    /\ Return("request_capability_set_param", pending, SetParamResult(accepted))
    /\ UNCHANGED <<outputVars, modelVars>>

RequestProviderResponse(slots) ==
    LET args   == Args("request_provider_response", slots)
        buffer == args[1]
    IN
    /\ Calls("request_provider_response", slots)
    /\ \/ buffer.size = 0 /\ UNCHANGED vars
       \/ buffer.size # 0 /\ GetInput(args[2], FALSE)
    /\ AskOrRefuse("request_provider_response", slots)
    /\ UNCHANGED <<outputVars, modelVars>>

\* The size of the buffer, however much the delegate wrote.
ProviderAnswer(accepted) ==
    /\ InputReply
    /\ Return("request_provider_response", pending, IF accepted THEN pending[2] ELSE RC_InputError)
    /\ UNCHANGED <<outputVars, modelVars>>

-----------------------------------------------------------------------------
(* Output functions and debug *)

RequestOutput(slots) ==
    LET outputType == Args("request_output", slots)[1]
    IN
    /\ Calls("request_output", slots)
    /\ m_outputCounter < MaxOutputs
    /\ Outputs!RequestOutput(outputType)
    /\ Return("request_output", slots,
              IF m_outputCounter' # m_outputCounter THEN m_outputCounter ELSE RC_InputError)
    /\ UNCHANGED <<vars, modelVars>>

\* The bytes are JSON or not.
ConsumeOutput(slots) ==
    LET args   == Args("consume_output", slots)
        buffer == args[2]
    IN
    /\ Calls("consume_output", slots)
    /\ \/ buffer.size = 0 /\ UNCHANGED outputVars
       \/ buffer.size # 0 /\ \E isJson \in BOOLEAN : Outputs!SaveOutput(args[1], isJson)
    /\ Return("consume_output", slots, IF created' # created THEN 0 ELSE RC_InputError)
    /\ UNCHANGED <<vars, modelVars>>

Debug(slots) ==
    /\ Calls("_debug", slots)
    /\ Return("_debug", slots, IF Args("_debug", slots)[1].size = 0 THEN RC_InputError ELSE 0)
    /\ UNCHANGED <<vars, outputVars, modelVars>>

-----------------------------------------------------------------------------
(* Model functions *)

\* The id the manager gave the model, or the error code.
LoadResult == IF loads' # loads THEN m_modelCounter ELSE RC_InputError

TfmPreloadModel(slots) ==
    LET model == Args("tfm_preload_model", slots)[1]
    IN
    /\ Calls("tfm_preload_model", slots)
    /\ \/ model.size = 0 /\ UNCHANGED modelVars
       \/ model.size # 0 /\ Models!TfmPreloadModel(BlobAt[model.at])
    /\ Return("tfm_preload_model", slots, LoadResult)
    /\ UNCHANGED <<vars, outputVars>>

\* The mime type is not looked at.  An empty model fails to load.
RuneModelLoad(slots) ==
    LET args  == Args("rune_model_load", slots)
        model == args[2]
    IN
    /\ Calls("rune_model_load", slots)
    /\ Models!RuneModelLoad(BlobAt[model.at], Strings(args[3]), Strings(args[4]))
    /\ model.size = 0 => loads' = loads
    /\ Return("rune_model_load", slots, LoadResult)
    /\ UNCHANGED <<vars, outputVars>>

RunResult == IF answer'.ok THEN 0 ELSE RC_InputError

TfmModelInvoke(slots) ==
    LET args == Args("tfm_model_invoke", slots)
    IN
    /\ Calls("tfm_model_invoke", slots)
    /\ Models!TfmModelInvoke(args[1], args[2].size, args[3].size)
    /\ Return("tfm_model_invoke", slots, RunResult)
    /\ UNCHANGED <<vars, outputVars>>

RuneModelInfer(slots) ==
    /\ Calls("rune_model_infer", slots)
    /\ Models!RuneModelInfer(Args("rune_model_infer", slots)[1])
    /\ Return("rune_model_infer", slots, RunResult)
    /\ UNCHANGED <<vars, outputVars>>

-----------------------------------------------------------------------------
EmbedderSetsAvailability(id, available) ==
    /\ SetCapabilityAvailability(id, available)
    /\ UNCHANGED <<outputVars, modelVars, imports, phase, pending, known, foreign>>

\* Another rune of the engine loads or runs a model.  It has a context, outputs
\* and capabilities of its own; the ids it uses need not be of models it loaded.
OtherRunes ==
    /\ phase \in {"linking", "idle"}
    /\ Models!Next
    /\ foreign' = foreign \cup (Models!Loaded' \ Models!Loaded)
    /\ UNCHANGED <<vars, outputVars, imports, phase, pending, known>>

HostNext ==
    \/ OtherRunes
    \/ LinkAll \/ ManifestReturns \/ StartCall \/ CallReturns \/ Trap
    \/ \E slots \in Passed.request_capability : RequestCapability(slots)
    \/ \E slots \in Passed.request_capability_set_param : RequestCapabilitySetParam(slots)
    \/ \E slots \in Passed.request_provider_response : RequestProviderResponse(slots)
    \/ \E accepted \in BOOLEAN :
          CapabilityAnswer(accepted) \/ SetParamAnswer(accepted) \/ ProviderAnswer(accepted)
    \/ \E slots \in Passed.request_output : RequestOutput(slots)
    \/ \E slots \in Passed.consume_output : ConsumeOutput(slots)
    \/ \E slots \in Passed._debug : Debug(slots)
    \/ \E slots \in Passed.tfm_preload_model : TfmPreloadModel(slots)
    \/ \E slots \in Passed.rune_model_load : RuneModelLoad(slots)
    \/ \E slots \in Passed.tfm_model_invoke : TfmModelInvoke(slots)
    \/ \E slots \in Passed.rune_model_infer : RuneModelInfer(slots)
    \/ \E id \in CapabilityId, available \in BOOLEAN : EmbedderSetsAvailability(id, available)

HostSpec == HostInit /\ [][HostNext]_hostVars

-----------------------------------------------------------------------------
HostTypeOK ==
    /\ TypeOK
    /\ Outputs!TypeOK
    /\ Models!TypeOK
    /\ imports \in Imports
    /\ phase \in {"linking", "wasm", "idle", "failed"}
    /\ pending \in (UNION {Passed[f] : f \in DOMAIN Passed}) \cup {<<>>}
    /\ pending # <<>> <=> frame # None
    /\ DOMAIN known.capabilities \subseteq CapabilityId
    /\ DOMAIN known.models \subseteq Models!ModelId
    /\ known.outputs \subseteq Outputs!OutputId
    /\ foreign \subseteq Models!ModelId

\* A rune that was linked passes every wrapper exactly the slots it reads: the
\* signature given to wasm3 and the conversion of the arguments, which are
\* written down apart and never compared, agree (Wasm3Rune.cpp:52-108, 185-210).
ReadsWhatIsPassed ==
    phase \in {"wasm", "idle"} =>
        \A f \in DOMAIN imports :
            Len(imports[f]) = SlotsBefore(f, Len(Parameters[f]) + 1)

\* From the answers alone the wasm knows its capabilities and the value of every
\* parameter, as the manager has them and the embedder sees them: no answer that
\* wasm takes for a success was a refusal, and none the other way round, after
\* any refusals, denials, traps and calls (HostFunctions.cpp:75-190 with
\* CapabilitiesDelegatesManager.cpp:75-173).  This needs fewer grants than the
\* error code.
WasmKnowsItsCapabilities ==
    frame = None =>
        known.capabilities = [id \in Known |-> [capability |-> m_capabilityData[id].capability,
                                                parameters |-> Params(id)]]

Denotes(model, mine) ==
    /\ model.blob = mine.blob
    /\ model.inputDescriptors \in Models!Parses(mine.inputs)
    /\ model.outputDescriptors \in Models!Parses(mine.outputs)

\* The same of models and outputs.  Every model of the engine was loaded by this
\* rune, which knows its id, or by another one, and never counts for both; an id
\* that this rune was given still denotes the file and the descriptors it loaded,
\* whatever other runes load, fail to load and run.  And it knows every output it
\* was ever given, and none it was refused (HostFunctions.cpp:193-222, 262-278,
\* 323-359 with Wasm3Runtime.cpp:124-125, ModelManager.cpp:26-33).  This needs
\* fewer ids than the error code.
WasmKnowsItsIds ==
    /\ DOMAIN known.models = Models!Loaded \ foreign
    /\ foreign \subseteq Models!Loaded
    /\ \A id \in DOMAIN known.models : Denotes(m_models[id], known.models[id])
    /\ known.outputs = 0 .. (m_outputCounter - 1)
    /\ Outputs!Cached \subseteq known.outputs
=============================================================================
