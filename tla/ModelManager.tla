----------------------------- MODULE ModelManager -----------------------------
(***************************************************************************)
(* src/src/inference/ModelManager.cpp with the TfLite runtime it drives    *)
(* (inference/tflite/TfLiteRuntime.cpp) and the four host functions on     *)
(* models of src/src/HostFunctions.cpp.  One manager serves all runes of   *)
(* an engine: consecutive steps may be of different runes, and an id is    *)
(* not checked against the rune that uses it.                              *)
(*                                                                         *)
(* Data is abstracted to where it came from: an input tensor holds the     *)
(* number of the run that filled it, an output the runs it was computed    *)
(* from.  A descriptor is the byte count it stands for, a view its size.   *)
(***************************************************************************)
EXTENDS TensorDescriptor, FiniteSets

CONSTANTS
    Blob,            \* model files
    TensorSizes,     \* valid model file -> the byte sizes of its tensors
    Descriptions,    \* the descriptor strings runes pass to rune_model_load:
                     \* pairs of a list for the inputs and one for the outputs
    ViewSize,        \* sizes of views runes pass to tfm_model_invoke
    IdMod,           \* number of values of TModelId: 2^32 in the code
    MaxLoads,        \* bound of the model: models loaded in a behaviour
    MaxRuns          \* bound of the model: inferences tried in a behaviour

ASSUME ModelAssumption ==
    /\ DOMAIN TensorSizes \subseteq Blob
    /\ \A b \in DOMAIN TensorSizes :
          TensorSizes[b] \in [inputs : Seq(Nat), outputs : Seq(Nat)]
    /\ Descriptions \subseteq Seq(TensorString) \X Seq(TensorString)
    /\ ViewSize \subseteq Nat
    /\ IdMod \in Nat /\ IdMod > 2
    /\ MaxLoads \in Nat /\ MaxRuns \in Nat

VARIABLES
    m_models,    \* id -> model
    m_idCounter,
    loads,       \* ghost: how many models were loaded
    runs,        \* ghost: how many inferences were tried
    answer       \* the outcome of the last inference

vars == <<m_models, m_idCounter, loads, runs, answer>>

ModelId == 0 .. (IdMod - 1)
Loaded  == DOMAIN m_models
NoRun   == 0
With(f, x, v) == [y \in DOMAIN f \cup {x} |-> IF y = x THEN v ELSE f[y]]

\* A slip for the mutation checks: the error code is a small number.
ZeroError == 0

\* A ReturnCode, unsigned, returned where an id is expected.
RC_InputError == IdMod - 2

Failed == [ok |-> FALSE, via |-> "none", id |-> 0, written |-> <<>>]

Init ==
    /\ m_models = [id \in {} |-> NoRun]
    /\ m_idCounter = 0
    /\ loads = 0
    /\ runs = 0
    /\ answer = Failed

-----------------------------------------------------------------------------
(* Loading *)

\* Slips for the mutation checks: the id is not advanced, or does not wrap.
NextIdStuck     == m_idCounter
NextIdUnwrapped == m_idCounter + IdMod

NextId == (m_idCounter + 1) % IdMod

\* ModelManager::loadModel with TfLiteRuntime::loadModel.  A valid file may
\* fail to load too; nothing is cached when a step throws.
LoadModel(blob, inputDescriptors, outputDescriptors) ==
    /\ blob \in DOMAIN TensorSizes
    /\ loads < MaxLoads
    /\ m_models' = With(m_models, m_idCounter,
                        [blob |-> blob,
                         inputDescriptors  |-> inputDescriptors,
                         outputDescriptors |-> outputDescriptors,
                         inputs |-> [i \in DOMAIN TensorSizes[blob].inputs |-> NoRun]])
    /\ m_idCounter' = NextId
    /\ loads' = loads + 1

\* Models loaded this way have no descriptors.
TfmPreloadModel(blob) ==
    /\ \/ LoadModel(blob, <<>>, <<>>)
       \/ UNCHANGED <<m_models, m_idCounter, loads>>
    /\ UNCHANGED <<runs, answer>>

\* The byte counts that a list of descriptor strings can stand for.
Parses(strings) ==
    LET Sizes(i) == {ByteCount(d) : d \in Descriptors(strings[i])}
    IN {p \in [DOMAIN strings -> UNION {Sizes(i) : i \in DOMAIN strings}] :
           \A i \in DOMAIN strings : p[i] \in Sizes(i)}

\* The id that tfmPreloadModel returns is unsigned, so the error code passes
\* modelId >= 0 too: a failed load describes the model that has it for an id.
RuneModelLoad(blob, inputs, outputs) ==
    /\ \E inputDescriptors \in Parses(inputs), outputDescriptors \in Parses(outputs) :
          \/ LoadModel(blob, inputDescriptors, outputDescriptors)
          \/ /\ RC_InputError \in Loaded
             /\ m_models' = [m_models EXCEPT
                   ![RC_InputError].inputDescriptors  = inputDescriptors,
                   ![RC_InputError].outputDescriptors = outputDescriptors]
             /\ UNCHANGED <<m_idCounter, loads>>
          \/ /\ RC_InputError \notin Loaded
             /\ UNCHANGED <<m_models, m_idCounter, loads>>
    /\ UNCHANGED <<runs, answer>>

-----------------------------------------------------------------------------
(* Running *)

\* A slip for the mutation checks: a view that is shorter will do.
FitsLoosely(view, size) == view <= size

Fits(view, size) == view = size

\* Tensors are handled in order, up to the first view that does not fit.
Handled(views, sizes) ==
    CHOOSE n \in 0 .. Len(views) :
        /\ \A i \in 1 .. n : Fits(views[i], sizes[i])
        /\ n < Len(views) => ~Fits(views[n + 1], sizes[n + 1])

\* A slip for the mutation checks: the loop starts at the second tensor.
CopiedSkipping(inputs, n) == [i \in DOMAIN inputs |-> IF 1 < i /\ i <= n THEN runs + 1 ELSE inputs[i]]

\* The input tensors after the first n views were copied into them.
Copied(inputs, n) == [i \in DOMAIN inputs |-> IF i <= n THEN runs + 1 ELSE inputs[i]]

\* TfLiteRuntimeModel::run.  The interpreter stays with the model, and with it
\* what a failed run has copied.
Run(via, id, inputs, outputs) ==
    LET sizes    == TensorSizes[m_models[id].blob]
        counted  == /\ inputs # <<>> /\ Len(inputs) = Len(sizes.inputs)
                    /\ outputs # <<>> /\ Len(outputs) = Len(sizes.outputs)
        nInputs  == Handled(inputs, sizes.inputs)
        nOutputs == Handled(outputs, sizes.outputs)
        copied   == Copied(m_models[id].inputs, nInputs)
    IN
    \/ /\ ~counted
       /\ answer' = Failed
       /\ UNCHANGED m_models
    \/ /\ counted             \* an input does not fit, or the inference fails
       /\ answer' = Failed
       /\ m_models' = [m_models EXCEPT ![id].inputs = copied]
    \/ /\ counted
       /\ nInputs = Len(inputs)
       /\ m_models' = [m_models EXCEPT ![id].inputs = copied]
       /\ answer' = [ok |-> nOutputs = Len(outputs), via |-> via, id |-> id,
                     written |-> [j \in 1 .. nOutputs |-> {copied[i] : i \in DOMAIN copied}]]

Refuse == answer' = Failed /\ UNCHANGED m_models

\* One view for the input and one for the output, which may not be empty.
TfmModelInvoke(id, input, output) ==
    /\ runs < MaxRuns
    /\ \/ (input = 0 \/ output = 0 \/ id \notin Loaded) /\ Refuse
       \/ /\ input # 0 /\ output # 0 /\ id \in Loaded
          /\ Run("tfm", id, <<input>>, <<output>>)
    /\ runs' = runs + 1
    /\ UNCHANGED <<m_idCounter, loads>>

\* A view for each descriptor of the model, of the size the descriptor says.
RuneModelInfer(id) ==
    /\ runs < MaxRuns
    /\ \/ id \notin Loaded /\ Refuse
       \/ /\ id \in Loaded
          /\ Run("rune", id, m_models[id].inputDescriptors, m_models[id].outputDescriptors)
    /\ runs' = runs + 1
    /\ UNCHANGED <<m_idCounter, loads>>

Next ==
    \/ \E blob \in Blob : TfmPreloadModel(blob)
    \/ \E blob \in Blob, description \in Descriptions :
          RuneModelLoad(blob, description[1], description[2])
    \/ \E id \in ModelId, input, output \in ViewSize : TfmModelInvoke(id, input, output)
    \/ \E id \in ModelId : RuneModelInfer(id)

Spec == Init /\ [][Next]_vars

-----------------------------------------------------------------------------
ByteSize == 0 .. (SizeMod - 1)

\* A model has one input for each input tensor of its file.
Model ==
    {m \in [blob : DOMAIN TensorSizes,
            inputDescriptors : Seq(ByteSize), outputDescriptors : Seq(ByteSize),
            inputs : Seq(0 .. runs)] :
        DOMAIN m.inputs = DOMAIN TensorSizes[m.blob].inputs}

TypeOK ==
    /\ m_models \in [Loaded -> Model]
    /\ Loaded \subseteq ModelId
    /\ m_idCounter \in ModelId
    /\ loads \in Nat
    /\ runs \in Nat
    /\ answer \in [ok : BOOLEAN, via : {"none", "tfm", "rune"}, id : ModelId,
                   written : Seq(SUBSET (0 .. runs))]

\* Failed loads use up no id and successful ones leave no gap, so the cache
\* holds all models of the engine until the ids wrap (ModelManager.cpp:26-33).
IdsAreDense ==
    loads <= IdMod => Loaded = 0 .. (loads - 1)

\* While no id equals the error code, an id keeps denoting the model it was
\* returned for, with the descriptors given at its own load, whatever other
\* loads fail (ModelManager.cpp:31, HostFunctions.cpp:336-356).
ModelsAreStable ==
    [][loads' <= IdMod - 2 =>
          \A id \in Loaded :
             /\ id \in Loaded'
             /\ m_models'[id].blob = m_models[id].blob
             /\ m_models'[id].inputDescriptors = m_models[id].inputDescriptors
             /\ m_models'[id].outputDescriptors = m_models[id].outputDescriptors]_vars

\* Every output of a successful inference is computed from the inputs of that
\* inference alone: what an earlier one that failed half-way left in the
\* interpreter is never mixed in (TfLiteRuntime.cpp:80-135).  Read off the
\* last answer, so it speaks of ids that do not denote another model yet.
FreshOutputs ==
    answer.ok /\ loads <= IdMod =>
        /\ Len(answer.written) = Len(TensorSizes[m_models[answer.id].blob].outputs)
        /\ \A j \in DOMAIN answer.written : answer.written[j] = {runs}

\* A model is never run with tensors its rune described wrongly, whatever was
\* parsed from the descriptors (HostFunctions.cpp:383-391 with
\* TfLiteRuntime.cpp:90-122).
OnlyTrueDescriptionsRun ==
    LET model == m_models[answer.id]
    IN answer.ok /\ answer.via = "rune" /\ loads <= IdMod - 2 =>
          /\ model.inputDescriptors = TensorSizes[model.blob].inputs
          /\ model.outputDescriptors = TensorSizes[model.blob].outputs
=============================================================================
