------------------------------ MODULE Lifetimes ------------------------------
(***************************************************************************)
(* Who keeps whom alive.  rune_vm's objects hold each other by shared_ptr; *)
(* the wasm3 and TensorFlow Lite objects inside them also use each other   *)
(* through plain pointers that hold nothing.  An object dies when the last *)
(* shared_ptr to it goes: its members are destroyed in the reverse order   *)
(* of their declaration, which may kill the next object, and so on.        *)
(*                                                                         *)
(* The application creates an engine, a runtime and runes, takes contexts, *)
(* and releases what it holds in any order within the rules it is given:   *)
(* keep the engine or the runtime of a rune until the rune is gone         *)
(* (README.md:296), and keep wasm passed as a view (RuneVm.hpp:60).  Its   *)
(* delegates may break a third one and store what they are told not to     *)
(* (example0.cpp:161).                                                     *)
(***************************************************************************)
EXTENDS Integers, FiniteSets, SequencesExt

CONSTANTS
    Delegate,     \* the delegate objects of the application
    MaxRuntimes,  \* bound of the model: runtimes created
    MaxLoads,     \* bound of the model: rune loads that get past the parser
    Lacking,      \* loads whose module does not export _call
    Storable      \* kinds of objects delegates store although told not to

ASSUME LifetimesAssumption == MaxRuntimes \in Nat /\ MaxLoads \in Nat /\ IsFiniteSet(Delegate)

VARIABLES
    members,   \* object -> the objects its members hold, in order of declaration
    handles,   \* the objects the application holds
    dying,     \* the objects whose destructors are running, innermost last
    loading,   \* the loadRune in progress
    modules,   \* runtime -> loads whose module is in its M3Runtime, newest first
    loaded,    \* loads whose module's deleter has been told not to free it
    code,      \* load -> the load in whose module its rune found _call
    freed,     \* ghost: load -> how often its M3Module was freed
    source     \* ghost: load -> its runtime, and whether it came from a file

vars == <<members, handles, dying, loading, modules, loaded, code, freed, source>>

Load   == 1 .. MaxLoads
Loads  == Len(source)
None   == [load |-> 0, runtime |-> 0]

Logger        == <<"ILogger", 0>>
Environment   == <<"M3Environment", 0>>
TfRuntime     == <<"TfLiteRuntime", 0>>
Models        == <<"ModelManager", 0>>
Engine        == <<"Wasm3Engine", 0>>
Frame         == <<"locals", 0>>      \* what createEngine or loadRune holds meanwhile
ModelFrame    == <<"locals", 1>>      \* what TfLiteRuntime::loadModel holds meanwhile
Runtime(k)    == <<"Wasm3Runtime", k>>
M3Runtime(k)  == <<"M3Runtime", k>>
Memory(l)     == <<"WasmBytes", l>>  \* the file mapping, or the memory of a view
Module(l)     == <<"SharedM3Module", l>>
Rune(l)       == <<"Wasm3Rune", l>>
Manager(l)    == <<"CapabilitiesDelegatesManager", l>>
Model(l)      == <<"TfLiteRuntimeModel", l>>
ModelData(l)  == <<"ModelBytes", l>>
TfModel(l)    == <<"TfLiteModel", l>>
TfLogger(l)   == <<"TfLiteLogger", l>>
Interpreter(l) == <<"TfLiteInterpreter", l>>
DelegateObject(d) == <<"IDelegate", d>>

Alive == DOMAIN members

\* An object is made, with the members it is made with; an object is freed.
f ++ made  == [o \in DOMAIN f \cup {made[1]} |-> IF o = made[1] THEN made[2] ELSE f[o]]
Gone(f, o) == [p \in DOMAIN f \ {o} |-> f[p]]

Holds(f, held, o) == o \in held \/ \E p \in DOMAIN f : o \in Range(f[p])

\* A slip for the mutation checks: nobody counts.
UnheldUncounted(f, held, o) == <<o>>

\* The destructor that runs when one shared_ptr to o has gone, if it was the last.
Unheld(f, held, o) == IF Holds(f, held, o) THEN <<>> ELSE <<o>>

\* No destructor and no load is running.
Idle == dying = <<>> /\ loading = None

\* The application's code runs: its own, or a delegate that _manifest called.
AppRuns == dying = <<>> /\ (loading # None => Rune(loading.load) \in Alive)

Init ==
    /\ members = [o \in {Logger} \cup {DelegateObject(d) : d \in Delegate} |->
                    IF o = Logger THEN <<>> ELSE <<Logger>>]
    /\ handles = DOMAIN members
    /\ dying = <<>>
    /\ loading = None
    /\ modules = [k \in 1 .. MaxRuntimes |-> <<>>]
    /\ loaded = {}
    /\ code = [l \in {} |-> 0]
    /\ freed = [l \in Load |-> 0]
    /\ source = <<>>

-----------------------------------------------------------------------------
(* Creation *)

\* The engine's own members; its constructor made the wasm3 environment.
CreateEngine ==
    /\ Idle
    /\ Logger \in handles
    /\ {Environment, Models} \cap Alive = {}   \* bound: one engine at a time
    /\ members' = members
          ++ <<TfRuntime, <<Logger>>>>
          ++ <<Models, <<Logger, TfRuntime>>>>
          ++ <<Environment, <<>>>>
          ++ <<Engine, <<Logger, Environment, Models>>>>
    /\ handles' = handles \cup {Engine}
    /\ UNCHANGED <<dying, loading, modules, loaded, code, freed, source>>

\* A backend that is not known: what was made is destroyed as createEngine
\* unwinds.
CreateEngineThrows ==
    /\ Idle
    /\ Logger \in handles
    /\ {Environment, Models} \cap Alive = {}
    /\ members' = members
          ++ <<TfRuntime, <<Logger>>>>
          ++ <<Models, <<Logger, TfRuntime>>>>
          ++ <<Frame, <<TfRuntime, Models>>>>
    /\ dying' = <<Frame>>
    /\ UNCHANGED <<handles, loading, modules, loaded, code, freed, source>>

\* A slip for the mutation checks: the environment is declared after the M3Runtime
\* that uses it.
RuntimeMembersSwapped(k) == <<Logger, M3Runtime(k), Environment, Models>>

RuntimeMembers(k) == <<Logger, Environment, M3Runtime(k), Models>>

CreateRuntime(k) ==
    /\ Idle
    /\ Engine \in handles
    /\ Runtime(k) \notin Alive /\ M3Runtime(k) \notin Alive
    /\ members' = members ++ <<M3Runtime(k), <<>>>> ++ <<Runtime(k), RuntimeMembers(k)>>
    /\ handles' = handles \cup {Runtime(k)}
    /\ UNCHANGED <<dying, loading, modules, loaded, code, freed, source>>

-----------------------------------------------------------------------------
(* loadRune *)

\* The file is mapped, or the caller's memory viewed; the parser makes a module,
\* which a shared_ptr with a deleter of its own takes.  A load that fails before
\* that leaves nothing behind.  Locals are listed in the order they are made.
BeginLoad(k, fromFile) ==
    LET l       == Loads + 1
        mapping == IF fromFile THEN <<Memory(l)>> ELSE <<>>
    IN
    /\ Idle
    /\ Runtime(k) \in handles
    /\ l \in Load
    /\ members' = members
          ++ <<Memory(l), <<>>>>
          ++ <<Module(l), <<>>>>
          ++ <<Frame, mapping \o <<M3Runtime(k), Module(l)>>>>
    /\ handles' = IF fromFile THEN handles ELSE handles \cup {Memory(l)}
    /\ loading' = [load |-> l, runtime |-> k]
    /\ source' = Append(source, [runtime |-> k, fromFile |-> fromFile])
    /\ UNCHANGED <<dying, modules, loaded, code, freed>>

\* m3_LoadModule fails: createRune unwinds, and the deleter frees the module.
ModuleIsRefused ==
    /\ dying = <<>>
    /\ loading # None
    /\ Rune(loading.load) \notin Alive
    /\ loading' = None
    /\ dying' = <<Frame>>
    /\ UNCHANGED <<members, handles, modules, loaded, code, freed, source>>

\* A slip for the mutation checks: the deleter is told nothing.
LoadedForgotten(l) == loaded

\* From here on the M3Runtime frees the module.
LoadedWith(l) == loaded \cup {l}

\* m_hostContext counts as its members; the OutputManager in it holds nothing.
RuneMembers(l, k) == <<Logger, Module(l), M3Runtime(k), Manager(l), Models>>

\* The newest of these modules that exports _call; they are listed newest first.
FindCall(loads) ==
    loads[CHOOSE i \in DOMAIN loads :
            loads[i] \notin Lacking /\ \A j \in 1 .. i - 1 : loads[j] \in Lacking]

\* What loadRune still holds when the module is in the runtime.
Mapping(l) == IF source[l].fromFile THEN <<Memory(l)>> ELSE <<>>

\* The module is in the runtime and the constructor has got as far as calling
\* _manifest, or as not finding _call and throwing.  The file mapping stays a
\* local of loadRune; the module and the runtime are members of the rune now.
ModuleIsLoaded(delegates) ==
    LET l     == loading.load
        k     == loading.runtime
        loads == <<l>> \o modules[k]
    IN
    /\ dying = <<>>
    /\ loading # None
    /\ Rune(l) \notin Alive
    /\ modules' = [modules EXCEPT ![k] = loads]
    /\ loaded' = LoadedWith(l)
    /\ members' = members
          ++ <<Rune(l), RuneMembers(l, k)>>
          ++ <<Manager(l), <<Logger>> \o [i \in DOMAIN delegates |-> DelegateObject(delegates[i])]>>
          ++ <<Frame, Mapping(l)>>
    /\ IF Range(loads) \subseteq Lacking
       THEN loading' = None /\ dying' = <<Frame, Rune(l)>> /\ UNCHANGED code
       ELSE code' = code ++ <<l, FindCall(loads)>> /\ UNCHANGED <<loading, dying>>
    /\ UNCHANGED <<handles, freed, source>>

\* A slip for the mutation checks: what the constructor made is left.
ConstructorThrowsLeaking ==
    /\ dying = <<>>
    /\ loading # None
    /\ Rune(loading.load) \in Alive
    /\ loading' = None
    /\ dying' = <<Frame>>
    /\ UNCHANGED <<members, handles, modules, loaded, code, freed, source>>

\* _manifest traps: the members go, then the locals of the callers.
ConstructorThrows ==
    /\ dying = <<>>
    /\ loading # None
    /\ Rune(loading.load) \in Alive
    /\ loading' = None
    /\ dying' = <<Frame, Rune(loading.load)>>
    /\ UNCHANGED <<members, handles, modules, loaded, code, freed, source>>

\* A slip for the mutation checks: the mapping is not moved into the deleter.
LoadReturnsUnmapping ==
    /\ dying = <<>>
    /\ loading # None
    /\ Rune(loading.load) \in Alive
    /\ handles' = handles \cup {Rune(loading.load)}
    /\ loading' = None
    /\ dying' = <<Frame>>
    /\ UNCHANGED <<members, modules, loaded, code, freed, source>>

\* The shared_ptr that is returned holds the file mapping in its deleter, which
\* goes after the rune's own members.
LoadReturns ==
    LET rune == Rune(loading.load)
    IN
    /\ dying = <<>>
    /\ loading # None
    /\ rune \in Alive
    /\ members' = [Gone(members, Frame) EXCEPT ![rune] = members[Frame] \o @]
    /\ handles' = handles \cup {rune}
    /\ loading' = None
    /\ UNCHANGED <<dying, modules, loaded, code, freed, source>>

-----------------------------------------------------------------------------
(* Models, loaded by the wasm of a rune in _manifest or in a call *)

Runs(l) ==
    /\ AppRuns
    /\ \/ loading.load = l
       \/ loading = None /\ Rune(l) \in handles

\* A slip for the mutation checks: a model that holds its manager.
ModelMembersBackLinked(l) ==
    <<Logger, Models, TfLogger(l), ModelData(l), TfModel(l), Interpreter(l)>>

ModelMembers(l) == <<Logger, TfLogger(l), ModelData(l), TfModel(l), Interpreter(l)>>

WithModelParts(l) ==
    members ++ <<TfLogger(l), <<Logger>>>>
            ++ <<ModelData(l), <<>>>> ++ <<TfModel(l), <<>>>> ++ <<Interpreter(l), <<>>>>

\* One model per rune is enough; the ModelManager keeps it, whoever loaded it.
LoadModel(l) ==
    /\ Runs(l)
    /\ Model(l) \notin Alive
    /\ members' = WithModelParts(l)
          ++ <<Model(l), ModelMembers(l)>>
          ++ <<Models, Append(members[Models], Model(l))>>
    /\ UNCHANGED <<handles, dying, loading, modules, loaded, code, freed, source>>

\* The interpreter cannot be made or finds no memory for its tensors: the locals
\* of TfLiteRuntime::loadModel go, and nothing is kept.
LoadModelFails(l) ==
    /\ Runs(l)
    /\ Model(l) \notin Alive
    /\ members' = WithModelParts(l)
          ++ <<ModelFrame, <<ModelData(l), TfModel(l), TfLogger(l), Interpreter(l)>>>>
    /\ dying' = <<ModelFrame>>
    /\ UNCHANGED <<handles, loading, modules, loaded, code, freed, source>>

-----------------------------------------------------------------------------
(* The application *)

\* What the application is told: the engine or the runtime is kept until its
\* runes are gone, the runtime until loadRune returns, and a view until its rune
\* is gone.
MayRelease(o) ==
    LET kept      == handles \ {o}
        runesOf(k) == {l \in 1 .. Loads : source[l].runtime = k /\ Rune(l) \in Alive}
    IN
    /\ loading # None => o # Runtime(loading.runtime)
    /\ \A k \in 1 .. MaxRuntimes : runesOf(k) # {} => Engine \in kept \/ Runtime(k) \in kept
    /\ \A l \in 1 .. Loads : o = Memory(l) => Rune(l) \notin Alive /\ loading.load # l

Release(o) ==
    /\ AppRuns
    /\ o \in handles
    /\ MayRelease(o)
    /\ handles' = handles \ {o}
    /\ dying' = Unheld(members, handles', o)
    /\ UNCHANGED <<members, loading, modules, loaded, code, freed, source>>

GetContext(l) ==
    /\ AppRuns
    /\ Rune(l) \in handles
    /\ handles' = handles \cup {Manager(l)}
    /\ UNCHANGED <<members, dying, loading, modules, loaded, code, freed, source>>

\* A delegate stores what it is told never to store; one such object will do.
Store(d, o) ==
    /\ AppRuns
    /\ {DelegateObject(d), o} \subseteq handles
    /\ o[1] \in Storable
    /\ members[DelegateObject(d)] = <<Logger>>
    /\ members' = [members EXCEPT ![DelegateObject(d)] = Append(@, o)]
    /\ UNCHANGED <<handles, dying, loading, modules, loaded, code, freed, source>>

-----------------------------------------------------------------------------
(* Destruction *)

\* The members of the innermost dying object go, the last declared first.
DropLastMember ==
    LET o    == Last(dying)
        last == Last(members[o])
    IN
    /\ dying # <<>>
    /\ members[o] # <<>>
    /\ members' = [members EXCEPT ![o] = Front(@)]
    /\ dying' = dying \o Unheld(members', handles, last)
    /\ UNCHANGED <<handles, loading, modules, loaded, code, freed, source>>

\* The loads whose M3Module goes with the object: the deleter of a module that
\* was not loaded frees it, m3_FreeRuntime frees all that were.
FreesModules(o) ==
    {l \in 1 .. Loads : \/ o = Module(l) /\ l \notin loaded
                        \/ o = M3Runtime(source[l].runtime) /\ l \in Range(modules[source[l].runtime])}

\* Its members are gone: the object is freed.
Deallocate ==
    LET o == Last(dying)
    IN
    /\ dying # <<>>
    /\ members[o] = <<>>
    /\ members' = Gone(members, o)
    /\ dying' = Front(dying)
    /\ freed' = [l \in Load |-> IF l \in FreesModules(o) THEN freed[l] + 1 ELSE freed[l]]
    /\ modules' = [k \in DOMAIN modules |-> IF o = M3Runtime(k) THEN <<>> ELSE modules[k]]
    /\ UNCHANGED <<handles, loading, loaded, code, source>>

Destruct == DropLastMember \/ Deallocate

Next ==
    \/ CreateEngine \/ CreateEngineThrows
    \/ \E k \in 1 .. MaxRuntimes : CreateRuntime(k) \/ \E fromFile \in BOOLEAN : BeginLoad(k, fromFile)
    \/ ModuleIsRefused
    \/ \E d \in Delegate : DelegateObject(d) \in handles /\ ModuleIsLoaded(<<d>>)
    \/ ConstructorThrows \/ LoadReturns
    \/ \E l \in Load : LoadModel(l) \/ LoadModelFails(l) \/ GetContext(l)
    \/ \E o \in handles : Release(o) \/ \E d \in Delegate : Store(d, o)
    \/ Destruct

\* A destructor that has begun runs to its end: it waits for nobody.  The
\* application is obliged to nothing.
Spec == Init /\ [][Next]_vars /\ WF_vars(Destruct)

-----------------------------------------------------------------------------
LifetimesTypeOK ==
    /\ \A o \in Alive : members[o] \in Seq(Alive)
    /\ handles \subseteq Alive
    /\ Range(dying) \subseteq Alive
    /\ loading \in [load : Load, runtime : 1 .. MaxRuntimes] \cup {None}
    /\ modules \in [1 .. MaxRuntimes -> Seq(Load)]
    /\ loaded \subseteq Load
    /\ code \in [DOMAIN code -> Load] /\ DOMAIN code \subseteq Load
    /\ freed \in [Load -> Nat]

\* What the libraries' objects use without holding it, when they work or are
\* destroyed: an M3Runtime its environment; TensorFlow Lite's objects the bytes of
\* the model and the logger they report to (Wasm3Runtime.cpp:94,
\* TfLiteRuntime.cpp:180-199).
LibraryUses(o) ==
    {u \in {Environment} : o[1] = "M3Runtime"}
    \cup {u \in {ModelData(o[2])} : o[1] \in {"TfLiteModel", "TfLiteInterpreter"}}
    \cup {u \in {TfLogger(o[2])} : o[1] = "TfLiteInterpreter"}

\* The host functions a rune's wasm calls are linked, in the module that wasm
\* comes from, to &m_hostContext: a member of the rune whose load made the module
\* (Wasm3Rune.cpp:235, 136).
Uses(o) == LibraryUses(o) \cup {Rune(code[l]) : l \in {l \in DOMAIN code : o = Rune(l)}}

\* Whatever order the application releases things in, and wherever a
\* constructor throws, nothing that is used through a plain pointer dies before
\* its user (Wasm3Runtime.hpp:39-41, TfLiteRuntime.hpp:44-50, Wasm3Rune.hpp:36).
\* Runes without a _call of their own are left out: they run another rune's
\* module, and for them it does not hold (HostContextsStayThere).
UsedOutlivesUser == \A o \in Alive \ {Rune(l) : l \in Lacking} : Uses(o) \subseteq Alive

\* Each M3Module is freed by exactly one of two owners, the deleter of the
\* shared_ptr or the M3Runtime it was loaded into, and never left without an
\* owner, wherever the load fails (Wasm3Runtime.cpp:47-65).
OneModuleOwner ==
    \A l \in 1 .. Loads :
        LET k       == source[l].runtime
            deleter == Module(l) \in Alive /\ l \notin loaded
            runtime == M3Runtime(k) \in Alive /\ l \in Range(modules[k])
        IN /\ freed[l] <= 1
           /\ freed[l] = 1 <=> ~deleter /\ ~runtime
           /\ ~(deleter /\ runtime)

\* wasm of the rune may still run.
Usable(l) == Rune(l) \in Alive \ Range(dying)

\* wasm3 compiles a function when it first runs, from the bytes the module was
\* parsed from: as long as a rune lives the bytes of the module it runs are
\* there, if its module has all a rune needs (Wasm3Runtime.cpp:156-168).
CompleteRunesHaveTheirBytes ==
    \A l \in DOMAIN code : Usable(l) /\ l \notin Lacking => Memory(code[l]) \in Alive

\* The same of every rune and the file it runs from, as the comment "wasm module
\* uses memory it is created from" in Wasm3Runtime.cpp:164 has it.
FilesStayMapped ==
    \A l \in DOMAIN code : Usable(l) /\ source[code[l]].fromFile => Memory(code[l]) \in Alive

\* The same of every rune and the HostContext its wasm is answered from, as
\* CHECK_THROW(context) in Wasm3Rune.cpp:139 and "The context is shared between
\* runes" in README.md:306 take for granted.
HostContextsStayThere == \A l \in Load : Usable(l) => Uses(Rune(l)) \subseteq Alive

\* Everything that can be reached from a set of objects.
Reached(objects) ==
    LET step[n \in 0 .. Cardinality(Alive)] ==
            IF n = 0 THEN objects
            ELSE LET before == step[n - 1] IN before \cup UNION {Range(members[o]) : o \in before}
    IN step[Cardinality(Alive)]

\* The delegates that keep themselves alive through what they store.
Looping == {o \in {DelegateObject(d) : d \in Delegate} \cap Alive : o \in Reached(Range(members[o]))}

\* Only what a delegate keeps alive by storing a rune_vm object can leak, as
\* example0.cpp:161 warns; every other object is reachable from the application
\* as soon as no destructor runs (Wasm3Rune.hpp:34-38, HostFunctions.hpp:35-39).
OnlyLoopsLeak == Idle => Alive \subseteq Reached(handles \cup Looping)

\* Once the application has released all it held, everything else is destroyed,
\* models and wasm3's objects included, whatever was released last.
EverythingIsReleased == handles = {} ~> dying = <<>> /\ Alive = Reached(Looping)
=============================================================================
