# rune_vm in TLA+

rune_vm is a C++ library that runs *runes*: WebAssembly modules that read
inputs, run TensorFlow Lite models and produce JSON. An application creates an
engine and a runtime, loads runes, and calls them. A rune asks its host for
capabilities (Sound, Image, Rand, ...), sets their parameters, reads input from
them, runs models and saves outputs; the application answers for the
capabilities with *delegates* and takes the output from `IRune::call()`.

The project models the parts of the library that keep state, checks them with
TLC on small instances and proves most of what is checked for every value of
the constants with TLAPS.

## The system

| Component | State | Operations | Used by |
|---|---|---|---|
| `OutputManager` | output id → result, id counter, last saved id | request, save, consume | host functions, `call()` |
| `Wasm3Rune` | module, runtime, found `_call`, its `HostContext` | constructor (links, finds functions, runs `_manifest`), `call` | application |
| `CapabilitiesDelegatesManager` | capability → delegate, capability id → data, id counter | create, set parameter, get input; `IContext`: set availability and getters | host functions; the application and its delegates |
| `RandomCapabilityDelegate` | id → generator and range | the three requests of `IDelegate` | the manager, when the application has no delegate for Rand |
| `DelegateFactory` | none (static tables) | default delegate for a capability | the manager |
| `ModelManager` | model id → model, id counter | load, run, get, erase (unused) | host functions of *all* runes of an engine |
| `TfLiteRuntime` | per model an interpreter with its tensors | load, run | `ModelManager` |
| `TensorDescriptor` | none | parse a string, byte count | host functions on models |
| `Wasm3Runtime` | `M3Runtime` with all modules ever loaded, rune id counter | load a rune from memory or from a file | application |
| `HostFunctions`, `RuneInterop` | none (`HostContext` holds the managers) | the ten functions wasm can call, with argument checks | wasm |
| wasm3 argument marshalling | none | stack and linear memory → C++ arguments | wasm3 |
| `Wasm3Engine`, `createEngine` | a wasm3 environment | construct a runtime | application |
| `Result`, `JsonResult` | elements, other results among them; a JSON text | add, typed access by index, write as JSON | output cache, application |
| logging, `DataView`, `WasmPtr`, formatting | none | | everywhere |

Interactions:

    application --load/call--> Wasm3Runtime / Wasm3Rune --m3_CallV--> wasm
    wasm --host functions--> OutputManager | CapabilitiesDelegatesManager | ModelManager
    CapabilitiesDelegatesManager --request*--> delegate (application code or the built-in one)
    delegate, application --IContext--> CapabilitiesDelegatesManager
    all objects --shared_ptr--> the objects they need; wasm3's and TensorFlow
    Lite's objects --plain pointers--> each other

There are no threads, locks, timers or messages. Control moves by calls, and
what makes the behaviour hard is control that leaves in the middle of an
operation, and failures in the middle of one:

- *callbacks*: the manager calls a delegate while it holds iterators and a
  half-done update; the delegate can use the `IContext` of the same rune;
- *partial failure*: wasm traps after it has saved an output; a load fails in
  any of its steps; a run fails after some tensors were copied; a delegate
  denies; seeding a generator throws;
- *stale state*: the last saved id is never cleared; modules stay in the
  runtime after their rune is gone; parameters live in two places;
- *destruction*: the application releases engine, runtime, runes, contexts and
  delegates in an order of its own, members are destroyed in the reverse order
  of declaration, and some objects are used through pointers that hold nothing;
- *two descriptions of one thing*: the signature given to wasm3 and the slots
  the wrapper reads; the answer of a host function and the state behind it;
- *limits and counters*: the output cache is dropped over a limit, four id
  counters wrap, and error codes share the value range of ids.

What makes each component correct: `OutputManager` never hands a result out
twice and loses none but by a reset; a rune's call returns what that call saved
last; a capability always goes to the delegate the application chose, and a
denied change leaves no trace; the built-in delegate uses the range that is
shown; a model id keeps its model, and an inference's outputs come from its own
inputs; a rune runs its own module; nothing is used after it was destroyed (which
fails for runes without a `_call` of their own) and nothing but a loop made by a
delegate leaks; the wasm can always tell from the
answers what the host has; a result is written whole or not at all. Operations, limits and lines of all hazards
are in `PROJECT.json`.

## Modules

| Module | Models | Extends |
|---|---|---|
| `OutputManager` | `OutputManager.cpp` | |
| `ResultMailbox` | abstract: what a rune promises about results | |
| `Wasm3Rune` | `Wasm3Rune.cpp`, output host functions | `OutputManager` |
| `CapabilityRegistry` | abstract: capabilities changed atomically | |
| `CapabilitiesDelegatesManager` | `CapabilitiesDelegatesManager.cpp` | |
| `RandomCapabilityDelegate` | `RandomCapabilityDelegate.cpp`, with the manager | `CapabilitiesDelegatesManager` |
| `TensorDescriptor` | `Inference.cpp` | |
| `ModelManager` | `ModelManager.cpp`, `TfLiteRuntime.cpp`, model host functions | `TensorDescriptor` |
| `Wasm3Runtime` | `Wasm3Runtime.cpp` | |
| `Lifetimes` | members, deleters and factories of all of them: `RuneVm.cpp`, `Wasm3Engine.cpp`, `Wasm3Runtime.cpp`, the headers | |
| `HostFunctions` | wrappers of `Wasm3Rune.cpp`, `HostFunctions.cpp`, `RuneInterop.cpp` | `CapabilitiesDelegatesManager`; instances of `OutputManager` and `ModelManager` |
| `Result` | `Result.cpp` | |

Each concrete one but `TensorDescriptor` and `OutputManager` has an `MC...` module
with the definitions its `.cfg` needs; eight have a `...Proofs` module.
`TensorDescriptor` is checked and proved about with `ModelManager`, and
`OutputManager` is checked inside `Wasm3Rune` (`MCOutputErrors` adds a history to
it for one question). Variables have the names of the members they stand for
(`m_results`, `m_idCounter`, ...); variables marked *ghost* are histories that
no guard depends on, except for the bound on their growth.

**OutputManager.** `m_results` is a function whose domain are the cached ids.
`Kept` is the reset at the top of `requestOutput`; it happens in the same action
as the insertion, as in the code. A result is the serial number of its
`JsonResult`, 0 is the null pointer. `ConsumeOutput` moves the pointer out and
keeps the id, as the code does.

**Wasm3Rune.** `phase` is what the rune is executing. While it is `manifest` or
`calling`, wasm may call host functions in any order with any argument, stop, or
trap: no assumption is made about the wasm. `CallReturns` is the end of `call()`
after `_call` returned: read `lastSavedId`, consume, return the pointer or throw;
it is one action because nothing else can run in between. An output type that
`fromInt` does not know makes the wrapper trap, which is `CallTraps` or
`ManifestTraps`.

**CapabilitiesDelegatesManager.** An operation that calls a delegate is split at
the call: the first action leaves the arguments in `frame` (and, for a
parameter, `inserted`, the local that outlives the callback), the reply action
finishes the operation. In between only `IContext` operations can happen, which
is what a delegate can do while it holds control. `LoadRuneReturns` is when the
application can first get hold of the context; `_manifest`'s requests run before
that. Here the wasm's calls are the manager's operations; `HostFunctions` puts
the host functions in front.

**RandomCapabilityDelegate** extends the manager: where the asked delegate is the
built-in one, its reply is computed instead of chosen. The application's code
does not run meanwhile. Floats are a few integers, one of them NaN.

**ModelManager.** A tensor holds the number of the inference that filled it, an
output the set of inferences its inputs came from: all that tells fresh data
from stale. `Handled` is how far the copying loop gets. Descriptors are parsed
by `TensorDescriptor` in the action that loads, with the widths of `int` and
`size_t` as constants; a descriptor without brackets leaves the type
uninitialised, which is a choice over all types. `tfmPreloadModel` returns its
error code as an unsigned id, hence the odd branch in `RuneModelLoad`.

**TensorDescriptor** keeps no state. Its second half says what a string should
stand for: the width that the name of the type gives, times the exact product of
the numbers. TLC compares them for all strings of `MCStrings` when it evaluates the
assumption `SizesOfMCStrings` of `MCModelManager`, which is there for nothing
else; the theorem `SizesOfDescriptors` says it of every string. `byteCount` has 8 bytes for
`c128` where a value has 16, so `SizeIsTrue` leaves that type out: a model whose
`c128` tensors are described rightly does not run, because the size differs from
TensorFlow Lite's and the check of sizes refuses it.

**Wasm3Runtime.** `modules` is the list of modules in the shared `M3Runtime`; it
only grows. Functions are looked up by name, the newest module first, as wasm3
does (external: taken from how `m3_FindFunction` is used). A module is
identified with the load that made it, so "runs its own module" is an equality.

**Lifetimes.** `members` maps every living object to what its members hold, in
the order of declaration; together with `handles`, what the application holds,
this is who owns whom. `Release` gives up a handle; if nobody else holds the
object its destructor starts, and `dying` is the stack of destructors that run:
`DropLastMember` and `Deallocate` are their steps. A constructor or function
that throws is the destruction of its locals (`Frame`). `Uses` lists the plain
pointers that outlast a function: `LibraryUses` those of wasm3 and TensorFlow
Lite, and the rest is `&m_hostContext`, which `LINK` leaves in a module: a rune
uses the HostContext of the rune whose load made the module it found `_call` in
(`code`). The application keeps engine or runtime while it has a rune
(`README.md:296` asks for both) and views while their rune lives
(`RuneVm.hpp:60`), and is otherwise free, from inside a delegate called by
`_manifest` too; the delegates may store runes and contexts, which
`example0.cpp:161` forbids. `freed` counts the calls of `m3_FreeModule` and
their like per module.

**HostFunctions** composes the three managers of a `HostContext`: it extends the
one that calls delegates and instantiates the other two, so its steps are theirs
with the checks in front and an answer behind. Outputs and capabilities are the
rune's own; the `ModelManager` is the engine's, so `OtherRunes` may take any of
its steps before the rune is linked and between its calls, and `foreign` is the
ids that other runes were given. `Passed` holds the slots wasm may
push for each function; `Sig` (for the linker) and `SlotsOf` (for the wrapper)
are translated from different templates. `pending` are the slots of the call
that waits for a delegate. `known` is the wasm's side: what a program that
believes its answers knows about its capabilities, models (the file and the
descriptors it loaded under each id) and outputs. Wasm
memory is constant: an address stands for what is there.

**Result.** `results` is a heap; a pointer is an index. `Parse` is recursive as
`parse` is and its exceptions are a value; `Ends` are the results on which the
recursion ends.

## Runs

| Run | Question | Result |
|---|---|---|
| `output_errors` | is the cache cleaned only in case of errors, as the comment says | violated |
| `wasm3_rune` | is the output cache bounded, are ids free when handed out, has a result one owner, is nothing lost silently; which result does `call()` return; does the rune implement `ResultMailbox` | holds |
| `wasm3_rune_null` | does `call()` return a result unless it throws | violated |
| `capabilities` | are iterators valid after callbacks, does each capability have the right delegate, does the manager implement `CapabilityRegistry` | holds |
| `random_delegate` | do the delegate and the manager agree on the parameters; what is drawn | holds |
| `models` | ids, stability of models, freshness of outputs, wrong descriptors | holds |
| `wasm3_runtime` | ids of runes, whose module a rune runs | holds |
| `lifetimes` | is anything used after it died, freed twice or never, in whatever order the application releases and wherever a load fails | holds |
| `file_mapping` | is the file a rune runs from mapped as long as it may run | violated |
| `host_context` | does the HostContext that answers a rune's wasm exist as long as it may run | violated |
| `host_functions` | do signature and conversion agree; does the wasm know from its answers what the managers have, whatever other runes do with the engine's models | holds |
| `results` | is a result written whole or not at all | holds |

The four violations:

- `output_errors`: a comment in `OutputManager.cpp:39` says the cache is cleaned
  "in case there's some error", and `OutputManager.hpp:32` says `consumeOutput`
  erases the result. It keeps the id, so a rune that saves and consumes
  everything still has its cache dropped after each 10'001 requests, together
  with an output it has pending at that moment.
- `wasm3_rune_null`: `call()` checks the optional but not the pointer in it. A
  call that saves nothing, after one that did, returns a null pointer instead of
  throwing; the README's example dereferences it and the tests assert that it
  is not null.
- `file_mapping`: "wasm module uses memory it is created from"
  (`Wasm3Runtime.cpp:164`), so the mapping is kept with the rune. The module
  lives longer, in the `M3Runtime`: after the rune is gone, a rune loaded next
  whose own module lacks `_call` is given the old one, unmapped. A module that
  has `_manifest` and `_call` never meets this
  (`CompleteRunesHaveTheirBytes`).
- `host_context`: the same old module is linked to `&m_hostContext` of the rune
  it was loaded for (`Wasm3Rune.cpp:235`). That rune is gone, released or because
  `_manifest` trapped in its constructor, in which case the application has done
  nothing wrong. `wrap_fn` checks the pointer for null only (`:139`) and uses it.
  A rune that has `_call` uses its own HostContext (`UsedOutlivesUser`).

One passing run also shows a disagreement with a comment: `RuneVm.hpp:58` says that
one of several delegates for a capability is chosen randomly; the code always
keeps the first one passed (`BoundAsPassed` in `capabilities`).

### Bounds

| Constant | Code | Runs | Why it is enough |
|---|---|---|---|
| `IdMod` (output ids) | 2^32 | 6; 4 in `wasm3_rune_null` | above the limit + 1, so that ids wrap within a run |
| `CacheSizeLimit` | 10'000 | 2; 1 | one id over the limit, a reset and a refilled cache are reached |
| `MaxSaves`, `MaxCalls` | none | 4, 4 | manifest and four calls can each save; a result is stale over several trapped calls |
| `IdMod` (capability ids), `MaxGrants` | 2^32, none | 3, 2 and 2, 3 | first without, then with reuse of ids |
| delegates | any | none, one, two overlapping | the order of two overlapping delegates matters, a third adds nothing |
| `Key`, `Param` | strings, numbers | 2, 2 or NaN, another type and a number | a second key, a second value for a key |
| `IdMod` (model ids), `MaxLoads`, `MaxRuns` | 2^32, none, none | 4, 3, 2 | three loads reach the id that equals the error code; a failed run followed by another |
| tensors | any | one or two inputs, one output | the copying loop can stop before, between and after |
| `IntMod`, `SizeMod` | 2^32, 2^64 | 2^8, 2^16 | sizes of the models are small; in `MCStrings` products wrap to positive, zero and negative ints, and the true size is above and below both widths |
| `MCNumber`, numbers per string | any | ten of 0 to 128; 3 | 128 does not fit an int, 0 empties a tensor, odd and even factors wrap differently |
| `IdMod` (rune ids), `MaxLoads` | 2^32, none | 3, 4 | one load more than ids |
| `Lifetimes`: `MaxRuntimes`, `MaxLoads`, `Delegate` | none | 1, 2, 1 | a second load meets the module of the first; runtimes share only the engine's members, which one runtime and its runes already outlive in every order |
| `Lacking`, `Storable` | any | load 2; rune, context | the load that finds the module of another; the two objects that close a loop |
| `HostFunctions`: `IdMod`, `MaxGrants`, `MaxLoads`, `MaxOutputs` | 2^32, none | 5; 2, 2, 2 | two capabilities, two outputs and two models, of one rune or of two, can be confused; all ids stay below the error code 3, as the properties require |
| `MaxRuns`, `MaxSaves`, `CacheSizeLimit` in `HostFunctions` | none, none, 10'000 | 1, 1, 1 | one of each answer; resets are the matter of `wasm3_rune` |
| `Passed`, `Imports` | any | 2 to 20 per function, 4 | each check passes and fails, a key set twice; all imports, only the two for outputs, a wrong type, a wrong count |
| `MaxResults`, `MaxElements` | none | 3, 4 | nesting three deep, shared twice, loops, and an element after a nested result |

`random_delegate` has the two keys the delegate knows: a key it does not know is
denied like a parameter of the wrong type, which the run has. `models` and
`capabilities` have no symmetry sets because their state spaces are small.

Deadlock is checked except where a bound ends the behaviour: in `wasm3_rune`
construction may fail and the calls are bounded, in `wasm3_runtime`, `lifetimes`
and `results` loads or objects are, and in `host_functions` linking may fail.

### Fairness and liveness

The library does nothing by itself: every step is made by the application, by
wasm it called, or by a delegate, and none of them is obliged to make one. wasm
may loop for ever inside `call()`. Liveness of the operations would only restate
an assumption on them, so none is assumed or checked, with one exception.

A destructor that has started runs to its end without waiting for anybody:
`Lifetimes` has weak fairness on `Destruct` and on nothing else. From it follows
`EverythingIsReleased`: after the application has let go of its last object, all
that is left is what a delegate keeps alive in a loop. That the application lets
go is the premise, not an assumption.

## Proofs

The theorems hold for every value of the constants that satisfies the named
assumptions in the modules (`OutputIdAssumption`: the limit and one more id fit
the counter; `CapabilityAssumption`, `RandAssumption`, `HostAssumption`,
`ModelAssumption`, `WidthAssumption`, `RuntimeAssumption`,
`LifetimesAssumption`: types, positive widths, an `int` of more than one value, a
finite set of delegates). The two theorems about what wasm
knows assume in addition that no id reaches the error code.

| Module | Theorems | Inductive argument |
|---|---|---|
| `OutputManagerProofs` | `TypeCorrect`, `CacheIsWindow`, `IdsAreFree`, `CacheIsBounded`, `Ownership`, `LastSaved`, `NoSilentLoss` | The cached ids form a window of at most limit + 1 ids below the counter, modulo its width. The next id is outside the window because the window is shorter than the width. Ownership needs that every live or released object has a number up to `created`. |
| `Wasm3RuneProofs` | `RuneTypeCorrect`, `InOrder`, `StaleResults`, `OwnResult`, `ImplementsResultMailbox` | Every step of the rune is a step or a stutter of its output manager, so all of the above is inherited. `RuneInv` adds: what was delivered is released; the running wasm's last save is in the slot; every call since the slot was filled has trapped. |
| `CapabilitiesDelegatesManagerProofs` | `TypeCorrect`, `Binding`, `HeldIterators`, `OfferedIds`, `Implementation` | No action removes a capability or changes its owner or its kind, and a frame's capability is known; an id in use is at most the counter while fewer capabilities are granted than there are ids (assumed by the last two). |
| `RandomCapabilityDelegateProofs` | `RefinesManager`, `RandTypeCorrect`, `EngineForOwned`, `RangeAsShown`, `DrawnFromShownRange` | Every step is a step of the manager, so its theorems hold here. The invariant relates `m_engines` to the parameters: every capability the delegate owns has an engine, also while a request is answered, and outside of a change of parameters its range is the one shown. |
| `ModelManagerProofs` | `TypeCorrect`, `DenseIds`, `Stability`, `Freshness`, `TrueDescriptions`, `SizesOfDescriptors` | `loads` determines the counter and the loaded ids until they wrap; a model's tensors have the arity of its file; the answer holds data of the last run only. Sizes are integers because the products of a descriptor's dimensions are: a least counterexample of the recursive function has a predecessor. The same way, the wrapped product differs from the true one by a multiple of the width, so they agree where an `int` can hold the latter, and a wrapped product is smaller than it or negative. `SizesOfDescriptors` rests on that. |
| `Wasm3RuntimeProofs` | `TypeCorrect`, `RunsOwnCode`, `RuneIds` | When a rune's functions are looked up its module is the newest, so a complete module finds itself; what a rune found never changes. The ids returned are the numbers from 0, modulo the width. |
| `HostFunctionsProofs` | `PassedIsRead`, `DrivesCapabilities`, `DrivesModels`, `DrivesOutputs`, `IdsAreKnown`, `CapabilitiesAreKnown`, `HostTypeCorrect`, `OutputsKeepPromises`, `ModelsKeepPromises` | Every step is a step or a stutter of each of the three managers, so all that is proved of them holds behind the host functions; for the instances of `OutputManager` and `ModelManager` the last two state it, from the theorems of instances of their proof modules. `LinkedInv`: a rune runs only when every import links, which makes signature and conversion agree. `IdsInv`: below the error code the engine's models are split between this rune, which knows the file and the descriptors of each, and the others, because every load takes the next number; the outputs are the numbers below the counter. `MemoryInv`: what wasm knows of a capability differs from the manager's data by at most the call in progress, whose slots are the ones the manager was given. |
| `LifetimesProofs` | `TypeCorrect`, `UsedStaysThere`, `ModulesHaveOneOwner`, `CompleteRunesRun`, `LeaksAreLoops`, `ReleasedButLoops`, `ReleasingOnlyShrinks` | `BaseInv`: an object that is destroyed is held by nobody and is destroyed once (`CountInv`); which kinds of objects may hold wasm3's and TensorFlow Lite's (`KindsInv`); what `loadRune` has in its locals (`LoadInv`); a dying object has lost a suffix of its declared members (`ShapeInv`). On it rest five layers: who has a runtime or a rune keeps the environment alive, because the application keeps engine or runtime (`KeepInv`); a model's parts hold its bytes and its logger (`ModelsInv`); a module is its deleter's or its runtime's (`ModulesInv`); a complete rune finds its own module, whose HostContext is its own and whose bytes are a handle or a local that the rune then holds (`BytesInv`); and every object has somebody who will destroy it (`LeakInv`, see below). |

`InOrder` and `StaleResults` are not inductive by themselves: what a call will
deliver depends on the slot, hence the clauses of `RuneInv` about it.
`ImplementsResultMailbox` and `Implementation` are refinements: each action of
the detailed module is a named action of the abstract one or leaves its
variables unchanged; the refinement mappings are `Slot` and `Settled`.

`LeaksAreLoops` is an argument about a graph. `LeakInv` says that every living
object is held by another, by the application, by a running destructor or by a
local of the load (`NothingForgotten`), and that all kinds of objects but
delegates hold only kinds below them (`PartsInv`). `ReachedIsClosure` shows that
the fixpoint which TLC computes is the smallest set around its start that
nothing leads out of. Take an object outside of it: somebody holds it, who is
outside too. Kinds are above kinds, so that going from holder to holder meets a
delegate. If none of the delegates outside reached itself, each would be reached
from another that reaches strictly more, and there are too few objects for that;
so one reaches itself, and is not outside. The theorem holds for any number of runtimes, loads and delegates, where
the run has one, two and one.

`EverythingIsReleased` is liveness and not proved, but both things it rests on
are: `ReleasedButLoops` (when destructors have ended nothing else is left) and
`ReleasingOnlyShrinks` (after the last handle, each step is a destructor's and
takes a member or an object away). Only the weak fairness between them is left to
TLC.

Model-checked only:

- `WrittenWhole` of `Result`, whose writer is recursive over data.
- `EverythingIsReleased`, which is liveness.
- The four violations.

## Not modelled

- **Memory access from wasm**: `get_args_from_stack` and `WasmPtr` compute
  pointers into linear memory and check no bounds; in the model every view and
  every list of strings lies inside the memory.
- **Wrappers without a context or a result**: `wrap_helper` has two more forms,
  and `arg_from_stack` has one for plain pointers; no host function uses them.
- **Logging, formatting**: no state. `GestureRuneTests.cpp:87` expects a string
  where `JsonResult::typeAt` gives its JSON type.
- **`getCapabilitiesWithDefaultDelegates`, `toInt`**: static tables; the model has
  `DefaultCapability`.
- **Nested loads and calls**: delegates must not hold rune_vm objects
  (`example0.cpp:161`); the id passed by reference to `createRune` would otherwise
  be given out twice.
- **`eraseModel`**: nothing calls it.
- **A rune kept without engine and runtime**: the application is told not to
  (`README.md:296`); the rune holds the `M3Runtime` but not the environment, so
  `UsedOutlivesUser` would not hold.
- **NaN ranges**: the delegate accepts a NaN bound and `second <= first` does not
  catch it; what the distribution then does is undefined. `DrawnAsShown` speaks
  of proper numbers.

`Capabilities.hpp:55` calls
a capability id unique: it is unique within a rune only, which is why
`README.md:306` tells not to share delegates between runes.

## Plan

Done, in this order, the most important behaviour first: outputs and what
`call()` returns (with `ResultMailbox`), capabilities (with
`CapabilityRegistry`), models, the shared runtime, the built-in delegate,
lifetimes, the host functions in front of all managers, results, the sizes of
tensors; the proofs of all of them but results.

To do: nothing of the plan. `HostFunctions` has one rune in full and the others as
far as they share state with it, which is the engine's models; a rune without a
`_call` of its own, which runs on another's `HostContext`, is looked at in
`Lifetimes` only, where that context can be gone.
