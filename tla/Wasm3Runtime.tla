----------------------------- MODULE Wasm3Runtime -----------------------------
(***************************************************************************)
(* src/src/wasm_backends/wasm3/Wasm3Runtime.cpp: loadRune puts a module    *)
(* into the one M3Runtime all its runes share, and constructs a Wasm3Rune  *)
(* on top of it, which looks its functions up by name in that shared       *)
(* runtime and runs _manifest.  A module is never taken out again: it      *)
(* stays when the construction throws and when the rune is released, while *)
(* the HostContext it was linked to and the file it was mapped from go.    *)
(*                                                                         *)
(* A load is identified by its serial number, and so is the module it put  *)
(* into the M3Runtime, the HostContext linked to it and the rune made of   *)
(* it.  Loads and calls do not nest: a delegate may not hold rune_vm       *)
(* objects (example0.cpp).                                                 *)
(***************************************************************************)
EXTENDS Integers, Sequences

CONSTANTS
    Blob,      \* wasm files that parse
    Exports,   \* blob -> the names of the functions it exports
    IdMod,     \* number of values of TRuneId: 2^32 in the code
    MaxLoads   \* bound of the model: modules loaded in a behaviour

ASSUME RuntimeAssumption ==
    /\ DOMAIN Exports = Blob
    /\ IdMod \in Nat \ {0}
    /\ MaxLoads \in Nat

VARIABLES
    m_runeIdCounter,
    modules,   \* the blobs in the M3Runtime, oldest first: modules[l] is of load l
    runes,     \* load -> rune object the embedder still holds
    running,   \* the execution in progress
    returned   \* ghost: the ids of the runes loadRune has returned, in order

vars == <<m_runeIdCounter, modules, runes, running, returned>>

RuneId  == 0 .. (IdMod - 1)
Load    == 1 .. Len(modules)
None    == [on |-> 0, code |-> 0, call |-> 0]
Idle    == running = None

\* A blob that has all that a rune must have.
Complete(blob) == {"_manifest", "_call"} \subseteq Exports[blob]

Init ==
    /\ m_runeIdCounter = 0
    /\ modules = <<>>
    /\ runes = [load \in {} |-> None]
    /\ running = None
    /\ returned = <<>>

-----------------------------------------------------------------------------
\* The loads whose module exports this name.
Exporters(blobs, name) == {load \in DOMAIN blobs : name \in Exports[blobs[load]]}

\* m3_FindFunction goes through the modules of the runtime, the newest first.
FindFunction(blobs, name) ==
    CHOOSE load \in Exporters(blobs, name) : \A other \in Exporters(blobs, name) : other <= load

\* What createRune does before wasm runs.  The module stays in the runtime when
\* linking a host function fails or a function is not found.
LoadRune(blob) ==
    LET blobs == Append(modules, blob)
    IN
    /\ Idle
    /\ Len(modules) < MaxLoads
    /\ \/ UNCHANGED <<modules, running>>          \* m3_LoadModule has failed
       \/ /\ modules' = blobs
          /\ UNCHANGED running
       \/ /\ modules' = blobs
          /\ \A name \in {"_manifest", "_call"} : Exporters(blobs, name) # {}
          /\ running' = [on   |-> Len(blobs),
                         code |-> FindFunction(blobs, "_manifest"),
                         call |-> FindFunction(blobs, "_call")]
    /\ UNCHANGED <<m_runeIdCounter, runes, returned>>

\* A slip for the mutation checks: the counter does not wrap.
NextRuneIdUnwrapped == m_runeIdCounter + 1

NextRuneId == (m_runeIdCounter + 1) % IdMod

\* The constructor has returned; only now is the id used up.
ManifestReturns ==
    /\ running.on \in Load \ DOMAIN runes
    /\ runes' = [load \in DOMAIN runes \cup {running.on} |->
                    IF load = running.on THEN [id |-> m_runeIdCounter, call |-> running.call]
                                         ELSE runes[load]]
    /\ m_runeIdCounter' = NextRuneId
    /\ returned' = Append(returned, m_runeIdCounter)
    /\ running' = None
    /\ UNCHANGED modules

\* A slip for the mutation checks: the id is used up by a load that fails.
ManifestTrapsAdvancing ==
    /\ running.on \in Load \ DOMAIN runes
    /\ m_runeIdCounter' = NextRuneId
    /\ running' = None
    /\ UNCHANGED <<modules, runes, returned>>

\* The constructor throws: rune and HostContext go, the module stays.
ManifestTraps ==
    /\ running.on \in Load \ DOMAIN runes
    /\ running' = None
    /\ UNCHANGED <<m_runeIdCounter, modules, runes, returned>>

\* A slip for the mutation checks: call() looks _call up by name again.
CallLookingUp(load) ==
    /\ Idle
    /\ load \in DOMAIN runes
    /\ running' = [on |-> load, code |-> FindFunction(modules, "_call"), call |-> runes[load].call]
    /\ UNCHANGED <<m_runeIdCounter, modules, runes, returned>>

\* call() runs the function that the constructor found.
Call(load) ==
    /\ Idle
    /\ load \in DOMAIN runes
    /\ running' = [on |-> load, code |-> runes[load].call, call |-> runes[load].call]
    /\ UNCHANGED <<m_runeIdCounter, modules, runes, returned>>

CallEnds ==
    /\ running.on \in DOMAIN runes
    /\ running' = None
    /\ UNCHANGED <<m_runeIdCounter, modules, runes, returned>>

\* The embedder lets go of a rune, from a delegate's callback if it likes, but
\* not of the one that is being called.
ReleaseRune(load) ==
    /\ load \in DOMAIN runes \ {running.on}
    /\ runes' = [other \in DOMAIN runes \ {load} |-> runes[other]]
    /\ UNCHANGED <<m_runeIdCounter, modules, running, returned>>

Next ==
    \/ \E blob \in Blob : LoadRune(blob)
    \/ ManifestReturns \/ ManifestTraps
    \/ \E load \in Load : Call(load) \/ ReleaseRune(load)
    \/ CallEnds

Spec == Init /\ [][Next]_vars

-----------------------------------------------------------------------------
TypeOK ==
    /\ m_runeIdCounter \in RuneId
    /\ modules \in Seq(Blob)
    /\ DOMAIN runes \subseteq Load
    /\ runes \in [DOMAIN runes -> [id : RuneId, call : Load]]
    /\ running \in [on : Load, code : Load, call : Load] \cup {None}
    /\ returned \in Seq(RuneId)

\* Loads that fail use up no id and those that succeed leave no gap: loadRune
\* hands out ids in order, and no two runes share one before the counter wraps,
\* whether or not they are still held (Wasm3Runtime.cpp:68-78).
IdsInOrder ==
    /\ \A i \in 1 .. Len(returned) : i <= IdMod => returned[i] = i - 1
    /\ Len(returned) <= IdMod =>
          \A load, other \in DOMAIN runes : runes[load].id = runes[other].id => load = other

\* A rune whose blob is complete runs its own module, and with it its own
\* HostContext and delegates, although it is looked up by name among the
\* modules of all runes, of those whose load failed and of those released.
\* Otherwise it would call into a HostContext that may be gone
\* (Wasm3Rune.cpp:276-300 with Wasm3Runtime.cpp:61).
OwnCode ==
    \A load \in Load : Complete(modules[load]) =>
        /\ running.on = load => running.code = load
        /\ load \in DOMAIN runes => runes[load].call = load
=============================================================================
