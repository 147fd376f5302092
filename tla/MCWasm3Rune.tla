----------------------------- MODULE MCWasm3Rune -----------------------------
(***************************************************************************)
(* Wasm3Rune with its OutputManager for TLC: two ids over the limit fit    *)
(* the counter before it wraps, so a behaviour resets the cache and reuses *)
(* every id.                                                               *)
(***************************************************************************)
EXTENDS Wasm3Rune

\* call() yields a result unless it throws: README.md dereferences what it
\* returns, and the tests assert that it is not null.
CallYieldsResult == \A c \in 1 .. Calls : outcome[c] # NullPtr
=============================================================================
