----------------------------- MODULE MCLifetimes -----------------------------
(***************************************************************************)
(* Lifetimes for TLC: two loads, the second without _call, into one        *)
(* runtime, and a delegate that may store a rune or its context.           *)
(***************************************************************************)
EXTENDS Lifetimes

MCLacking  == {2}
MCStorable == {"Wasm3Rune", "CapabilitiesDelegatesManager"}
=============================================================================
