---------------------------- MODULE MCWasm3Runtime ----------------------------
(***************************************************************************)
(* Wasm3Runtime for TLC: a complete rune and two that lack one of the two  *)
(* functions.  The loads outnumber the ids by one, so the counter wraps.   *)
(***************************************************************************)
EXTENDS Wasm3Runtime, TLC

MCExports ==
    "sine"         :> {"_manifest", "_call"}
    @@ "noCall"     :> {"_manifest"}
    @@ "noManifest" :> {"_call"}
=============================================================================
