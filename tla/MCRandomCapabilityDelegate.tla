---------------------- MODULE MCRandomCapabilityDelegate ----------------------
(***************************************************************************)
(* RandomCapabilityDelegate for TLC: next to a delegate for Sound.  There   *)
(* are more grants than ids, so ids are used again.                        *)
(***************************************************************************)
EXTENDS RandomCapabilityDelegate

MCCapability == {"Rand", "Sound"}
MCVectors == {<<{"Sound"}>>}
MCDefault == {"Rand"}
MCNaN == -1
MCNotFloat == -2
MCParam == {MCNaN, MCNotFloat, 1}
===============================================================================
