-------------------- MODULE MCCapabilitiesDelegatesManager --------------------
(***************************************************************************)
(* CapabilitiesDelegatesManager for TLC: no delegate, one, or two that     *)
(* both support Sound; Rand has a built-in delegate, Raw has none.         *)
(***************************************************************************)
EXTENDS CapabilitiesDelegatesManager

MCCapability == {"Rand", "Sound", "Raw"}
MCVectors == {<<>>, <<{"Sound"}>>, <<{"Sound", "Rand"}, {"Sound"}>>}
MCDefault == {"Rand"}
=============================================================================
