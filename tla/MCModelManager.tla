---------------------------- MODULE MCModelManager ----------------------------
(***************************************************************************)
(* ModelManager for TLC: a model with one input, one with two; a good      *)
(* descriptor, and one whose type is never assigned and may happen to be   *)
(* right.  Three loads reach the id that is also the error code.           *)
(*                                                                         *)
(* Apart from the behaviours, TLC compares the sizes of descriptors with   *)
(* the true ones: for all types, and products that wrap around int and     *)
(* size_t.                                                                 *)
(***************************************************************************)
EXTENDS ModelManager, TLC

MCTensorSizes ==
    "sine"    :> [inputs |-> <<4>>, outputs |-> <<4>>]
    @@ "gesture" :> [inputs |-> <<4, 1>>, outputs |-> <<4>>]

Float == [bracketed |-> TRUE, prefix |-> "f32", numbers |-> <<1>>]
Bare  == [bracketed |-> FALSE, prefix |-> "f32", numbers |-> <<>>]
MCDescriptions == {<< <<Float>>, <<Float>> >>, << <<Float, Bare>>, <<Float>> >>}

\* A number of 128 does not fit the int of the run, a product of 255 or 256 wraps
\* to -1 or 0.
MCNumber == {0, 1, 2, 3, 17, 64, 85, 90, 127, 128}
MCStrings == [bracketed : BOOLEAN, prefix : DOMAIN TrueWidth,
              numbers : UNION {[1 .. rank -> MCNumber] : rank \in 0 .. 3}]

ASSUME SizesOfMCStrings == \A string \in MCStrings : SizeIsTrue(string) /\ SizeIsNotOverstated(string)
=============================================================================
