---------------------------- MODULE MCHostFunctions ----------------------------
(***************************************************************************)
(* HostFunctions for TLC: runes that import all host functions, only some  *)
(* of them, or one with another signature; slots that make every check of  *)
(* a host function succeed and fail, and two models to tell one rune's     *)
(* from another's.                                                         *)
(***************************************************************************)
EXTENDS HostFunctions

I32(n) == [i \in 1 .. n |-> "i32"]

AllImports ==
    [request_capability           |-> I32(1), request_capability_set_param |-> I32(6),
     request_provider_response    |-> I32(3), tfm_preload_model            |-> I32(4),
     tfm_model_invoke             |-> I32(5), request_output               |-> I32(1),
     consume_output               |-> I32(3), _debug                       |-> I32(2),
     rune_model_load              |-> I32(8), rune_model_infer             |-> I32(3)]
MCImports ==
    {AllImports,
     [request_output |-> I32(1), consume_output |-> I32(3)],
     [request_output |-> <<"i64">>],
     [AllImports EXCEPT !.rune_model_load = I32(6)]}

MCPassed ==
    [request_capability           |-> {<<1>>, <<2>>, <<5>>, <<9>>},
     request_capability_set_param |->
        {<<1, 1, 0, 1, 4, 1>>, <<2, 1, 1, 1, 0, 1>>} \cup
        {<<1, 1, 1>> \o value :
            value \in {<<1, 4, 1>>, <<1, 4, 2>>, <<2, 1, 6>>, <<1, 0, 1>>, <<1, 4, 9>>}},
     request_provider_response    |-> {<<1, size, id>> : size \in 0 .. 1, id \in 1 .. 2},
     tfm_preload_model            |-> {<<1, 1, 1, 1>>, <<1, 0, 1, 1>>, <<2, 1, 1, 1>>},
     tfm_model_invoke             |-> {<<0, 1, 4, 1, 4>>, <<0, 1, 4, 1, 1>>, <<0, 1, 0, 1, 4>>},
     request_output               |-> {<<1>>, <<2>>, <<9>>},
     consume_output               |-> {<<id, 1, size>> : id \in 0 .. 2, size \in 0 .. 1},
     _debug                       |-> {<<1, 0>>, <<1, 1>>},
     rune_model_load              |-> {<<1, 1, 1, size, 1, 1, 1, 1>> : size \in 0 .. 1},
     rune_model_infer             |-> {<<0, 1, 1>>, <<1, 1, 1>>}]

Float == [bracketed |-> TRUE, prefix |-> "f32", numbers |-> <<1>>]
MCBlobAt == <<"sine", "garbage">>
MCStringsAt == << <<Float>> >>
MCTensorSizes == "sine" :> [inputs |-> <<4>>, outputs |-> <<4>>]
MCDescriptions == {<< <<Float>>, <<Float>> >>}

MCCapability == {"Rand", "Sound", "Accel", "Image", "Raw"}
MCVectors == {<<{"Sound"}>>}
MCDefault == {"Rand"}
MCKey == {[at |-> 1, size |-> s] : s \in 0 .. 1}
MCParam == {[type |-> t, at |-> a, size |-> SizeOf[t]] : t \in DOMAIN SizeOf, a \in 1 .. 2}
=============================================================================
