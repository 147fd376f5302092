-------------------------- MODULE HostFunctionsProofs --------------------------
(***************************************************************************)
(* Theorems about HostFunctions for every rune and every set of values it  *)
(* may pass, for every set of model files, delegates, counter widths and   *)
(* limits that satisfies HostAssumption.                                   *)
(***************************************************************************)
EXTENDS HostFunctions, CapabilitiesDelegatesManagerProofs, SequenceTheorems

-----------------------------------------------------------------------------
(* Slots and parameters *)

\* The number of slots up to each parameter of a list.
IsSlotSum(sum, types, k) ==
    /\ sum = [n \in 0 .. k |-> sum[n]]
    /\ \A n \in 0 .. k : sum[n] = IF n = 0 THEN 0 ELSE sum[n - 1] + SlotsOf(types[n])

\* The equations of SlotsBefore have a solution for every list of parameters.
LEMMA SlotSumExists ==
    ASSUME NEW types, NEW k \in Nat
    PROVE  \E sum : IsSlotSum(sum, types, k)
<1> DEFINE Bad == {n \in Nat : ~ \E sum : IsSlotSum(sum, types, n)}
<1> SUFFICES ASSUME Bad # {} PROVE FALSE
  OBVIOUS
<1>1. PICK n \in Bad : \A m \in Bad : n <= m
  BY SmallestExists
<1>2. CASE n = 0
  <2>1. IsSlotSum([m \in 0 .. 0 |-> 0], types, 0)
    BY DEF IsSlotSum
  <2> QED BY <1>2, <2>1
<1>3. CASE n # 0
  <2>1. n \in Nat /\ n - 1 \in Nat /\ ~(n <= n - 1)
    BY <1>3
  <2>2. n - 1 \notin Bad
    BY <1>1, <2>1
  <2>3. PICK f : IsSlotSum(f, types, n - 1)
    BY <2>1, <2>2
  <2> DEFINE g == [m \in 0 .. n |-> IF m = n THEN f[n - 1] + SlotsOf(types[n]) ELSE f[m]]
  <2>4. \A m \in 0 .. n : g[m] = IF m = 0 THEN 0 ELSE g[m - 1] + SlotsOf(types[m])
    <3>1. \A m \in 0 .. (n - 1) : f[m] = IF m = 0 THEN 0 ELSE f[m - 1] + SlotsOf(types[m])
      BY <2>3 DEF IsSlotSum
    <3>2. \A m \in 0 .. (n - 1) : m \in 0 .. n /\ g[m] = f[m]
      BY <2>1
    <3>3. \A m \in 0 .. (n - 1) : m # 0 => m - 1 \in 0 .. (n - 1)
      BY <2>1
    <3>4. g[n] = g[n - 1] + SlotsOf(types[n])
      BY <2>1, <3>2
    <3> HIDE DEF g
    <3>5. \A m \in 0 .. (n - 1) : g[m] = IF m = 0 THEN 0 ELSE g[m - 1] + SlotsOf(types[m])
      BY <3>1, <3>2, <3>3
    <3> QED BY <2>1, <1>3, <3>4, <3>5
  <2>5. g = [m \in 0 .. n |-> g[m]]
    OBVIOUS
  <2> HIDE DEF g
  <2>6. IsSlotSum(g, types, n)
    BY <2>4, <2>5 DEF IsSlotSum
  <2> QED BY <2>6
<1> QED BY <1>2, <1>3

\* SlotsBefore counts as its equations say.
LEMMA SlotsBeforeCounts ==
    ASSUME NEW f, Len(Parameters[f]) \in Nat
    PROVE  /\ SlotsBefore(f, 1) = 0
           /\ \A i \in 1 .. Len(Parameters[f]) :
                SlotsBefore(f, i + 1) = SlotsBefore(f, i) + SlotsOf(Parameters[f][i])
<1> DEFINE k == Len(Parameters[f])
           Solves(sum) == sum = [n \in 0 .. k |-> IF n = 0 THEN 0
                                                  ELSE sum[n - 1] + SlotsOf(Parameters[f][n])]
           sum == CHOOSE s : Solves(s)
<1>1. \A s : Solves(s) <=> IsSlotSum(s, Parameters[f], k)
  <2> HIDE DEF k
  <2> QED BY DEF IsSlotSum
<1>2. Solves(sum)
  <2>1. \E s : Solves(s)
    BY <1>1, SlotSumExists
  <2> HIDE DEF Solves
  <2> QED BY <2>1
<1>3. IsSlotSum(sum, Parameters[f], k)
  BY <1>1, <1>2
<1>4. \A i : SlotsBefore(f, i) = sum[i - 1]
  BY DEF SlotsBefore
<1> HIDE DEF sum
<1>5. \A n \in 0 .. k : sum[n] = IF n = 0 THEN 0 ELSE sum[n - 1] + SlotsOf(Parameters[f][n])
  BY <1>3 DEF IsSlotSum
<1>6. k \in Nat
  OBVIOUS
<1> HIDE DEF k
<1>7. SlotsBefore(f, 1) = 0
  BY <1>4, <1>5, <1>6
<1>8. ASSUME NEW i \in 1 .. k
      PROVE  SlotsBefore(f, i + 1) = SlotsBefore(f, i) + SlotsOf(Parameters[f][i])
  <2>1. i \in 0 .. k /\ i # 0 /\ (i + 1) - 1 = i
    BY <1>6
  <2> QED BY <1>4, <1>5, <2>1
<1> QED BY <1>7, <1>8 DEF k
-----------------------------------------------------------------------------
(* Linking *)

LEMMA ParametersAreLists ==
    ASSUME NEW f \in DOMAIN Parameters
    PROVE  Len(Parameters[f]) \in Nat /\ DOMAIN Parameters[f] = 1 .. Len(Parameters[f])
<1>1. DOMAIN Parameters =
         {"request_capability", "request_capability_set_param", "request_provider_response",
          "tfm_preload_model", "tfm_model_invoke", "request_output", "consume_output", "_debug",
          "rune_model_load", "rune_model_infer"}
  BY DEF Parameters
<1>2. CASE f \in {"request_capability", "request_output", "_debug"}
  BY <1>2 DEF Parameters
<1>3. CASE f \in {"request_provider_response", "consume_output"}
  BY <1>3 DEF Parameters
<1>4. CASE f \in {"tfm_preload_model", "tfm_model_invoke", "rune_model_infer"}
  BY <1>4 DEF Parameters
<1>5. CASE f \in {"request_capability_set_param", "rune_model_load"}
  BY <1>5 DEF Parameters
<1> QED BY <1>1, <1>2, <1>3, <1>4, <1>5

\* wasm3 is told as many slots for a parameter as its conversion reads.
LEMMA SlotsOfSig ==
    ASSUME NEW type
    PROVE  Sig(type) \in Seq({"*", "i"}) /\ Len(Sig(type)) = SlotsOf(type) /\ SlotsOf(type) \in Nat
<1>1. CASE type \in {"view", "strings"}
  <2>1. Sig(type) = <<"*", "i">> /\ SlotsOf(type) = 2
    BY <1>1 DEF Sig, SlotsOf
  <2>2. <<"*", "i">> \in Seq({"*", "i"}) /\ Len(<<"*", "i">>) = 2
    OBVIOUS
  <2> QED BY <2>1, <2>2
<1>2. CASE type = "WasmPtr"
  BY <1>2 DEF Sig, SlotsOf
<1>3. CASE type \notin {"view", "strings", "WasmPtr"}
  BY <1>3 DEF Sig, SlotsOf
<1> QED BY <1>1, <1>2, <1>3

\* The concatenations of the first lists, of all their counts up to k.
IsFlattened(flat, lists, k) ==
    /\ flat = [n \in 1 .. k |-> flat[n]]
    /\ \A n \in 1 .. k : flat[n] = IF n = 1 THEN lists[n] ELSE flat[n - 1] \o lists[n]

LEMMA FlattenedExist ==
    ASSUME NEW lists, NEW k \in Nat
    PROVE  \E flat : IsFlattened(flat, lists, k)
<1> DEFINE Bad == {n \in Nat : ~ \E flat : IsFlattened(flat, lists, n)}
<1> SUFFICES ASSUME Bad # {} PROVE FALSE
  OBVIOUS
<1>1. PICK n \in Bad : \A m \in Bad : n <= m
  BY SmallestExists
<1>2. CASE n = 0
  <2>1. IsFlattened([m \in 1 .. 0 |-> <<>>], lists, 0)
    BY DEF IsFlattened
  <2> QED BY <1>2, <2>1
<1>3. CASE n # 0
  <2>1. n \in Nat /\ n - 1 \in Nat /\ ~(n <= n - 1)
    BY <1>3
  <2>2. n - 1 \notin Bad
    BY <1>1, <2>1
  <2>3. PICK f : IsFlattened(f, lists, n - 1)
    BY <2>1, <2>2
  <2> DEFINE last == IF n = 1 THEN lists[n] ELSE f[n - 1] \o lists[n]
             g == [m \in 1 .. n |-> IF m = n THEN last ELSE f[m]]
  <2>4. \A m \in 1 .. n : g[m] = IF m = 1 THEN lists[m] ELSE g[m - 1] \o lists[m]
    <3>1. \A m \in 1 .. (n - 1) : f[m] = IF m = 1 THEN lists[m] ELSE f[m - 1] \o lists[m]
      BY <2>3 DEF IsFlattened
    <3>2. g[n] = last /\ \A m \in 1 .. (n - 1) : m \in 1 .. n /\ g[m] = f[m]
      <4>1. n \in 1 .. n /\ \A m \in 1 .. (n - 1) : m \in 1 .. n /\ m # n
        BY <2>1, <1>3
      <4> HIDE DEF last
      <4> QED BY <4>1
    <3>3. \A m \in 1 .. n : m # 1 => m - 1 \in 1 .. (n - 1)
      BY <2>1
    <3>4. n # 1 => g[n - 1] = f[n - 1]
      BY <2>1, <3>2, <3>3
    <3> HIDE DEF g
    <3>5. g[n] = IF n = 1 THEN lists[n] ELSE g[n - 1] \o lists[n]
      BY <3>2, <3>4
    <3>6. \A m \in 1 .. (n - 1) : g[m] = IF m = 1 THEN lists[m] ELSE g[m - 1] \o lists[m]
      <4> SUFFICES ASSUME NEW m \in 1 .. (n - 1)
                   PROVE  g[m] = IF m = 1 THEN lists[m] ELSE g[m - 1] \o lists[m]
        OBVIOUS
      <4>1. m # 1 => m - 1 \in 1 .. (n - 1) /\ g[m - 1] = f[m - 1]
        BY <2>1, <3>2
      <4> QED BY <3>1, <3>2, <4>1
    <3>7. \A m \in 1 .. n : m = n \/ m \in 1 .. (n - 1)
      BY <2>1
    <3> QED BY <3>5, <3>6, <3>7
  <2>5. g = [m \in 1 .. n |-> g[m]]
    OBVIOUS
  <2> HIDE DEF g
  <2>6. IsFlattened(g, lists, n)
    BY <2>4, <2>5 DEF IsFlattened
  <2> QED BY <2>6
<1> QED BY <1>2, <1>3

\* The signature given to wasm3 has a letter for every slot the wrapper reads.
LEMMA SignatureLength ==
    ASSUME NEW f \in DOMAIN Parameters
    PROVE  /\ Signature(f) \in Seq({"*", "i"})
           /\ Len(Signature(f)) = SlotsBefore(f, Len(Parameters[f]) + 1)
<1> DEFINE types == Parameters[f]
           k == Len(types)
           lists == [i \in DOMAIN types |-> Sig(types[i])]
           Solves(s) == s = [i \in 1 .. Len(lists) |-> IF i = 1 THEN lists[i]
                                                       ELSE s[i - 1] \o lists[i]]
           flat == CHOOSE s : Solves(s)
<1>1. /\ k \in Nat /\ DOMAIN types = 1 .. k
      /\ lists = [i \in 1 .. k |-> Sig(types[i])]
  BY ParametersAreLists
<1>2. /\ SlotsBefore(f, 1) = 0
      /\ \A i \in 1 .. k : SlotsBefore(f, i + 1) = SlotsBefore(f, i) + SlotsOf(types[i])
  BY <1>1, SlotsBeforeCounts
<1>3. Signature(f) = IF Len(lists) = 0 THEN lists ELSE flat[Len(lists)]
  BY DEF Signature, FlattenSeq
<1> HIDE DEF types, k, lists
<1>4. Len(lists) = k /\ \A i \in 1 .. k : lists[i] = Sig(types[i])
  BY <1>1
<1>5. \A s : Solves(s) <=> IsFlattened(s, lists, k)
  BY <1>4 DEF IsFlattened
<1>6. Solves(flat)
  <2> HIDE DEF Solves
  <2>1. \E s : Solves(s)
    BY <1>1, <1>5, FlattenedExist
  <2> QED BY <2>1
<1>7. IsFlattened(flat, lists, k)
  BY <1>5, <1>6
<1> HIDE DEF flat, Solves
<1> DEFINE Good(n) == /\ flat[n] \in Seq({"*", "i"})
                      /\ Len(flat[n]) = SlotsBefore(f, n + 1)
                      /\ SlotsBefore(f, n + 1) \in Nat
           Bad == {n \in 1 .. k : ~Good(n)}
<1>8. Bad = {}
  <2> SUFFICES ASSUME Bad # {} PROVE FALSE
    OBVIOUS
  <2>1. PICK n \in Bad : \A m \in Bad : n <= m
    <3>1. Bad \in SUBSET Nat
      BY <1>1
    <3> HIDE DEF Bad
    <3> QED BY <3>1, SmallestExists
  <2>2. n \in 1 .. k /\ ~Good(n)
    OBVIOUS
  <2>3. /\ flat[n] = IF n = 1 THEN lists[n] ELSE flat[n - 1] \o lists[n]
        /\ SlotsBefore(f, n + 1) = SlotsBefore(f, n) + SlotsOf(types[n])
        /\ lists[n] \in Seq({"*", "i"}) /\ Len(lists[n]) = SlotsOf(types[n])
        /\ SlotsOf(types[n]) \in Nat
    <3>1. flat[n] = IF n = 1 THEN lists[n] ELSE flat[n - 1] \o lists[n]
      BY <1>7, <2>2 DEF IsFlattened
    <3>2. lists[n] = Sig(types[n]) /\ SlotsBefore(f, n + 1) = SlotsBefore(f, n) + SlotsOf(types[n])
      BY <1>2, <1>4, <2>2
    <3> QED BY <3>1, <3>2, SlotsOfSig
  <2>4. CASE n = 1
    BY <1>2, <2>2, <2>3, <2>4
  <2>5. CASE n # 1
    <3>1. n - 1 \in 1 .. k /\ ~(n <= n - 1) /\ (n - 1) + 1 = n
      BY <1>1, <2>2, <2>5
    <3>2. Good(n - 1)
      BY <2>1, <3>1
    <3>3. /\ flat[n - 1] \in Seq({"*", "i"}) /\ Len(flat[n - 1]) = SlotsBefore(f, n)
          /\ SlotsBefore(f, n) \in Nat
      BY <3>1, <3>2
    <3>4. /\ flat[n] \in Seq({"*", "i"})
          /\ Len(flat[n]) = Len(flat[n - 1]) + Len(lists[n])
      <4>1. flat[n] = flat[n - 1] \o lists[n]
        BY <2>3, <2>5
      <4>2. /\ flat[n - 1] \o lists[n] \in Seq({"*", "i"})
            /\ Len(flat[n - 1] \o lists[n]) = Len(flat[n - 1]) + Len(lists[n])
        BY <2>3, <3>3, ConcatProperties
      <4> QED BY <4>1, <4>2
    <3>5. Good(n)
      <4>1. Len(flat[n]) = SlotsBefore(f, n) + SlotsOf(types[n])
        BY <2>3, <3>3, <3>4
      <4>2. SlotsBefore(f, n) + SlotsOf(types[n]) \in Nat
        BY <2>3, <3>3
      <4> QED BY <2>3, <3>4, <4>1, <4>2
    <3> QED BY <2>2, <3>5
  <2> QED BY <2>4, <2>5
<1>9. CASE k = 0
  <2>1. lists = <<>>
    BY <1>1, <1>9 DEF lists, k, types
  <2> QED BY <1>2, <1>3, <1>4, <1>9, <2>1 DEF k, types
<1>10. CASE k # 0
  <2>1. k \in 1 .. k
    BY <1>1, <1>10
  <2>2. Good(k)
    BY <1>8, <2>1
  <2>3. Signature(f) = flat[k]
    BY <1>3, <1>4, <1>10
  <2> QED BY <2>2, <2>3 DEF k, types
<1> QED BY <1>9, <1>10

\* A rune runs only if all that it imports was linked.
LinkedInv ==
    /\ imports \in Imports
    /\ phase \in {"wasm", "idle"} => \A f \in DOMAIN imports : Links(f)

\* The signature that wasm3 checks an import against and the conversion of its
\* arguments agree on the slots, for every import of every rune that is linked
\* (Wasm3Rune.cpp:52-108, 185-210).
THEOREM PassedIsRead == HostSpec => []ReadsWhatIsPassed
<1>1. HostInit => LinkedInv
  BY DEF HostInit, LinkedInv
<1>2. LinkedInv /\ [HostNext]_hostVars => LinkedInv'
  <2> SUFFICES ASSUME LinkedInv, [HostNext]_hostVars PROVE LinkedInv'
    OBVIOUS
  <2>1. CASE LinkAll
    BY <2>1 DEF LinkAll, LinkedInv, Links
  <2>2. ASSUME imports' = imports,
               phase' \in {"wasm", "idle"} => phase \in {"wasm", "idle"}
        PROVE  LinkedInv'
    BY <2>2 DEF LinkedInv, Links
  <2>3. CASE ManifestReturns \/ StartCall \/ CallReturns \/ Trap
    BY <2>2, <2>3 DEF ManifestReturns, StartCall, CallReturns, Trap
  <2>4. ASSUME imports' = imports, phase' = phase PROVE LinkedInv'
    BY <2>2, <2>4
  <2>5. ASSUME ~(LinkAll \/ ManifestReturns \/ StartCall \/ CallReturns \/ Trap)
        PROVE  imports' = imports /\ phase' = phase
    BY <2>5 DEF HostNext, hostVars, RequestCapability, RequestCapabilitySetParam,
        RequestProviderResponse, CapabilityAnswer, SetParamAnswer, ProviderAnswer,
        RequestOutput, ConsumeOutput, Debug, TfmPreloadModel, RuneModelLoad,
        TfmModelInvoke, RuneModelInfer, EmbedderSetsAvailability, OtherRunes, AskOrRefuse, Return
  <2> QED BY <2>1, <2>3, <2>4, <2>5
<1>3. LinkedInv => ReadsWhatIsPassed
  <2> SUFFICES ASSUME LinkedInv, phase \in {"wasm", "idle"}, NEW f \in DOMAIN imports
               PROVE  Len(imports[f]) = SlotsBefore(f, Len(Parameters[f]) + 1)
    BY DEF ReadsWhatIsPassed
  <2>1. f \in DOMAIN Parameters
    BY HostAssumption DEF LinkedInv
  <2>2. imports[f] = [i \in DOMAIN Signature(f) |-> "i32"]
    BY DEF LinkedInv, Links
  <2>3. Len(imports[f]) = Len(Signature(f))
    BY <2>1, <2>2, SignatureLength
  <2> QED BY <2>1, <2>3, SignatureLength
<1> QED BY <1>1, <1>2, <1>3, PTL DEF HostSpec

-----------------------------------------------------------------------------
(* Arguments *)

View(slots, p) == [at |-> slots[p], size |-> slots[p + 1]]

\* How each type of parameter is read.
LEMMA Reads ==
    ASSUME NEW slots, NEW p
    PROVE  /\ ArgFromStack("u32", slots, p) = slots[p]
           /\ ArgFromStack("WasmPtr", slots, p) = slots[p]
           /\ ArgFromStack("view", slots, p) = View(slots, p)
           /\ ArgFromStack("strings", slots, p) = View(slots, p)
           /\ ArgFromStack("Capability", slots, p) = FromInt.Capability[slots[p]]
           /\ ArgFromStack("OutputType", slots, p) = FromInt.OutputType[slots[p]]
           /\ ArgFromStack("ValueType", slots, p) = FromInt.ValueType[slots[p]]
<1>1. DOMAIN FromInt = {"Capability", "OutputType", "ValueType"}
  BY DEF FromInt
<1>2. FromInt["Capability"] = FromInt.Capability /\ FromInt["OutputType"] = FromInt.OutputType
      /\ FromInt["ValueType"] = FromInt.ValueType
  OBVIOUS
<1> QED BY <1>1, <1>2 DEF ArgFromStack, View

\* An argument is read where those before it end.
LEMMA ArgIsRead ==
    ASSUME NEW f \in DOMAIN Parameters, NEW slots, NEW i \in 1 .. Len(Parameters[f])
    PROVE  Args(f, slots)[i] = ArgFromStack(Parameters[f][i], slots, SlotsBefore(f, i) + 1)
BY ParametersAreLists DEF Args

\* Where a parameter begins, by the types before it.
LEMMA Positions ==
    ASSUME NEW f \in DOMAIN Parameters
    PROVE  LET Size(i) == SlotsOf(Parameters[f][i])
               n       == Len(Parameters[f])
           IN /\ SlotsBefore(f, 1) = 0
              /\ n >= 1 => SlotsBefore(f, 2) = Size(1)
              /\ n >= 2 => SlotsBefore(f, 3) = Size(1) + Size(2)
              /\ n >= 3 => SlotsBefore(f, 4) = Size(1) + Size(2) + Size(3)
<1>1. Len(Parameters[f]) \in Nat /\ \A i : SlotsOf(Parameters[f][i]) \in Nat
  BY ParametersAreLists DEF SlotsOf
<1> QED BY <1>1, SlotsBeforeCounts

LEMMA RequestCapabilityArgs ==
    ASSUME NEW slots, Converts("request_capability", slots)
    PROVE  /\ Args("request_capability", slots)[1] = FromInt.Capability[slots[1]]
           /\ slots[1] \in DOMAIN FromInt.Capability
<1> DEFINE f == "request_capability"
<1>1. /\ f \in DOMAIN Parameters /\ Len(Parameters[f]) = 1
      /\ Parameters[f] = <<"Capability">>
  BY DEF Parameters
<1> HIDE DEF f
<1>2. SlotsBefore(f, 1) = 0
  BY <1>1, Positions
<1>3. Args(f, slots)[1] = ArgFromStack("Capability", slots, 1)
  BY <1>1, <1>2, ArgIsRead
<1>4. slots[1] \in DOMAIN FromInt.Capability
  <2>1. 1 \in DOMAIN Parameters[f] /\ Parameters[f][1] = "Capability"
    BY <1>1, ParametersAreLists
  <2>2. "Capability" \in DOMAIN FromInt
    BY DEF FromInt
  <2>3. Converts(f, slots)
    BY DEF f
  <2> QED BY <1>2, <2>1, <2>2, <2>3 DEF Converts
<1> QED BY <1>3, <1>4, Reads DEF f

LEMMA SetParamArgs ==
    ASSUME NEW slots, Converts("request_capability_set_param", slots)
    PROVE  /\ Args("request_capability_set_param", slots)[1] = slots[1]
           /\ Args("request_capability_set_param", slots)[2] = View(slots, 2)
           /\ Args("request_capability_set_param", slots)[3] = View(slots, 4)
           /\ Args("request_capability_set_param", slots)[4] = FromInt.ValueType[slots[6]]
           /\ slots[6] \in DOMAIN FromInt.ValueType
<1> DEFINE f == "request_capability_set_param"
<1>1. /\ f \in DOMAIN Parameters /\ Len(Parameters[f]) = 4
      /\ Parameters[f] = <<"u32", "view", "view", "ValueType">>
  BY DEF Parameters
<1> HIDE DEF f
<1>2. /\ SlotsBefore(f, 1) = 0 /\ SlotsBefore(f, 2) = 1
      /\ SlotsBefore(f, 3) = 3 /\ SlotsBefore(f, 4) = 5
  <2>1. /\ SlotsOf(Parameters[f][1]) = 1 /\ SlotsOf(Parameters[f][2]) = 2
        /\ SlotsOf(Parameters[f][3]) = 2
    BY <1>1 DEF SlotsOf
  <2> QED BY <1>1, <2>1, Positions
<1>3. /\ Args(f, slots)[1] = ArgFromStack("u32", slots, 1)
      /\ Args(f, slots)[2] = ArgFromStack("view", slots, 2)
      /\ Args(f, slots)[3] = ArgFromStack("view", slots, 4)
      /\ Args(f, slots)[4] = ArgFromStack("ValueType", slots, 6)
  <2>1. \A i \in 1 .. 4 : Args(f, slots)[i] =
          ArgFromStack(Parameters[f][i], slots, SlotsBefore(f, i) + 1)
    BY <1>1, ArgIsRead
  <2>2. Args(f, slots)[1] = ArgFromStack("u32", slots, 1)
    BY <1>1, <1>2, <2>1
  <2>3. Args(f, slots)[2] = ArgFromStack("view", slots, 2)
    BY <1>1, <1>2, <2>1
  <2>4. Args(f, slots)[3] = ArgFromStack("view", slots, 4)
    BY <1>1, <1>2, <2>1
  <2>5. Args(f, slots)[4] = ArgFromStack("ValueType", slots, 6)
    BY <1>1, <1>2, <2>1
  <2> QED BY <2>2, <2>3, <2>4, <2>5
<1>4. slots[6] \in DOMAIN FromInt.ValueType
  <2>1. 4 \in DOMAIN Parameters[f] /\ Parameters[f][4] = "ValueType"
    BY <1>1, ParametersAreLists
  <2>2. "ValueType" \in DOMAIN FromInt
    BY DEF FromInt
  <2>3. Converts(f, slots)
    BY DEF f
  <2> QED BY <1>2, <2>1, <2>2, <2>3 DEF Converts
<1> QED BY <1>3, <1>4, Reads DEF f

LEMMA ProviderResponseArgs ==
    ASSUME NEW slots
    PROVE  /\ Args("request_provider_response", slots)[1] = View(slots, 1)
           /\ Args("request_provider_response", slots)[2] = slots[3]
<1> DEFINE f == "request_provider_response"
<1>1. /\ f \in DOMAIN Parameters /\ Len(Parameters[f]) = 2
      /\ Parameters[f] = <<"view", "u32">>
  BY DEF Parameters
<1> HIDE DEF f
<1>2. SlotsBefore(f, 1) = 0 /\ SlotsBefore(f, 2) = 2
  <2>1. SlotsOf(Parameters[f][1]) = 2
    BY <1>1 DEF SlotsOf
  <2> QED BY <1>1, <2>1, Positions
<1>3. /\ Args(f, slots)[1] = ArgFromStack("view", slots, 1)
      /\ Args(f, slots)[2] = ArgFromStack("u32", slots, 3)
  <2>1. \A i \in 1 .. 2 : Args(f, slots)[i] =
          ArgFromStack(Parameters[f][i], slots, SlotsBefore(f, i) + 1)
    BY <1>1, ArgIsRead
  <2>2. Args(f, slots)[1] = ArgFromStack("view", slots, 1)
    BY <1>1, <1>2, <2>1
  <2>3. Args(f, slots)[2] = ArgFromStack("u32", slots, 3)
    BY <1>1, <1>2, <2>1
  <2> QED BY <2>2, <2>3
<1> QED BY <1>3, Reads DEF f

LEMMA PreloadModelArgs ==
    ASSUME NEW slots
    PROVE  /\ Args("tfm_preload_model", slots)[1] = View(slots, 1)
           /\ Args("tfm_preload_model", slots)[2] = slots[3]
           /\ Args("tfm_preload_model", slots)[3] = slots[4]
<1> DEFINE f == "tfm_preload_model"
<1>1. /\ f \in DOMAIN Parameters /\ Len(Parameters[f]) = 3
      /\ Parameters[f] = <<"view", "u32", "u32">>
  BY DEF Parameters
<1> HIDE DEF f
<1>2. /\ SlotsBefore(f, 1) = 0 /\ SlotsBefore(f, 2) = 2
      /\ SlotsBefore(f, 3) = 3
  <2>1. SlotsOf(Parameters[f][1]) = 2 /\ SlotsOf(Parameters[f][2]) = 1
    BY <1>1 DEF SlotsOf
  <2> QED BY <1>1, <2>1, Positions
<1>3. /\ Args(f, slots)[1] = ArgFromStack("view", slots, 1)
      /\ Args(f, slots)[2] = ArgFromStack("u32", slots, 3)
      /\ Args(f, slots)[3] = ArgFromStack("u32", slots, 4)
  <2>1. \A i \in 1 .. 3 : Args(f, slots)[i] =
          ArgFromStack(Parameters[f][i], slots, SlotsBefore(f, i) + 1)
    BY <1>1, ArgIsRead
  <2>2. Args(f, slots)[1] = ArgFromStack("view", slots, 1)
    BY <1>1, <1>2, <2>1
  <2>3. Args(f, slots)[2] = ArgFromStack("u32", slots, 3)
    BY <1>1, <1>2, <2>1
  <2>4. Args(f, slots)[3] = ArgFromStack("u32", slots, 4)
    BY <1>1, <1>2, <2>1
  <2> QED BY <2>2, <2>3, <2>4
<1> QED BY <1>3, Reads DEF f

LEMMA ModelInvokeArgs ==
    ASSUME NEW slots
    PROVE  /\ Args("tfm_model_invoke", slots)[1] = slots[1]
           /\ Args("tfm_model_invoke", slots)[2] = View(slots, 2)
           /\ Args("tfm_model_invoke", slots)[3] = View(slots, 4)
<1> DEFINE f == "tfm_model_invoke"
<1>1. /\ f \in DOMAIN Parameters /\ Len(Parameters[f]) = 3
      /\ Parameters[f] = <<"u32", "view", "view">>
  BY DEF Parameters
<1> HIDE DEF f
<1>2. /\ SlotsBefore(f, 1) = 0 /\ SlotsBefore(f, 2) = 1
      /\ SlotsBefore(f, 3) = 3
  <2>1. SlotsOf(Parameters[f][1]) = 1 /\ SlotsOf(Parameters[f][2]) = 2
    BY <1>1 DEF SlotsOf
  <2> QED BY <1>1, <2>1, Positions
<1>3. /\ Args(f, slots)[1] = ArgFromStack("u32", slots, 1)
      /\ Args(f, slots)[2] = ArgFromStack("view", slots, 2)
      /\ Args(f, slots)[3] = ArgFromStack("view", slots, 4)
  <2>1. \A i \in 1 .. 3 : Args(f, slots)[i] =
          ArgFromStack(Parameters[f][i], slots, SlotsBefore(f, i) + 1)
    BY <1>1, ArgIsRead
  <2>2. Args(f, slots)[1] = ArgFromStack("u32", slots, 1)
    BY <1>1, <1>2, <2>1
  <2>3. Args(f, slots)[2] = ArgFromStack("view", slots, 2)
    BY <1>1, <1>2, <2>1
  <2>4. Args(f, slots)[3] = ArgFromStack("view", slots, 4)
    BY <1>1, <1>2, <2>1
  <2> QED BY <2>2, <2>3, <2>4
<1> QED BY <1>3, Reads DEF f

LEMMA RequestOutputArgs ==
    ASSUME NEW slots, Converts("request_output", slots)
    PROVE  /\ Args("request_output", slots)[1] = FromInt.OutputType[slots[1]]
           /\ slots[1] \in DOMAIN FromInt.OutputType
<1> DEFINE f == "request_output"
<1>1. /\ f \in DOMAIN Parameters /\ Len(Parameters[f]) = 1
      /\ Parameters[f] = <<"OutputType">>
  BY DEF Parameters
<1> HIDE DEF f
<1>2. SlotsBefore(f, 1) = 0
  BY <1>1, Positions
<1>3. Args(f, slots)[1] = ArgFromStack("OutputType", slots, 1)
  BY <1>1, <1>2, ArgIsRead
<1>4. slots[1] \in DOMAIN FromInt.OutputType
  <2>1. 1 \in DOMAIN Parameters[f] /\ Parameters[f][1] = "OutputType"
    BY <1>1, ParametersAreLists
  <2>2. "OutputType" \in DOMAIN FromInt
    BY DEF FromInt
  <2>3. Converts(f, slots)
    BY DEF f
  <2> QED BY <1>2, <2>1, <2>2, <2>3 DEF Converts
<1> QED BY <1>3, <1>4, Reads DEF f

LEMMA ConsumeOutputArgs ==
    ASSUME NEW slots
    PROVE  /\ Args("consume_output", slots)[1] = slots[1]
           /\ Args("consume_output", slots)[2] = View(slots, 2)
<1> DEFINE f == "consume_output"
<1>1. /\ f \in DOMAIN Parameters /\ Len(Parameters[f]) = 2
      /\ Parameters[f] = <<"u32", "view">>
  BY DEF Parameters
<1> HIDE DEF f
<1>2. SlotsBefore(f, 1) = 0 /\ SlotsBefore(f, 2) = 1
  <2>1. SlotsOf(Parameters[f][1]) = 1
    BY <1>1 DEF SlotsOf
  <2> QED BY <1>1, <2>1, Positions
<1>3. /\ Args(f, slots)[1] = ArgFromStack("u32", slots, 1)
      /\ Args(f, slots)[2] = ArgFromStack("view", slots, 2)
  <2>1. \A i \in 1 .. 2 : Args(f, slots)[i] =
          ArgFromStack(Parameters[f][i], slots, SlotsBefore(f, i) + 1)
    BY <1>1, ArgIsRead
  <2>2. Args(f, slots)[1] = ArgFromStack("u32", slots, 1)
    BY <1>1, <1>2, <2>1
  <2>3. Args(f, slots)[2] = ArgFromStack("view", slots, 2)
    BY <1>1, <1>2, <2>1
  <2> QED BY <2>2, <2>3
<1> QED BY <1>3, Reads DEF f

LEMMA ModelLoadArgs ==
    ASSUME NEW slots
    PROVE  /\ Args("rune_model_load", slots)[1] = View(slots, 1)
           /\ Args("rune_model_load", slots)[2] = View(slots, 3)
           /\ Args("rune_model_load", slots)[3] = View(slots, 5)
           /\ Args("rune_model_load", slots)[4] = View(slots, 7)
<1> DEFINE f == "rune_model_load"
<1>1. /\ f \in DOMAIN Parameters /\ Len(Parameters[f]) = 4
      /\ Parameters[f] = <<"view", "view", "strings", "strings">>
  BY DEF Parameters
<1> HIDE DEF f
<1>2. /\ SlotsBefore(f, 1) = 0 /\ SlotsBefore(f, 2) = 2
      /\ SlotsBefore(f, 3) = 4 /\ SlotsBefore(f, 4) = 6
  <2>1. /\ SlotsOf(Parameters[f][1]) = 2 /\ SlotsOf(Parameters[f][2]) = 2
        /\ SlotsOf(Parameters[f][3]) = 2
    BY <1>1 DEF SlotsOf
  <2> QED BY <1>1, <2>1, Positions
<1>3. /\ Args(f, slots)[1] = ArgFromStack("view", slots, 1)
      /\ Args(f, slots)[2] = ArgFromStack("view", slots, 3)
      /\ Args(f, slots)[3] = ArgFromStack("strings", slots, 5)
      /\ Args(f, slots)[4] = ArgFromStack("strings", slots, 7)
  <2>1. \A i \in 1 .. 4 : Args(f, slots)[i] =
          ArgFromStack(Parameters[f][i], slots, SlotsBefore(f, i) + 1)
    BY <1>1, ArgIsRead
  <2>2. Args(f, slots)[1] = ArgFromStack("view", slots, 1)
    BY <1>1, <1>2, <2>1
  <2>3. Args(f, slots)[2] = ArgFromStack("view", slots, 3)
    BY <1>1, <1>2, <2>1
  <2>4. Args(f, slots)[3] = ArgFromStack("strings", slots, 5)
    BY <1>1, <1>2, <2>1
  <2>5. Args(f, slots)[4] = ArgFromStack("strings", slots, 7)
    BY <1>1, <1>2, <2>1
  <2> QED BY <2>2, <2>3, <2>4, <2>5
<1> QED BY <1>3, Reads DEF f

LEMMA ModelInferArgs ==
    ASSUME NEW slots
    PROVE  /\ Args("rune_model_infer", slots)[1] = slots[1]
           /\ Args("rune_model_infer", slots)[2] = slots[2]
           /\ Args("rune_model_infer", slots)[3] = slots[3]
<1> DEFINE f == "rune_model_infer"
<1>1. /\ f \in DOMAIN Parameters /\ Len(Parameters[f]) = 3
      /\ Parameters[f] = <<"u32", "WasmPtr", "WasmPtr">>
  BY DEF Parameters
<1> HIDE DEF f
<1>2. /\ SlotsBefore(f, 1) = 0 /\ SlotsBefore(f, 2) = 1
      /\ SlotsBefore(f, 3) = 2
  <2>1. SlotsOf(Parameters[f][1]) = 1 /\ SlotsOf(Parameters[f][2]) = 1
    BY <1>1 DEF SlotsOf
  <2> QED BY <1>1, <2>1, Positions
<1>3. /\ Args(f, slots)[1] = ArgFromStack("u32", slots, 1)
      /\ Args(f, slots)[2] = ArgFromStack("WasmPtr", slots, 2)
      /\ Args(f, slots)[3] = ArgFromStack("WasmPtr", slots, 3)
  <2>1. \A i \in 1 .. 3 : Args(f, slots)[i] =
          ArgFromStack(Parameters[f][i], slots, SlotsBefore(f, i) + 1)
    BY <1>1, ArgIsRead
  <2>2. Args(f, slots)[1] = ArgFromStack("u32", slots, 1)
    BY <1>1, <1>2, <2>1
  <2>3. Args(f, slots)[2] = ArgFromStack("WasmPtr", slots, 2)
    BY <1>1, <1>2, <2>1
  <2>4. Args(f, slots)[3] = ArgFromStack("WasmPtr", slots, 3)
    BY <1>1, <1>2, <2>1
  <2> QED BY <2>2, <2>3, <2>4
<1> QED BY <1>3, Reads DEF f

-----------------------------------------------------------------------------
(* A rune drives its managers as they expect *)

\* What the conversions of integers give.
LEMMA FromIntType ==
    /\ \A n \in DOMAIN FromInt.Capability : FromInt.Capability[n] \in Capability
    /\ \A n \in DOMAIN FromInt.OutputType : FromInt.OutputType[n] \in Outputs!OutputType
    /\ \A n \in DOMAIN FromInt.ValueType : FromInt.ValueType[n] \in DOMAIN SizeOf
<1>1. \A n \in DOMAIN FromInt.Capability : FromInt.Capability[n] \in Capability
  BY HostAssumption
<1>2. FromInt.OutputType = <<"Serial", "Ble", "Pin", "Wifi">>
  BY DEF FromInt
<1>3. \A n \in DOMAIN FromInt.OutputType : FromInt.OutputType[n] \in Outputs!OutputType
  BY <1>2 DEF Outputs!OutputType
<1>4. FromInt.ValueType = [n \in {1, 2, 5, 6} |->
           CASE n = 1 -> "Int32" [] n = 2 -> "Float32" [] n = 5 -> "Uint8" [] n = 6 -> "Int16"]
  BY DEF FromInt
<1>5. DOMAIN SizeOf = {"Uint8", "Int16", "Int32", "Float32"}
  BY DEF SizeOf
<1>6. \A n \in DOMAIN FromInt.ValueType : FromInt.ValueType[n] \in DOMAIN SizeOf
  BY <1>4, <1>5
<1> QED BY <1>1, <1>3, <1>6

\* What the manager is given for a parameter is a key and a value.
LEMMA SetParamArgsType ==
    ASSUME NEW slots \in Passed.request_capability_set_param,
           Converts("request_capability_set_param", slots)
    PROVE  /\ slots[1] \in CapabilityId
           /\ View(slots, 2) \in Key
           /\ ReadParameter(View(slots, 4), FromInt.ValueType[slots[6]]) \in Param
<1>1. FromInt.ValueType[slots[6]] \in DOMAIN SizeOf
  BY SetParamArgs, FromIntType
<1>2. /\ slots[1] \in CapabilityId
      /\ [at |-> slots[2], size |-> slots[3]] \in Key
      /\ \A t \in DOMAIN SizeOf : [type |-> t, at |-> slots[4], size |-> SizeOf[t]] \in Param
  BY HostAssumption
<1>3. View(slots, 2) \in Key
  BY <1>2 DEF View
<1>4. View(slots, 4).at = slots[4]
  BY DEF View
<1>5. ReadParameter(View(slots, 4), FromInt.ValueType[slots[6]]) \in Param
  BY <1>1, <1>2, <1>4 DEF ReadParameter
<1> QED BY <1>2, <1>3, <1>5

\* Every step of the host leaves the capabilities alone or is a step of their
\* manager.
LEMMA CapabilitySteps == [HostNext]_hostVars => [Next]_vars
<1> SUFFICES ASSUME [HostNext]_hostVars PROVE [Next]_vars
  OBVIOUS
<1>1. ASSUME NEW slots \in Passed.request_capability, RequestCapability(slots)
      PROVE  [Next]_vars
  <2>1. FromInt.Capability[slots[1]] \in Capability
    BY <1>1, RequestCapabilityArgs, FromIntType DEF RequestCapability, Calls
  <2>2. CreateCapability(FromInt.Capability[slots[1]])
    BY <1>1, RequestCapabilityArgs DEF RequestCapability, Calls
  <2> QED BY <2>1, <2>2 DEF Next
<1>2. ASSUME NEW slots \in Passed.request_capability_set_param, RequestCapabilitySetParam(slots)
      PROVE  [Next]_vars
  <2>1. CASE UNCHANGED vars
    BY <2>1
  <2>2. Converts("request_capability_set_param", slots)
    BY <1>2 DEF RequestCapabilitySetParam, Calls
  <2>3. ASSUME SetCapabilityParam(slots[1], View(slots, 2),
                      ReadParameter(View(slots, 4), FromInt.ValueType[slots[6]]))
        PROVE  [Next]_vars
    BY <2>2, <2>3, SetParamArgsType DEF Next
  <2> QED BY <1>2, <2>1, <2>2, <2>3, SetParamArgs DEF RequestCapabilitySetParam
<1>3. ASSUME NEW slots \in Passed.request_provider_response, RequestProviderResponse(slots)
      PROVE  [Next]_vars
  <2>1. CASE UNCHANGED vars
    BY <2>1
  <2>2. ASSUME GetInput(slots[3], FALSE) PROVE [Next]_vars
    <3>1. slots[3] \in CapabilityId
      BY HostAssumption
    <3> QED BY <2>2, <3>1 DEF Next
  <2> QED BY <1>3, <2>1, <2>2, ProviderResponseArgs DEF RequestProviderResponse
<1>4. ASSUME NEW accepted \in BOOLEAN,
             CapabilityAnswer(accepted) \/ SetParamAnswer(accepted) \/ ProviderAnswer(accepted)
      PROVE  [Next]_vars
  BY <1>4 DEF CapabilityAnswer, SetParamAnswer, ProviderAnswer, Next
<1>5. CASE ManifestReturns
  BY <1>5 DEF ManifestReturns, Next
<1>6. ASSUME NEW id \in CapabilityId, NEW available \in BOOLEAN,
             EmbedderSetsAvailability(id, available)
      PROVE  [Next]_vars
  BY <1>6 DEF EmbedderSetsAvailability, Next
<1>7. CASE LinkAll \/ StartCall \/ CallReturns \/ Trap \/ OtherRunes \/ UNCHANGED hostVars
  BY <1>7 DEF LinkAll, StartCall, CallReturns, Trap, OtherRunes, hostVars
<1>8. ASSUME \/ \E slots \in Passed.request_output : RequestOutput(slots)
             \/ \E slots \in Passed.consume_output : ConsumeOutput(slots)
             \/ \E slots \in Passed._debug : Debug(slots)
             \/ \E slots \in Passed.tfm_preload_model : TfmPreloadModel(slots)
             \/ \E slots \in Passed.rune_model_load : RuneModelLoad(slots)
             \/ \E slots \in Passed.tfm_model_invoke : TfmModelInvoke(slots)
             \/ \E slots \in Passed.rune_model_infer : RuneModelInfer(slots)
      PROVE  [Next]_vars
  BY <1>8 DEF RequestOutput, ConsumeOutput, Debug, TfmPreloadModel, RuneModelLoad,
      TfmModelInvoke, RuneModelInfer
<1> QED BY <1>1, <1>2, <1>3, <1>4, <1>5, <1>6, <1>7, <1>8 DEF HostNext

\* Whatever wasm passes, the calls that reach the capability manager are calls
\* with capabilities, ids, keys and values it is made for, one at a time: all
\* that is proved of the manager holds in every rune (HostFunctions.cpp:75-190).
THEOREM DrivesCapabilities == HostSpec => Spec
<1>1. HostInit => Init
  BY DEF HostInit
<1> QED BY <1>1, CapabilitySteps, PTL DEF HostSpec, Spec

\* The model manager and the output manager move only with their own functions.
LEMMA OtherFunctions ==
    ASSUME [HostNext]_hostVars
    PROVE  /\ ~(\/ \E slots \in Passed.tfm_preload_model : TfmPreloadModel(slots)
                \/ \E slots \in Passed.rune_model_load : RuneModelLoad(slots)
                \/ \E slots \in Passed.tfm_model_invoke : TfmModelInvoke(slots)
                \/ \E slots \in Passed.rune_model_infer : RuneModelInfer(slots)
                \/ OtherRunes)
              => UNCHANGED modelVars
           /\ ~(\/ \E slots \in Passed.request_output : RequestOutput(slots)
                \/ \E slots \in Passed.consume_output : ConsumeOutput(slots)
                \/ CallReturns)
              => UNCHANGED outputVars
<1>1. CASE LinkAll \/ ManifestReturns \/ StartCall \/ Trap \/ UNCHANGED hostVars
  BY <1>1 DEF LinkAll, ManifestReturns, StartCall, Trap, hostVars
<1>2. CASE CallReturns
  BY <1>2 DEF CallReturns
<1>3. CASE \/ \E slots \in Passed.request_capability : RequestCapability(slots)
           \/ \E slots \in Passed.request_capability_set_param : RequestCapabilitySetParam(slots)
           \/ \E slots \in Passed.request_provider_response : RequestProviderResponse(slots)
           \/ \E accepted \in BOOLEAN :
                 CapabilityAnswer(accepted) \/ SetParamAnswer(accepted) \/ ProviderAnswer(accepted)
           \/ \E id \in CapabilityId, available \in BOOLEAN :
                 EmbedderSetsAvailability(id, available)
           \/ \E slots \in Passed._debug : Debug(slots)
  BY <1>3 DEF RequestCapability, RequestCapabilitySetParam, RequestProviderResponse,
      CapabilityAnswer, SetParamAnswer, ProviderAnswer, EmbedderSetsAvailability, Debug
<1>4. CASE \/ \E slots \in Passed.request_output : RequestOutput(slots)
           \/ \E slots \in Passed.consume_output : ConsumeOutput(slots)
  BY <1>4 DEF RequestOutput, ConsumeOutput
<1>5. CASE \/ \E slots \in Passed.tfm_preload_model : TfmPreloadModel(slots)
           \/ \E slots \in Passed.rune_model_load : RuneModelLoad(slots)
           \/ \E slots \in Passed.tfm_model_invoke : TfmModelInvoke(slots)
           \/ \E slots \in Passed.rune_model_infer : RuneModelInfer(slots)
           \/ OtherRunes
  BY <1>5 DEF TfmPreloadModel, RuneModelLoad, TfmModelInvoke, RuneModelInfer, OtherRunes
<1> QED BY <1>1, <1>2, <1>3, <1>4, <1>5 DEF HostNext

\* Every step of the host leaves the models alone or is a step of their manager.
LEMMA ModelSteps == [HostNext]_hostVars => [Models!Next]_modelVars
<1> SUFFICES ASSUME [HostNext]_hostVars PROVE [Models!Next]_modelVars
  OBVIOUS
<1>1. ASSUME NEW slots \in Passed.tfm_preload_model, TfmPreloadModel(slots)
      PROVE  [Models!Next]_modelVars
  <2>1. BlobAt[View(slots, 1).at] \in Blob
    BY HostAssumption DEF View
  <2> QED BY <1>1, <2>1, PreloadModelArgs DEF TfmPreloadModel, Models!Next
<1>2. ASSUME NEW slots \in Passed.rune_model_load, RuneModelLoad(slots)
      PROVE  [Models!Next]_modelVars
  <2> DEFINE described == << Strings(View(slots, 5)), Strings(View(slots, 7)) >>
  <2>1. BlobAt[View(slots, 3).at] \in Blob /\ described \in Descriptions
    BY HostAssumption DEF View
  <2>2. Models!RuneModelLoad(BlobAt[View(slots, 3).at], described[1], described[2])
    BY <1>2, ModelLoadArgs DEF RuneModelLoad
  <2> HIDE DEF described
  <2> QED BY <2>1, <2>2 DEF Models!Next
<1>3. ASSUME NEW slots \in Passed.tfm_model_invoke, TfmModelInvoke(slots)
      PROVE  [Models!Next]_modelVars
  <2>1. slots[1] \in Models!ModelId /\ View(slots, 2).size \in ViewSize
        /\ View(slots, 4).size \in ViewSize
    BY HostAssumption DEF View
  <2>2. Models!TfmModelInvoke(slots[1], View(slots, 2).size, View(slots, 4).size)
    BY <1>3, ModelInvokeArgs DEF TfmModelInvoke
  <2> QED BY <2>1, <2>2 DEF Models!Next
<1>4. ASSUME NEW slots \in Passed.rune_model_infer, RuneModelInfer(slots)
      PROVE  [Models!Next]_modelVars
  <2>1. slots[1] \in Models!ModelId
    BY HostAssumption
  <2>2. Models!RuneModelInfer(slots[1])
    BY <1>4, ModelInferArgs DEF RuneModelInfer
  <2> QED BY <2>1, <2>2 DEF Models!Next
<1>5. CASE OtherRunes
  BY <1>5 DEF OtherRunes
<1> QED BY <1>1, <1>2, <1>3, <1>4, <1>5, OtherFunctions

\* The same of the model manager: the views, descriptors and ids that reach it
\* are the ones its own specification allows (HostFunctions.cpp:193-260,
\* 323-420).
THEOREM DrivesModels == HostSpec => Models!Spec
<1>1. HostInit => Models!Init
  BY DEF HostInit
<1>2. modelVars = Models!vars
  BY DEF modelVars, Models!vars
<1>3. [HostNext]_hostVars => [Models!Next]_Models!vars
  BY <1>2, ModelSteps DEF modelVars, Models!vars
<1> QED BY <1>1, <1>3, PTL DEF HostSpec, Models!Spec

\* One step of the output manager keeps the types of its variables.
LEMMA OutputTypeStep == Outputs!TypeOK /\ [Outputs!Next]_outputVars => Outputs!TypeOK'
<1> SUFFICES ASSUME Outputs!TypeOK, [Outputs!Next]_outputVars PROVE Outputs!TypeOK'
  OBVIOUS
<1> USE DEF Outputs!TypeOK, Outputs!Cached
<1>1. ASSUME NEW outputType \in Outputs!OutputType, Outputs!RequestOutput(outputType)
      PROVE  Outputs!TypeOK'
  <2>1. CASE UNCHANGED Outputs!vars
    BY <2>1 DEF Outputs!vars
  <2>2. CASE outputType = "Serial"
    <3>1. Outputs!NextId \in Outputs!OutputId
      <4>1. m_outputCounter \in Nat /\ IdMod \in Nat /\ IdMod > 0
        BY HostAssumption, CapabilityAssumption DEF Outputs!OutputId
      <4> QED BY <4>1 DEF Outputs!NextId, Outputs!OutputId
    <3>2. Outputs!Kept \subseteq Outputs!Cached
      BY DEF Outputs!Kept
    <3>3. /\ m_results' \in [Outputs!Kept \cup {m_outputCounter} -> 0 .. created]
          /\ Outputs!Kept \cup {m_outputCounter} \subseteq Outputs!OutputId
      BY <1>1, <2>2, <3>2 DEF Outputs!RequestOutput, Outputs!Null
    <3> QED BY <1>1, <2>2, <3>1, <3>3 DEF Outputs!RequestOutput
  <2> QED BY <1>1, <2>1, <2>2 DEF Outputs!RequestOutput
<1>2. ASSUME NEW outputId \in Outputs!OutputId, NEW isJson \in BOOLEAN,
             Outputs!SaveOutput(outputId, isJson)
      PROVE  Outputs!TypeOK'
  <2>1. CASE UNCHANGED Outputs!vars
    BY <2>1 DEF Outputs!vars
  <2>2. CASE outputId \in Outputs!Cached /\ created' = created + 1
    <3>1. m_results' \in [Outputs!Cached -> 0 .. created']
      BY <1>2, <2>2 DEF Outputs!SaveOutput, Outputs!vars
    <3> QED BY <1>2, <2>2, <3>1 DEF Outputs!SaveOutput, Outputs!vars
  <2> QED BY <1>2, <2>1, <2>2 DEF Outputs!SaveOutput
<1>3. ASSUME NEW outputId \in Outputs!OutputId, Outputs!ConsumeOutput(outputId)
      PROVE  Outputs!TypeOK'
  <2>1. CASE UNCHANGED Outputs!vars
    BY <2>1 DEF Outputs!vars
  <2>2. CASE outputId \in Outputs!Cached
    BY <1>3, <2>2 DEF Outputs!ConsumeOutput, Outputs!vars, Outputs!Null
  <2> QED BY <1>3, <2>1, <2>2 DEF Outputs!ConsumeOutput
<1>4. CASE UNCHANGED outputVars
  BY <1>4 DEF outputVars
<1> QED BY <1>1, <1>2, <1>3, <1>4 DEF Outputs!Next

\* Every step of the host leaves the outputs alone or is a step of their
\* manager; call() may look up NoId, which is never there.
LEMMA OutputSteps == Outputs!TypeOK /\ [HostNext]_hostVars => [Outputs!Next]_outputVars
<1> SUFFICES ASSUME Outputs!TypeOK, [HostNext]_hostVars PROVE [Outputs!Next]_outputVars
  OBVIOUS
<1>1. ASSUME NEW slots \in Passed.request_output, RequestOutput(slots)
      PROVE  [Outputs!Next]_outputVars
  <2>1. FromInt.OutputType[slots[1]] \in Outputs!OutputType
    BY <1>1, RequestOutputArgs, FromIntType DEF RequestOutput, Calls
  <2>2. Outputs!RequestOutput(FromInt.OutputType[slots[1]])
    BY <1>1, RequestOutputArgs DEF RequestOutput, Calls
  <2> QED BY <2>1, <2>2 DEF Outputs!Next
<1>2. ASSUME NEW slots \in Passed.consume_output, ConsumeOutput(slots)
      PROVE  [Outputs!Next]_outputVars
  <2>1. slots[1] \in Outputs!OutputId
    BY HostAssumption
  <2>2. UNCHANGED outputVars \/ \E isJson \in BOOLEAN : Outputs!SaveOutput(slots[1], isJson)
    BY <1>2, ConsumeOutputArgs DEF ConsumeOutput
  <2> QED BY <2>1, <2>2 DEF Outputs!Next
<1>3. CASE CallReturns
  <2>1. Outputs!ConsumeOutput(m_lastSavedId)
    BY <1>3 DEF CallReturns
  <2>2. CASE m_lastSavedId \in Outputs!OutputId
    BY <2>1, <2>2 DEF Outputs!Next
  <2>3. CASE m_lastSavedId \notin Outputs!Cached
    BY <2>1, <2>3 DEF Outputs!ConsumeOutput, Outputs!vars, outputVars
  <2> QED BY <2>2, <2>3 DEF Outputs!TypeOK
<1> QED BY <1>1, <1>2, <1>3, OtherFunctions

LEMMA OutputsTypeCorrect == HostSpec => []Outputs!TypeOK
<1>1. HostInit => Outputs!TypeOK
  <2> SUFFICES ASSUME HostInit PROVE Outputs!TypeOK
    OBVIOUS
  <2>1. Outputs!Init
    BY DEF HostInit
  <2>2. IdMod \in Nat /\ IdMod > 0
    BY HostAssumption, CapabilityAssumption
  <2> QED BY <2>1, <2>2 DEF Outputs!Init, Outputs!TypeOK, Outputs!Cached, Outputs!OutputId,
          Outputs!NoId, Outputs!Null
<1> QED BY <1>1, OutputTypeStep, OutputSteps, PTL DEF HostSpec

\* The same of the output manager, whose last saved output every call of the
\* rune consumes (HostFunctions.cpp:262-304, Wasm3Rune.cpp:312-334).
THEOREM DrivesOutputs == HostSpec => Outputs!Spec
<1>1. HostInit => Outputs!Init
  BY DEF HostInit
<1>2. outputVars = Outputs!vars
  BY DEF outputVars, Outputs!vars
<1>3. Outputs!TypeOK /\ [HostNext]_hostVars => [Outputs!Next]_Outputs!vars
  BY OutputSteps DEF outputVars, Outputs!vars
<1> QED BY <1>1, <1>3, OutputsTypeCorrect, PTL DEF HostSpec, Outputs!Spec

-----------------------------------------------------------------------------
(* What is proved of the model manager *)

\* What ModelManagerProofs shows, of the manager behind the host functions.
ModelsProved == INSTANCE ModelManagerProofs WITH m_idCounter <- m_modelCounter

LEMMA ModelsMeetAssumptions == ModelsProved!ModelAssumption /\ ModelsProved!WidthAssumption
BY HostAssumption DEF Models!ModelAssumption, Models!WidthAssumption, Models!TensorString,
   ModelsProved!ModelAssumption, ModelsProved!WidthAssumption, ModelsProved!TensorString

\* Both instances name the same operators.
LEMMA SameTypes == Models!TypeOK <=> ModelsProved!TypeOK
BY DEF Models!TypeOK, Models!Loaded, Models!Model, Models!ModelId,
   Models!ByteSize,
   ModelsProved!TypeOK, ModelsProved!Loaded, ModelsProved!Model, ModelsProved!ModelId,
   ModelsProved!ByteSize

LEMMA SameParses == ASSUME NEW strings
                    PROVE  Models!Parses(strings) = ModelsProved!Parses(strings)
<1>1. ASSUME NEW shape PROVE Models!Elements(shape) = ModelsProved!Elements(shape)
  BY DEF Models!Elements, Models!Times, Models!IntMax,
     ModelsProved!Elements, ModelsProved!Times, ModelsProved!IntMax
<1>2. ASSUME NEW d PROVE Models!ByteCount(d) = ModelsProved!ByteCount(d)
  BY <1>1 DEF Models!ByteCount, Models!BytesPerUnit,
     ModelsProved!ByteCount, ModelsProved!BytesPerUnit
<1>3. ASSUME NEW s PROVE Models!Descriptors(s) = ModelsProved!Descriptors(s)
  BY DEF Models!Descriptors, Models!IntMax, Models!DataType,
     ModelsProved!Descriptors, ModelsProved!IntMax, ModelsProved!DataType
<1> QED BY <1>2, <1>3 DEF Models!Parses, ModelsProved!Parses

LEMMA SameSteps == Models!Next => ModelsProved!Next
<1>1. ASSUME NEW b, NEW i, NEW o
      PROVE  Models!LoadModel(b, i, o) <=> ModelsProved!LoadModel(b, i, o)
  BY DEF Models!LoadModel, Models!With, Models!NextId, Models!NoRun,
     ModelsProved!LoadModel, ModelsProved!With, ModelsProved!NextId, ModelsProved!NoRun
<1>2. ASSUME NEW via, NEW id, NEW i, NEW o
      PROVE  Models!Run(via, id, i, o) <=> ModelsProved!Run(via, id, i, o)
  BY DEF Models!Run, Models!Handled, Models!Fits, Models!Copied, Models!Failed,
     ModelsProved!Run, ModelsProved!Handled, ModelsProved!Fits, ModelsProved!Copied,
     ModelsProved!Failed
<1>3. ASSUME NEW b PROVE Models!TfmPreloadModel(b) <=> ModelsProved!TfmPreloadModel(b)
  BY <1>1 DEF Models!TfmPreloadModel, ModelsProved!TfmPreloadModel
<1>4. ASSUME NEW b, NEW i, NEW o
      PROVE  Models!RuneModelLoad(b, i, o) <=> ModelsProved!RuneModelLoad(b, i, o)
  <2>1. /\ Models!RC_InputError = ModelsProved!RC_InputError
        /\ Models!Loaded = ModelsProved!Loaded
    BY DEF Models!RC_InputError, Models!Loaded, ModelsProved!RC_InputError, ModelsProved!Loaded
  <2>2. /\ Models!Parses(i) = ModelsProved!Parses(i)
        /\ Models!Parses(o) = ModelsProved!Parses(o)
    BY SameParses
  <2>3. \A p, q : Models!LoadModel(b, p, q) <=> ModelsProved!LoadModel(b, p, q)
    BY <1>1
  <2> QED BY <2>1, <2>2, <2>3 DEF Models!RuneModelLoad, ModelsProved!RuneModelLoad
<1>5. ASSUME NEW id, NEW i, NEW o
      PROVE  Models!TfmModelInvoke(id, i, o) <=> ModelsProved!TfmModelInvoke(id, i, o)
  BY <1>2 DEF Models!TfmModelInvoke, Models!Refuse, Models!Loaded, Models!Failed,
     ModelsProved!TfmModelInvoke, ModelsProved!Refuse, ModelsProved!Loaded, ModelsProved!Failed
<1>6. ASSUME NEW id PROVE Models!RuneModelInfer(id) <=> ModelsProved!RuneModelInfer(id)
  BY <1>2 DEF Models!RuneModelInfer, Models!Refuse, Models!Loaded, Models!Failed,
     ModelsProved!RuneModelInfer, ModelsProved!Refuse, ModelsProved!Loaded, ModelsProved!Failed
<1> QED BY <1>3, <1>4, <1>5, <1>6 DEF Models!Next, Models!ModelId,
        ModelsProved!Next, ModelsProved!ModelId

LEMMA SameSpecification == Models!Spec => ModelsProved!Spec
<1>1. Models!Init => ModelsProved!Init
  BY DEF Models!Init, Models!NoRun, Models!Failed,
     ModelsProved!Init, ModelsProved!NoRun, ModelsProved!Failed
<1>2. [Models!Next]_Models!vars => [ModelsProved!Next]_ModelsProved!vars
  BY SameSteps DEF Models!vars, ModelsProved!vars
<1> QED BY <1>1, <1>2, PTL DEF Models!Spec, ModelsProved!Spec

LEMMA ModelsTypeCorrect == HostSpec => []Models!TypeOK
<1>1. ModelsProved!Spec => []ModelsProved!TypeOK
  BY ModelsMeetAssumptions, ModelsProved!TypeCorrect
<1> QED BY <1>1, SameTypes, SameSpecification, DrivesModels, PTL

-----------------------------------------------------------------------------
(* What the wasm learns from an answer *)

Memories == {"capabilities", "models", "outputs"}
Loaders  == {"tfm_preload_model", "rune_model_load"}

\* An answer adds at most one id, to the memory its function is about.
LEMMA LearnedIds ==
    ASSUME DOMAIN known = Memories, NEW f, NEW slots, NEW result
    PROVE  LET learned == Learned(f, slots, result)
           IN /\ DOMAIN learned = Memories
              /\ learned.models = IF f \in Loaders /\ result # RC_InputError
                                  THEN With(known.models, result, LoadedBy(f, slots))
                                  ELSE known.models
              /\ learned.outputs = IF f = "request_output" /\ result # RC_InputError
                                   THEN known.outputs \cup {result} ELSE known.outputs
<1> USE DEF Memories, Loaders
<1>1. CASE f = "request_capability" /\ result # RC_InputError
  <2>1. \A c : LET learned == [known EXCEPT !.capabilities = c]
               IN /\ DOMAIN learned = Memories
                  /\ learned.models = known.models /\ learned.outputs = known.outputs
    OBVIOUS
  <2>2. \E c : Learned(f, slots, result) = [known EXCEPT !.capabilities = c]
    BY <1>1 DEF Learned
  <2> QED BY <1>1, <2>1, <2>2
<1>2. CASE f = "request_capability_set_param" /\ result = 0
  <2>1. \A c : LET learned == [known EXCEPT !.capabilities = c]
               IN /\ DOMAIN learned = Memories
                  /\ learned.models = known.models /\ learned.outputs = known.outputs
    OBVIOUS
  <2>2. \E c : Learned(f, slots, result) = [known EXCEPT !.capabilities = c]
    BY <1>2 DEF Learned
  <2> QED BY <1>2, <2>1, <2>2
<1>3. CASE f \in Loaders /\ result # RC_InputError
  BY <1>3 DEF Learned
<1>4. CASE f = "request_output" /\ result # RC_InputError
  BY <1>4 DEF Learned
<1>5. CASE /\ ~(f = "request_capability" /\ result # RC_InputError)
           /\ ~(f = "request_capability_set_param" /\ result = 0)
           /\ ~(f \in Loaders /\ result # RC_InputError)
           /\ ~(f = "request_output" /\ result # RC_InputError)
  BY <1>5 DEF Learned
<1> QED BY <1>1, <1>2, <1>3, <1>4, <1>5

\* While the bounds keep the ids below the error code, the counters have not
\* wrapped, a failed load describes no model, and no id looks like a refusal.
IdsBelowError == MaxLoads <= RC_InputError /\ MaxOutputs <= RC_InputError

IdsInv ==
    /\ DOMAIN known = Memories
    /\ m_modelCounter = loads /\ loads \in 0 .. MaxLoads
    /\ Models!Loaded \subseteq 0 .. (loads - 1)
    /\ DOMAIN known.models = Models!Loaded \ foreign
    /\ foreign \subseteq Models!Loaded
    /\ \A id \in DOMAIN known.models : Denotes(m_models[id], known.models[id])
    /\ m_outputCounter \in 0 .. MaxOutputs
    /\ known.outputs = 0 .. (m_outputCounter - 1)
    /\ Outputs!Cached \subseteq known.outputs

LEMMA BoundsAreNumbers ==
    /\ IdMod \in Nat /\ IdMod > 2 /\ RC_InputError \in Nat /\ RC_InputError = IdMod - 2
    /\ RC_InputError # 0
    /\ MaxLoads \in Nat /\ MaxOutputs \in Nat /\ Models!RC_InputError = RC_InputError
BY HostAssumption, CapabilityAssumption DEF RC_InputError, Models!RC_InputError,
   Models!ModelAssumption

\* An id denotes the same file and descriptors after a step.
SameModel(id) ==
    /\ m_models'[id].blob = m_models[id].blob
    /\ m_models'[id].inputDescriptors = m_models[id].inputDescriptors
    /\ m_models'[id].outputDescriptors = m_models[id].outputDescriptors

\* A step that loads nothing, and one that gives the next number to a model.
ModelsKept ==
    /\ UNCHANGED <<loads, m_modelCounter>>
    /\ Models!Loaded' = Models!Loaded
    /\ \A id \in Models!Loaded : SameModel(id)

ModelAdded(mine) ==
    /\ loads' = loads + 1 /\ loads < MaxLoads
    /\ m_modelCounter' = loads + 1
    /\ Models!Loaded' = Models!Loaded \cup {loads}
    /\ \A id \in Models!Loaded : SameModel(id)
    /\ Denotes(m_models'[loads], mine)

LEMMA ModelsUnchanged == UNCHANGED modelVars => ModelsKept
BY DEF modelVars, ModelsKept, SameModel, Models!Loaded

LEMMA LoadAdds ==
    ASSUME IdsBelowError, IdsInv, NEW blob, NEW inputs, NEW outputs,
           NEW i \in Models!Parses(inputs), NEW o \in Models!Parses(outputs),
           Models!LoadModel(blob, i, o)
    PROVE  ModelAdded([blob |-> blob, inputs |-> inputs, outputs |-> outputs])
<1> DEFINE model == [blob |-> blob, inputDescriptors |-> i, outputDescriptors |-> o,
                     inputs |-> [k \in DOMAIN TensorSizes[blob].inputs |-> Models!NoRun]]
           mine  == [blob |-> blob, inputs |-> inputs, outputs |-> outputs]
<1>1. /\ loads' = loads + 1 /\ loads < MaxLoads /\ m_modelCounter = loads
      /\ m_models' = Models!With(m_models, loads, model)
      /\ m_modelCounter' = Models!NextId
  BY DEF Models!LoadModel, IdsInv
<1>2. Denotes(model, mine)
  BY DEF Denotes
<1>3. loads \in Nat /\ loads + 1 < IdMod /\ loads \notin Models!Loaded
  BY <1>1, BoundsAreNumbers DEF IdsInv, IdsBelowError
<1>4. (loads + 1) % IdMod = loads + 1
  BY <1>3, BoundsAreNumbers
<1>5. m_modelCounter' = loads + 1
  BY <1>1, <1>4 DEF Models!NextId
<1> HIDE DEF model, mine
<1>6. /\ Models!Loaded' = Models!Loaded \cup {loads}
      /\ m_models'[loads] = model
      /\ \A id \in Models!Loaded : m_models'[id] = m_models[id]
  BY <1>1, <1>3 DEF Models!Loaded, Models!With
<1>7. ModelAdded(mine)
  BY <1>1, <1>2, <1>5, <1>6 DEF ModelAdded, SameModel
<1> QED BY <1>7 DEF mine

\* The two ways to load a model, by whichever rune.
LEMMA PreloadAdds ==
    ASSUME IdsBelowError, IdsInv, NEW blob, Models!TfmPreloadModel(blob)
    PROVE  ModelsKept \/ ModelAdded([blob |-> blob, inputs |-> <<>>, outputs |-> <<>>])
<1>1. <<>> \in Models!Parses(<<>>)
  BY DEF Models!Parses
<1>2. CASE Models!LoadModel(blob, <<>>, <<>>)
  BY <1>1, <1>2, LoadAdds
<1>3. CASE UNCHANGED <<m_models, m_modelCounter, loads>>
  BY <1>3 DEF ModelsKept, SameModel, Models!Loaded
<1> QED BY <1>2, <1>3 DEF Models!TfmPreloadModel

LEMMA DescribedLoadAdds ==
    ASSUME IdsBelowError, IdsInv, NEW blob, NEW inputs, NEW outputs,
           Models!RuneModelLoad(blob, inputs, outputs)
    PROVE  ModelsKept \/ ModelAdded([blob |-> blob, inputs |-> inputs, outputs |-> outputs])
<1>1. Models!RC_InputError \notin Models!Loaded
  BY BoundsAreNumbers DEF IdsInv, IdsBelowError
<1>2. ASSUME NEW i \in Models!Parses(inputs), NEW o \in Models!Parses(outputs),
             Models!LoadModel(blob, i, o)
      PROVE  ModelAdded([blob |-> blob, inputs |-> inputs, outputs |-> outputs])
  BY <1>2, LoadAdds
<1>3. CASE UNCHANGED <<m_models, m_modelCounter, loads>>
  BY <1>3 DEF ModelsKept, SameModel, Models!Loaded
<1> QED BY <1>1, <1>2, <1>3 DEF Models!RuneModelLoad

\* Running a model leaves the ids and what they denote alone.
LEMMA RunKeepsIds ==
    ASSUME Models!TypeOK, NEW id, NEW input, NEW output,
           Models!TfmModelInvoke(id, input, output) \/ Models!RuneModelInfer(id)
    PROVE  ModelsKept
<1>1. UNCHANGED <<loads, m_modelCounter>>
  BY DEF Models!TfmModelInvoke, Models!RuneModelInfer
<1>2. ASSUME NEW x, m_models' = [m_models EXCEPT ![id].inputs = x]
      PROVE  ModelsKept
  <2>1. Models!Loaded' = Models!Loaded
    BY <1>2 DEF Models!Loaded
  <2>2. ASSUME NEW other \in Models!Loaded PROVE SameModel(other)
    <3>1. m_models[other] \in Models!Model
      BY DEF Models!TypeOK
    <3>2. m_models[other] \in [blob : DOMAIN TensorSizes,
                               inputDescriptors : Seq(Models!ByteSize),
                               outputDescriptors : Seq(Models!ByteSize),
                               inputs : Seq(0 .. runs)]
      BY <3>1 DEF Models!Model
    <3>3. m_models'[other] = IF other = id THEN [m_models[other] EXCEPT !.inputs = x]
                             ELSE m_models[other]
      BY <1>2 DEF Models!Loaded
    <3> QED BY <3>2, <3>3 DEF SameModel
  <2> QED BY <1>1, <2>1, <2>2 DEF ModelsKept
<1>3. CASE UNCHANGED m_models
  BY <1>1, <1>3 DEF ModelsKept, SameModel, Models!Loaded
<1>4. ASSUME NEW via, NEW i, NEW o, Models!Run(via, id, i, o)
      PROVE  ModelsKept
  <2>1. UNCHANGED m_models \/ \E x : m_models' = [m_models EXCEPT ![id].inputs = x]
    BY <1>4 DEF Models!Run
  <2> QED BY <1>2, <1>3, <2>1
<1> QED BY <1>3, <1>4 DEF Models!TfmModelInvoke, Models!RuneModelInfer, Models!Refuse

\* What an answer from the model manager adds to the wasm's memory.
LEMMA ModelAnswer ==
    ASSUME IdsBelowError, IdsInv, NEW f \in Loaders, NEW slots,
           Return(f, slots, LoadResult),
           UNCHANGED outputVars,
           ModelsKept \/ ModelAdded(LoadedBy(f, slots))
    PROVE  IdsInv'
<1> DEFINE mine == LoadedBy(f, slots)
<1>1. /\ DOMAIN known' = Memories
      /\ known'.models = IF LoadResult # RC_InputError
                         THEN With(known.models, LoadResult, mine) ELSE known.models
      /\ known'.outputs = known.outputs
      /\ foreign' = foreign
  BY LearnedIds DEF Return, IdsInv, Loaders
<1>2. UNCHANGED m_outputCounter /\ Outputs!Cached' = Outputs!Cached
  BY DEF outputVars, Outputs!Cached
<1> HIDE DEF mine
<1>3. CASE ModelsKept
  <2>1. LoadResult = RC_InputError
    BY <1>3 DEF LoadResult, ModelsKept
  <2>2. \A id \in DOMAIN known'.models : Denotes(m_models'[id], known'.models[id])
    BY <1>1, <1>3, <2>1 DEF IdsInv, ModelsKept, SameModel, Denotes
  <2> QED BY <1>1, <1>2, <1>3, <2>1, <2>2 DEF IdsInv, ModelsKept
<1>4. CASE ModelAdded(mine)
  <2>1. /\ loads \in Nat /\ loads < RC_InputError /\ loads \notin Models!Loaded
        /\ loads' = loads + 1
    BY <1>4, BoundsAreNumbers DEF IdsInv, IdsBelowError, ModelAdded
  <2>2. LoadResult = loads
    BY <2>1 DEF LoadResult, IdsInv
  <2>3. known'.models = With(known.models, loads, mine)
    BY <1>1, <2>1, <2>2, BoundsAreNumbers
  <2>4. Models!Loaded' \subseteq 0 .. (loads' - 1) /\ loads' \in 0 .. MaxLoads
        /\ m_modelCounter' = loads'
    BY <1>4, <2>1, BoundsAreNumbers DEF IdsInv, ModelAdded
  <2>5. /\ DOMAIN known'.models = DOMAIN known.models \cup {loads}
        /\ known'.models[loads] = mine
        /\ \A id \in DOMAIN known.models : id # loads => known'.models[id] = known.models[id]
    BY <2>3 DEF With
  <2>6. /\ DOMAIN known'.models = Models!Loaded' \ foreign'
        /\ foreign' \subseteq Models!Loaded'
    BY <1>1, <1>4, <2>1, <2>5 DEF IdsInv, ModelAdded
  <2>7. ASSUME NEW id \in DOMAIN known'.models PROVE Denotes(m_models'[id], known'.models[id])
    <3>1. CASE id = loads
      BY <1>4, <2>5, <3>1 DEF ModelAdded
    <3>2. CASE id # loads
      <4>1. id \in DOMAIN known.models /\ id \in Models!Loaded
        BY <2>5, <3>2 DEF IdsInv
      <4>2. SameModel(id) /\ Denotes(m_models[id], known.models[id])
        BY <1>4, <4>1 DEF IdsInv, ModelAdded
      <4> QED BY <2>5, <3>2, <4>1, <4>2 DEF SameModel, Denotes
    <3> QED BY <3>1, <3>2
  <2> QED BY <1>1, <1>2, <2>4, <2>6, <2>7 DEF IdsInv
<1> QED BY <1>3, <1>4 DEF mine

\* A model that another rune loads takes an id from no one.
LEMMA OthersKeepIds ==
    ASSUME IdsBelowError, Models!TypeOK, IdsInv, OtherRunes
    PROVE  IdsInv'
<1>1. /\ Models!Next
      /\ foreign' = foreign \cup (Models!Loaded' \ Models!Loaded)
      /\ known' = known /\ UNCHANGED outputVars
  BY DEF OtherRunes
<1>2. m_outputCounter' = m_outputCounter /\ Outputs!Cached' = Outputs!Cached
  BY <1>1 DEF outputVars, Outputs!Cached
<1>3. CASE ModelsKept
  <2>1. foreign' = foreign
    BY <1>1, <1>3 DEF ModelsKept
  <2>2. \A id \in DOMAIN known'.models : Denotes(m_models'[id], known'.models[id])
    BY <1>1, <1>3 DEF IdsInv, ModelsKept, SameModel, Denotes
  <2> QED BY <1>1, <1>2, <1>3, <2>1, <2>2 DEF IdsInv, ModelsKept
<1>4. ASSUME NEW mine, ModelAdded(mine) PROVE IdsInv'
  <2>1. loads \in Nat /\ loads' = loads + 1 /\ loads \notin Models!Loaded
    BY <1>4 DEF IdsInv, ModelAdded
  <2>2. foreign' = foreign \cup {loads}
    BY <1>1, <1>4, <2>1 DEF ModelAdded
  <2>3. /\ DOMAIN known'.models = Models!Loaded' \ foreign'
        /\ foreign' \subseteq Models!Loaded'
    BY <1>1, <1>4, <2>1, <2>2 DEF IdsInv, ModelAdded
  <2>4. \A id \in DOMAIN known'.models : Denotes(m_models'[id], known'.models[id])
    BY <1>1, <1>4 DEF IdsInv, ModelAdded, SameModel, Denotes
  <2>5. Models!Loaded' \subseteq 0 .. (loads' - 1) /\ loads' \in 0 .. MaxLoads
        /\ m_modelCounter' = loads'
    <3>1. /\ MaxLoads \in Nat /\ loads < MaxLoads
          /\ Models!Loaded \subseteq 0 .. (loads - 1)
          /\ Models!Loaded' = Models!Loaded \cup {loads}
          /\ m_modelCounter' = loads + 1
      BY <1>4, BoundsAreNumbers DEF IdsInv, ModelAdded
    <3> QED BY <2>1, <3>1
  <2> QED BY <1>1, <1>2, <2>3, <2>4, <2>5 DEF IdsInv
<1>5. ASSUME NEW blob, Models!TfmPreloadModel(blob) PROVE IdsInv'
  BY <1>3, <1>4, <1>5, PreloadAdds
<1>6. ASSUME NEW blob, NEW p, NEW q, Models!RuneModelLoad(blob, p, q) PROVE IdsInv'
  BY <1>3, <1>4, <1>6, DescribedLoadAdds
<1>7. ASSUME NEW id, NEW i, NEW o, Models!TfmModelInvoke(id, i, o) \/ Models!RuneModelInfer(id)
      PROVE  IdsInv'
  BY <1>3, <1>7, RunKeepsIds
<1> QED BY <1>1, <1>5, <1>6, <1>7 DEF Models!Next

\* An output is requested under the next number, or nothing changes.
LEMMA OutputAnswer ==
    ASSUME IdsBelowError, IdsInv, NEW slots,
           RequestOutput(slots)
    PROVE  IdsInv'
<1> DEFINE result == IF m_outputCounter' # m_outputCounter THEN m_outputCounter ELSE RC_InputError
<1>1. /\ DOMAIN known' = Memories
      /\ known'.models = known.models
      /\ known'.outputs = IF result # RC_InputError
                          THEN known.outputs \cup {result} ELSE known.outputs
      /\ foreign' = foreign
  BY LearnedIds DEF RequestOutput, Return, IdsInv, Loaders
<1>2. UNCHANGED <<loads, m_modelCounter, m_models>> /\ Models!Loaded' = Models!Loaded
      /\ \A model, mine : Denotes(model, mine)' <=> Denotes(model, mine)
  BY DEF RequestOutput, modelVars, Models!Loaded
<1>3. /\ m_outputCounter < MaxOutputs
      /\ m_outputCounter \in Nat /\ m_outputCounter < RC_InputError
  BY BoundsAreNumbers DEF RequestOutput, IdsInv, IdsBelowError
<1>4. CASE UNCHANGED outputVars
  <2>1. result = RC_InputError /\ Outputs!Cached' = Outputs!Cached
        /\ m_outputCounter' = m_outputCounter
    BY <1>4 DEF outputVars, Outputs!Cached
  <2> QED BY <1>1, <1>2, <2>1 DEF IdsInv
<1>5. CASE /\ m_results' = [id \in Outputs!Kept \cup {m_outputCounter} |->
                              IF id = m_outputCounter THEN Outputs!Null ELSE m_results[id]]
           /\ m_outputCounter' = Outputs!NextId
  <2>1. m_outputCounter' = m_outputCounter + 1
    <3>1. (m_outputCounter + 1) % IdMod = m_outputCounter + 1
      BY <1>3, BoundsAreNumbers
    <3> QED BY <1>5, <3>1 DEF Outputs!NextId
  <2>2. result = m_outputCounter
    BY <1>3, <2>1
  <2>3. known'.outputs = known.outputs \cup {m_outputCounter}
    BY <1>1, <1>3, <2>2, BoundsAreNumbers
  <2>4. known'.outputs = 0 .. (m_outputCounter' - 1)
    BY <1>3, <2>1, <2>3 DEF IdsInv
  <2>5. Outputs!Cached' = Outputs!Kept \cup {m_outputCounter}
    BY <1>5 DEF Outputs!Cached
  <2>6. Outputs!Kept \subseteq Outputs!Cached
    BY DEF Outputs!Kept
  <2>7. Outputs!Cached' \subseteq known'.outputs
    BY <2>3, <2>5, <2>6 DEF IdsInv
  <2>8. m_outputCounter' \in 0 .. MaxOutputs
    BY <1>3, <2>1, BoundsAreNumbers
  <2> QED BY <1>1, <1>2, <2>4, <2>7, <2>8 DEF IdsInv
<1> HIDE DEF result
<1> QED BY <1>4, <1>5 DEF RequestOutput, Outputs!RequestOutput, Outputs!vars, outputVars

\* Saving and consuming an output keep the ids.
LEMMA OutputsKeepIds ==
    ASSUME NEW id, \/ UNCHANGED outputVars
                   \/ \E isJson \in BOOLEAN : Outputs!SaveOutput(id, isJson)
                   \/ Outputs!ConsumeOutput(id)
    PROVE  m_outputCounter' = m_outputCounter /\ Outputs!Cached' = Outputs!Cached
<1>1. \A x : DOMAIN [m_results EXCEPT ![id] = x] = DOMAIN m_results
  OBVIOUS
<1> QED BY <1>1 DEF Outputs!SaveOutput, Outputs!ConsumeOutput, Outputs!Cached, Outputs!vars,
        outputVars

\* Everything else leaves the ids of models and outputs alone.
LEMMA IdsKept ==
    ASSUME IdsInv, ModelsKept, foreign' = foreign,
           m_outputCounter' = m_outputCounter, Outputs!Cached' = Outputs!Cached,
           \/ known' = known
           \/ \E f, slots, result :
                 known' = Learned(f, slots, result) /\ f \notin Loaders \cup {"request_output"}
    PROVE  IdsInv'
<1>1. /\ DOMAIN known' = Memories
      /\ known'.models = known.models /\ known'.outputs = known.outputs
  <2>1. CASE known' = known
    BY <2>1 DEF IdsInv
  <2>2. ASSUME NEW f, NEW slots, NEW result,
               known' = Learned(f, slots, result), f \notin Loaders \cup {"request_output"}
        PROVE  /\ DOMAIN known' = Memories
               /\ known'.models = known.models /\ known'.outputs = known.outputs
    BY <2>2, LearnedIds DEF IdsInv
  <2> QED BY <2>1, <2>2
<1>2. \A id \in DOMAIN known'.models : Denotes(m_models'[id], known'.models[id])
  BY <1>1 DEF IdsInv, ModelsKept, SameModel, Denotes
<1> QED BY <1>1, <1>2 DEF IdsInv, ModelsKept

LEMMA IdsStep ==
    ASSUME IdsBelowError, Outputs!TypeOK, Models!TypeOK
    PROVE  IdsInv /\ [HostNext]_hostVars => IdsInv'
<1> SUFFICES ASSUME IdsInv, [HostNext]_hostVars PROVE IdsInv'
  OBVIOUS
<1> DEFINE OutputsKept == m_outputCounter' = m_outputCounter /\ Outputs!Cached' = Outputs!Cached
<1>1. UNCHANGED modelVars => ModelsKept
  BY ModelsUnchanged
<1>2. UNCHANGED outputVars => OutputsKept
  BY DEF outputVars, Outputs!Cached
<1>3. CASE LinkAll \/ ManifestReturns \/ StartCall \/ Trap \/ UNCHANGED hostVars
  <2>1. UNCHANGED modelVars /\ UNCHANGED outputVars /\ known' = known /\ foreign' = foreign
    BY <1>3 DEF LinkAll, ManifestReturns, StartCall, Trap, hostVars
  <2> QED BY <1>1, <1>2, <2>1, IdsKept
<1>4. CASE CallReturns
  <2>1. /\ UNCHANGED modelVars /\ known' = known /\ foreign' = foreign
        /\ Outputs!ConsumeOutput(m_lastSavedId)
    BY <1>4 DEF CallReturns
  <2>2. OutputsKept
    BY <2>1, OutputsKeepIds
  <2> QED BY <1>1, <2>1, <2>2, IdsKept
<1>5. ASSUME NEW f, NEW slots, AskOrRefuse(f, slots), f \notin Loaders \cup {"request_output"},
             UNCHANGED <<outputVars, modelVars>>
      PROVE  IdsInv'
  BY <1>1, <1>2, <1>5, IdsKept DEF AskOrRefuse, Return
<1>6. ASSUME NEW slots, \/ RequestCapability(slots) \/ RequestCapabilitySetParam(slots)
                        \/ RequestProviderResponse(slots)
      PROVE  IdsInv'
  <2>1. PICK f \in {"request_capability", "request_capability_set_param",
                    "request_provider_response"} :
           AskOrRefuse(f, slots) /\ UNCHANGED <<outputVars, modelVars>>
    BY <1>6 DEF RequestCapability, RequestCapabilitySetParam, RequestProviderResponse
  <2> QED BY <1>5, <2>1 DEF Loaders
<1>7. ASSUME NEW f, NEW slots, NEW result, Return(f, slots, result),
             f \notin Loaders \cup {"request_output"}, ModelsKept, OutputsKept
      PROVE  IdsInv'
  BY <1>7, IdsKept DEF Return
<1>8. ASSUME NEW accepted,
             CapabilityAnswer(accepted) \/ SetParamAnswer(accepted) \/ ProviderAnswer(accepted)
      PROVE  IdsInv'
  <2>1. PICK f, result :
             /\ f \in {"request_capability", "request_capability_set_param",
                       "request_provider_response"}
             /\ Return(f, pending, result)
    BY <1>8 DEF CapabilityAnswer, SetParamAnswer, ProviderAnswer
  <2>2. UNCHANGED <<outputVars, modelVars>>
    BY <1>8 DEF CapabilityAnswer, SetParamAnswer, ProviderAnswer
  <2> QED BY <1>1, <1>2, <1>7, <2>1, <2>2 DEF Loaders
<1>9. ASSUME NEW slots, RequestOutput(slots) PROVE IdsInv'
  BY <1>9, OutputAnswer
<1>10. ASSUME NEW slots, ConsumeOutput(slots) PROVE IdsInv'
  <2>1. PICK result : Return("consume_output", slots, result)
    BY <1>10 DEF ConsumeOutput
  <2>2. UNCHANGED modelVars /\ \E id : \/ UNCHANGED outputVars
                                       \/ \E isJson \in BOOLEAN : Outputs!SaveOutput(id, isJson)
    BY <1>10 DEF ConsumeOutput
  <2>3. OutputsKept
    BY <2>2, OutputsKeepIds
  <2> QED BY <1>1, <1>7, <2>1, <2>2, <2>3 DEF Loaders
<1>11. ASSUME NEW slots, Debug(slots) PROVE IdsInv'
  <2>1. PICK result : Return("_debug", slots, result)
    BY <1>11 DEF Debug
  <2>2. UNCHANGED <<outputVars, modelVars>>
    BY <1>11 DEF Debug
  <2> QED BY <1>1, <1>2, <1>7, <2>1, <2>2 DEF Loaders
<1>12. ASSUME NEW slots, TfmPreloadModel(slots) PROVE IdsInv'
  <2>1. Return("tfm_preload_model", slots, LoadResult) /\ UNCHANGED outputVars
    BY <1>12 DEF TfmPreloadModel
  <2>2. CASE UNCHANGED modelVars
    BY <1>1, <2>1, <2>2, ModelAnswer DEF Loaders
  <2>3. CASE Models!TfmPreloadModel(BlobAt[slots[1]])
    <3>1. LoadedBy("tfm_preload_model", slots) =
             [blob |-> BlobAt[slots[1]], inputs |-> <<>>, outputs |-> <<>>]
      BY DEF LoadedBy
    <3>2. ModelsKept \/ ModelAdded(LoadedBy("tfm_preload_model", slots))
      BY <2>3, <3>1, PreloadAdds
    <3> QED BY <2>1, <3>2, ModelAnswer DEF Loaders
  <2>4. Args("tfm_preload_model", slots)[1].at = slots[1]
    <3>1. Args("tfm_preload_model", slots)[1] = View(slots, 1)
      BY PreloadModelArgs
    <3> QED BY <3>1 DEF View
  <2> QED BY <1>12, <2>2, <2>3, <2>4 DEF TfmPreloadModel
<1>13. ASSUME NEW slots, RuneModelLoad(slots) PROVE IdsInv'
  <2> DEFINE mine == LoadedBy("rune_model_load", slots)
  <2>1. Return("rune_model_load", slots, LoadResult) /\ UNCHANGED outputVars
    BY <1>13 DEF RuneModelLoad
  <2>2. mine = [blob    |-> BlobAt[slots[3]],
                inputs  |-> Strings(View(slots, 5)), outputs |-> Strings(View(slots, 7))]
    BY DEF LoadedBy, View
  <2>3. Models!RuneModelLoad(BlobAt[slots[3]], Strings(View(slots, 5)), Strings(View(slots, 7)))
    <3>1. View(slots, 3).at = slots[3]
      BY DEF View
    <3> QED BY <1>13, <3>1, ModelLoadArgs DEF RuneModelLoad
  <2>4. ModelsKept \/ ModelAdded(mine)
    BY <2>2, <2>3, DescribedLoadAdds
  <2> QED BY <2>1, <2>4, ModelAnswer DEF Loaders
<1>14. ASSUME NEW slots, TfmModelInvoke(slots) \/ RuneModelInfer(slots) PROVE IdsInv'
  <2>1. PICK f \in {"tfm_model_invoke", "rune_model_infer"} : Return(f, slots, RunResult)
    BY <1>14 DEF TfmModelInvoke, RuneModelInfer
  <2>2. PICK id, input, output :
           Models!TfmModelInvoke(id, input, output) \/ Models!RuneModelInfer(id)
    BY <1>14 DEF TfmModelInvoke, RuneModelInfer
  <2>3. ModelsKept /\ UNCHANGED outputVars
    BY <1>14, <2>2, RunKeepsIds DEF TfmModelInvoke, RuneModelInfer
  <2> QED BY <1>2, <1>7, <2>1, <2>3 DEF Loaders
<1>15. ASSUME NEW id, NEW available, EmbedderSetsAvailability(id, available) PROVE IdsInv'
  <2>1. UNCHANGED modelVars /\ UNCHANGED outputVars /\ known' = known /\ foreign' = foreign
    BY <1>15 DEF EmbedderSetsAvailability
  <2> QED BY <1>1, <1>2, <2>1, IdsKept
<1>16. CASE OtherRunes
  BY <1>16, OthersKeepIds
<1> HIDE DEF OutputsKept
<1> QED
  BY <1>3, <1>4, <1>6, <1>8, <1>9, <1>10, <1>11, <1>12, <1>13, <1>14, <1>15, <1>16 DEF HostNext

\* As long as no counter of the engine's models or of the rune's outputs reaches
\* the error code, the wasm knows exactly the ids that it was given, and each
\* model among them stays the one it loaded, whatever other runes of the engine
\* load and run: a refusal never looks like an id nor an id like a refusal, and
\* no two runes are given one id, over all loads, requests and their failures
\* (HostFunctions.cpp:193-222, 262-278, 323-359, Wasm3Runtime.cpp:124-125).
THEOREM IdsAreKnown ==
    ASSUME IdsBelowError
    PROVE  HostSpec => []WasmKnowsItsIds
<1>1. HostInit => IdsInv
  BY BoundsAreNumbers DEF HostInit, IdsInv, Memories, Outputs!Init, Models!Init,
     Models!Loaded, Outputs!Cached
<1>2. Outputs!TypeOK /\ Models!TypeOK /\ IdsInv /\ [HostNext]_hostVars => IdsInv'
  BY IdsStep
<1>3. IdsInv => WasmKnowsItsIds
  BY DEF IdsInv, WasmKnowsItsIds
<1> QED BY <1>1, <1>2, <1>3, OutputsTypeCorrect, ModelsTypeCorrect, PTL DEF HostSpec

-----------------------------------------------------------------------------
(* What the wasm knows of its capabilities *)

NoParameters == [k \in {} |-> None]

\* An answer about capabilities, by the slots of its call.
LEMMA LearnedGrant ==
    ASSUME DOMAIN known = Memories, NEW slots, NEW id, id # RC_InputError
    PROVE  Learned("request_capability", slots, id).capabilities =
              With(known.capabilities, id, [capability |-> FromInt.Capability[slots[1]],
                                            parameters |-> NoParameters])
<1>1. \A c : [known EXCEPT !.capabilities = c].capabilities = c
  BY DEF Memories
<1>2. Learned("request_capability", slots, id) =
         [known EXCEPT !.capabilities =
              With(@, id, [capability |-> FromInt.Capability[slots[1]],
                           parameters |-> NoParameters])]
  BY DEF Learned, NoParameters
<1> QED BY <1>1, <1>2

LEMMA LearnedParameter ==
    ASSUME DOMAIN known = Memories, NEW slots
    PROVE  Learned("request_capability_set_param", slots, 0).capabilities =
              [known.capabilities EXCEPT ![slots[1]].parameters =
                  With(@, [at |-> slots[2], size |-> slots[3]],
                       [type |-> FromInt.ValueType[slots[6]],
                        at |-> slots[4], size |-> slots[5]])]
<1>1. \A c : [known EXCEPT !.capabilities = c].capabilities = c
  BY DEF Memories
<1>2. Learned("request_capability_set_param", slots, 0) =
         [known EXCEPT !.capabilities[slots[1]].parameters =
              With(@, [at |-> slots[2], size |-> slots[3]],
                   [type |-> FromInt.ValueType[slots[6]], at |-> slots[4], size |-> slots[5]])]
  BY DEF Learned
<1> QED BY <1>1, <1>2

LEMMA LearnedOther ==
    ASSUME DOMAIN known = Memories, NEW f, NEW slots, NEW result,
           ~(f = "request_capability" /\ result # RC_InputError),
           ~(f = "request_capability_set_param" /\ result = 0)
    PROVE  Learned(f, slots, result).capabilities = known.capabilities
<1> USE DEF Memories, Loaders
<1>1. CASE f \in Loaders /\ result # RC_InputError
  BY <1>1 DEF Learned
<1>2. CASE f = "request_output" /\ result # RC_InputError
  BY <1>2 DEF Learned
<1>3. CASE /\ ~(f \in Loaders /\ result # RC_InputError)
           /\ ~(f = "request_output" /\ result # RC_InputError)
  BY <1>3 DEF Learned
<1> QED BY <1>1, <1>2, <1>3

\* What a registry shows to the wasm.
Show(reg) == [id \in DOMAIN reg |-> [capability |-> reg[id].capability,
                                     parameters |-> reg[id].parameters]]

LEMMA ShowWith ==
    ASSUME NEW reg, NEW id, NEW data
    PROVE  Show(With(reg, id, data)) =
              With(Show(reg), id, [capability |-> data.capability, parameters |-> data.parameters])
BY DEF Show, With

LEMMA ShowParameters ==
    ASSUME NEW reg, NEW id \in DOMAIN reg, reg[id] \in CapabilityData, NEW map
    PROVE  Show([reg EXCEPT ![id].parameters = map]) = [Show(reg) EXCEPT ![id].parameters = map]
<1> DEFINE new == [reg[id] EXCEPT !.parameters = map]
           row == [capability |-> reg[id].capability, parameters |-> reg[id].parameters]
<1>1. new.capability = reg[id].capability /\ new.parameters = map
  BY FieldsKept
<1>2. [row EXCEPT !.parameters = map] = [capability |-> new.capability, parameters |-> new.parameters]
  BY <1>1
<1>3. Show(reg)[id] = row
  BY DEF Show
<1> HIDE DEF new
<1>4. Show([reg EXCEPT ![id] = new]) =
         [Show(reg) EXCEPT ![id] = [capability |-> new.capability, parameters |-> new.parameters]]
  BY DEF Show
<1> QED BY <1>2, <1>3, <1>4 DEF new

LEMMA ShowAvailability ==
    ASSUME NEW reg, NEW id \in DOMAIN reg, reg[id] \in CapabilityData, NEW available
    PROVE  Show([reg EXCEPT ![id].availability = available]) = Show(reg)
<1> DEFINE new == [reg[id] EXCEPT !.availability = available]
<1>1. new.capability = reg[id].capability /\ new.parameters = reg[id].parameters
  BY FieldsKept
<1> HIDE DEF new
<1>2. Show([reg EXCEPT ![id] = new]) = Show(reg)
  BY <1>1 DEF Show
<1> QED BY <1>2 DEF new

LEMMA RegistryType == TypeOK => RegistryState \in [Known -> CapabilityData]
<1> SUFFICES ASSUME TypeOK, NEW id \in Known PROVE Settled(id) \in CapabilityData
  BY DEF RegistryState
<1> DEFINE data == m_capabilityData[id]
<1>1. data \in CapabilityData
  BY DEF TypeOK
<1>2. Without(Params(id), frame.key) \in ParamMap
  BY <1>1, WithoutType DEF CapabilityData, ParamMap, Params
<1>3. [data EXCEPT !.parameters = Without(Params(id), frame.key)] \in CapabilityData
  <2> HIDE DEF data
  <2> QED BY <1>1, <1>2 DEF CapabilityData, ParamMap
<1> QED BY <1>1, <1>3 DEF Settled

\* The slots of the call that waits say what its delegate is asked.
PendingMatches ==
    /\ frame.kind = "grant" => frame.capability = FromInt.Capability[pending[1]]
    /\ frame.kind = "param" =>
          /\ frame.id = pending[1]
          /\ frame.key = View(pending, 2)
          /\ frame.param = [type |-> FromInt.ValueType[pending[6]],
                            at |-> pending[4], size |-> pending[5]]

MemoryInv ==
    /\ DOMAIN known = Memories
    /\ known.capabilities = Show(RegistryState)
    /\ PendingMatches

\* No steps of others disturb what the wasm knows.
LEMMA MemoryKept ==
    ASSUME MemoryInv, RegistryState' = RegistryState,
           PendingMatches',
           \/ known' = known
           \/ \E f, slots, result :
                 /\ known' = Learned(f, slots, result)
                 /\ ~(f = "request_capability" /\ result # RC_InputError)
                 /\ ~(f = "request_capability_set_param" /\ result = 0)
    PROVE  MemoryInv'
<1>1. DOMAIN known' = Memories /\ known'.capabilities = known.capabilities
  <2>1. CASE known' = known
    BY <2>1 DEF MemoryInv
  <2>2. ASSUME NEW f, NEW slots, NEW result, known' = Learned(f, slots, result),
               ~(f = "request_capability" /\ result # RC_InputError),
               ~(f = "request_capability_set_param" /\ result = 0)
        PROVE  DOMAIN known' = Memories /\ known'.capabilities = known.capabilities
    BY <2>2, LearnedIds, LearnedOther DEF MemoryInv
  <2> QED BY <2>1, <2>2
<1>2. Show(RegistryState)' = Show(RegistryState)
  BY DEF Show
<1> QED BY <1>1, <1>2 DEF MemoryInv

\* A refused call is not remembered, one that waits has left its slots.
LEMMA AskKeepsMemory ==
    ASSUME MemoryInv, RegistryState' = RegistryState, NEW f, NEW slots, AskOrRefuse(f, slots),
           /\ frame'.kind = "grant" => frame'.capability = FromInt.Capability[slots[1]]
           /\ frame'.kind = "param" =>
                 /\ frame'.id = slots[1]
                 /\ frame'.key = View(slots, 2)
                 /\ frame'.param = [type |-> FromInt.ValueType[slots[6]],
                                    at |-> slots[4], size |-> slots[5]]
    PROVE  MemoryInv'
<1>1. CASE frame' = None /\ Return(f, slots, RC_InputError)
  <2>1. PendingMatches'
    BY <1>1 DEF PendingMatches, None
  <2>2. known' = Learned(f, slots, RC_InputError) /\ RC_InputError # 0
    BY <1>1, BoundsAreNumbers DEF Return
  <2> QED BY <2>1, <2>2, MemoryKept
<1>2. CASE frame' # None /\ pending' = slots /\ known' = known
  <2>1. PendingMatches'
    BY <1>2 DEF PendingMatches, View
  <2> QED BY <1>2, <2>1, MemoryKept
<1> QED BY <1>1, <1>2 DEF AskOrRefuse

\* An unchanged manager keeps the registry.
LEMMA RegistryUnchanged == UNCHANGED vars => RegistryState' = RegistryState
BY DEF vars, RegistryState, Settled, Params, Known

LEMMA RequestKeepsMemory ==
    ASSUME TypeOK, TypeOK', MemoryInv, NEW slots, RequestCapability(slots)
    PROVE  MemoryInv'
<1>1. /\ CreateCapability(FromInt.Capability[slots[1]])
      /\ AskOrRefuse("request_capability", slots)
  BY RequestCapabilityArgs DEF RequestCapability, Calls
<1>2. CASE UNCHANGED vars
  <2>1. frame' = None
    BY <1>1, <1>2 DEF CreateCapability, vars
  <2> QED BY <1>1, <1>2, <2>1, RegistryUnchanged, AskKeepsMemory DEF None
<1>3. CASE ~UNCHANGED vars
  <2>1. /\ frame = None /\ m_capabilityData' = m_capabilityData
        /\ frame'.kind = "grant" /\ frame'.capability = FromInt.Capability[slots[1]]
    BY <1>1, <1>3 DEF CreateCapability
  <2>2. RegistryState' = RegistryState
    BY <2>1, RegistryMovesWithData DEF None
  <2> QED BY <1>1, <2>1, <2>2, AskKeepsMemory
<1> QED BY <1>2, <1>3

LEMMA SetParamKeepsMemory ==
    ASSUME TypeOK, TypeOK', HeldInv', MemoryInv,
           NEW slots \in Passed.request_capability_set_param, RequestCapabilitySetParam(slots)
    PROVE  MemoryInv'
<1> DEFINE key   == View(slots, 2)
           value == View(slots, 4)
           type  == FromInt.ValueType[slots[6]]
           param == ReadParameter(value, type)
<1>1. /\ AskOrRefuse("request_capability_set_param", slots)
      /\ frame = None
      /\ Converts("request_capability_set_param", slots)
      /\ \/ UNCHANGED vars
         \/ value.size = SizeOf[type] /\ SetCapabilityParam(slots[1], key, param)
  BY SetParamArgs DEF RequestCapabilitySetParam, Calls
<1>2. CASE UNCHANGED vars
  <2>1. frame' = None
    BY <1>1, <1>2 DEF vars
  <2> QED BY <1>1, <1>2, <2>1, RegistryUnchanged, AskKeepsMemory DEF None
<1>3. CASE ~UNCHANGED vars
  <2>1. value.size = SizeOf[type] /\ SetCapabilityParam(slots[1], key, param)
    BY <1>1, <1>3
  <2>2. /\ frame'.kind = "param" /\ frame'.id = slots[1] /\ frame'.key = key
        /\ frame'.param = param
    BY <1>3, <2>1 DEF SetCapabilityParam
  <2>3. value.at = slots[4] /\ value.size = slots[5]
    BY DEF View
  <2>4. param = [type |-> type, at |-> slots[4], size |-> slots[5]]
    BY <2>1, <2>3 DEF ReadParameter
  <2>5. key \in Key /\ param \in Param
    BY <1>1, SetParamArgsType
  <2> HIDE DEF key, param, type, value
  <2>6. RegistryState' = RegistryState
    BY <2>1, <2>5, ParamQuestionKeepsRegistry
  <2> QED BY <1>1, <2>2, <2>4, <2>6, AskKeepsMemory DEF key, type
<1> QED BY <1>2, <1>3

LEMMA ProviderKeepsMemory ==
    ASSUME TypeOK, TypeOK', MemoryInv, NEW slots, RequestProviderResponse(slots)
    PROVE  MemoryInv'
<1>1. /\ AskOrRefuse("request_provider_response", slots)
      /\ frame = None
      /\ UNCHANGED vars \/ \E id : GetInput(id, FALSE)
  BY DEF RequestProviderResponse, Calls
<1>2. /\ frame' = None \/ frame'.kind = "input"
      /\ m_capabilityData' = m_capabilityData
  BY <1>1 DEF GetInput, vars
<1>3. RegistryState' = RegistryState
  BY <1>1, <1>2, RegistryMovesWithData DEF None
<1>4. frame'.kind # "grant" /\ frame'.kind # "param"
  BY <1>2 DEF None
<1> QED BY <1>1, <1>3, <1>4, AskKeepsMemory

\* While the bound keeps the ids below the error code, the id of a granted
\* capability is not taken for a refusal.
CapabilitiesBelowError == MaxGrants < RC_InputError

LEMMA GrantIsRemembered ==
    ASSUME CapabilitiesBelowError, TypeOK, TypeOK', NumberingInv, MemoryInv,
           NEW granted \in BOOLEAN, CapabilityAnswer(granted)
    PROVE  MemoryInv'
<1> DEFINE result == IF granted THEN frame.id ELSE RC_InputError
<1>1. /\ RequestCapabilityReply(granted)
      /\ known' = Learned("request_capability", pending, result)
      /\ frame.kind = "grant" /\ frame' = None
  BY DEF CapabilityAnswer, Return, RequestCapabilityReply
<1>2. RegistryState = m_capabilityData /\ RegistryState' = m_capabilityData'
  BY <1>1, RegistryMovesWithData DEF None
<1>3. PendingMatches'
  BY <1>1 DEF PendingMatches, None
<1>4. CASE ~granted
  <2>1. RegistryState' = RegistryState
    BY <1>1, <1>2, <1>4 DEF RequestCapabilityReply
  <2> QED BY <1>1, <1>3, <1>4, <2>1, MemoryKept
<1>5. CASE granted
  <2> DEFINE id == frame.id
             data == [capability   |-> frame.capability,
                      owner        |-> frame.to,
                      parameters   |-> NoParameters,
                      availability |-> TRUE]
             row == [capability |-> data.capability, parameters |-> data.parameters]
  <2>1. m_capabilityData' = With(m_capabilityData, id, data) /\ grants < MaxGrants
    BY <1>1, <1>5 DEF RequestCapabilityReply, NoParameters
  <2>2. id # RC_InputError
    BY <1>1, <2>1, BoundsAreNumbers, CapabilityAssumption
       DEF NumberingInv, TypeOK, CapabilitiesBelowError
  <2>3. Show(RegistryState)' = With(Show(RegistryState), id, row)
    <3>1. Show(m_capabilityData') = With(Show(m_capabilityData), id, row)
      BY <2>1, ShowWith
    <3> QED BY <1>2, <3>1
  <2>4. row = [capability |-> FromInt.Capability[pending[1]], parameters |-> NoParameters]
    BY <1>1 DEF MemoryInv, PendingMatches
  <2>5. known'.capabilities = With(known.capabilities, id, row)
    <3>1. known' = Learned("request_capability", pending, id) /\ DOMAIN known = Memories
      BY <1>1, <1>5 DEF MemoryInv
    <3> HIDE DEF id, row
    <3>2. known'.capabilities =
             With(known.capabilities, id, [capability |-> FromInt.Capability[pending[1]],
                                           parameters |-> NoParameters])
      BY <2>2, <3>1, LearnedGrant
    <3> QED BY <2>4, <3>2
  <2>6. DOMAIN known' = Memories
    BY <1>1, LearnedIds DEF MemoryInv
  <2> QED BY <1>3, <2>3, <2>5, <2>6 DEF MemoryInv
<1> QED BY <1>4, <1>5

LEMMA ParameterIsRemembered ==
    ASSUME TypeOK, TypeOK', HeldInv, MemoryInv, NEW accepted \in BOOLEAN, SetParamAnswer(accepted)
    PROVE  MemoryInv'
<1>1. /\ ParamChangeReply(accepted)
      /\ known' = Learned("request_capability_set_param", pending, SetParamResult(accepted))
      /\ frame.kind = "param" /\ frame' = None
  BY DEF SetParamAnswer, Return, ParamChangeReply
<1>2. PendingMatches'
  BY <1>1 DEF PendingMatches, None
<1>3. /\ frame.id \in Known
      /\ RegistryState' =
            IF accepted
            THEN [RegistryState EXCEPT ![frame.id].parameters =
                     With(RegistryState[frame.id].parameters, frame.key, frame.param)]
            ELSE RegistryState
  BY <1>1, ParamReplySetsRegistry
<1>4. CASE ~accepted
  <2>1. SetParamResult(accepted) # 0
    BY <1>4, BoundsAreNumbers DEF SetParamResult
  <2> QED BY <1>1, <1>2, <1>3, <1>4, <2>1, MemoryKept
<1>5. CASE accepted
  <2> DEFINE id  == frame.id
             map == With(RegistryState[id].parameters, frame.key, frame.param)
  <2>1. RegistryState[id] \in CapabilityData /\ id \in DOMAIN RegistryState
    BY <1>3, RegistryType
  <2>2. Show(RegistryState)' = [Show(RegistryState) EXCEPT ![id].parameters = map]
    <3>1. RegistryState' = [RegistryState EXCEPT ![id].parameters = map]
      BY <1>3, <1>5
    <3>2. Show([RegistryState EXCEPT ![id].parameters = map]) =
             [Show(RegistryState) EXCEPT ![id].parameters = map]
      BY <2>1, ShowParameters
    <3> QED BY <3>1, <3>2
  <2>3. /\ id = pending[1]
        /\ frame.key = [at |-> pending[2], size |-> pending[3]]
        /\ frame.param = [type |-> FromInt.ValueType[pending[6]],
                          at |-> pending[4], size |-> pending[5]]
    BY <1>1 DEF MemoryInv, PendingMatches, View
  <2>4. SetParamResult(accepted) = 0
    BY <1>5 DEF SetParamResult
  <2>5. known'.capabilities = [known.capabilities EXCEPT ![id].parameters =
                                 With(@, frame.key, frame.param)]
    <3>1. known' = Learned("request_capability_set_param", pending, 0) /\ DOMAIN known = Memories
      BY <1>1, <2>4 DEF MemoryInv
    <3>2. known'.capabilities = [known.capabilities EXCEPT ![pending[1]].parameters =
             With(@, [at |-> pending[2], size |-> pending[3]],
                  [type |-> FromInt.ValueType[pending[6]],
                   at |-> pending[4], size |-> pending[5]])]
      BY <3>1, LearnedParameter
    <3> HIDE DEF id
    <3> QED BY <2>3, <3>2
  <2>6. known.capabilities[id].parameters = RegistryState[id].parameters
    BY <2>1 DEF MemoryInv, Show
  <2>7. known'.capabilities = [Show(RegistryState) EXCEPT ![id].parameters = map]
    BY <2>5, <2>6 DEF MemoryInv
  <2>8. DOMAIN known' = Memories
    BY <1>1, LearnedIds DEF MemoryInv
  <2> QED BY <1>2, <2>2, <2>7, <2>8 DEF MemoryInv
<1> QED BY <1>4, <1>5

LEMMA InputKeepsMemory ==
    ASSUME TypeOK, TypeOK', MemoryInv, NEW accepted \in BOOLEAN, ProviderAnswer(accepted)
    PROVE  MemoryInv'
<1>1. PICK result : known' = Learned("request_provider_response", pending, result)
  BY DEF ProviderAnswer, Return
<1>2. frame.kind = "input" /\ frame' = None /\ m_capabilityData' = m_capabilityData
  BY DEF ProviderAnswer, InputReply
<1>3. RegistryState' = RegistryState
  BY <1>2, RegistryMovesWithData DEF None
<1>4. PendingMatches'
  BY <1>2 DEF PendingMatches, None
<1> QED BY <1>1, <1>3, <1>4, MemoryKept

LEMMA AvailabilityKeepsMemory ==
    ASSUME TypeOK, MemoryInv, NEW id \in CapabilityId, NEW available \in BOOLEAN,
           EmbedderSetsAvailability(id, available)
    PROVE  MemoryInv'
<1>1. /\ SetCapabilityAvailability(id, available)
      /\ UNCHANGED <<frame, pending, known>>
  BY DEF EmbedderSetsAvailability, SetCapabilityAvailability, vars
<1>2. RegistryState' = IF id \in Known
                       THEN [RegistryState EXCEPT ![id].availability = available]
                       ELSE RegistryState
  BY <1>1, AvailabilitySetsRegistry
<1>3. id \in Known => RegistryState[id] \in CapabilityData /\ id \in DOMAIN RegistryState
  BY RegistryType
<1>4. Show(RegistryState)' = Show(RegistryState)
  <2>1. CASE id \in Known
    <3>1. Show([RegistryState EXCEPT ![id].availability = available]) = Show(RegistryState)
      BY <1>3, <2>1, ShowAvailability
    <3> QED BY <1>2, <2>1, <3>1
  <2>2. CASE id \notin Known
    BY <1>2, <2>2
  <2> QED BY <2>1, <2>2
<1> QED BY <1>1, <1>4 DEF MemoryInv, PendingMatches

LEMMA MemoryStep ==
    ASSUME CapabilitiesBelowError
    PROVE  /\ TypeOK /\ TypeOK' /\ HeldInv /\ HeldInv' /\ NumberingInv
           /\ MemoryInv /\ [HostNext]_hostVars
           => MemoryInv'
<1> SUFFICES ASSUME TypeOK, TypeOK', HeldInv, HeldInv', NumberingInv,
                    MemoryInv, [HostNext]_hostVars
             PROVE  MemoryInv'
  OBVIOUS
<1>1. ASSUME UNCHANGED vars,
             \/ UNCHANGED <<pending, known>>
             \/ /\ frame = None
                /\ \E f, slots, result :
                      /\ Return(f, slots, result)
                      /\ f \notin {"request_capability", "request_capability_set_param"}
      PROVE  MemoryInv'
  <2>1. RegistryState' = RegistryState /\ frame' = frame
    BY <1>1, RegistryUnchanged DEF vars
  <2>2. CASE UNCHANGED <<pending, known>>
    <3>1. PendingMatches'
      BY <2>1, <2>2 DEF MemoryInv, PendingMatches
    <3> QED BY <2>1, <2>2, <3>1, MemoryKept
  <2>3. ASSUME frame = None, NEW f, NEW slots, NEW result, Return(f, slots, result),
               f \notin {"request_capability", "request_capability_set_param"}
        PROVE  MemoryInv'
    <3>1. PendingMatches'
      BY <2>1, <2>3 DEF PendingMatches, None
    <3> QED BY <2>1, <2>3, <3>1, MemoryKept DEF Return
  <2> QED BY <1>1, <2>2, <2>3
<1>2. CASE LinkAll \/ StartCall \/ CallReturns \/ Trap \/ OtherRunes \/ UNCHANGED hostVars
  BY <1>1, <1>2 DEF LinkAll, StartCall, CallReturns, Trap, OtherRunes, hostVars
<1>3. CASE ManifestReturns
  <2>1. /\ frame = None /\ frame' = None /\ m_capabilityData' = m_capabilityData
        /\ known' = known
    BY <1>3 DEF ManifestReturns, LoadRuneReturns
  <2>2. RegistryState' = RegistryState
    BY <2>1, RegistryMovesWithData DEF None
  <2>3. PendingMatches'
    BY <2>1 DEF PendingMatches, None
  <2> QED BY <2>1, <2>2, <2>3, MemoryKept
<1>4. ASSUME NEW slots \in Passed.request_capability, RequestCapability(slots) PROVE MemoryInv'
  BY <1>4, RequestKeepsMemory
<1>5. ASSUME NEW slots \in Passed.request_capability_set_param, RequestCapabilitySetParam(slots)
      PROVE  MemoryInv'
  BY <1>5, SetParamKeepsMemory
<1>6. ASSUME NEW slots \in Passed.request_provider_response, RequestProviderResponse(slots)
      PROVE  MemoryInv'
  BY <1>6, ProviderKeepsMemory
<1>7. ASSUME NEW accepted \in BOOLEAN,
             CapabilityAnswer(accepted) \/ SetParamAnswer(accepted) \/ ProviderAnswer(accepted)
      PROVE  MemoryInv'
  BY <1>7, GrantIsRemembered, ParameterIsRemembered, InputKeepsMemory
<1>8. ASSUME NEW slots, \/ RequestOutput(slots) \/ ConsumeOutput(slots) \/ Debug(slots)
                        \/ TfmPreloadModel(slots) \/ RuneModelLoad(slots)
                        \/ TfmModelInvoke(slots) \/ RuneModelInfer(slots)
      PROVE  MemoryInv'
  <2>1. UNCHANGED vars /\ frame = None
    BY <1>8 DEF RequestOutput, ConsumeOutput, Debug, TfmPreloadModel, RuneModelLoad,
        TfmModelInvoke, RuneModelInfer, Calls
  <2>2. \E f, result :
           /\ f \in {"request_output", "consume_output", "_debug", "tfm_preload_model",
                     "rune_model_load", "tfm_model_invoke", "rune_model_infer"}
           /\ Return(f, slots, result)
    BY <1>8 DEF RequestOutput, ConsumeOutput, Debug, TfmPreloadModel, RuneModelLoad,
        TfmModelInvoke, RuneModelInfer
  <2> QED BY <1>1, <2>1, <2>2
<1>9. ASSUME NEW id \in CapabilityId, NEW available \in BOOLEAN,
             EmbedderSetsAvailability(id, available)
      PROVE  MemoryInv'
  BY <1>9, AvailabilityKeepsMemory
<1> QED BY <1>2, <1>3, <1>4, <1>5, <1>6, <1>7, <1>8, <1>9 DEF HostNext

\* Whenever no delegate is being asked, the wasm knows from its answers which
\* capabilities its rune has, of what kind, and the value of each of their
\* parameters, exactly as the embedder sees them, if no id reaches the error
\* code (HostFunctions.cpp:75-190 with CapabilitiesDelegatesManager.cpp:75-173).
THEOREM CapabilitiesAreKnown ==
    ASSUME CapabilitiesBelowError
    PROVE  HostSpec => []WasmKnowsItsCapabilities
<1>1. HostInit => MemoryInv
  <2> SUFFICES ASSUME HostInit PROVE MemoryInv
    OBVIOUS
  <2>1. /\ Known = {} /\ frame = None
        /\ known = [capabilities |-> [id \in {} |-> None], models |-> [id \in {} |-> None],
                    outputs |-> {}]
    BY DEF HostInit, Init, Known
  <2>2. Show(RegistryState) = [id \in {} |-> None]
    BY <2>1 DEF Show, RegistryState
  <2> QED BY <2>1, <2>2 DEF MemoryInv, PendingMatches, Memories, None
<1>2. /\ TypeOK /\ TypeOK' /\ HeldInv /\ HeldInv' /\ NumberingInv
      /\ MemoryInv /\ [HostNext]_hostVars
      => MemoryInv'
  BY MemoryStep
<1>3. TypeOK /\ MemoryInv => WasmKnowsItsCapabilities
  <2> SUFFICES ASSUME TypeOK, MemoryInv, frame = None PROVE WasmKnowsItsCapabilities
    BY DEF WasmKnowsItsCapabilities
  <2>1. RegistryState = m_capabilityData
    BY RegistryIsData DEF None
  <2> QED BY <2>1 DEF MemoryInv, Show, WasmKnowsItsCapabilities, Known, Params
<1>4. Spec => []NumberingInv
  <2>1. MaxGrants < IdMod
    BY BoundsAreNumbers, CapabilityAssumption DEF CapabilitiesBelowError
  <2> QED BY <2>1, NumberingInvariant
<1> QED BY <1>1, <1>2, <1>3, <1>4, DrivesCapabilities, TypeCorrect, HeldInvariant, PTL
        DEF HostSpec

-----------------------------------------------------------------------------
(* Types *)

\* A delegate is being asked exactly while the slots of its call wait.
CallInv ==
    /\ imports \in Imports
    /\ phase \in {"linking", "wasm", "idle", "failed"}
    /\ pending \in (UNION {Passed[f] : f \in DOMAIN Passed}) \cup {<<>>}
    /\ pending # <<>> <=> frame # None

LEMMA PassedSlots ==
    ASSUME NEW f \in DOMAIN Parameters, NEW slots \in Passed[f]
    PROVE  slots # <<>> /\ slots \in UNION {Passed[g] : g \in DOMAIN Passed}
<1>1. DOMAIN Parameters \subseteq DOMAIN Passed /\ \A g \in DOMAIN Passed : <<>> \notin Passed[g]
  BY HostAssumption
<1> QED BY <1>1

LEMMA ReturnKeepsCall ==
    ASSUME CallInv, NEW f, NEW slots, NEW result, Return(f, slots, result), frame' = None
    PROVE  CallInv'
<1>1. pending' = <<>> /\ UNCHANGED <<imports, phase>>
  BY DEF Return
<1>2. imports' \in Imports /\ phase' \in {"linking", "wasm", "idle", "failed"}
  BY <1>1 DEF CallInv
<1>3. pending' \in (UNION {Passed[g] : g \in DOMAIN Passed}) \cup {<<>>}
  BY <1>1
<1>4. pending' # <<>> <=> frame' # None
  BY <1>1
<1> QED BY <1>2, <1>3, <1>4 DEF CallInv

LEMMA AskKeepsCall ==
    ASSUME CallInv, NEW f \in DOMAIN Parameters, NEW slots \in Passed[f], AskOrRefuse(f, slots)
    PROVE  CallInv'
<1>1. slots # <<>> /\ slots \in UNION {Passed[g] : g \in DOMAIN Passed}
  BY PassedSlots
<1>2. CASE \E result : frame' = None /\ Return(f, slots, result)
  BY <1>2, ReturnKeepsCall
<1>3. CASE frame' # None /\ pending' = slots /\ UNCHANGED <<imports, phase>>
  BY <1>1, <1>3 DEF CallInv
<1> QED BY <1>2, <1>3 DEF AskOrRefuse

LEMMA CallStep == CallInv /\ [HostNext]_hostVars => CallInv'
<1> SUFFICES ASSUME CallInv, [HostNext]_hostVars PROVE CallInv'
  OBVIOUS
<1>1. CASE \/ LinkAll \/ ManifestReturns \/ StartCall \/ CallReturns \/ Trap
           \/ OtherRunes \/ UNCHANGED hostVars
  <2>1. phase' \in {"linking", "wasm", "idle", "failed"} /\ UNCHANGED <<imports, pending, frame>>
    BY <1>1 DEF CallInv, LinkAll, ManifestReturns, LoadRuneReturns, StartCall, CallReturns,
       Trap, OtherRunes, hostVars, vars
  <2> QED BY <2>1 DEF CallInv
<1>2. ASSUME NEW f \in {"request_capability", "request_capability_set_param",
                        "request_provider_response"},
             NEW slots \in Passed[f], AskOrRefuse(f, slots)
      PROVE  CallInv'
  BY <1>2, AskKeepsCall DEF Parameters
<1>3. ASSUME NEW accepted \in BOOLEAN,
             CapabilityAnswer(accepted) \/ SetParamAnswer(accepted) \/ ProviderAnswer(accepted)
      PROVE  CallInv'
  <2>1. frame' = None
    BY <1>3 DEF CapabilityAnswer, SetParamAnswer, ProviderAnswer, RequestCapabilityReply,
       ParamChangeReply, InputReply
  <2>2. \E f, result : Return(f, pending, result)
    BY <1>3 DEF CapabilityAnswer, SetParamAnswer, ProviderAnswer
  <2> QED BY <2>1, <2>2, ReturnKeepsCall
<1>4. ASSUME NEW slots,
             \/ RequestOutput(slots) \/ ConsumeOutput(slots) \/ Debug(slots)
             \/ TfmPreloadModel(slots) \/ RuneModelLoad(slots)
             \/ TfmModelInvoke(slots) \/ RuneModelInfer(slots)
      PROVE  CallInv'
  <2>1. frame' = None
    BY <1>4 DEF RequestOutput, ConsumeOutput, Debug, TfmPreloadModel, RuneModelLoad,
       TfmModelInvoke, RuneModelInfer, Calls, vars
  <2>2. \E f, result : Return(f, slots, result)
    BY <1>4 DEF RequestOutput, ConsumeOutput, Debug, TfmPreloadModel, RuneModelLoad,
       TfmModelInvoke, RuneModelInfer
  <2> QED BY <2>1, <2>2, ReturnKeepsCall
<1>5. ASSUME NEW id, NEW available, EmbedderSetsAvailability(id, available) PROVE CallInv'
  BY <1>5 DEF EmbedderSetsAvailability, SetCapabilityAvailability, CallInv, vars
<1> QED BY <1>1, <1>2, <1>3, <1>4, <1>5 DEF HostNext, RequestCapability,
        RequestCapabilitySetParam, RequestProviderResponse

\* Whatever is answered, what the wasm remembers are ids.
KnownInv ==
    /\ DOMAIN known = Memories
    /\ DOMAIN known.capabilities \subseteq CapabilityId
    /\ DOMAIN known.models \subseteq Models!ModelId
    /\ known.outputs \subseteq Outputs!OutputId
    /\ foreign \subseteq Models!ModelId

LEMMA LearnedAreIds ==
    ASSUME KnownInv, NEW f, NEW slots, NEW result,
           f = "request_capability" => result \in CapabilityId,
           f \in Loaders => result \in Models!ModelId,
           f = "request_output" => result \in Outputs!OutputId,
           known' = Learned(f, slots, result), foreign' = foreign
    PROVE  KnownInv'
<1>1. DOMAIN known = Memories
  BY DEF KnownInv
<1>2. /\ DOMAIN known' = Memories
      /\ DOMAIN known'.models \subseteq Models!ModelId /\ known'.outputs \subseteq Outputs!OutputId
  <2>1. /\ DOMAIN known' = Memories
        /\ known'.models = IF f \in Loaders /\ result # RC_InputError
                           THEN With(known.models, result, LoadedBy(f, slots)) ELSE known.models
        /\ known'.outputs = IF f = "request_output" /\ result # RC_InputError
                            THEN known.outputs \cup {result} ELSE known.outputs
    BY <1>1, LearnedIds
  <2>2. DOMAIN known.models \subseteq Models!ModelId /\ known.outputs \subseteq Outputs!OutputId
    BY DEF KnownInv
  <2>3. DOMAIN With(known.models, result, LoadedBy(f, slots)) = DOMAIN known.models \cup {result}
    BY DEF With
  <2> QED BY <2>1, <2>2, <2>3
<1>3. DOMAIN known'.capabilities \subseteq CapabilityId
  <2>1. CASE f = "request_capability" /\ result # RC_InputError
    <3>1. \E c : known'.capabilities = With(known.capabilities, result, c)
      BY <1>1, <2>1, LearnedGrant
    <3>2. DOMAIN known'.capabilities = DOMAIN known.capabilities \cup {result}
      BY <3>1 DEF With
    <3> QED BY <2>1, <3>2 DEF KnownInv
  <2>2. CASE f = "request_capability_set_param" /\ result = 0
    <3>1. DOMAIN known'.capabilities = DOMAIN known.capabilities
      BY <1>1, <2>2, LearnedParameter
    <3> QED BY <3>1 DEF KnownInv
  <2>3. CASE /\ ~(f = "request_capability" /\ result # RC_InputError)
             /\ ~(f = "request_capability_set_param" /\ result = 0)
    BY <1>1, <2>3, LearnedOther DEF KnownInv
  <2> QED BY <2>1, <2>2, <2>3
<1> QED BY <1>2, <1>3 DEF KnownInv

\* The error code, which refusals answer with, has the values of an id.
LEMMA ErrorIsAnId ==
    /\ RC_InputError \in CapabilityId
    /\ RC_InputError \in Models!ModelId
    /\ RC_InputError \in Outputs!OutputId
BY BoundsAreNumbers DEF CapabilityId, Models!ModelId, Outputs!OutputId

LEMMA KnownStep ==
    TypeOK /\ Outputs!TypeOK /\ Models!TypeOK /\ Models!TypeOK' /\ KnownInv /\ [HostNext]_hostVars
    => KnownInv'
<1> SUFFICES ASSUME TypeOK, Outputs!TypeOK, Models!TypeOK, Models!TypeOK', KnownInv,
                    [HostNext]_hostVars
             PROVE  KnownInv'
  OBVIOUS
<1>1. CASE \/ LinkAll \/ ManifestReturns \/ StartCall \/ CallReturns \/ Trap
           \/ UNCHANGED hostVars
           \/ \E id \in CapabilityId, available \in BOOLEAN :
                 EmbedderSetsAvailability(id, available)
  <2>1. known' = known /\ foreign' = foreign
    BY <1>1 DEF LinkAll, ManifestReturns, StartCall, CallReturns, Trap, hostVars,
       EmbedderSetsAvailability
  <2> QED BY <2>1 DEF KnownInv
<1>2. ASSUME NEW slots, \/ RequestCapability(slots) \/ RequestCapabilitySetParam(slots)
                        \/ RequestProviderResponse(slots)
      PROVE  KnownInv'
  <2>1. PICK f \in {"request_capability", "request_capability_set_param",
                    "request_provider_response"} : AskOrRefuse(f, slots)
    BY <1>2 DEF RequestCapability, RequestCapabilitySetParam, RequestProviderResponse
  <2>2. foreign' = foreign /\ (known' = known \/ known' = Learned(f, slots, RC_InputError))
    BY <2>1 DEF AskOrRefuse, Return
  <2>3. CASE known' = known
    BY <2>2, <2>3 DEF KnownInv
  <2> QED BY <2>2, <2>3, ErrorIsAnId, LearnedAreIds
<1>3. ASSUME NEW accepted \in BOOLEAN, CapabilityAnswer(accepted) PROVE KnownInv'
  <2>1. frame.id \in CapabilityId
    BY <1>3 DEF CapabilityAnswer, RequestCapabilityReply, TypeOK, Frame, None
  <2>2. PICK result \in CapabilityId :
           known' = Learned("request_capability", pending, result) /\ foreign' = foreign
    BY <1>3, <2>1, ErrorIsAnId DEF CapabilityAnswer, Return
  <2> QED BY <2>2, LearnedAreIds DEF Loaders
<1>4. ASSUME NEW accepted \in BOOLEAN, SetParamAnswer(accepted) \/ ProviderAnswer(accepted)
      PROVE  KnownInv'
  <2>1. \E f, result : /\ f \in {"request_capability_set_param", "request_provider_response"}
                       /\ known' = Learned(f, pending, result) /\ foreign' = foreign
    BY <1>4 DEF SetParamAnswer, ProviderAnswer, Return
  <2> QED BY <2>1, LearnedAreIds DEF Loaders
<1>5. ASSUME NEW slots, RequestOutput(slots) PROVE KnownInv'
  <2>1. PICK result \in Outputs!OutputId :
           known' = Learned("request_output", slots, result) /\ foreign' = foreign
    BY <1>5, ErrorIsAnId DEF RequestOutput, Return, Outputs!TypeOK
  <2> QED BY <2>1, LearnedAreIds DEF Loaders
<1>6. ASSUME NEW slots, TfmPreloadModel(slots) \/ RuneModelLoad(slots) PROVE KnownInv'
  <2>1. LoadResult \in Models!ModelId
    BY ErrorIsAnId DEF LoadResult, Models!TypeOK
  <2>2. PICK f \in Loaders : known' = Learned(f, slots, LoadResult) /\ foreign' = foreign
    BY <1>6 DEF TfmPreloadModel, RuneModelLoad, Return, Loaders
  <2> QED BY <2>1, <2>2, LearnedAreIds DEF Loaders
<1>7. ASSUME NEW slots, \/ ConsumeOutput(slots) \/ Debug(slots)
                        \/ TfmModelInvoke(slots) \/ RuneModelInfer(slots)
      PROVE  KnownInv'
  <2>1. \E f, result :
           /\ f \in {"consume_output", "_debug", "tfm_model_invoke", "rune_model_infer"}
           /\ known' = Learned(f, slots, result) /\ foreign' = foreign
    BY <1>7 DEF ConsumeOutput, Debug, TfmModelInvoke, RuneModelInfer, Return
  <2> QED BY <2>1, LearnedAreIds DEF Loaders
<1>8. CASE OtherRunes
  <2>1. known' = known /\ foreign' \subseteq foreign \cup Models!Loaded'
    BY <1>8 DEF OtherRunes
  <2>2. Models!Loaded' \subseteq Models!ModelId
    BY DEF Models!TypeOK, Models!ModelId
  <2> QED BY <2>1, <2>2 DEF KnownInv, Models!ModelId
<1> QED BY <1>1, <1>2, <1>3, <1>4, <1>5, <1>6, <1>7, <1>8 DEF HostNext

\* The three managers of a HostContext keep their types behind the host
\* functions, a delegate is asked exactly while a call waits for it, and all
\* that the wasm remembers as an id is one (HostFunctions.hpp:14-41,
\* HostFunctions.cpp:75-420).
THEOREM HostTypeCorrect == HostSpec => []HostTypeOK
<1>1. HostInit => CallInv /\ KnownInv
  <2> SUFFICES ASSUME HostInit PROVE CallInv /\ KnownInv
    OBVIOUS
  <2>1. known = [capabilities |-> [id \in {} |-> None], models |-> [id \in {} |-> None],
                 outputs |-> {}]
        /\ foreign = {}
        /\ frame = None /\ pending = <<>> /\ phase = "linking" /\ imports \in Imports
    BY DEF HostInit, Init
  <2>2. DOMAIN known = Memories /\ DOMAIN known.capabilities = {}
        /\ DOMAIN known.models = {} /\ known.outputs = {}
    BY <2>1 DEF Memories
  <2>3. KnownInv
    BY <2>1, <2>2 DEF KnownInv
  <2>4. pending \in (UNION {Passed[f] : f \in DOMAIN Passed}) \cup {<<>>}
    BY <2>1
  <2> QED BY <2>1, <2>3, <2>4 DEF CallInv
<1>2. TypeOK /\ Outputs!TypeOK /\ Models!TypeOK /\ CallInv /\ KnownInv => HostTypeOK
  BY DEF CallInv, KnownInv, HostTypeOK
<1> QED BY <1>1, <1>2, CallStep, KnownStep, DrivesCapabilities, TypeCorrect, OutputsTypeCorrect,
        ModelsTypeCorrect, PTL DEF HostSpec
-----------------------------------------------------------------------------
(* What the other two managers promise holds behind the host functions *)

OutputsProved == INSTANCE OutputManagerProofs WITH m_idCounter <- m_outputCounter

LEMMA OutputsMeetAssumptions ==
    OutputsProved!OutputIdAssumption /\ OutputsProved!MaxSavesAssumption
BY HostAssumption DEF Outputs!OutputIdAssumption, Outputs!MaxSavesAssumption,
   OutputsProved!OutputIdAssumption, OutputsProved!MaxSavesAssumption

LEMMA SameOutputs == Outputs!Spec => OutputsProved!Spec
<1>1. Outputs!Init => OutputsProved!Init
  BY DEF Outputs!Init, Outputs!NoId, Outputs!Null,
     OutputsProved!Init, OutputsProved!NoId, OutputsProved!Null
<1>2. ASSUME NEW outputType
      PROVE  Outputs!RequestOutput(outputType) <=> OutputsProved!RequestOutput(outputType)
  <2>1. Outputs!Kept = OutputsProved!Kept
    <3>1. \A S : Outputs!Cardinality(S) = OutputsProved!Cardinality(S)
      BY DEF Outputs!Cardinality, OutputsProved!Cardinality
    <3> QED BY <3>1 DEF Outputs!Kept, Outputs!Cached, OutputsProved!Kept, OutputsProved!Cached
  <2>2. Outputs!NextId = OutputsProved!NextId /\ Outputs!Null = OutputsProved!Null
    BY DEF Outputs!NextId, Outputs!Null, OutputsProved!NextId, OutputsProved!Null
  <2> QED BY <2>1, <2>2 DEF Outputs!RequestOutput, Outputs!vars,
          OutputsProved!RequestOutput, OutputsProved!vars
<1>3. ASSUME NEW id, NEW isJson
      PROVE  Outputs!SaveOutput(id, isJson) <=> OutputsProved!SaveOutput(id, isJson)
  BY DEF Outputs!SaveOutput, Outputs!vars, Outputs!Cached,
     OutputsProved!SaveOutput, OutputsProved!vars, OutputsProved!Cached
<1>4. ASSUME NEW id
      PROVE  Outputs!ConsumeOutput(id) <=> OutputsProved!ConsumeOutput(id)
  BY DEF Outputs!ConsumeOutput, Outputs!vars, Outputs!Cached, Outputs!Null,
     OutputsProved!ConsumeOutput, OutputsProved!vars, OutputsProved!Cached, OutputsProved!Null
<1>5. [Outputs!Next]_Outputs!vars => [OutputsProved!Next]_OutputsProved!vars
  BY <1>2, <1>3, <1>4 DEF Outputs!Next, Outputs!OutputId, Outputs!OutputType, Outputs!vars,
     OutputsProved!Next, OutputsProved!OutputId, OutputsProved!OutputType, OutputsProved!vars
<1> QED BY <1>1, <1>5, PTL DEF Outputs!Spec, OutputsProved!Spec

\* Through the host functions too, a result is never handed out twice, call()
\* finds the newest one or none, and no request takes an id that the cache still
\* holds (HostFunctions.cpp:262-304 with OutputManager.cpp:37-113).
THEOREM OutputsKeepPromises ==
    HostSpec => [](Outputs!OneOwner /\ Outputs!LastSavedIsNewest /\ Outputs!NextIdIsFree)
<1>1. OutputsProved!Spec => [](OutputsProved!OneOwner /\ OutputsProved!LastSavedIsNewest)
  BY OutputsMeetAssumptions, OutputsProved!Ownership
<1>2. OutputsProved!Spec => [](OutputsProved!NextIdIsFree /\ OutputsProved!CacheBounded)
  BY OutputsMeetAssumptions, OutputsProved!IdsAreFree
<1>3. /\ Outputs!OneOwner <=> OutputsProved!OneOwner
      /\ Outputs!LastSavedIsNewest <=> OutputsProved!LastSavedIsNewest
      /\ Outputs!NextIdIsFree <=> OutputsProved!NextIdIsFree
  BY DEF Outputs!OneOwner, Outputs!LastSavedIsNewest, Outputs!NextIdIsFree, Outputs!Live,
     Outputs!Cached, Outputs!Null, OutputsProved!OneOwner, OutputsProved!LastSavedIsNewest,
     OutputsProved!NextIdIsFree, OutputsProved!Live, OutputsProved!Cached, OutputsProved!Null
<1> QED BY <1>1, <1>2, <1>3, SameOutputs, DrivesOutputs, PTL

\* Through the host functions too, a successful inference answers from its own
\* inputs, and a rune that described a tensor wrongly never gets an answer
\* (HostFunctions.cpp:193-260, 323-420 with TfLiteRuntime.cpp:80-135).
THEOREM ModelsKeepPromises ==
    HostSpec => [](Models!FreshOutputs /\ Models!OnlyTrueDescriptionsRun)
<1>1. ModelsProved!Spec => [](ModelsProved!FreshOutputs /\ ModelsProved!OnlyTrueDescriptionsRun)
  <2>1. ModelsProved!Spec => []ModelsProved!FreshOutputs
    BY ModelsMeetAssumptions, ModelsProved!Freshness
  <2>2. ModelsProved!Spec => []ModelsProved!OnlyTrueDescriptionsRun
    BY ModelsMeetAssumptions, ModelsProved!TrueDescriptions
  <2> QED BY <2>1, <2>2, PTL
<1>2. /\ Models!FreshOutputs <=> ModelsProved!FreshOutputs
      /\ Models!OnlyTrueDescriptionsRun <=> ModelsProved!OnlyTrueDescriptionsRun
  BY DEF Models!FreshOutputs, ModelsProved!FreshOutputs,
     Models!OnlyTrueDescriptionsRun, ModelsProved!OnlyTrueDescriptionsRun
<1> QED BY <1>1, <1>2, SameSpecification, DrivesModels, PTL

=============================================================================
