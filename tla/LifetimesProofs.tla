--------------------------- MODULE LifetimesProofs ---------------------------
(***************************************************************************)
(* Proofs about Lifetimes: the model is type correct (no object holds one  *)
(* that is gone), nothing used through a plain pointer dies before its     *)
(* user, each module has exactly one owner, a rune that has what it needs  *)
(* has the bytes its wasm is compiled from, and only delegates that keep   *)
(* themselves alive can leak.                                              *)
(*                                                                         *)
(* The reference counts are right because of CountInv: an object whose     *)
(* destructor runs is held by nobody, and never starts to be destroyed a   *)
(* second time.  The other parts of BaseInv say who holds what: KindsInv   *)
(* for the objects of wasm3 and TensorFlow Lite, ShapeInv for the members  *)
(* in the order of their declaration, of which a dying object has lost     *)
(* some of the last, LoadInv for the locals of loadRune.                   *)
(*                                                                         *)
(* That nothing leaks is LeakInv and an argument about the graph: every    *)
(* object has somebody who will destroy it, kinds of objects hold only     *)
(* kinds below them, delegates excepted, and what is reached from a set of *)
(* objects is the smallest set around it that nothing leads out of.        *)
(***************************************************************************)
EXTENDS Lifetimes, SequenceTheorems, FiniteSetTheorems, FunctionTheorems, WellFoundedInduction, TLAPS

-----------------------------------------------------------------------------
(* The inductive invariant *)

Dying == {dying[i] : i \in 1 .. Len(dying)}

Held(o) == Holds(members, handles, o)

\* What a destructor may still find of the members it was declared with.
Begins(s, t) == Len(s) <= Len(t) /\ \A i \in 1 .. Len(s) : s[i] = t[i]

\* Objects of wasm3 and TensorFlow Lite that hold nothing themselves.
Leaves == {"M3Runtime", "TfLiteModel", "TfLiteInterpreter"}

DataInv ==
    /\ source \in Seq([runtime : 1 .. MaxRuntimes, fromFile : BOOLEAN])
    /\ Loads <= MaxLoads
    /\ loading \in [load : 1 .. Loads, runtime : 1 .. MaxRuntimes] \cup {None}
    /\ modules \in [1 .. MaxRuntimes -> Seq(1 .. Loads)]
    /\ loaded \subseteq 1 .. Loads
    /\ DOMAIN code \subseteq 1 .. Loads /\ code \in [DOMAIN code -> 1 .. Loads]
    /\ freed \in [Load -> Nat]

\* Members are there while somebody holds them; the objects that are being
\* destroyed are held by nobody.
HoldInv ==
    /\ \A o \in Alive : o = <<o[1], o[2]>> /\ members[o] \in Seq(Alive)
    /\ handles \subseteq Alive

DyingInv ==
    /\ dying \in Seq(Alive)
    /\ \A i, j \in 1 .. Len(dying) : dying[i] = dying[j] => i = j
    /\ \A o \in Dying : ~Held(o)

CountInv == HoldInv /\ DyingInv

\* Who may hold the objects of wasm3 and TensorFlow Lite, and that somebody does.
MayHold(o, p) ==
    /\ p[1] # "locals"
    /\ p[1] = "M3Runtime" =>
          \/ o \in {Frame, Runtime(p[2])}
          \/ o[1] = "Wasm3Rune" /\ source[o[2]].runtime = p[2]
    /\ p[1] \in {"TfLiteModel", "TfLiteInterpreter"} => o \in {ModelFrame, Model(p[2])}

KindsInv ==
    /\ \A o \in handles : o[1] \notin Leaves \cup {"locals"}
    /\ \A o \in Alive : \A p \in Range(members[o]) : MayHold(o, p)
    /\ \A o \in Alive : o[1] \in Leaves => members[o] = <<>> /\ (Held(o) \/ o \in Dying)
    /\ \A i \in 1 .. Len(dying) - 1 : dying[i][1] \notin Leaves

\* The locals of the load in progress; its rune is not known to anybody yet.
LoadInv ==
    /\ \A o \in Alive : o[1] \in {"Wasm3Rune", "CapabilitiesDelegatesManager"} => o[2] \in 1 .. Loads
    /\ \A o \in Alive : o[1] \in {"Wasm3Runtime", "M3Runtime"} => o[2] \in 1 .. MaxRuntimes
    /\ Frame \in Alive => Frame \in Dying \/ loading # None
    /\ ModelFrame \in Alive => ModelFrame \in Dying
    /\ loading # None =>
          /\ Runtime(loading.runtime) \in handles
          /\ source[loading.load].runtime = loading.runtime
          /\ Frame \in Alive \ Dying
          /\ ~Held(Rune(loading.load)) /\ Rune(loading.load) \notin Dying
          /\ members[Frame] = IF Rune(loading.load) \in Alive
                              THEN Mapping(loading.load)
                              ELSE Mapping(loading.load)
                                     \o <<M3Runtime(loading.runtime), Module(loading.load)>>

RuneShape(l) ==
    Rune(l) \in Alive \ Dying =>
        members[Rune(l)] = (IF loading.load = l THEN <<>> ELSE Mapping(l))
                             \o RuneMembers(l, source[l].runtime)

ShapeInv ==
    /\ Engine \in Alive \ Dying => members[Engine] = <<Logger, Environment, Models>>
    /\ \A k \in 1 .. MaxRuntimes : Runtime(k) \in Alive =>
          /\ Begins(members[Runtime(k)], RuntimeMembers(k))
          /\ Runtime(k) \notin Dying => members[Runtime(k)] = RuntimeMembers(k)
    /\ \A l \in 1 .. Loads : RuneShape(l)

BaseInv == DataInv /\ CountInv /\ KindsInv /\ LoadInv /\ ShapeInv

\* The application keeps what it is told to keep, and with it what wasm3's
\* runtimes use.
KeepInv ==
    /\ \A l \in 1 .. Loads : Rune(l) \in Alive =>
          Engine \in handles \/ Runtime(source[l].runtime) \in handles
    /\ \A k \in 1 .. MaxRuntimes :
          Frame \in Alive /\ M3Runtime(k) \in Range(members[Frame]) => Runtime(k) \in handles
    /\ \A k \in 1 .. MaxRuntimes : M3Runtime(k) \in Alive =>
          \/ Engine \in handles
          \/ Runtime(k) \in Alive /\ Environment \in Range(members[Runtime(k)])

\* What loadModel holds, in the order its locals are made.
FrameMembers(l) == <<ModelData(l), TfModel(l), TfLogger(l), Interpreter(l)>>

\* What a model's objects use is held by the model, or by the locals of
\* loadModel, for longer than they are.
ModelsInv ==
    /\ \A o \in Alive : o[1] = "TfLiteRuntimeModel" => Begins(members[o], ModelMembers(o[2]))
    /\ ModelFrame \in Alive => \E l \in Load :
          /\ Model(l) \notin Alive
          /\ Begins(members[ModelFrame], FrameMembers(l))
    /\ \A o \in Alive : o[1] \in {"TfLiteModel", "TfLiteInterpreter"} =>
          \E p \in {Model(o[2]), ModelFrame} \cap Alive : LibraryUses(o) \subseteq Range(members[p])

ModulesInv ==
    /\ OneModuleOwner
    /\ \A k \in 1 .. MaxRuntimes : Range(modules[k]) \subseteq loaded
    /\ \A k \in 1 .. MaxRuntimes : M3Runtime(k) \notin Alive => modules[k] = <<>>
    /\ \A l \in Load : l > Loads => freed[l] = 0
    /\ loading # None /\ Rune(loading.load) \notin Alive => loading.load \notin loaded

BytesInv ==
    /\ \A l \in DOMAIN code : l \notin Lacking => code[l] = l
    /\ \A l \in 1 .. Loads :
          ~source[l].fromFile /\ (Rune(l) \in Alive \/ loading.load = l) => Memory(l) \in handles

-----------------------------------------------------------------------------
(* Objects and sequences of objects *)

LEMMA Members ==
    /\ Range(<<>>) = {}
    /\ \A a : Range(<<a>>) = {a}
    /\ \A a, b : Range(<<a, b>>) = {a, b}
    /\ \A a, b, c : Range(<<a, b, c>>) = {a, b, c}
    /\ \A a, b, c, d : Range(<<a, b, c, d>>) = {a, b, c, d}
    /\ \A a, b, c, d, e : Range(<<a, b, c, d, e>>) = {a, b, c, d, e}
BY DEF Range

LEMMA ListedMembers ==
    ASSUME NEW S, NEW s \in Seq(S)
    PROVE  /\ Range(s) \subseteq S
           /\ \A i \in 1 .. Len(s) : s[i] \in Range(s)
           /\ \A x \in Range(s) : \E i \in 1 .. Len(s) : x = s[i]
<1>1. DOMAIN s = 1 .. Len(s)
  BY LenProperties
<1>2. \A i \in 1 .. Len(s) : s[i] \in S
  BY ElementOfSeq
<1>3. \A i \in 1 .. Len(s) : s[i] \in Range(s)
  BY <1>1 DEF Range
<1>4. \A x \in Range(s) : \E i \in 1 .. Len(s) : x = s[i]
  BY <1>1 DEF Range
<1> QED BY <1>2, <1>3, <1>4

LEMMA RangeOfConcat ==
    ASSUME NEW S, NEW s \in Seq(S), NEW t \in Seq(S)
    PROVE  s \o t \in Seq(S) /\ Range(s \o t) = Range(s) \cup Range(t)
BY ConcatProperties, RangeConcatenation

\* What is left when the last member has gone.
LEMMA FrontLast ==
    ASSUME NEW S, NEW s \in Seq(S), s # <<>>
    PROVE  /\ Last(s) \in S /\ Last(s) = s[Len(s)] /\ Len(s) \in Nat \ {0}
           /\ Front(s) \in Seq(S) /\ Len(Front(s)) = Len(s) - 1
           /\ \A i \in 1 .. Len(s) - 1 : Front(s)[i] = s[i]
           /\ Range(Front(s)) \subseteq Range(s)
           /\ Range(s) = Range(Front(s)) \cup {Last(s)}
<1>1. Len(s) \in Nat \ {0} /\ \A i \in 1 .. Len(s) : s[i] \in S
  BY EmptySeq, LenProperties
<1>2. /\ Front(s) \in Seq(S) /\ Len(Front(s)) = Len(s) - 1
      /\ \A i \in 1 .. Len(s) - 1 : Front(s)[i] = s[i]
  <2>1. \A i \in 1 .. Len(s) - 1 : s[i] \in S
    BY <1>1
  <2>2. /\ SubSeq(s, 1, Len(s) - 1) \in Seq(S)
        /\ Len(SubSeq(s, 1, Len(s) - 1)) = IF 1 <= Len(s) - 1 THEN Len(s) - 1 - 1 + 1 ELSE 0
        /\ \A i \in 1 .. Len(s) - 1 - 1 + 1 : SubSeq(s, 1, Len(s) - 1)[i] = s[1 + i - 1]
    BY <1>1, <2>1, SubSeqProperties
  <2>3. Len(s) - 1 \in Nat /\ Len(s) - 1 - 1 + 1 = Len(s) - 1
    BY <1>1
  <2>4. \A i \in 1 .. Len(s) - 1 : 1 + i - 1 = i
    BY <1>1
  <2>5. (IF 1 <= Len(s) - 1 THEN Len(s) - 1 - 1 + 1 ELSE 0) = Len(s) - 1
    <3>1. ASSUME NEW n \in Nat \ {0}
          PROVE  (IF 1 <= n - 1 THEN n - 1 - 1 + 1 ELSE 0) = n - 1
      <4>1. CASE n = 1
        BY <4>1
      <4>2. CASE n > 1
        BY <4>2
      <4> QED BY <4>1, <4>2
    <3> QED BY <1>1, <3>1
  <2> QED BY ONLY <2>2, <2>3, <2>4, <2>5 DEF Front
<1>3. Range(s) = Range(Front(s)) \cup {Last(s)}
  <2>1. /\ \A i \in 1 .. Len(s) : s[i] \in Range(s)
        /\ \A x \in Range(s) : \E i \in 1 .. Len(s) : x = s[i]
    BY ListedMembers
  <2>2. /\ \A i \in 1 .. Len(Front(s)) : Front(s)[i] \in Range(Front(s))
        /\ \A x \in Range(Front(s)) : \E i \in 1 .. Len(Front(s)) : x = Front(s)[i]
    BY <1>2, ListedMembers
  <2>3. ASSUME NEW x \in Range(s) PROVE x \in Range(Front(s)) \/ x = s[Len(s)]
    <3>1. PICK i \in 1 .. Len(s) : x = s[i]
      BY <2>1
    <3>2. CASE i # Len(s)
      <4>1. i \in 1 .. Len(Front(s)) /\ i \in 1 .. Len(s) - 1
        BY <1>1, <1>2, <3>2
      <4> QED BY <1>2, <2>2, <3>1, <4>1
    <3> QED BY <3>1, <3>2
  <2>4. ASSUME NEW x \in Range(Front(s)) PROVE x \in Range(s)
    BY <1>1, <1>2, <2>1, <2>2
  <2>5. s[Len(s)] \in Range(s)
    BY <1>1, <2>1
  <2> QED BY <2>3, <2>4, <2>5 DEF Last
<1> QED BY <1>1, <1>2, <1>3 DEF Last

LEMMA FrontBegins ==
    ASSUME NEW S, NEW s \in Seq(S), NEW t, Len(t) \in Nat, s # <<>>, Begins(s, t)
    PROVE  Begins(Front(s), t)
BY FrontLast DEF Begins

-----------------------------------------------------------------------------
(* What each action does to the members *)

LEMMA EngineMade ==
    ASSUME CreateEngine
    PROVE  /\ Alive' = Alive \cup {TfRuntime, Models, Environment, Engine}
           /\ members'[TfRuntime] = <<Logger>>
           /\ members'[Models] = <<Logger, TfRuntime>>
           /\ members'[Environment] = <<>>
           /\ members'[Engine] = <<Logger, Environment, Models>>
           /\ \A o \in Alive \ {TfRuntime, Models, Environment, Engine} :
                 members'[o] = members[o]
BY DEF CreateEngine, ++, Alive, TfRuntime, Models, Environment, Engine

LEMMA EngineHalfMade ==
    ASSUME CreateEngineThrows
    PROVE  /\ Alive' = Alive \cup {TfRuntime, Models, Frame}
           /\ members'[TfRuntime] = <<Logger>>
           /\ members'[Models] = <<Logger, TfRuntime>>
           /\ members'[Frame] = <<TfRuntime, Models>>
           /\ \A o \in Alive \ {TfRuntime, Models, Frame} : members'[o] = members[o]
BY DEF CreateEngineThrows, ++, Alive, TfRuntime, Models, Frame

LEMMA RuntimeMade ==
    ASSUME NEW k, CreateRuntime(k)
    PROVE  /\ Alive' = Alive \cup {M3Runtime(k), Runtime(k)}
           /\ members'[M3Runtime(k)] = <<>>
           /\ members'[Runtime(k)] = RuntimeMembers(k)
           /\ \A o \in Alive \ {M3Runtime(k), Runtime(k)} : members'[o] = members[o]
BY DEF CreateRuntime, ++, Alive, M3Runtime, Runtime

LEMMA LoadBegun ==
    ASSUME NEW k, NEW fromFile \in BOOLEAN, BeginLoad(k, fromFile)
    PROVE  LET l       == Loads + 1
               mapping == IF fromFile THEN <<Memory(l)>> ELSE <<>>
               made    == {Memory(l), Module(l), Frame}
           IN  /\ Alive' = Alive \cup made
               /\ members'[Memory(l)] = <<>>
               /\ members'[Module(l)] = <<>>
               /\ members'[Frame] = mapping \o <<M3Runtime(k), Module(l)>>
               /\ \A o \in Alive \ made : members'[o] = members[o]
BY DEF BeginLoad, ++, Alive, Memory, Module, Frame

LEMMA RuneMade ==
    ASSUME NEW d, ModuleIsLoaded(<<d>>)
    PROVE  LET l    == loading.load
               k    == loading.runtime
               made == {Rune(l), Manager(l), Frame}
           IN  /\ Alive' = Alive \cup made
               /\ members'[Rune(l)] = RuneMembers(l, k)
               /\ members'[Manager(l)] = <<Logger, DelegateObject(d)>>
               /\ members'[Frame] = Mapping(l)
               /\ \A o \in Alive \ made : members'[o] = members[o]
<1>1. <<Logger>> \o [i \in DOMAIN <<d>> |-> DelegateObject(<<d>>[i])] = <<Logger, DelegateObject(d)>>
  <2>1. ASSUME NEW a, NEW b PROVE <<a>> \o <<b>> = <<a, b>>
    <3>1. <<a>> \in Seq({a, b}) /\ <<b>> \in Seq({a, b}) /\ <<a, b>> \in Seq({a, b})
      OBVIOUS
    <3>2. /\ <<a>> \o <<b>> \in Seq({a, b})
          /\ Len(<<a>> \o <<b>>) = 2
          /\ (<<a>> \o <<b>>)[1] = a /\ (<<a>> \o <<b>>)[2] = b
      BY <3>1, ConcatProperties
    <3> DEFINE s == <<a>> \o <<b>>
    <3> HIDE DEF s
    <3>3. s \in Seq({a, b}) /\ Len(s) = 2 /\ s[1] = a /\ s[2] = b
      BY <3>2 DEF s
    <3>4. \A i \in 1 .. 2 : s[i] = <<a, b>>[i]
      BY <3>3
    <3>5. s = <<a, b>>
      BY <3>1, <3>3, <3>4, SeqEqual
    <3> QED BY <3>5 DEF s
  <2>2. [i \in DOMAIN <<d>> |-> DelegateObject(<<d>>[i])] = <<DelegateObject(d)>>
    OBVIOUS
  <2> QED BY <2>1, <2>2
<1> QED BY <1>1 DEF ModuleIsLoaded, ++, Alive, Rune, Manager, Frame

LEMMA ModelMade ==
    ASSUME NEW l, LoadModel(l)
    PROVE  LET made == {TfLogger(l), ModelData(l), TfModel(l), Interpreter(l), Model(l), Models}
           IN  /\ Alive' = Alive \cup made
               /\ members'[TfLogger(l)] = <<Logger>>
               /\ members'[ModelData(l)] = <<>>
               /\ members'[TfModel(l)] = <<>>
               /\ members'[Interpreter(l)] = <<>>
               /\ members'[Model(l)] = ModelMembers(l)
               /\ members'[Models] = Append(members[Models], Model(l))
               /\ \A o \in Alive \ made : members'[o] = members[o]
BY DEF LoadModel, WithModelParts, ++, Alive, TfLogger, ModelData, TfModel, Interpreter,
    Model, Models

LEMMA ModelHalfMade ==
    ASSUME NEW l, LoadModelFails(l)
    PROVE  LET made == {TfLogger(l), ModelData(l), TfModel(l), Interpreter(l), ModelFrame}
           IN  /\ Alive' = Alive \cup made
               /\ members'[TfLogger(l)] = <<Logger>>
               /\ members'[ModelData(l)] = <<>>
               /\ members'[TfModel(l)] = <<>>
               /\ members'[Interpreter(l)] = <<>>
               /\ members'[ModelFrame] =
                     <<ModelData(l), TfModel(l), TfLogger(l), Interpreter(l)>>
               /\ \A o \in Alive \ made : members'[o] = members[o]
BY DEF LoadModelFails, WithModelParts, ++, Alive, TfLogger, ModelData, TfModel, Interpreter,
    ModelFrame

-----------------------------------------------------------------------------
(* Making objects *)

\* An object nobody held is held by nobody until a new member or handle holds it.
LEMMA StaysUnheld ==
    ASSUME NEW made, NEW o, Alive' = Alive \cup made,
           \A p \in Alive \ made : members'[p] = members[p],
           ~Held(o), o \notin handles',
           \A p \in made : o \notin Range(members'[p])
    PROVE  ~Holds(members', handles', o)
BY DEF Held, Holds, Alive

LEMMA HoldGrows ==
    ASSUME HoldInv, NEW made, Alive' = Alive \cup made,
           \A o \in Alive \ made : members'[o] = members[o],
           \A o \in made : o = <<o[1], o[2]>> /\ members'[o] \in Seq(Alive'),
           handles' \subseteq Alive'
    PROVE  HoldInv'
<1>1. ASSUME NEW o \in Alive \ made PROVE members'[o] \in Seq(Alive')
  BY <1>1, SeqMonotonic DEF HoldInv
<1> QED BY <1>1 DEF HoldInv

LEMMA KindsGrow ==
    ASSUME KindsInv, HoldInv, LoadInv, dying = <<>>,
           NEW made, Alive' = Alive \cup made,
           \A o \in Alive \ made : members'[o] = members[o],
           \A l \in 1 .. Loads : source'[l] = source[l],
           \A o \in handles' \ handles : o[1] \notin Leaves \cup {"locals"},
           \A o \in made : \A p \in Range(members'[o]) : MayHold(o, p)',
           \A o \in made : o[1] \in Leaves => members'[o] = <<>> /\ Held(o)',
           \A o \in Alive \cap made : \A p \in Range(members[o]) : p[1] \in Leaves => Held(p)',
           \A i \in 1 .. Len(dying') - 1 : dying'[i][1] \notin Leaves
    PROVE  KindsInv'
<1>1. ASSUME NEW o \in Alive \ made, NEW p \in Range(members[o]) PROVE MayHold(o, p)'
  <2>1. MayHold(o, p)
    BY <1>1 DEF KindsInv
  <2>2. o[1] = "Wasm3Rune" => source'[o[2]] = source[o[2]]
    BY <1>1 DEF LoadInv
  <2> QED BY <2>1, <2>2 DEF MayHold, Frame, Runtime, ModelFrame, Model
<1>2. ASSUME NEW o \in Alive \ made, o[1] \in Leaves PROVE members'[o] = <<>> /\ Held(o)'
  <2>1. members[o] = <<>> /\ Held(o) /\ o \notin handles
    BY <1>2 DEF KindsInv, Dying
  <2>2. PICK p \in Alive : o \in Range(members[p])
    BY <2>1 DEF Held, Holds, Alive
  <2>3. CASE p \in made
    BY <1>2, <2>1, <2>2, <2>3
  <2>4. CASE p \notin made
    BY <2>1, <2>2, <2>4 DEF Held, Holds, Alive
  <2> QED BY <1>2, <2>1, <2>3, <2>4
<1> QED BY <1>1, <1>2 DEF KindsInv

LEMMA ShapeKept ==
    ASSUME ShapeInv, Dying \subseteq Dying',
           Engine \in Alive' =>
              \/ members'[Engine] = <<Logger, Environment, Models>>
              \/ Engine \in Alive /\ members'[Engine] = members[Engine],
           \A k \in 1 .. MaxRuntimes : Runtime(k) \in Alive' =>
              \/ members'[Runtime(k)] = RuntimeMembers(k)
              \/ Runtime(k) \in Alive /\ members'[Runtime(k)] = members[Runtime(k)],
           \A l \in 1 .. Loads' : Rune(l) \in Alive' =>
              \/ RuneShape(l)'
              \/ /\ l \in 1 .. Loads /\ source'[l] = source[l]
                 /\ loading'.load = l <=> loading.load = l
                 /\ Rune(l) \in Alive /\ members'[Rune(l)] = members[Rune(l)]
    PROVE  ShapeInv'
<1>1. Engine \in Alive' \ Dying' => members'[Engine] = <<Logger, Environment, Models>>
  BY DEF ShapeInv
<1>2. ASSUME NEW k \in 1 .. MaxRuntimes, Runtime(k) \in Alive'
      PROVE  /\ Begins(members'[Runtime(k)], RuntimeMembers(k))
             /\ Runtime(k) \notin Dying' => members'[Runtime(k)] = RuntimeMembers(k)
  <2>1. Begins(RuntimeMembers(k), RuntimeMembers(k))
    BY DEF Begins, RuntimeMembers
  <2> QED BY <1>2, <2>1 DEF ShapeInv
<1>3. ASSUME NEW l \in 1 .. Loads', Rune(l) \in Alive', ~RuneShape(l)'
      PROVE  RuneShape(l)'
  <2>1. /\ l \in 1 .. Loads /\ source'[l] = source[l]
        /\ loading'.load = l <=> loading.load = l
        /\ Rune(l) \in Alive /\ members'[Rune(l)] = members[Rune(l)]
    BY <1>3
  <2> QED BY <2>1 DEF ShapeInv, RuneShape, Mapping, Rune, RuneMembers, Module, M3Runtime,
      Manager, Models, Logger, Memory
<1>4. ASSUME NEW l \in 1 .. Loads' PROVE RuneShape(l)'
  BY <1>3 DEF RuneShape
<1> QED BY <1>1, <1>2, <1>4 DEF ShapeInv, Engine, Logger, Environment, Models, Runtime,
    RuntimeMembers, M3Runtime

\* While no destructor runs, nothing is dying.
LEMMA NothingDying ==
    ASSUME dying = <<>>
    PROVE  Dying = {} /\ Len(dying) = 0
BY DEF Dying

LEMMA CreateEngineBase == BaseInv /\ CreateEngine => BaseInv'
<1> SUFFICES ASSUME BaseInv, CreateEngine PROVE BaseInv'
  OBVIOUS
<1> DEFINE made == {TfRuntime, Models, Environment, Engine}
<1>1. /\ Alive' = Alive \cup made
      /\ members'[TfRuntime] = <<Logger>>
      /\ members'[Models] = <<Logger, TfRuntime>>
      /\ members'[Environment] = <<>>
      /\ members'[Engine] = <<Logger, Environment, Models>>
      /\ \A o \in Alive \ made : members'[o] = members[o]
  BY EngineMade
<1>2. /\ dying = <<>> /\ loading = None /\ Logger \in Alive
      /\ handles' = handles \cup {Engine} /\ dying' = <<>>
      /\ UNCHANGED <<dying, loading, modules, loaded, code, freed, source, Loads>>
  BY DEF CreateEngine, Idle, BaseInv, CountInv, HoldInv, Loads
<1>3. Dying = {} /\ Dying' = {} /\ Len(dying') = 0
  BY <1>2, NothingDying DEF Dying
<1>4. DataInv'
  BY <1>2 DEF BaseInv, DataInv, Loads, Load, None
<1>5. HoldInv'
  <2>1. \A o \in made : o = <<o[1], o[2]>>
    BY DEF TfRuntime, Models, Environment, Engine
  <2>2. \A o \in made : members'[o] \in Seq(Alive')
    <3>1. made \cup {Logger} \subseteq Alive'
      BY <1>1, <1>2
    <3>2. ASSUME NEW S, made \cup {Logger} \subseteq S
          PROVE  /\ <<>> \in Seq(S) /\ <<Logger>> \in Seq(S)
                 /\ <<Logger, TfRuntime>> \in Seq(S)
                 /\ <<Logger, Environment, Models>> \in Seq(S)
      BY <3>2
    <3> QED BY <1>1, <3>1, <3>2
  <2>3. handles' \subseteq Alive'
    BY <1>1, <1>2 DEF BaseInv, CountInv, HoldInv
  <2> HIDE DEF made
  <2> QED BY <1>1, <2>1, <2>2, <2>3, HoldGrows DEF BaseInv, CountInv
<1>6. DyingInv'
  BY <1>2, <1>3 DEF DyingInv
<1>7. KindsInv'
  <2>1. \A o \in made : Range(members'[o]) \subseteq {Logger, TfRuntime, Environment, Models}
    BY <1>1 DEF Range
  <2>2. \A o \in made : \A p \in Range(members'[o]) : MayHold(o, p)'
    BY <2>1 DEF MayHold, Logger, TfRuntime, Environment, Models
  <2>3. \A o \in made : o[1] \notin Leaves \cup {"locals"}
    BY DEF TfRuntime, Models, Environment, Engine, Leaves
  <2>4. \A o \in Alive \cap made : \A p \in Range(members[o]) : p[1] \notin Leaves
    BY DEF BaseInv, KindsInv, MayHold, TfRuntime, Models, Environment, Engine, Leaves,
       Frame, Runtime, ModelFrame, Model
  <2>5. \A o \in handles' \ handles : o[1] \notin Leaves \cup {"locals"}
    BY <1>2 DEF Engine, Leaves
  <2>6. \A i \in 1 .. Len(dying') - 1 : dying'[i][1] \notin Leaves
    BY <1>3
  <2>7. \A l \in 1 .. Loads : source'[l] = source[l]
    BY <1>2
  <2> HIDE DEF made
  <2> QED BY <1>1, <1>2, <2>2, <2>3, <2>4, <2>5, <2>6, <2>7, KindsGrow DEF BaseInv, CountInv
<1>8. LoadInv'
  BY <1>1, <1>2, <1>3 DEF BaseInv, LoadInv, TfRuntime, Models, Environment, Engine, Frame,
     ModelFrame, Loads, None
<1>9. ShapeInv'
  <2>1. ASSUME NEW k \in 1 .. MaxRuntimes, Runtime(k) \in Alive'
        PROVE  Runtime(k) \in Alive /\ members'[Runtime(k)] = members[Runtime(k)]
    BY <1>1, <2>1 DEF TfRuntime, Models, Environment, Engine, Runtime
  <2>2. ASSUME NEW l \in 1 .. Loads, Rune(l) \in Alive'
        PROVE  Rune(l) \in Alive /\ members'[Rune(l)] = members[Rune(l)]
    BY <1>1, <2>2 DEF TfRuntime, Models, Environment, Engine, Rune
  <2> QED BY <1>1, <1>2, <1>3, <2>1, <2>2, ShapeKept DEF BaseInv
<1> QED BY <1>4, <1>5, <1>6, <1>7, <1>8, <1>9 DEF BaseInv, CountInv

LEMMA CreateEngineThrowsBase == BaseInv /\ CreateEngineThrows => BaseInv'
<1> SUFFICES ASSUME BaseInv, CreateEngineThrows PROVE BaseInv'
  OBVIOUS
<1> DEFINE made == {TfRuntime, Models, Frame}
<1>1. /\ Alive' = Alive \cup made
      /\ members'[TfRuntime] = <<Logger>>
      /\ members'[Models] = <<Logger, TfRuntime>>
      /\ members'[Frame] = <<TfRuntime, Models>>
      /\ \A o \in Alive \ made : members'[o] = members[o]
  BY EngineHalfMade
<1>2. /\ dying = <<>> /\ loading = None /\ Logger \in Alive
      /\ dying' = <<Frame>>
      /\ UNCHANGED <<handles, loading, modules, loaded, code, freed, source, Loads>>
  BY DEF CreateEngineThrows, Idle, BaseInv, CountInv, HoldInv, Loads
<1>3. Dying = {} /\ Dying' = {Frame} /\ Len(dying') = 1
  BY <1>2, NothingDying DEF Dying
<1>4. DataInv'
  BY <1>2 DEF BaseInv, DataInv, Loads, Load, None
<1>5. HoldInv'
  <2>1. \A o \in made : o = <<o[1], o[2]>>
    BY DEF TfRuntime, Models, Frame
  <2>2. \A o \in made : members'[o] \in Seq(Alive')
    <3>1. made \cup {Logger} \subseteq Alive'
      BY <1>1, <1>2
    <3>2. ASSUME NEW S, made \cup {Logger} \subseteq S
          PROVE  /\ <<Logger>> \in Seq(S)
                 /\ <<Logger, TfRuntime>> \in Seq(S)
                 /\ <<TfRuntime, Models>> \in Seq(S)
      BY <3>2
    <3> QED BY <1>1, <3>1, <3>2
  <2>3. handles' \subseteq Alive'
    BY <1>1, <1>2 DEF BaseInv, CountInv, HoldInv
  <2> HIDE DEF made
  <2> QED BY <1>1, <2>1, <2>2, <2>3, HoldGrows DEF BaseInv, CountInv
<1>6. KindsInv'
  <2>1. \A o \in made : Range(members'[o]) \subseteq {Logger, TfRuntime, Models}
    BY <1>1 DEF Range
  <2>2. \A o \in made : \A p \in Range(members'[o]) : MayHold(o, p)'
    BY <2>1 DEF MayHold, Logger, TfRuntime, Models
  <2>3. \A o \in made : o[1] \notin Leaves
    BY DEF TfRuntime, Models, Frame, Leaves
  <2>4. Frame \notin Alive
    BY <1>2, <1>3 DEF BaseInv, LoadInv
  <2>5. \A o \in Alive \cap made : \A p \in Range(members[o]) : p[1] \notin Leaves
    BY <2>4 DEF BaseInv, KindsInv, MayHold, TfRuntime, Models, Leaves, Frame, Runtime,
       ModelFrame, Model
  <2>6. \A i \in 1 .. Len(dying') - 1 : dying'[i][1] \notin Leaves
    BY <1>3
  <2> HIDE DEF made
  <2> QED BY <1>1, <1>2, <2>2, <2>3, <2>5, <2>6, KindsGrow DEF BaseInv, CountInv
<1>7. DyingInv'
  <2>1. ~Held(Frame)'
    BY <1>6 DEF KindsInv, MayHold, Held, Holds, Alive, Frame
  <2> QED BY <1>1, <1>2, <1>3, <2>1 DEF DyingInv
<1>8. LoadInv'
  BY <1>1, <1>2, <1>3 DEF BaseInv, LoadInv, TfRuntime, Models, Frame, ModelFrame, Loads, None
<1>9. ShapeInv'
  <2>1. ASSUME NEW k \in 1 .. MaxRuntimes, Runtime(k) \in Alive'
        PROVE  Runtime(k) \in Alive /\ members'[Runtime(k)] = members[Runtime(k)]
    BY <1>1, <2>1 DEF TfRuntime, Models, Frame, Runtime
  <2>2. ASSUME NEW l \in 1 .. Loads, Rune(l) \in Alive'
        PROVE  Rune(l) \in Alive /\ members'[Rune(l)] = members[Rune(l)]
    BY <1>1, <2>2 DEF TfRuntime, Models, Frame, Rune
  <2>3. Engine \in Alive' => Engine \in Alive /\ members'[Engine] = members[Engine]
    BY <1>1 DEF TfRuntime, Models, Frame, Engine
  <2> QED BY <1>1, <1>2, <1>3, <2>1, <2>2, <2>3, ShapeKept DEF BaseInv
<1> QED BY <1>4, <1>5, <1>6, <1>7, <1>8, <1>9 DEF BaseInv, CountInv

LEMMA CreateRuntimeBase ==
    \A k \in 1 .. MaxRuntimes : BaseInv /\ CreateRuntime(k) => BaseInv'
<1> SUFFICES ASSUME NEW k \in 1 .. MaxRuntimes, BaseInv, CreateRuntime(k) PROVE BaseInv'
  OBVIOUS
<1> DEFINE made == {M3Runtime(k), Runtime(k)}
<1>1. /\ Alive' = Alive \cup made
      /\ members'[M3Runtime(k)] = <<>>
      /\ members'[Runtime(k)] = RuntimeMembers(k)
      /\ \A o \in Alive \ made : members'[o] = members[o]
  BY RuntimeMade
<1>2. /\ dying = <<>> /\ loading = None /\ made \cap Alive = {}
      /\ handles' = handles \cup {Runtime(k)} /\ Engine \in handles
      /\ UNCHANGED <<dying, loading, modules, loaded, code, freed, source, Loads>>
  BY DEF CreateRuntime, Idle, Loads
<1>3. Dying = {} /\ Dying' = {} /\ Len(dying') = 0
  BY <1>2, NothingDying DEF Dying
<1>4. DataInv'
  BY <1>2 DEF BaseInv, DataInv, Loads, Load, None
<1>5. {Logger, Environment, Models} \subseteq Alive
  <2>1. Engine \in Alive /\ members[Engine] = <<Logger, Environment, Models>>
    BY <1>2, <1>3 DEF BaseInv, ShapeInv, CountInv, HoldInv
  <2>2. <<Logger, Environment, Models>> \in Seq(Alive)
    BY <2>1 DEF BaseInv, CountInv, HoldInv
  <2>3. ASSUME NEW a, NEW b, NEW c, NEW S, <<a, b, c>> \in Seq(S) PROVE {a, b, c} \subseteq S
    BY <2>3
  <2> QED BY <2>2, <2>3
<1>6. HoldInv'
  <2>1. \A o \in made : o = <<o[1], o[2]>>
    BY DEF M3Runtime, Runtime
  <2>2. \A o \in made : members'[o] \in Seq(Alive')
    <3>1. made \cup {Logger, Environment, Models} \subseteq Alive'
      BY <1>1, <1>5
    <3>2. ASSUME NEW S, made \cup {Logger, Environment, Models} \subseteq S
          PROVE  <<>> \in Seq(S) /\ RuntimeMembers(k) \in Seq(S)
      BY <3>2 DEF RuntimeMembers
    <3> QED BY <1>1, <3>1, <3>2
  <2>3. handles' \subseteq Alive'
    BY <1>1, <1>2 DEF BaseInv, CountInv, HoldInv
  <2> HIDE DEF made
  <2> QED BY <1>1, <2>1, <2>2, <2>3, HoldGrows DEF BaseInv, CountInv
<1>7. DyingInv'
  BY <1>2, <1>3 DEF DyingInv
<1>8. KindsInv'
  <2>1. /\ Range(members'[M3Runtime(k)]) = {}
        /\ Range(members'[Runtime(k)]) = {Logger, Environment, M3Runtime(k), Models}
    BY <1>1 DEF Range, RuntimeMembers
  <2>2. \A o \in made : \A p \in Range(members'[o]) : MayHold(o, p)'
    BY <2>1 DEF MayHold, Logger, Environment, Models, M3Runtime, Runtime
  <2>3. Held(M3Runtime(k))'
    BY <1>1, <2>1 DEF Held, Holds, Alive
  <2>4. \A o \in made : o[1] \in Leaves => members'[o] = <<>> /\ Held(o)'
    BY <1>1, <2>3 DEF M3Runtime, Runtime, Leaves
  <2>5. \A o \in handles' \ handles : o[1] \notin Leaves \cup {"locals"}
    BY <1>2 DEF Runtime, Leaves
  <2>6. \A i \in 1 .. Len(dying') - 1 : dying'[i][1] \notin Leaves
    BY <1>3
  <2>7. \A l \in 1 .. Loads : source'[l] = source[l]
    BY <1>2
  <2> HIDE DEF made
  <2> QED BY <1>1, <1>2, <2>2, <2>4, <2>5, <2>6, <2>7, KindsGrow DEF BaseInv, CountInv
<1>9. LoadInv'
  BY <1>1, <1>2, <1>3 DEF BaseInv, LoadInv, M3Runtime, Runtime, Frame, ModelFrame, Loads, None
<1>10. ShapeInv'
  <2>1. ASSUME NEW j \in 1 .. MaxRuntimes, Runtime(j) \in Alive'
        PROVE  \/ members'[Runtime(j)] = RuntimeMembers(j)
               \/ Runtime(j) \in Alive /\ members'[Runtime(j)] = members[Runtime(j)]
    <3>1. CASE j = k
      BY <1>1, <3>1
    <3>2. CASE j # k
      BY <1>1, <2>1, <3>2 DEF M3Runtime, Runtime
    <3> QED BY <3>1, <3>2
  <2>2. ASSUME NEW l \in 1 .. Loads, Rune(l) \in Alive'
        PROVE  Rune(l) \in Alive /\ members'[Rune(l)] = members[Rune(l)]
    BY <1>1, <2>2 DEF M3Runtime, Runtime, Rune
  <2>3. Engine \in Alive' => Engine \in Alive /\ members'[Engine] = members[Engine]
    BY <1>1 DEF M3Runtime, Runtime, Engine
  <2> QED BY <1>1, <1>2, <1>3, <2>1, <2>2, <2>3, ShapeKept DEF BaseInv
<1> QED BY <1>4, <1>6, <1>7, <1>8, <1>9, <1>10 DEF BaseInv, CountInv

\* What a runtime that is held, and is thus not being destroyed, holds.
LEMMA RuntimeHolds ==
    ASSUME BaseInv, NEW k \in 1 .. MaxRuntimes, Runtime(k) \in handles
    PROVE  /\ Runtime(k) \notin Dying
           /\ members[Runtime(k)] = RuntimeMembers(k)
           /\ {Logger, Environment, M3Runtime(k), Models} \subseteq Alive
<1>1. Runtime(k) \in Alive /\ Runtime(k) \notin Dying
  BY DEF BaseInv, CountInv, HoldInv, DyingInv, Held, Holds
<1>2. members[Runtime(k)] = RuntimeMembers(k)
  BY <1>1 DEF BaseInv, ShapeInv
<1>3. RuntimeMembers(k) \in Seq(Alive)
  BY <1>1, <1>2 DEF BaseInv, CountInv, HoldInv
<1>4. Range(RuntimeMembers(k)) = {Logger, Environment, M3Runtime(k), Models}
  BY DEF Range, RuntimeMembers
<1> QED BY <1>1, <1>2, <1>3, <1>4, ListedMembers

LEMMA BeginLoadBase ==
    \A k \in 1 .. MaxRuntimes : \A fromFile \in BOOLEAN :
        BaseInv /\ BeginLoad(k, fromFile) => BaseInv'
<1> SUFFICES ASSUME NEW k \in 1 .. MaxRuntimes, NEW fromFile \in BOOLEAN,
                    BaseInv, BeginLoad(k, fromFile)
             PROVE  BaseInv'
  OBVIOUS
<1>0. PICK l \in Load : l = Loads + 1
  BY DEF BeginLoad
<1> DEFINE mapping == IF fromFile THEN <<Memory(l)>> ELSE <<>>
           made    == {Memory(l), Module(l), Frame}
<1>1. /\ Alive' = Alive \cup made
      /\ members'[Memory(l)] = <<>>
      /\ members'[Module(l)] = <<>>
      /\ members'[Frame] = mapping \o <<M3Runtime(k), Module(l)>>
      /\ \A o \in Alive \ made : members'[o] = members[o]
  BY <1>0, LoadBegun
<1>2. /\ dying = <<>> /\ loading = None
      /\ Runtime(k) \in handles /\ l \in Load
      /\ handles' = IF fromFile THEN handles ELSE handles \cup {Memory(l)}
      /\ loading' = [load |-> l, runtime |-> k]
      /\ source' = Append(source, [runtime |-> k, fromFile |-> fromFile])
      /\ UNCHANGED <<dying, modules, loaded, code, freed>>
  BY <1>0 DEF BeginLoad, Idle
<1>3. Dying = {} /\ Dying' = {} /\ Len(dying') = 0
  BY <1>2, NothingDying DEF Dying
<1>4. /\ Loads \in Nat /\ l = Loads + 1 /\ Loads' = l /\ l <= MaxLoads
      /\ source'[l] = [runtime |-> k, fromFile |-> fromFile]
      /\ \A j \in 1 .. Loads : source'[j] = source[j]
      /\ source' \in Seq([runtime : 1 .. MaxRuntimes, fromFile : BOOLEAN])
  BY <1>0, <1>2, LifetimesAssumption DEF BaseInv, DataInv, Loads, Load
<1>5. DataInv'
  <2>1. loading' \in [load : 1 .. Loads', runtime : 1 .. MaxRuntimes]
    BY <1>2, <1>4
  <2>2. modules' \in [1 .. MaxRuntimes -> Seq(1 .. Loads')]
    <3>1. ASSUME NEW j \in 1 .. MaxRuntimes PROVE modules[j] \in Seq(1 .. Loads')
      BY <1>4, SeqMonotonic DEF BaseInv, DataInv
    <3> QED BY <1>2, <3>1 DEF BaseInv, DataInv
  <2>3. loaded' \subseteq 1 .. Loads'
    BY <1>2, <1>4 DEF BaseInv, DataInv
  <2>4. DOMAIN code' \subseteq 1 .. Loads' /\ code' \in [DOMAIN code' -> 1 .. Loads']
    BY <1>2, <1>4 DEF BaseInv, DataInv
  <2> QED BY <1>2, <1>4, <2>1, <2>2, <2>3, <2>4 DEF BaseInv, DataInv, Load
<1>6. M3Runtime(k) \in Alive
  BY <1>2, RuntimeHolds
<1>7. Range(members'[Frame]) = Range(mapping) \cup {M3Runtime(k), Module(l)}
      /\ Range(mapping) \subseteq {Memory(l)}
      /\ members'[Frame] \in Seq(Alive')
  <2> DEFINE rest == <<M3Runtime(k), Module(l)>>
  <2>1. mapping \in Seq(Alive') /\ rest \in Seq(Alive')
    <3>1. ASSUME NEW S, Memory(l) \in S, M3Runtime(k) \in S, Module(l) \in S
          PROVE  <<>> \in Seq(S) /\ <<Memory(l)>> \in Seq(S) /\ rest \in Seq(S)
      BY <3>1
    <3> QED BY <1>1, <1>6, <3>1
  <2>2. Range(rest) = {M3Runtime(k), Module(l)} /\ Range(mapping) \subseteq {Memory(l)}
    BY DEF Range
  <2> HIDE DEF mapping, rest
  <2>3. members'[Frame] = mapping \o rest
    BY <1>1 DEF rest
  <2> QED BY <2>1, <2>2, <2>3, RangeOfConcat
<1>8. HoldInv'
  <2>1. \A o \in made : o = <<o[1], o[2]>>
    BY DEF Memory, Module, Frame
  <2>2. \A o \in made : members'[o] \in Seq(Alive')
    BY <1>1, <1>7, EmptySeq
  <2>3. handles' \subseteq Alive'
    BY <1>1, <1>2 DEF BaseInv, CountInv, HoldInv
  <2> HIDE DEF made
  <2> QED BY <1>1, <2>1, <2>2, <2>3, HoldGrows DEF BaseInv, CountInv
<1>9. DyingInv'
  BY <1>2, <1>3 DEF DyingInv
<1>10. KindsInv'
  <2>1. Range(members'[Memory(l)]) = {} /\ Range(members'[Module(l)]) = {}
    BY <1>1 DEF Range
  <2>2. \A o \in made : \A p \in Range(members'[o]) : MayHold(o, p)'
    <3>1. ASSUME NEW p \in {Memory(l), Module(l), M3Runtime(k)} PROVE MayHold(Frame, p)'
      BY DEF MayHold, M3Runtime, Module, Memory
    <3> HIDE DEF mapping
    <3> QED BY <1>7, <2>1, <3>1
  <2>3. \A o \in made : o[1] \notin Leaves
    BY DEF Memory, Module, Frame, Leaves
  <2>4. Frame \notin Alive
    BY <1>2, <1>3 DEF BaseInv, LoadInv
  <2>5. \A o \in Alive \cap made : \A p \in Range(members[o]) : p[1] \notin Leaves
    BY <2>4 DEF BaseInv, KindsInv, MayHold, Memory, Module, Leaves, Frame, Runtime,
       ModelFrame, Model
  <2>6. \A i \in 1 .. Len(dying') - 1 : dying'[i][1] \notin Leaves
    BY <1>3
  <2>7. \A o \in handles' \ handles : o[1] \notin Leaves \cup {"locals"}
    BY <1>2 DEF Memory, Leaves
  <2> HIDE DEF made
  <2> QED BY <1>1, <1>2, <1>4, <2>2, <2>3, <2>5, <2>6, <2>7, KindsGrow DEF BaseInv, CountInv
<1>11. Rune(l) \notin Alive
  BY <1>4 DEF BaseInv, LoadInv, Rune
<1>12. LoadInv'
  <2>1. ~Held(Rune(l))
    BY <1>11, ListedMembers DEF BaseInv, CountInv, HoldInv, Held, Holds, Alive
  <2>2. Rune(l) \notin handles' /\ \A o \in made : Rune(l) \notin Range(members'[o])
    <3>1. Range(members'[Memory(l)]) = {} /\ Range(members'[Module(l)]) = {}
      BY <1>1 DEF Range
    <3>2. Range(members'[Frame]) \subseteq {Memory(l), M3Runtime(k), Module(l)}
      BY <1>7
    <3>3. Rune(l) \notin {Memory(l), M3Runtime(k), Module(l)}
      BY DEF Rune, Memory, Module, M3Runtime
    <3>4. Rune(l) \notin handles /\ handles' \subseteq handles \cup {Memory(l)}
      BY <1>2, <2>1 DEF Held, Holds
    <3> HIDE DEF mapping
    <3> QED BY <3>1, <3>2, <3>3, <3>4
  <2>3. ~Held(Rune(l))' /\ Rune(l) \notin Alive'
    <3>1. Rune(l) \notin made
      BY DEF Rune, Memory, Module, Frame
    <3> HIDE DEF made
    <3> QED BY <1>1, <1>11, <2>1, <2>2, <3>1, StaysUnheld DEF Held
  <2>4. members'[Frame] = Mapping(l)' \o <<M3Runtime(k), Module(l)>>
    BY <1>1, <1>4 DEF Mapping
  <2>5. \A o \in Alive' : o[1] \in {"Wasm3Rune", "CapabilitiesDelegatesManager"} => o[2] \in 1 .. Loads'
    BY <1>1, <1>4 DEF BaseInv, LoadInv, Memory, Module, Frame
  <2>6. \A o \in Alive' : o[1] \in {"Wasm3Runtime", "M3Runtime"} => o[2] \in 1 .. MaxRuntimes
    BY <1>1 DEF BaseInv, LoadInv, Memory, Module, Frame
  <2>7. ModelFrame \notin Alive'
    BY <1>1, <1>3 DEF BaseInv, LoadInv, Memory, Module, Frame, ModelFrame
  <2>8. loading' # None /\ loading'.load = l /\ loading'.runtime = k
    BY <1>2, <1>4 DEF None
  <2>9. Runtime(k) \in handles' /\ Frame \in Alive'
    BY <1>1, <1>2
  <2>10. /\ Runtime(loading'.runtime) \in handles'
         /\ source'[loading'.load].runtime = loading'.runtime
         /\ Frame \in Alive' \ Dying'
         /\ ~Holds(members', handles', Rune(loading'.load)) /\ Rune(loading'.load) \notin Dying'
         /\ Rune(loading'.load) \notin Alive'
         /\ members'[Frame] = Mapping(loading.load)'
                                \o <<M3Runtime(loading'.runtime), Module(loading'.load)>>
    BY <1>3, <1>4, <2>3, <2>4, <2>8, <2>9 DEF Held, Mapping
  <2> HIDE DEF made, mapping
  <2> QED BY <1>2, <1>3, <1>4, <2>3, <2>4, <2>5, <2>6, <2>7, <2>8, <2>9, <2>10
      DEF LoadInv
<1>13. ShapeInv'
  <2>1. ASSUME NEW j \in 1 .. MaxRuntimes, Runtime(j) \in Alive'
        PROVE  Runtime(j) \in Alive /\ members'[Runtime(j)] = members[Runtime(j)]
    BY <1>1, <2>1 DEF Memory, Module, Frame, Runtime
  <2>2. ASSUME NEW j \in 1 .. Loads', Rune(j) \in Alive'
        PROVE  /\ j \in 1 .. Loads /\ source'[j] = source[j]
               /\ loading'.load = j <=> loading.load = j
               /\ Rune(j) \in Alive /\ members'[Rune(j)] = members[Rune(j)]
    <3>1. Rune(j) \in Alive /\ members'[Rune(j)] = members[Rune(j)]
      BY <1>1, <2>2 DEF Memory, Module, Frame, Rune
    <3>2. j # l
      BY <3>1, <1>11
    <3>3. j \in 1 .. Loads
      BY <1>4, <3>2
    <3>4. loading'.load = l /\ loading.load = 0 /\ j # 0
      BY <1>2, <3>3 DEF None
    <3> QED BY <1>4, <3>1, <3>2, <3>3, <3>4
  <2>3. Engine \in Alive' => Engine \in Alive /\ members'[Engine] = members[Engine]
    BY <1>1 DEF Memory, Module, Frame, Engine
  <2> QED BY <1>3, <2>1, <2>2, <2>3, ShapeKept DEF BaseInv
<1> QED BY <1>5, <1>8, <1>9, <1>10, <1>12, <1>13 DEF BaseInv, CountInv

\* A non-empty set of natural numbers has a smallest one.
LEMMA SmallestExists ==
    ASSUME NEW T \in SUBSET Nat, T # {}
    PROVE  \E x \in T : \A y \in T : x <= y
<1>1. PICK x \in T : \A y \in T : ~(<<y, x>> \in OpToRel(<, Nat))
  BY WFMin, NatLessThanWellFounded
<1>2. ASSUME NEW y \in T PROVE x <= y
  <2>1. x \in Nat /\ y \in Nat
    OBVIOUS
  <2>2. y < x => <<y, x>> \in OpToRel(<, Nat)
    BY ONLY <2>1 DEF OpToRel
  <2>3. ~(y < x)
    BY <1>1, <2>2
  <2> QED BY ONLY <2>1, <2>3
<1> QED BY <1>2

\* The function that is found is in the newest module, if that exports it.
LEMMA FindsCall ==
    ASSUME NEW S, NEW loads \in Seq(S), NEW l, NEW older \in Seq(S), loads = <<l>> \o older,
           l \in S, ~(Range(loads) \subseteq Lacking)
    PROVE  FindCall(loads) \in S /\ (l \notin Lacking => FindCall(loads) = l)
<1> DEFINE Found(i) == loads[i] \notin Lacking /\ \A j \in 1 .. i - 1 : loads[j] \in Lacking
           T == {i \in 1 .. Len(loads) : loads[i] \notin Lacking}
<1>1. DOMAIN loads = 1 .. Len(loads) /\ Len(loads) \in Nat
      /\ \A i \in 1 .. Len(loads) : loads[i] \in S
  BY LenProperties, ElementOfSeq
<1>2. T \subseteq Nat /\ T # {}
  <2>1. PICK x \in Range(loads) : x \notin Lacking
    OBVIOUS
  <2>2. \A y \in Range(loads) : \E i \in 1 .. Len(loads) : y = loads[i]
    BY ONLY loads \in Seq(S), ListedMembers
  <2>3. PICK i \in 1 .. Len(loads) : x = loads[i]
    BY ONLY <2>1, <2>2
  <2>4. i \in T
    BY <2>1, <2>3
  <2>5. T \subseteq Nat
    BY <1>1
  <2> QED BY ONLY <2>4, <2>5
<1>3. PICK first \in T : \A i \in T : first <= i
  <2> HIDE DEF T
  <2> QED BY <1>2, SmallestExists
<1>4. first \in DOMAIN loads /\ Found(first)
  BY <1>1, <1>3
<1> DEFINE chosen == CHOOSE i \in DOMAIN loads : Found(i)
<1>5. chosen \in DOMAIN loads /\ Found(chosen)
  <2> HIDE DEF Found
  <2> QED BY <1>4
<1>6. FindCall(loads) = loads[chosen]
  BY DEF FindCall
<1>7. l \notin Lacking => chosen = 1
  <2>1. loads[1] = l
    BY <1>1, ConcatProperties
  <2> HIDE DEF chosen
  <2> QED BY <1>1, <1>5, <2>1
<1>8. loads[1] = l
  BY ConcatProperties
<1> HIDE DEF chosen
<1> QED BY <1>1, <1>5, <1>6, <1>7, <1>8

\* What loadRune holds before wasm3 has taken the module.
LEMMA FrameHolds ==
    ASSUME NEW l, NEW k
    PROVE  LET held == Mapping(l) \o <<M3Runtime(k), Module(l)>>
           IN  /\ Range(held) = Range(Mapping(l)) \cup {M3Runtime(k), Module(l)}
               /\ Range(Mapping(l)) \subseteq {Memory(l)}
<1> DEFINE S    == {Memory(l), M3Runtime(k), Module(l)}
           rest == <<M3Runtime(k), Module(l)>>
<1>1. Mapping(l) \in Seq(S) /\ rest \in Seq(S)
  <2>1. ASSUME NEW T, Memory(l) \in T, M3Runtime(k) \in T, Module(l) \in T
        PROVE  Mapping(l) \in Seq(T) /\ rest \in Seq(T)
    BY <2>1 DEF Mapping
  <2> QED BY <2>1
<1>2. Range(rest) = {M3Runtime(k), Module(l)} /\ Range(Mapping(l)) \subseteq {Memory(l)}
  BY DEF Range, Mapping
<1>3. Range(Mapping(l) \o rest) = Range(Mapping(l)) \cup Range(rest)
  <2> HIDE DEF S, rest
  <2> QED BY <1>1, RangeOfConcat
<1> QED BY <1>2, <1>3

\* The step that makes the rune, from the load and its runtime.
RuneIsMade(l, k, d) ==
    /\ loading # None /\ loading.load = l /\ loading.runtime = k
    /\ DelegateObject(d) \in handles
    /\ ModuleIsLoaded(<<d>>)

LEMMA RuneMadeData ==
    ASSUME NEW l \in 1 .. Loads, NEW k \in 1 .. MaxRuntimes, NEW d,
           BaseInv, RuneIsMade(l, k, d)
    PROVE  DataInv'
<1> DEFINE loads == <<l>> \o modules[k]
<1>1. modules[k] \in Seq(1 .. Loads) /\ <<l>> \in Seq(1 .. Loads)
  BY DEF BaseInv, DataInv
<1>2. loads \in Seq(1 .. Loads)
  BY <1>1, ConcatProperties
<1>3. /\ modules' = [modules EXCEPT ![k] = loads]
      /\ loaded' = loaded \cup {l}
      /\ UNCHANGED <<freed, source, Loads>>
      /\ \/ loading' = None /\ UNCHANGED code
         \/ /\ ~(Range(loads) \subseteq Lacking)
            /\ code' = code ++ <<l, FindCall(loads)>> /\ UNCHANGED loading
  BY DEF RuneIsMade, ModuleIsLoaded, LoadedWith, Loads
<1>4. ~(Range(loads) \subseteq Lacking) => FindCall(loads) \in 1 .. Loads
  BY <1>1, <1>2, FindsCall
<1> HIDE DEF loads
<1>5. modules' \in [1 .. MaxRuntimes -> Seq(1 .. Loads')]
  BY <1>2, <1>3 DEF BaseInv, DataInv
<1>6. loading' \in [load : 1 .. Loads', runtime : 1 .. MaxRuntimes] \cup {None}
  BY <1>3 DEF BaseInv, DataInv
<1>7. DOMAIN code' \subseteq 1 .. Loads' /\ code' \in [DOMAIN code' -> 1 .. Loads']
  <2>1. CASE UNCHANGED code
    BY <1>3, <2>1 DEF BaseInv, DataInv
  <2>2. CASE code' = code ++ <<l, FindCall(loads)>> /\ ~(Range(loads) \subseteq Lacking)
    BY <1>3, <1>4, <2>2 DEF BaseInv, DataInv, ++
  <2> QED BY <1>3, <2>1, <2>2
<1>8. loaded' \subseteq 1 .. Loads' /\ freed' \in [Load -> Nat]
  BY <1>3 DEF BaseInv, DataInv, Load
<1> QED BY <1>3, <1>5, <1>6, <1>7, <1>8 DEF BaseInv, DataInv

LEMMA RuneMadeBase ==
    ASSUME NEW l \in 1 .. Loads, NEW k \in 1 .. MaxRuntimes, NEW d,
           BaseInv, RuneIsMade(l, k, d)
    PROVE  BaseInv'
<1> DEFINE made == {Rune(l), Manager(l), Frame}
<1>1. /\ Alive' = Alive \cup made
      /\ members'[Rune(l)] = RuneMembers(l, k)
      /\ members'[Manager(l)] = <<Logger, DelegateObject(d)>>
      /\ members'[Frame] = Mapping(l)
      /\ \A o \in Alive \ made : members'[o] = members[o]
  BY RuneMade DEF RuneIsMade
<1>2. /\ dying = <<>> /\ loading # None /\ loading.load = l /\ loading.runtime = k
      /\ Rune(l) \notin Alive
      /\ \/ dying' = <<Frame, Rune(l)>> /\ loading' = None
         \/ dying' = <<>> /\ UNCHANGED loading
      /\ UNCHANGED <<handles, freed, source, Loads>>
  BY DEF RuneIsMade, ModuleIsLoaded, Loads
<1>3. Dying = {} /\ (dying' = <<>> => Dying' = {} /\ Len(dying') = 0)
      /\ (dying' = <<Frame, Rune(l)>> => Dying' = {Frame, Rune(l)} /\ Len(dying') = 2)
  BY <1>2, NothingDying DEF Dying
<1>4. /\ Runtime(k) \in handles /\ source[l].runtime = k
      /\ Frame \in Alive /\ ~Held(Rune(l))
      /\ members[Frame] = Mapping(l) \o <<M3Runtime(k), Module(l)>>
  BY <1>2 DEF BaseInv, LoadInv
<1>5. /\ Range(members[Frame]) = Range(Mapping(l)) \cup {M3Runtime(k), Module(l)}
      /\ Range(members[Frame]) \subseteq Alive
      /\ Range(Mapping(l)) \subseteq {Memory(l)}
      /\ Mapping(l)' = Mapping(l)
  BY <1>2, <1>4, FrameHolds, ListedMembers DEF BaseInv, CountInv, HoldInv, Mapping
<1>6. {Logger, M3Runtime(k), Models, Module(l), DelegateObject(d)} \subseteq Alive
  BY <1>4, <1>5, RuntimeHolds DEF RuneIsMade, BaseInv, CountInv, HoldInv
<1>7. HoldInv'
  <2>1. \A o \in made : o = <<o[1], o[2]>>
    BY DEF Rune, Manager, Frame
  <2>2. \A o \in made : members'[o] \in Seq(Alive')
    <3>1. made \cup {Logger, M3Runtime(k), Models, Module(l), DelegateObject(d)} \subseteq Alive'
      BY <1>1, <1>6
    <3>2. ASSUME NEW S,
                 made \cup {Logger, M3Runtime(k), Models, Module(l), DelegateObject(d)} \subseteq S
          PROVE  RuneMembers(l, k) \in Seq(S) /\ <<Logger, DelegateObject(d)>> \in Seq(S)
      BY <3>2 DEF RuneMembers
    <3>3. Mapping(l) \in Seq(Alive')
      <4>1. Range(Mapping(l)) \subseteq Alive'
        BY <1>1, <1>5
      <4>2. ASSUME NEW S, Range(Mapping(l)) \subseteq S PROVE Mapping(l) \in Seq(S)
        BY <4>2 DEF Mapping, Range
      <4> QED BY <4>1, <4>2
    <3> QED BY <1>1, <3>1, <3>2, <3>3
  <2>3. handles' \subseteq Alive'
    BY <1>1, <1>2 DEF BaseInv, CountInv, HoldInv
  <2> HIDE DEF made
  <2> QED BY <1>1, <2>1, <2>2, <2>3, HoldGrows DEF BaseInv, CountInv
<1>8. KindsInv'
  <2>1. /\ Range(members'[Rune(l)]) = {Logger, Module(l), M3Runtime(k), Manager(l), Models}
        /\ Range(members'[Manager(l)]) = {Logger, DelegateObject(d)}
    BY <1>1 DEF Range, RuneMembers
  <2>2. \A o \in made : \A p \in Range(members'[o]) : MayHold(o, p)'
    <3>1. ASSUME NEW p \in {Logger, Module(l), M3Runtime(k), Manager(l), Models}
          PROVE  MayHold(Rune(l), p)'
      BY <1>2, <1>4 DEF MayHold, Logger, Module, M3Runtime, Manager, Models, Rune
    <3>2. ASSUME NEW p \in {Logger, DelegateObject(d)} PROVE MayHold(Manager(l), p)'
      BY DEF MayHold, Logger, DelegateObject
    <3>3. ASSUME NEW p \in {Memory(l)} PROVE MayHold(Frame, p)'
      BY DEF MayHold, Memory
    <3> QED BY <1>1, <1>5, <2>1, <3>1, <3>2, <3>3
  <2>3. \A o \in made : o[1] \notin Leaves
    BY DEF Rune, Manager, Frame, Leaves
  <2>4. Held(M3Runtime(k))'
    BY <1>1, <2>1 DEF Held, Holds, Alive
  <2>5. \A o \in Alive \cap made : \A p \in Range(members[o]) : p[1] \in Leaves => Held(p)'
    <3>1. ASSUME NEW p \in Range(members[Frame]), p[1] \in Leaves PROVE Held(p)'
      <4>1. p = M3Runtime(k)
        BY <1>5, <3>1 DEF Memory, Module, Leaves
      <4> QED BY <2>4, <4>1 DEF Held
    <3>2. ASSUME Manager(l) \in Alive, NEW p \in Range(members[Manager(l)]) PROVE p[1] \notin Leaves
      BY <3>2 DEF BaseInv, KindsInv, MayHold, Manager, Leaves, Frame, Runtime, ModelFrame, Model
    <3> QED BY <1>2, <3>1, <3>2
  <2>6. \A i \in 1 .. Len(dying') - 1 : dying'[i][1] \notin Leaves
    <3>1. CASE dying' = <<Frame, Rune(l)>>
      BY <1>3, <3>1 DEF Frame, Leaves
    <3> QED BY <1>2, <1>3, <3>1
  <2>7. \A j \in 1 .. Loads : source'[j] = source[j]
    BY <1>2
  <2> HIDE DEF made
  <2> QED BY <1>1, <1>2, <2>2, <2>3, <2>5, <2>6, <2>7, KindsGrow DEF BaseInv, CountInv
<1>9. ~Held(Rune(l))'
  <2>1. Rune(l) \notin handles'
    BY <1>2, <1>4 DEF Held, Holds
  <2>2. \A o \in made : Rune(l) \notin Range(members'[o])
    <3>1. ASSUME NEW o \in made
          PROVE  Range(members'[o]) \subseteq {Logger, Module(l), M3Runtime(k), Manager(l), Models,
                                               DelegateObject(d), Memory(l)}
      <4>1. /\ Range(RuneMembers(l, k)) = {Logger, Module(l), M3Runtime(k), Manager(l), Models}
            /\ Range(<<Logger, DelegateObject(d)>>) = {Logger, DelegateObject(d)}
        BY DEF Range, RuneMembers
      <4> QED BY <1>1, <1>5, <4>1
    <3> QED BY <3>1 DEF Rune, Logger, Module, M3Runtime, Manager, Models, DelegateObject, Memory
  <2> HIDE DEF made
  <2> QED BY <1>1, <1>4, <2>1, <2>2, StaysUnheld DEF Held
<1>10. DyingInv'
  <2>1. ~Held(Frame)'
    BY <1>8 DEF KindsInv, MayHold, Held, Holds, Alive, Frame
  <2>2. CASE dying' = <<Frame, Rune(l)>>
    <3>1. Frame # Rune(l)
      BY DEF Frame, Rune
    <3>2. <<Frame, Rune(l)>> \in Seq(Alive')
      BY <1>1
    <3> QED BY <1>3, <1>9, <2>1, <2>2, <3>1, <3>2 DEF DyingInv
  <2>3. CASE dying' = <<>>
    BY <1>3, <2>3 DEF DyingInv
  <2> QED BY <1>2, <2>2, <2>3
<1>11. LoadInv'
  <2>1. \A o \in Alive' : o[1] \in {"Wasm3Rune", "CapabilitiesDelegatesManager"} => o[2] \in 1 .. Loads'
    BY <1>1, <1>2 DEF BaseInv, LoadInv, Rune, Manager, Frame
  <2>2. \A o \in Alive' : o[1] \in {"Wasm3Runtime", "M3Runtime"} => o[2] \in 1 .. MaxRuntimes
    BY <1>1 DEF BaseInv, LoadInv, Rune, Manager, Frame
  <2>3. ModelFrame \notin Alive'
    BY <1>1, <1>3 DEF BaseInv, LoadInv, Rune, Manager, Frame, ModelFrame
  <2>4. CASE dying' = <<Frame, Rune(l)>> /\ loading' = None
    BY <1>3, <2>1, <2>2, <2>3, <2>4 DEF LoadInv
  <2>5. CASE dying' = <<>> /\ UNCHANGED loading
    <3>1. Rune(loading'.load) \in Alive' /\ members'[Frame] = Mapping(loading.load)'
      BY <1>1, <1>2, <1>5, <2>5 DEF Mapping
    <3>2. ~Held(Rune(loading.load))'
      BY <1>2, <1>9, <2>5 DEF Held
    <3>3. /\ Runtime(loading'.runtime) \in handles'
          /\ source'[loading'.load].runtime = loading'.runtime
          /\ Frame \in Alive' \ Dying' /\ Dying' = {}
      BY <1>1, <1>2, <1>3, <1>4, <2>5
    <3> QED BY <2>1, <2>2, <2>3, <2>5, <3>1, <3>2, <3>3, <1>2 DEF LoadInv
  <2> QED BY <1>2, <2>4, <2>5
<1>12. ShapeInv'
  <2>1. ASSUME NEW j \in 1 .. MaxRuntimes, Runtime(j) \in Alive'
        PROVE  Runtime(j) \in Alive /\ members'[Runtime(j)] = members[Runtime(j)]
    BY <1>1, <2>1 DEF Rune, Manager, Frame, Runtime
  <2>2. RuneShape(l)'
    <3>1. CASE dying' = <<>> /\ UNCHANGED loading
      <4>1. <<>> \o RuneMembers(l, k) = RuneMembers(l, k)
        <5>1. RuneMembers(l, k) \in Seq({Logger, Module(l), M3Runtime(k), Manager(l), Models})
          BY DEF RuneMembers
        <5> QED BY <5>1, ConcatEmptySeq
      <4> QED BY <1>1, <1>2, <1>4, <3>1, <4>1 DEF RuneShape
    <3>2. CASE dying' = <<Frame, Rune(l)>>
      BY <1>3, <3>2 DEF RuneShape
    <3> QED BY <1>2, <3>1, <3>2
  <2>3. ASSUME NEW j \in 1 .. Loads', Rune(j) \in Alive', j # l
        PROVE  /\ j \in 1 .. Loads /\ source'[j] = source[j]
               /\ loading'.load = j <=> loading.load = j
               /\ Rune(j) \in Alive /\ members'[Rune(j)] = members[Rune(j)]
    <3>1. Rune(j) \in Alive /\ members'[Rune(j)] = members[Rune(j)]
      BY <1>1, <2>3 DEF Rune, Manager, Frame
    <3>2. loading'.load = 0 \/ loading'.load = l
      BY <1>2 DEF None
    <3> QED BY <1>2, <2>3, <3>1, <3>2
  <2>4. Engine \in Alive' => Engine \in Alive /\ members'[Engine] = members[Engine]
    BY <1>1 DEF Rune, Manager, Frame, Engine
  <2> QED BY <1>3, <2>1, <2>2, <2>3, <2>4, ShapeKept DEF BaseInv
<1> QED BY <1>7, <1>8, <1>10, <1>11, <1>12, RuneMadeData DEF BaseInv, CountInv

LEMMA LoadKept ==
    ASSUME LoadInv, dying = <<>>, UNCHANGED <<loading, source, Loads>>,
           NEW made, Alive' = Alive \cup made,
           \A o \in Alive \ made : members'[o] = members[o],
           Frame \notin made,
           \A o \in made : o[1] \notin {"Wasm3Rune", "CapabilitiesDelegatesManager",
                                      "Wasm3Runtime", "M3Runtime"},
           ModelFrame \in Alive' => ModelFrame \in Dying',
           Dying' \subseteq {ModelFrame},
           loading # None =>
              /\ Runtime(loading.runtime) \in handles'
              /\ Rune(loading.load) \notin handles'
              /\ \A o \in made : Rune(loading.load) \notin Range(members'[o])
    PROVE  LoadInv'
<1>1. \A o \in Alive' : o[1] \in {"Wasm3Rune", "CapabilitiesDelegatesManager"} => o[2] \in 1 .. Loads'
  BY DEF LoadInv
<1>2. \A o \in Alive' : o[1] \in {"Wasm3Runtime", "M3Runtime"} => o[2] \in 1 .. MaxRuntimes
  BY DEF LoadInv
<1>3. Dying = {}
  BY NothingDying
<1>4. Frame \in Alive' => loading' # None
  BY <1>3 DEF LoadInv
<1>5. ASSUME loading # None
      PROVE  /\ Runtime(loading'.runtime) \in handles'
             /\ source'[loading'.load].runtime = loading'.runtime
             /\ Frame \in Alive' \ Dying'
             /\ ~Held(Rune(loading.load))' /\ Rune(loading'.load) \notin Dying'
             /\ members'[Frame] = members[Frame]
             /\ Rune(loading'.load) \in Alive' <=> Rune(loading.load) \in Alive
  <2>1. /\ Runtime(loading'.runtime) \in handles'
        /\ source'[loading'.load].runtime = loading'.runtime
        /\ Frame \in Alive' /\ members'[Frame] = members[Frame]
    BY <1>5 DEF LoadInv
  <2>2. Frame \notin Dying' /\ Rune(loading'.load) \notin Dying'
    BY DEF Frame, ModelFrame, Rune
  <2>3. ~Holds(members', handles', Rune(loading.load))
    BY <1>5, StaysUnheld DEF LoadInv
  <2>4. Rune(loading.load) \notin made
    BY DEF Rune
  <2> QED BY <2>1, <2>2, <2>3, <2>4 DEF Held
<1>6. loading # None => members'[Frame] = IF Rune(loading'.load) \in Alive'
                              THEN Mapping(loading.load)'
                              ELSE Mapping(loading.load)'
                                     \o <<M3Runtime(loading'.runtime), Module(loading'.load)>>
  BY <1>5 DEF LoadInv, Mapping
<1> QED BY <1>1, <1>2, <1>4, <1>5, <1>6 DEF LoadInv

\* What a rune that is not being destroyed holds.
LEMMA RuneHolds ==
    ASSUME BaseInv, NEW l, Rune(l) \in Alive \ Dying
    PROVE  /\ l \in 1 .. Loads
           /\ {Logger, Module(l), M3Runtime(source[l].runtime), Manager(l), Models}
                 \subseteq Range(members[Rune(l)]) \cap Alive
           /\ loading.load # l => Range(Mapping(l)) \subseteq Range(members[Rune(l)]) \cap Alive
<1> DEFINE k    == source[l].runtime
           own  == RuneMembers(l, k)
           held == IF loading.load = l THEN <<>> ELSE Mapping(l)
           S    == {Logger, Module(l), M3Runtime(k), Manager(l), Models, Memory(l)}
<1>1. l \in 1 .. Loads
  BY DEF BaseInv, LoadInv, Rune
<1>2. members[Rune(l)] = held \o own
  BY <1>1 DEF BaseInv, ShapeInv, RuneShape
<1>3. held \in Seq(S) /\ own \in Seq(S)
  <2>1. ASSUME NEW T, Logger \in T, Module(l) \in T, M3Runtime(k) \in T, Manager(l) \in T,
               Models \in T, Memory(l) \in T
        PROVE  held \in Seq(T) /\ own \in Seq(T)
    BY <2>1 DEF Mapping, RuneMembers
  <2> QED BY <2>1
<1>4. Range(own) = {Logger, Module(l), M3Runtime(k), Manager(l), Models}
  BY DEF Range, RuneMembers
<1>5. loading.load # l => held = Mapping(l)
  OBVIOUS
<1>6. Range(members[Rune(l)]) = Range(held) \cup Range(own)
  <2> HIDE DEF S, held, own
  <2> QED BY <1>2, <1>3, RangeOfConcat
<1>7. Range(members[Rune(l)]) \subseteq Alive
  BY ListedMembers DEF BaseInv, CountInv, HoldInv
<1> HIDE DEF held, own
<1> QED BY <1>1, <1>4, <1>5, <1>6, <1>7

\* The wasm of a rune that runs finds what it needs to load a model.
LEMMA RunsHolds ==
    ASSUME BaseInv, NEW l \in Load, Runs(l)
    PROVE  /\ Rune(l) \in Alive \ Dying /\ l \in 1 .. Loads
           /\ {Logger, Models, Manager(l)} \subseteq Alive
           /\ dying = <<>> /\ Dying = {}
<1>1. dying = <<>> /\ Dying = {}
  BY NothingDying DEF Runs, AppRuns
<1>2. Rune(l) \in Alive
  <2>1. CASE loading.load = l
    <3>1. loading # None
      BY <2>1 DEF None, Load
    <3> QED BY <2>1, <3>1 DEF Runs, AppRuns
  <2>2. CASE loading = None /\ Rune(l) \in handles
    BY <2>2 DEF BaseInv, CountInv, HoldInv
  <2> QED BY <2>1, <2>2 DEF Runs
<1> QED BY <1>1, <1>2, RuneHolds

\* One more thing is held.
LEMMA OneMore ==
    ASSUME NEW S, NEW s \in Seq(S), NEW o \in S
    PROVE  Append(s, o) \in Seq(S) /\ Range(Append(s, o)) = Range(s) \cup {o}
<1> DEFINE t == <<o>>
<1>1. Append(s, o) = s \o t /\ t \in Seq(S)
  BY AppendIsConcat
<1>2. Range(t) = {o}
  BY DEF Range
<1> HIDE DEF t
<1> QED BY <1>1, <1>2, RangeOfConcat

LEMMA LoadModelBase == \A l \in Load : BaseInv /\ LoadModel(l) => BaseInv'
<1> SUFFICES ASSUME NEW l \in Load, BaseInv, LoadModel(l) PROVE BaseInv'
  OBVIOUS
<1> DEFINE made == {TfLogger(l), ModelData(l), TfModel(l), Interpreter(l), Model(l), Models}
<1>1. /\ Alive' = Alive \cup made
      /\ members'[TfLogger(l)] = <<Logger>>
      /\ members'[ModelData(l)] = <<>>
      /\ members'[TfModel(l)] = <<>>
      /\ members'[Interpreter(l)] = <<>>
      /\ members'[Model(l)] = ModelMembers(l)
      /\ members'[Models] = Append(members[Models], Model(l))
      /\ \A o \in Alive \ made : members'[o] = members[o]
  BY ModelMade
<1>2. /\ dying = <<>> /\ Runs(l) /\ Model(l) \notin Alive /\ dying' = <<>>
      /\ UNCHANGED <<handles, dying, loading, modules, loaded, code, freed, source, Loads>>
  BY DEF LoadModel, Runs, AppRuns, Loads
<1>3. Dying = {} /\ Dying' = {} /\ Len(dying') = 0
  BY <1>2, NothingDying DEF Dying
<1>4. DataInv'
  BY <1>2 DEF BaseInv, DataInv, Loads, Load, None
<1>5. {Logger, Models} \subseteq Alive
  BY <1>2, RunsHolds
<1>6. members'[Models] \in Seq(Alive') /\ Range(members'[Models]) = Range(members[Models]) \cup {Model(l)}
  <2>1. members[Models] \in Seq(Alive')
    BY <1>1, <1>5, SeqMonotonic DEF BaseInv, CountInv, HoldInv
  <2> QED BY <1>1, <2>1, OneMore
<1>7. HoldInv'
  <2>1. \A o \in made : o = <<o[1], o[2]>>
    BY DEF TfLogger, ModelData, TfModel, Interpreter, Model, Models
  <2>2. \A o \in made : members'[o] \in Seq(Alive')
    <3>1. made \cup {Logger} \subseteq Alive'
      BY <1>1, <1>5
    <3>2. ASSUME NEW S, made \cup {Logger} \subseteq S
          PROVE  <<>> \in Seq(S) /\ <<Logger>> \in Seq(S) /\ ModelMembers(l) \in Seq(S)
      BY <3>2 DEF ModelMembers
    <3> QED BY <1>1, <1>6, <3>1, <3>2
  <2>3. handles' \subseteq Alive'
    BY <1>1, <1>2 DEF BaseInv, CountInv, HoldInv
  <2> HIDE DEF made
  <2> QED BY <1>1, <2>1, <2>2, <2>3, HoldGrows DEF BaseInv, CountInv
<1>8. DyingInv'
  BY <1>2, <1>3 DEF DyingInv
<1>9. /\ Range(members'[TfLogger(l)]) = {Logger}
      /\ \A o \in {ModelData(l), TfModel(l), Interpreter(l)} : Range(members'[o]) = {}
      /\ Range(members'[Model(l)]) = {Logger, TfLogger(l), ModelData(l), TfModel(l), Interpreter(l)}
  BY <1>1 DEF Range, ModelMembers
<1>10. KindsInv'
  <2>1. \A o \in made : \A p \in Range(members'[o]) : MayHold(o, p)'
    <3>1. ASSUME NEW p \in {Logger, TfLogger(l), ModelData(l), TfModel(l), Interpreter(l)}
          PROVE  MayHold(Model(l), p)'
      BY DEF MayHold, Logger, TfLogger, ModelData, TfModel, Interpreter, Model
    <3>2. MayHold(TfLogger(l), Logger)' /\ MayHold(Models, Model(l))'
      BY DEF MayHold, Logger, Model
    <3>3. ASSUME NEW p \in Range(members[Models]) PROVE MayHold(Models, p)'
      BY <1>5 DEF BaseInv, KindsInv, MayHold, Models, Frame, Runtime, ModelFrame, Model
    <3> QED BY <1>6, <1>9, <3>1, <3>2, <3>3
  <2>2. Held(TfModel(l))' /\ Held(Interpreter(l))'
    BY <1>1, <1>9 DEF Held, Holds, Alive
  <2>3. \A o \in made : o[1] \in Leaves => members'[o] = <<>> /\ Held(o)'
    <3>1. \A o \in {TfLogger(l), ModelData(l), Model(l), Models} : o[1] \notin Leaves
      BY DEF TfLogger, ModelData, Model, Models, Leaves
    <3> QED BY <1>1, <2>2, <3>1 DEF Held
  <2>4. \A o \in Alive \cap made : \A p \in Range(members[o]) : p[1] \notin Leaves
    BY <1>2 DEF BaseInv, KindsInv, MayHold, Leaves, Frame, Runtime, ModelFrame, Model,
       TfLogger, ModelData, TfModel, Interpreter, Models
  <2>5. \A i \in 1 .. Len(dying') - 1 : dying'[i][1] \notin Leaves
    BY <1>3
  <2>6. \A j \in 1 .. Loads : source'[j] = source[j]
    BY <1>2
  <2> HIDE DEF made
  <2> QED BY <1>1, <1>2, <2>1, <2>3, <2>4, <2>5, <2>6, KindsGrow DEF BaseInv, CountInv
<1>11. LoadInv'
  <2>1. \A o \in made : o[1] \notin {"Wasm3Rune", "CapabilitiesDelegatesManager",
                                  "Wasm3Runtime", "M3Runtime"}
    BY DEF TfLogger, ModelData, TfModel, Interpreter, Model, Models
  <2>2. Frame \notin made /\ ModelFrame \notin Alive'
    BY <1>1, <1>3 DEF BaseInv, LoadInv, Frame, ModelFrame, TfLogger, ModelData, TfModel,
       Interpreter, Model, Models
  <2>3. ASSUME loading # None
        PROVE  /\ Runtime(loading.runtime) \in handles'
               /\ Rune(loading.load) \notin handles'
               /\ \A o \in made : Rune(loading.load) \notin Range(members'[o])
    <3>1. Runtime(loading.runtime) \in handles /\ ~Held(Rune(loading.load))
      BY <2>3 DEF BaseInv, LoadInv
    <3>2. Rune(loading.load) \notin Range(members[Models])
      BY <1>5, <3>1 DEF Held, Holds, Alive
    <3>3. \A o \in made : Rune(loading.load) \notin Range(members'[o])
      <4>1. Rune(loading.load) \notin {Logger, TfLogger(l), ModelData(l), TfModel(l), Interpreter(l),
                                     Model(l)}
        BY DEF Rune, Logger, TfLogger, ModelData, TfModel, Interpreter, Model
      <4>2. Rune(loading.load) \notin Range(members'[Models])
        BY <1>6, <3>2, <4>1
      <4>3. \A o \in made \ {Models} : Rune(loading.load) \notin Range(members'[o])
        BY <1>9, <4>1
      <4> QED BY <4>2, <4>3
    <3> QED BY <1>2, <3>1, <3>3 DEF Held, Holds
  <2> HIDE DEF made
  <2> QED BY <1>1, <1>2, <1>3, <2>1, <2>2, <2>3, LoadKept DEF BaseInv
<1>12. ShapeInv'
  <2>1. ASSUME NEW k \in 1 .. MaxRuntimes, Runtime(k) \in Alive'
        PROVE  Runtime(k) \in Alive /\ members'[Runtime(k)] = members[Runtime(k)]
    BY <1>1, <2>1 DEF TfLogger, ModelData, TfModel, Interpreter, Model, Models, Runtime
  <2>2. ASSUME NEW j \in 1 .. Loads, Rune(j) \in Alive'
        PROVE  Rune(j) \in Alive /\ members'[Rune(j)] = members[Rune(j)]
    BY <1>1, <2>2 DEF TfLogger, ModelData, TfModel, Interpreter, Model, Models, Rune
  <2>3. Engine \in Alive' => Engine \in Alive /\ members'[Engine] = members[Engine]
    BY <1>1 DEF TfLogger, ModelData, TfModel, Interpreter, Model, Models, Engine
  <2> QED BY <1>2, <1>3, <2>1, <2>2, <2>3, ShapeKept DEF BaseInv
<1> QED BY <1>4, <1>7, <1>8, <1>10, <1>11, <1>12 DEF BaseInv, CountInv

LEMMA LoadModelFailsBase == \A l \in Load : BaseInv /\ LoadModelFails(l) => BaseInv'
<1> SUFFICES ASSUME NEW l \in Load, BaseInv, LoadModelFails(l) PROVE BaseInv'
  OBVIOUS
<1> DEFINE made == {TfLogger(l), ModelData(l), TfModel(l), Interpreter(l), ModelFrame}
<1>1. /\ Alive' = Alive \cup made
      /\ members'[TfLogger(l)] = <<Logger>>
      /\ members'[ModelData(l)] = <<>>
      /\ members'[TfModel(l)] = <<>>
      /\ members'[Interpreter(l)] = <<>>
      /\ members'[ModelFrame] = <<ModelData(l), TfModel(l), TfLogger(l), Interpreter(l)>>
      /\ \A o \in Alive \ made : members'[o] = members[o]
  BY ModelHalfMade
<1>2. /\ dying = <<>> /\ Runs(l) /\ Model(l) \notin Alive /\ dying' = <<ModelFrame>>
      /\ UNCHANGED <<handles, loading, modules, loaded, code, freed, source, Loads>>
  BY DEF LoadModelFails, Runs, AppRuns, Loads
<1>3. Dying = {} /\ Dying' = {ModelFrame} /\ Len(dying') = 1
  BY <1>2, NothingDying DEF Dying
<1>4. DataInv'
  BY <1>2 DEF BaseInv, DataInv, Loads, Load, None
<1>5. Logger \in Alive /\ ModelFrame \notin Alive
  BY <1>2, <1>3, RunsHolds DEF BaseInv, LoadInv
<1>6. HoldInv'
  <2>1. \A o \in made : o = <<o[1], o[2]>>
    BY DEF TfLogger, ModelData, TfModel, Interpreter, ModelFrame
  <2>2. \A o \in made : members'[o] \in Seq(Alive')
    <3>1. made \cup {Logger} \subseteq Alive'
      BY <1>1, <1>5
    <3>2. ASSUME NEW S, made \cup {Logger} \subseteq S
          PROVE  /\ <<>> \in Seq(S) /\ <<Logger>> \in Seq(S)
                 /\ <<ModelData(l), TfModel(l), TfLogger(l), Interpreter(l)>> \in Seq(S)
      BY <3>2
    <3> QED BY <1>1, <3>1, <3>2
  <2>3. handles' \subseteq Alive'
    BY <1>1, <1>2 DEF BaseInv, CountInv, HoldInv
  <2> HIDE DEF made
  <2> QED BY <1>1, <2>1, <2>2, <2>3, HoldGrows DEF BaseInv, CountInv
<1>7. /\ Range(members'[TfLogger(l)]) = {Logger}
      /\ \A o \in {ModelData(l), TfModel(l), Interpreter(l)} : Range(members'[o]) = {}
      /\ Range(members'[ModelFrame]) = {ModelData(l), TfModel(l), TfLogger(l), Interpreter(l)}
  BY <1>1 DEF Range
<1>8. KindsInv'
  <2>1. \A o \in made : \A p \in Range(members'[o]) : MayHold(o, p)'
    <3>1. ASSUME NEW p \in {ModelData(l), TfModel(l), TfLogger(l), Interpreter(l)}
          PROVE  MayHold(ModelFrame, p)'
      BY DEF MayHold, TfLogger, ModelData, TfModel, Interpreter
    <3>2. MayHold(TfLogger(l), Logger)'
      BY DEF MayHold, Logger
    <3> QED BY <1>7, <3>1, <3>2
  <2>2. Held(TfModel(l))' /\ Held(Interpreter(l))'
    BY <1>1, <1>7 DEF Held, Holds, Alive
  <2>3. \A o \in made : o[1] \in Leaves => members'[o] = <<>> /\ Held(o)'
    <3>1. \A o \in {TfLogger(l), ModelData(l), ModelFrame} : o[1] \notin Leaves
      BY DEF TfLogger, ModelData, ModelFrame, Leaves
    <3> QED BY <1>1, <2>2, <3>1 DEF Held
  <2>4. \A o \in Alive \cap made : \A p \in Range(members[o]) : p[1] \notin Leaves
    BY <1>5 DEF BaseInv, KindsInv, MayHold, Leaves, Frame, Runtime, ModelFrame, Model,
       TfLogger, ModelData, TfModel, Interpreter
  <2>5. \A i \in 1 .. Len(dying') - 1 : dying'[i][1] \notin Leaves
    BY <1>3
  <2>6. \A j \in 1 .. Loads : source'[j] = source[j]
    BY <1>2
  <2> HIDE DEF made
  <2> QED BY <1>1, <1>2, <2>1, <2>3, <2>4, <2>5, <2>6, KindsGrow DEF BaseInv, CountInv
<1>9. DyingInv'
  <2>1. ~Held(ModelFrame)'
    BY <1>8 DEF KindsInv, MayHold, Held, Holds, Alive, ModelFrame
  <2>2. <<ModelFrame>> \in Seq(Alive')
    BY <1>1
  <2> QED BY <1>2, <1>3, <2>1, <2>2 DEF DyingInv
<1>10. LoadInv'
  <2>1. \A o \in made : o[1] \notin {"Wasm3Rune", "CapabilitiesDelegatesManager",
                                  "Wasm3Runtime", "M3Runtime"}
    BY DEF TfLogger, ModelData, TfModel, Interpreter, ModelFrame
  <2>2. Frame \notin made
    BY DEF Frame, ModelFrame, TfLogger, ModelData, TfModel, Interpreter
  <2>3. ASSUME loading # None
        PROVE  /\ Runtime(loading.runtime) \in handles'
               /\ Rune(loading.load) \notin handles'
               /\ \A o \in made : Rune(loading.load) \notin Range(members'[o])
    <3>1. Runtime(loading.runtime) \in handles /\ ~Held(Rune(loading.load))
      BY <2>3 DEF BaseInv, LoadInv
    <3>2. \A o \in made : Rune(loading.load) \notin Range(members'[o])
      BY <1>7 DEF Rune, Logger, TfLogger, ModelData, TfModel, Interpreter
    <3> QED BY <1>2, <3>1, <3>2 DEF Held, Holds
  <2> HIDE DEF made
  <2> QED BY <1>1, <1>2, <1>3, <2>1, <2>2, <2>3, LoadKept DEF BaseInv
<1>11. ShapeInv'
  <2>1. ASSUME NEW k \in 1 .. MaxRuntimes, Runtime(k) \in Alive'
        PROVE  Runtime(k) \in Alive /\ members'[Runtime(k)] = members[Runtime(k)]
    BY <1>1, <2>1 DEF TfLogger, ModelData, TfModel, Interpreter, ModelFrame, Runtime
  <2>2. ASSUME NEW j \in 1 .. Loads, Rune(j) \in Alive'
        PROVE  Rune(j) \in Alive /\ members'[Rune(j)] = members[Rune(j)]
    BY <1>1, <2>2 DEF TfLogger, ModelData, TfModel, Interpreter, ModelFrame, Rune
  <2>3. Engine \in Alive' => Engine \in Alive /\ members'[Engine] = members[Engine]
    BY <1>1 DEF TfLogger, ModelData, TfModel, Interpreter, ModelFrame, Engine
  <2> QED BY <1>2, <1>3, <2>1, <2>2, <2>3, ShapeKept DEF BaseInv
<1> QED BY <1>4, <1>6, <1>8, <1>9, <1>10, <1>11 DEF BaseInv, CountInv

-----------------------------------------------------------------------------
(* Ends of a load *)

\* A load has failed: its locals are destroyed, and the rune if there is one.
LoadFails(l) ==
    /\ dying = <<>> /\ loading # None /\ loading.load = l /\ loading' = None
    /\ \/ dying' = <<Frame>> /\ Rune(l) \notin Alive
       \/ dying' = <<Frame, Rune(l)>> /\ Rune(l) \in Alive
    /\ UNCHANGED <<members, handles, modules, loaded, code, freed, source>>

LEMMA LoadFailsBase == \A l \in 1 .. Loads : BaseInv /\ LoadFails(l) => BaseInv'
<1> SUFFICES ASSUME NEW l \in 1 .. Loads, BaseInv, LoadFails(l) PROVE BaseInv'
  OBVIOUS
<1>1. /\ dying = <<>> /\ loading # None /\ loading.load = l /\ loading' = None
      /\ UNCHANGED <<members, Alive, handles, source, Loads>>
      /\ \/ dying' = <<Frame>> /\ Rune(l) \notin Alive
         \/ dying' = <<Frame, Rune(l)>> /\ Rune(l) \in Alive
  BY DEF LoadFails, Alive, Loads
<1>2. /\ Dying = {}
      /\ dying' = <<Frame>> => Dying' = {Frame} /\ Len(dying') = 1
      /\ dying' = <<Frame, Rune(l)>> => Dying' = {Frame, Rune(l)} /\ Len(dying') = 2
  BY <1>1, NothingDying DEF Dying
<1>3. Frame \in Alive /\ ~Held(Rune(l)) /\ ModelFrame \notin Alive
  BY <1>1, <1>2 DEF BaseInv, LoadInv
<1>4. DataInv'
  BY <1>1 DEF LoadFails, BaseInv, DataInv, Loads
<1>5. HoldInv'
  BY <1>1 DEF BaseInv, CountInv, HoldInv
<1>6. KindsInv'
  <2>1. ASSUME NEW i \in 1 .. Len(dying') - 1 PROVE dying'[i][1] \notin Leaves
    <3>1. CASE dying' = <<Frame, Rune(l)>>
      BY <1>2, <3>1 DEF Frame, Leaves
    <3>2. CASE dying' = <<Frame>>
      BY <1>2, <3>2
    <3> QED BY <1>1, <3>1, <3>2
  <2>2. \A o \in Alive : o[1] \in Leaves => members[o] = <<>> /\ Held(o)
    BY <1>2 DEF BaseInv, KindsInv
  <2> QED BY <1>1, <2>1, <2>2 DEF BaseInv, KindsInv, MayHold, Held, Frame, Runtime, ModelFrame,
      Model
<1>7. DyingInv'
  <2>1. ~Held(Frame)
    BY DEF BaseInv, KindsInv, MayHold, Held, Holds, Alive, Frame
  <2>2. CASE dying' = <<Frame, Rune(l)>>
    <3>1. Frame # Rune(l)
      BY DEF Frame, Rune
    <3>2. <<Frame, Rune(l)>> \in Seq(Alive')
      BY <1>1, <1>3, <2>2, <3>1
    <3> QED BY <1>1, <1>2, <1>3, <2>1, <2>2, <3>1, <3>2 DEF DyingInv, Held
  <2>3. CASE dying' = <<Frame>>
    <3>1. <<Frame>> \in Seq(Alive')
      BY <1>1, <1>3
    <3> QED BY <1>1, <1>2, <2>1, <2>3, <3>1 DEF DyingInv, Held
  <2> QED BY <1>1, <2>2, <2>3
<1>8. LoadInv'
  BY <1>1, <1>2, <1>3 DEF BaseInv, LoadInv
<1>9. ShapeInv'
  <2>1. ASSUME NEW j \in 1 .. Loads', Rune(j) \in Alive', j # l
        PROVE  loading'.load = j <=> loading.load = j
    BY <1>1, <2>1 DEF None
  <2>2. Rune(l) \in Alive' => RuneShape(l)'
    BY <1>1, <1>2 DEF RuneShape
  <2> QED BY <1>1, <1>2, <2>1, <2>2, ShapeKept DEF BaseInv
<1> QED BY <1>4, <1>5, <1>6, <1>7, <1>8, <1>9 DEF BaseInv, CountInv

LEMMA Without ==
    ASSUME NEW S, NEW s \in Seq(S), NEW x, x \notin Range(s)
    PROVE  s \in Seq(S \ {x})
<1>1. s \in Seq(Range(s)) /\ Range(s) \subseteq S \ {x}
  BY SeqOfRange, ListedMembers
<1> QED BY <1>1, SeqMonotonic

\* The members of a rune that has been loaded: what loadRune held is the last to go.
LEMMA RuneReturned ==
    ASSUME NEW l \in 1 .. Loads, BaseInv, LoadReturns, loading.load = l
    PROVE  /\ Alive' = Alive \ {Frame} /\ Frame # Rune(l) /\ Rune(l) \in Alive
           /\ dying = <<>> /\ Dying = {} /\ loading # None
           /\ members[Frame] = Mapping(l)
           /\ members[Rune(l)] = RuneMembers(l, source[l].runtime)
           /\ members'[Rune(l)] = Mapping(l) \o RuneMembers(l, source[l].runtime)
           /\ Range(members'[Rune(l)]) = Range(Mapping(l)) \cup Range(members[Rune(l)])
           /\ members'[Rune(l)] \in Seq(Alive)
           /\ \A o \in Alive \ {Frame, Rune(l)} : members'[o] = members[o]
           /\ \A o \in Alive : Frame \notin Range(members[o])
           /\ ~Held(Rune(l))
<1>1. /\ dying = <<>> /\ loading # None /\ Rune(l) \in Alive
      /\ members' = [Gone(members, Frame) EXCEPT ![Rune(l)] = members[Frame] \o @]
  BY DEF LoadReturns
<1>2. Dying = {}
  BY <1>1, NothingDying
<1>3. Frame # Rune(l)
  BY DEF Frame, Rune
<1>4. /\ Alive' = Alive \ {Frame}
      /\ members'[Rune(l)] = members[Frame] \o members[Rune(l)]
      /\ \A o \in Alive \ {Frame, Rune(l)} : members'[o] = members[o]
  BY <1>1, <1>3 DEF Alive, Gone
<1>5. members[Frame] = Mapping(l) /\ Frame \in Alive /\ ~Held(Rune(l))
  BY <1>1 DEF BaseInv, LoadInv
<1>6. members[Rune(l)] = RuneMembers(l, source[l].runtime)
  <2>1. members[Rune(l)] = <<>> \o RuneMembers(l, source[l].runtime)
    BY <1>1, <1>2 DEF BaseInv, ShapeInv, RuneShape
  <2>2. ASSUME NEW k PROVE RuneMembers(l, k) \in Seq({Logger, Module(l), M3Runtime(k), Manager(l), Models})
    BY DEF RuneMembers
  <2> QED BY <2>1, <2>2, ConcatEmptySeq
<1>7. members[Frame] \in Seq(Alive) /\ members[Rune(l)] \in Seq(Alive)
  BY <1>1, <1>5 DEF BaseInv, CountInv, HoldInv
<1>8. /\ Range(members'[Rune(l)]) = Range(Mapping(l)) \cup Range(members[Rune(l)])
      /\ members'[Rune(l)] \in Seq(Alive)
  BY <1>4, <1>5, <1>7, RangeOfConcat
<1>9. \A o \in Alive : Frame \notin Range(members[o])
  BY DEF BaseInv, KindsInv, MayHold, Frame
<1> QED BY <1>1, <1>2, <1>3, <1>4, <1>5, <1>6, <1>8, <1>9

LEMMA LoadReturnsBase ==
    \A l \in 1 .. Loads : BaseInv /\ LoadReturns /\ loading.load = l => BaseInv'
<1> SUFFICES ASSUME NEW l \in 1 .. Loads, BaseInv, LoadReturns, loading.load = l PROVE BaseInv'
  OBVIOUS
<1> DEFINE k == source[l].runtime
<1>1. /\ Alive' = Alive \ {Frame} /\ Frame # Rune(l) /\ Rune(l) \in Alive
      /\ dying = <<>> /\ Dying = {} /\ loading # None
      /\ members[Frame] = Mapping(l)
      /\ members[Rune(l)] = RuneMembers(l, k)
      /\ members'[Rune(l)] = Mapping(l) \o RuneMembers(l, k)
      /\ Range(members'[Rune(l)]) = Range(Mapping(l)) \cup Range(members[Rune(l)])
      /\ members'[Rune(l)] \in Seq(Alive)
      /\ \A o \in Alive \ {Frame, Rune(l)} : members'[o] = members[o]
      /\ \A o \in Alive : Frame \notin Range(members[o])
  BY RuneReturned
<1>2. /\ handles' = handles \cup {Rune(l)} /\ loading' = None /\ dying' = <<>> /\ Dying' = {}
      /\ UNCHANGED <<dying, modules, loaded, code, freed, source, Loads>>
  BY <1>1 DEF LoadReturns, Loads, Dying
<1>3. Range(Mapping(l)) \subseteq {Memory(l)} /\ Memory(l) # Frame
  BY FrameHolds DEF Memory, Frame
<1>4. DataInv'
  BY <1>2 DEF BaseInv, DataInv, Loads, Load, None
<1>5. HoldInv'
  <2>1. ASSUME NEW o \in Alive' PROVE o = <<o[1], o[2]>> /\ members'[o] \in Seq(Alive')
    <3>1. members'[o] \in Seq(Alive) /\ Frame \notin Range(members'[o])
      BY <1>1, <1>3, <2>1 DEF BaseInv, CountInv, HoldInv
    <3> QED BY <1>1, <2>1, <3>1, Without DEF BaseInv, CountInv, HoldInv
  <2>2. handles' \subseteq Alive'
    <3>1. Frame \notin handles
      BY DEF BaseInv, KindsInv, Frame
    <3> QED BY <1>1, <1>2, <3>1 DEF BaseInv, CountInv, HoldInv
  <2> QED BY <2>1, <2>2 DEF HoldInv
<1>6. DyingInv'
  BY <1>2 DEF DyingInv
<1>7. KindsInv'
  <2>1. \A o \in handles' : o[1] \notin Leaves \cup {"locals"}
    BY <1>2 DEF BaseInv, KindsInv, Rune, Leaves
  <2>2. ASSUME NEW o \in Alive', NEW p \in Range(members'[o]) PROVE MayHold(o, p)'
    <3>1. CASE p = Memory(l)
      BY <3>1 DEF MayHold, Memory
    <3>2. CASE p # Memory(l)
      <4>1. o \in Alive /\ p \in Range(members[o])
        BY <1>1, <1>3, <2>2, <3>2
      <4> QED BY <1>2, <4>1 DEF BaseInv, KindsInv, MayHold, Frame, Runtime, ModelFrame, Model
    <3> QED BY <3>1, <3>2
  <2>3. ASSUME NEW o \in Alive', o[1] \in Leaves PROVE members'[o] = <<>> /\ Held(o)'
    <3>1. members[o] = <<>> /\ Held(o) /\ o \notin handles /\ o # Rune(l) /\ o \in Alive
      BY <1>1, <2>3 DEF BaseInv, KindsInv, Rune, Leaves
    <3>2. PICK p \in Alive : o \in Range(members[p])
      BY <3>1 DEF Held, Holds, Alive
    <3>3. p # Frame
      BY <1>1, <1>3, <2>3, <3>2 DEF Memory, Leaves
    <3>4. p \in Alive' /\ o \in Range(members'[p])
      BY <1>1, <3>2, <3>3
    <3> QED BY <1>1, <3>1, <3>4 DEF Held, Holds, Alive
  <2>4. \A i \in 1 .. Len(dying') - 1 : dying'[i][1] \notin Leaves
    BY <1>2
  <2> QED BY <2>1, <2>2, <2>3, <2>4 DEF KindsInv
<1>8. LoadInv'
  BY <1>1, <1>2 DEF BaseInv, LoadInv
<1>9. ShapeInv'
  <2>1. ASSUME NEW j \in 1 .. MaxRuntimes, Runtime(j) \in Alive'
        PROVE  Runtime(j) \in Alive /\ members'[Runtime(j)] = members[Runtime(j)]
    BY <1>1, <2>1 DEF Frame, Rune, Runtime
  <2>2. RuneShape(l)'
    <3>1. l # 0
      OBVIOUS
    <3> QED BY <1>1, <1>2, <3>1 DEF RuneShape, Mapping, None
  <2>3. ASSUME NEW j \in 1 .. Loads', Rune(j) \in Alive', j # l
        PROVE  /\ loading'.load = j <=> loading.load = j
               /\ Rune(j) \in Alive /\ members'[Rune(j)] = members[Rune(j)]
    BY <1>1, <1>2, <2>3 DEF None, Rune, Frame
  <2>4. Engine \in Alive' => Engine \in Alive /\ members'[Engine] = members[Engine]
    BY <1>1 DEF Frame, Rune, Engine
  <2> QED BY <1>1, <1>2, <2>1, <2>2, <2>3, <2>4, ShapeKept DEF BaseInv
<1> QED BY <1>4, <1>5, <1>6, <1>7, <1>8, <1>9 DEF BaseInv, CountInv

LEMMA LoadFailsSteps ==
    ASSUME BaseInv, ModuleIsRefused \/ ConstructorThrows
    PROVE  loading.load \in 1 .. Loads /\ LoadFails(loading.load)
BY DEF ModuleIsRefused, ConstructorThrows, LoadFails, BaseInv, DataInv

-----------------------------------------------------------------------------
(* The application *)

LEMMA GetContextBase == \A l \in Load : BaseInv /\ GetContext(l) => BaseInv'
<1> SUFFICES ASSUME NEW l \in Load, BaseInv, GetContext(l) PROVE BaseInv'
  OBVIOUS
<1>1. /\ dying = <<>> /\ Rune(l) \in handles /\ handles' = handles \cup {Manager(l)}
      /\ UNCHANGED <<members, Alive, dying, loading, modules, loaded, code, freed, source, Loads>>
  BY DEF GetContext, AppRuns, Alive, Loads
<1>2. Dying = {} /\ Dying' = {} /\ Len(dying') = 0
  BY <1>1, NothingDying DEF Dying
<1>3. Manager(l) \in Alive
  BY <1>1, <1>2, RuneHolds DEF BaseInv, CountInv, HoldInv
<1>4. DataInv'
  BY <1>1 DEF BaseInv, DataInv, Loads
<1>5. CountInv'
  BY <1>1, <1>2, <1>3 DEF BaseInv, CountInv, HoldInv, DyingInv
<1>6. KindsInv'
  <2>1. \A o \in handles' : o[1] \notin Leaves \cup {"locals"}
    BY <1>1 DEF BaseInv, KindsInv, Manager, Leaves
  <2>2. \A o \in Alive : o[1] \in Leaves => members[o] = <<>> /\ Held(o)'
    BY <1>1, <1>2 DEF BaseInv, KindsInv, Held, Holds
  <2>3. \A i \in 1 .. Len(dying') - 1 : dying'[i][1] \notin Leaves
    BY <1>2
  <2> QED BY <1>1, <2>1, <2>2, <2>3 DEF BaseInv, KindsInv, MayHold
<1>7. LoadInv'
  <2>1. ASSUME loading # None
        PROVE  /\ Runtime(loading.runtime) \in handles'
               /\ Rune(loading.load) \notin handles'
    BY <1>1, <2>1 DEF BaseInv, LoadInv, Held, Holds, Rune, Manager
  <2> QED BY <1>1, <1>2, <2>1, LoadKept DEF BaseInv, LoadInv
<1>8. ShapeInv'
  BY <1>1, <1>2, ShapeKept DEF BaseInv
<1> QED BY <1>4, <1>5, <1>6, <1>7, <1>8 DEF BaseInv

LEMMA StoreBase ==
    \A o \in handles, d \in Delegate : BaseInv /\ Store(d, o) => BaseInv'
<1> SUFFICES ASSUME NEW o \in handles, NEW d \in Delegate, BaseInv, Store(d, o) PROVE BaseInv'
  OBVIOUS
<1> DEFINE it   == DelegateObject(d)
           made == {it}
<1>1. /\ dying = <<>> /\ it \in handles /\ members[it] = <<Logger>>
      /\ members' = [members EXCEPT ![it] = Append(@, o)]
      /\ UNCHANGED <<handles, dying, loading, modules, loaded, code, freed, source, Loads>>
  BY DEF Store, AppRuns, Loads
<1>2. it \in Alive /\ o \in Alive
  BY <1>1 DEF BaseInv, CountInv, HoldInv
<1>3. /\ Alive' = Alive \cup made /\ members'[it] = Append(members[it], o)
      /\ \A p \in Alive \ made : members'[p] = members[p]
  BY <1>1, <1>2 DEF Alive
<1>4. Dying = {} /\ Dying' = {} /\ Len(dying') = 0
  BY <1>1, NothingDying DEF Dying
<1>5. DataInv'
  BY <1>1 DEF BaseInv, DataInv, Loads
<1>6. members'[it] \in Seq(Alive) /\ Range(members'[it]) = {Logger, o}
  <2>1. members[it] \in Seq(Alive)
    BY <1>2 DEF BaseInv, CountInv, HoldInv
  <2>2. Range(members[it]) = {Logger}
    BY <1>1 DEF Range
  <2> HIDE DEF it
  <2>3. Append(members[it], o) \in Seq(Alive) /\ Range(Append(members[it], o)) = Range(members[it]) \cup {o}
    BY <1>2, <2>1, OneMore
  <2> QED BY <1>3, <2>2, <2>3
<1>7. it = <<it[1], it[2]>> /\ it[1] = "IDelegate"
  BY DEF DelegateObject
<1>8. /\ o[1] \notin Leaves \cup {"locals"} /\ Logger[1] \notin Leaves \cup {"locals"}
  BY DEF BaseInv, KindsInv, Logger, Leaves
<1> HIDE DEF it
<1>9. HoldInv'
  <2>1. Alive' = Alive /\ handles' \subseteq Alive'
    BY <1>1, <1>2, <1>3 DEF BaseInv, CountInv, HoldInv
  <2>2. \A p \in made : p = <<p[1], p[2]>> /\ members'[p] \in Seq(Alive')
    BY <1>6, <1>7, <2>1
  <2> HIDE DEF made
  <2> QED BY <1>3, <2>1, <2>2, HoldGrows DEF BaseInv, CountInv
<1>10. DyingInv'
  BY <1>1, <1>4 DEF DyingInv
<1>11. KindsInv'
  <2>1. \A q \in made : \A p \in Range(members'[q]) : MayHold(q, p)'
    <3>1. ASSUME NEW p \in {Logger, o} PROVE MayHold(it, p)'
      BY <1>8 DEF MayHold, Leaves
    <3> QED BY <1>6, <3>1
  <2>2. \A q \in Alive \cap made : \A p \in Range(members[q]) : p[1] \in Leaves => Held(p)'
    <3>1. Range(members[it]) = {Logger}
      BY <1>1 DEF Range
    <3> QED BY <1>8, <3>1
  <2>3. \A i \in 1 .. Len(dying') - 1 : dying'[i][1] \notin Leaves
    BY <1>4
  <2>4. \A q \in made : q[1] \in Leaves => members'[q] = <<>> /\ Held(q)'
    BY <1>7 DEF Leaves
  <2>5. \A l \in 1 .. Loads : source'[l] = source[l]
    BY <1>1
  <2>6. \A q \in handles' \ handles : q[1] \notin Leaves \cup {"locals"}
    BY <1>1
  <2> HIDE DEF made
  <2> QED BY <1>1, <1>3, <2>1, <2>2, <2>3, <2>4, <2>5, <2>6, KindsGrow DEF BaseInv, CountInv
<1>12. LoadInv'
  <2>1. ASSUME loading # None
        PROVE  /\ Runtime(loading.runtime) \in handles'
               /\ Rune(loading.load) \notin handles'
               /\ Rune(loading.load) \notin Range(members'[it])
    BY <1>1, <1>6, <2>1 DEF BaseInv, LoadInv, Held, Holds, Rune, Logger
  <2>2. Frame # it /\ ModelFrame # it
    BY <1>7 DEF Frame, ModelFrame
  <2>3. ModelFrame \notin Alive'
    BY <1>3, <1>4, <2>2 DEF BaseInv, LoadInv
  <2> QED BY <1>1, <1>3, <1>4, <1>7, <2>1, <2>2, <2>3, LoadKept DEF BaseInv
<1>13. ShapeInv'
  <2>1. \A k : Runtime(k) # it /\ Rune(k) # it /\ Engine # it
    BY <1>7 DEF Runtime, Rune, Engine
  <2> QED BY <1>1, <1>2, <1>3, <1>4, <2>1, ShapeKept DEF BaseInv
<1> QED BY <1>5, <1>9, <1>10, <1>11, <1>12, <1>13 DEF BaseInv, CountInv

LEMMA ReleaseBase == \A o \in handles : BaseInv /\ Release(o) => BaseInv'
<1> SUFFICES ASSUME NEW o \in handles, BaseInv, Release(o) PROVE BaseInv'
  OBVIOUS
<1>1. /\ dying = <<>> /\ MayRelease(o) /\ handles' = handles \ {o}
      /\ dying' = Unheld(members, handles', o)
      /\ UNCHANGED <<members, Alive, loading, modules, loaded, code, freed, source, Loads>>
  BY DEF Release, AppRuns, Alive, Loads
<1>2. /\ Dying = {}
      /\ \/ dying' = <<>> /\ Dying' = {} /\ Len(dying') = 0
         \/ dying' = <<o>> /\ Dying' = {o} /\ Len(dying') = 1 /\ ~Held(o)'
  <2>1. CASE Held(o)'
    BY <1>1, <2>1, NothingDying DEF Unheld, Held, Dying
  <2>2. CASE ~Held(o)'
    <3>1. dying' = <<o>>
      BY <1>1, <2>2 DEF Unheld, Held
    <3>2. Dying' = {o} /\ Len(dying') = 1
      BY <3>1 DEF Dying
    <3>3. Dying = {}
      BY <1>1, NothingDying
    <3> QED BY <2>2, <3>1, <3>2, <3>3
  <2> QED BY <2>1, <2>2
<1>3. o \in Alive /\ o[1] \notin Leaves \cup {"locals"}
  BY DEF BaseInv, CountInv, HoldInv, KindsInv
<1>4. DataInv'
  BY <1>1 DEF BaseInv, DataInv, Loads
<1>5. HoldInv'
  BY <1>1 DEF BaseInv, CountInv, HoldInv
<1>6. DyingInv'
  <2>1. <<o>> \in Seq(Alive')
    BY <1>1, <1>3
  <2>2. CASE dying' = <<o>> /\ Dying' = {o} /\ Len(dying') = 1 /\ ~Held(o)'
    BY <2>1, <2>2 DEF DyingInv
  <2>3. CASE dying' = <<>> /\ Dying' = {} /\ Len(dying') = 0
    BY <2>3 DEF DyingInv
  <2> QED BY <1>2, <2>2, <2>3
<1>7. KindsInv'
  <2>1. ASSUME NEW p \in Alive, p[1] \in Leaves PROVE members[p] = <<>> /\ Held(p)'
    <3>1. members[p] = <<>> /\ Held(p) /\ p # o
      BY <1>2, <1>3, <2>1 DEF BaseInv, KindsInv
    <3> QED BY <1>1, <3>1 DEF Held, Holds
  <2>2. \A i \in 1 .. Len(dying') - 1 : dying'[i][1] \notin Leaves
    <3>1. Len(dying') = 0 \/ Len(dying') = 1
      BY <1>2
    <3>2. ASSUME NEW n, n = 0 \/ n = 1 PROVE 1 .. n - 1 = {}
      BY <3>2
    <3>3. 1 .. Len(dying') - 1 = {}
      BY <3>1, <3>2
    <3> QED BY <3>3
  <2> QED BY <1>1, <2>1, <2>2 DEF BaseInv, KindsInv, MayHold
<1>8. LoadInv'
  <2>1. Frame \notin Dying' /\ ModelFrame \notin Alive
    BY <1>2, <1>3 DEF BaseInv, LoadInv, Frame
  <2>2. ASSUME loading # None
        PROVE  /\ Runtime(loading.runtime) \in handles'
               /\ ~Held(Rune(loading.load))' /\ Rune(loading.load) \notin Dying'
    <3>1. Runtime(loading.runtime) # o
      BY <1>1, <2>2 DEF MayRelease
    <3>2. ~Held(Rune(loading.load)) /\ Runtime(loading.runtime) \in handles
      BY <2>2 DEF BaseInv, LoadInv
    <3>3. ~Held(Rune(loading.load))'
      BY <1>1, <3>2 DEF Held, Holds
    <3> QED BY <1>1, <1>2, <3>1, <3>2, <3>3 DEF Held, Holds
  <2> QED BY <1>1, <1>2, <2>1, <2>2 DEF BaseInv, LoadInv, Mapping
<1>9. ShapeInv'
  BY <1>1, <1>2, ShapeKept DEF BaseInv
<1> QED BY <1>4, <1>5, <1>6, <1>7, <1>8, <1>9 DEF BaseInv, CountInv

-----------------------------------------------------------------------------
(* Destruction *)

\* The innermost dying object, and those that wait for it.
LEMMA LastDying ==
    ASSUME DyingInv, dying # <<>>
    PROVE  /\ Last(dying) \in Alive \cap Dying /\ ~Held(Last(dying))
           /\ Last(dying) = dying[Len(dying)] /\ Len(dying) \in Nat \ {0}
           /\ Front(dying) \in Seq(Alive) /\ Len(Front(dying)) = Len(dying) - 1
           /\ \A i \in 1 .. Len(dying) - 1 : Front(dying)[i] = dying[i]
           /\ {Front(dying)[i] : i \in 1 .. Len(Front(dying))} = Dying \ {Last(dying)}
<1>1. dying \in Seq(Alive) /\ \A i, j \in 1 .. Len(dying) : dying[i] = dying[j] => i = j
  BY DEF DyingInv
<1>2. /\ Last(dying) \in Alive
      /\ Last(dying) = dying[Len(dying)] /\ Len(dying) \in Nat \ {0}
      /\ Front(dying) \in Seq(Alive) /\ Len(Front(dying)) = Len(dying) - 1
      /\ \A i \in 1 .. Len(dying) - 1 : Front(dying)[i] = dying[i]
  BY <1>1, FrontLast
<1>3. Last(dying) \in Dying /\ ~Held(Last(dying))
  BY <1>2 DEF DyingInv, Dying
<1>4. ASSUME NEW i \in 1 .. Len(Front(dying))
      PROVE  Front(dying)[i] \in Dying \ {Last(dying)}
  <2>1. i \in 1 .. Len(dying) - 1 /\ i \in 1 .. Len(dying) /\ i # Len(dying)
        /\ Len(dying) \in 1 .. Len(dying)
    BY <1>2
  <2> QED BY <1>1, <1>2, <2>1 DEF Dying
<1>5. ASSUME NEW x \in Dying \ {Last(dying)}
      PROVE  \E i \in 1 .. Len(Front(dying)) : x = Front(dying)[i]
  <2>1. PICK i \in 1 .. Len(dying) : x = dying[i]
    BY DEF Dying
  <2>2. i \in 1 .. Len(dying) - 1 /\ i \in 1 .. Len(Front(dying))
    BY <1>2, <2>1
  <2> QED BY <1>2, <2>1, <2>2
<1> QED BY <1>2, <1>3, <1>4, <1>5

\* What the release of one more member may start.
LEMMA OneMoreDies ==
    ASSUME DyingInv, NEW x \in Alive, x \notin Dying,
           NEW start, start = <<>> \/ start = <<x>>
    PROVE  LET s == dying \o start
           IN  /\ s \in Seq(Alive)
               /\ \A i, j \in 1 .. Len(s) : s[i] = s[j] => i = j
               /\ {s[i] : i \in 1 .. Len(s)} = IF start = <<>> THEN Dying ELSE Dying \cup {x}
               /\ \A i \in 1 .. Len(dying) : s[i] = dying[i]
               /\ Len(s) = IF start = <<>> THEN Len(dying) ELSE Len(dying) + 1
<1> DEFINE s == dying \o start
<1>1. /\ dying \in Seq(Alive) /\ Len(dying) \in Nat
      /\ \A i, j \in 1 .. Len(dying) : dying[i] = dying[j] => i = j
  BY LenProperties DEF DyingInv
<1>2. CASE start = <<>>
  BY <1>1, <1>2, ConcatEmptySeq DEF Dying
<1>3. CASE start = <<x>>
  <2>1. start \in Seq(Alive) /\ Len(start) = 1 /\ start[1] = x /\ start # <<>>
    BY <1>3
  <2>2. s \in Seq(Alive) /\ Len(s) = Len(dying) + 1
        /\ \A i \in 1 .. Len(dying) + 1 : s[i] = IF i <= Len(dying) THEN dying[i] ELSE start[i - Len(dying)]
    <3>0. dying \in Seq(Alive) /\ start \in Seq(Alive)
      BY <1>1, <2>1
    <3>1. /\ s \in Seq(Alive) /\ Len(s) = Len(dying) + Len(start)
          /\ \A i \in 1 .. Len(dying) + Len(start) :
                s[i] = IF i <= Len(dying) THEN dying[i] ELSE start[i - Len(dying)]
      BY <3>0, ConcatProperties
    <3> HIDE DEF s
    <3> QED BY <2>1, <3>1
  <2>3. s[Len(dying) + 1] = x /\ \A i \in 1 .. Len(dying) : s[i] = dying[i]
    BY <1>1, <2>1, <2>2
  <2> HIDE DEF s
  <2>4. \A i \in 1 .. Len(s) : i \in 1 .. Len(dying) \/ i = Len(dying) + 1
    BY <1>1, <2>2
  <2>5. \A i \in 1 .. Len(dying) : i \in 1 .. Len(s) /\ dying[i] \in Dying
    BY <1>1, <2>2 DEF Dying
  <2>6. Len(dying) + 1 \in 1 .. Len(s)
    BY <1>1, <2>2
  <2>7. \A i, j \in 1 .. Len(s) : s[i] = s[j] => i = j
    BY <1>1, <2>3, <2>4, <2>5
  <2>8. {s[i] : i \in 1 .. Len(s)} = Dying \cup {x}
    BY <2>3, <2>4, <2>5, <2>6 DEF Dying
  <2> QED BY <2>1, <2>2, <2>3, <2>7, <2>8 DEF s
<1> QED BY <1>2, <1>3

\* What DropLastMember does, o being the object that loses a member.
LEMMA MemberDropped ==
    ASSUME BaseInv, DropLastMember
    PROVE  \E o \in Alive \cap Dying, x \in Alive \ Dying :
              /\ o = Last(dying) /\ members[o] # <<>> /\ o[1] \notin Leaves /\ x = Last(members[o])
              /\ members' = [members EXCEPT ![o] = Front(@)]
              /\ Alive' = Alive /\ members'[o] = Front(members[o])
              /\ \A p \in Alive \ {o} : members'[p] = members[p]
              /\ members'[o] \in Seq(Alive)
              /\ Range(members[o]) = Range(members'[o]) \cup {x}
              /\ \A p : Held(p)' => Held(p)
              /\ \A p : Held(p) /\ p # x => Held(p)'
              /\ Held(x)
              /\ dying' = dying \o Unheld(members', handles, x)
              /\ Dying' = IF Held(x)' THEN Dying ELSE Dying \cup {x}
              /\ dying' \in Seq(Alive)
              /\ \A i, j \in 1 .. Len(dying') : dying'[i] = dying'[j] => i = j
              /\ \A i \in 1 .. Len(dying) : dying'[i] = dying[i]
              /\ Len(dying') = IF Held(x)' THEN Len(dying) ELSE Len(dying) + 1
              /\ Len(dying) \in Nat \ {0} /\ o = dying[Len(dying)]
<1>1. DyingInv /\ dying # <<>>
  BY DEF DropLastMember, BaseInv, CountInv
<1>2. PICK o \in Alive \cap Dying :
         o = Last(dying) /\ Len(dying) \in Nat \ {0} /\ o = dying[Len(dying)]
  BY <1>1, LastDying
<1>3. /\ members[o] # <<>>
      /\ members' = [members EXCEPT ![o] = Front(@)]
      /\ dying' = dying \o Unheld(members', handles, Last(members[o]))
      /\ UNCHANGED handles
  BY <1>2 DEF DropLastMember
<1>4. members[o] \in Seq(Alive) /\ o[1] \notin Leaves
  BY <1>2, <1>3 DEF BaseInv, CountInv, HoldInv, KindsInv
<1>5. PICK x \in Alive : x = Last(members[o])
  BY <1>3, <1>4, FrontLast
<1>6. /\ Front(members[o]) \in Seq(Alive)
      /\ Range(members[o]) = Range(Front(members[o])) \cup {x}
  BY <1>3, <1>4, <1>5, FrontLast
<1>7. /\ Alive' = Alive /\ members'[o] = Front(members[o])
      /\ \A p \in Alive \ {o} : members'[p] = members[p]
  BY <1>2, <1>3 DEF Alive
<1>8. Held(x) /\ x \notin Dying
  BY <1>1, <1>2, <1>6 DEF Held, Holds, Alive, DyingInv
<1>9. /\ \A p : Held(p)' => Held(p)
      /\ \A p : Held(p) /\ p # x => Held(p)'
  BY <1>2, <1>3, <1>6, <1>7 DEF Held, Holds, Alive
<1>10. /\ Held(x)' => Unheld(members', handles, x) = <<>>
       /\ ~Held(x)' => Unheld(members', handles, x) = <<x>> /\ <<x>> # <<>>
  BY <1>3 DEF Held, Unheld
<1>11. /\ dying' \in Seq(Alive)
       /\ \A i, j \in 1 .. Len(dying') : dying'[i] = dying'[j] => i = j
       /\ Dying' = IF Held(x)' THEN Dying ELSE Dying \cup {x}
       /\ \A i \in 1 .. Len(dying) : dying'[i] = dying[i]
       /\ Len(dying') = IF Held(x)' THEN Len(dying) ELSE Len(dying) + 1
  <2>1. PICK start : start = Unheld(members', handles, x)
    OBVIOUS
  <2>2. dying' = dying \o start /\ (start = <<>> \/ start = <<x>>) /\ (start = <<>> <=> Held(x)')
    BY <1>3, <1>5, <1>10, <2>1
  <2>3. LET s == dying \o start
        IN  /\ s \in Seq(Alive)
            /\ \A i, j \in 1 .. Len(s) : s[i] = s[j] => i = j
            /\ {s[i] : i \in 1 .. Len(s)} = IF start = <<>> THEN Dying ELSE Dying \cup {x}
            /\ \A i \in 1 .. Len(dying) : s[i] = dying[i]
            /\ Len(s) = IF start = <<>> THEN Len(dying) ELSE Len(dying) + 1
    BY <1>1, <1>8, <2>2, OneMoreDies
  <2> QED BY <2>2, <2>3 DEF Dying
<1> QED BY <1>2, <1>3, <1>4, <1>5, <1>6, <1>7, <1>8, <1>9, <1>11

LEMMA DropLastMemberBase == BaseInv /\ DropLastMember => BaseInv'
<1> SUFFICES ASSUME BaseInv, DropLastMember PROVE BaseInv'
  OBVIOUS
<1>1. PICK o \in Alive \cap Dying, x \in Alive \ Dying :
         /\ o = Last(dying) /\ members[o] # <<>> /\ o[1] \notin Leaves
         /\ Alive' = Alive /\ members'[o] = Front(members[o])
         /\ \A p \in Alive \ {o} : members'[p] = members[p]
         /\ members'[o] \in Seq(Alive)
         /\ Range(members[o]) = Range(members'[o]) \cup {x}
         /\ \A p : Held(p)' => Held(p)
         /\ \A p : Held(p) /\ p # x => Held(p)'
         /\ Held(x)
         /\ Dying' = IF Held(x)' THEN Dying ELSE Dying \cup {x}
         /\ dying' \in Seq(Alive)
         /\ \A i, j \in 1 .. Len(dying') : dying'[i] = dying'[j] => i = j
         /\ \A i \in 1 .. Len(dying) : dying'[i] = dying[i]
         /\ Len(dying') = IF Held(x)' THEN Len(dying) ELSE Len(dying) + 1
         /\ Len(dying) \in Nat \ {0} /\ o = dying[Len(dying)]
  BY MemberDropped
<1>2. UNCHANGED <<handles, loading, modules, loaded, code, freed, source, Loads>>
  BY DEF DropLastMember, Loads
<1>3. \A p \in Alive : Range(members'[p]) \subseteq Range(members[p])
  BY <1>1
<1>4. DataInv'
  BY <1>2 DEF BaseInv, DataInv, Loads
<1>5. HoldInv'
  BY <1>1, <1>2 DEF BaseInv, CountInv, HoldInv
<1>6. DyingInv'
  <2>1. \A p \in Dying' : ~Held(p)'
    BY <1>1 DEF BaseInv, CountInv, DyingInv
  <2> QED BY <1>1, <2>1 DEF DyingInv
<1>7. KindsInv'
  <2>1. ASSUME NEW p \in Alive, p[1] \in Leaves PROVE members'[p] = <<>> /\ (Held(p)' \/ p \in Dying')
    <3>1. members[p] = <<>> /\ (Held(p) \/ p \in Dying) /\ p # o
      BY <1>1, <2>1 DEF BaseInv, KindsInv
    <3> QED BY <1>1, <3>1
  <2>2. ASSUME NEW i \in 1 .. Len(dying') - 1 PROVE dying'[i][1] \notin Leaves
    <3>1. i \in 1 .. Len(dying)
      BY <1>1
    <3>2. CASE i = Len(dying)
      BY <1>1, <3>1, <3>2
    <3>3. CASE i # Len(dying)
      <4>1. i \in 1 .. Len(dying) - 1
        BY <1>1, <3>1, <3>3
      <4> QED BY <1>1, <3>1, <4>1 DEF BaseInv, KindsInv
    <3> QED BY <3>2, <3>3
  <2> QED BY <1>1, <1>2, <1>3, <2>1, <2>2 DEF BaseInv, KindsInv, MayHold
<1>8. LoadInv'
  <2>1. x[1] # "locals"
    BY <1>1 DEF BaseInv, KindsInv, MayHold
  <2>2. ASSUME loading # None
        PROVE  /\ Frame \notin Dying' /\ members'[Frame] = members[Frame]
               /\ ~Held(Rune(loading.load))' /\ Rune(loading.load) \notin Dying'
    <3>1. Frame \in Alive \ Dying /\ ~Held(Rune(loading.load)) /\ Rune(loading.load) \notin Dying
      BY <2>2 DEF BaseInv, LoadInv
    <3>2. Frame # x
      BY <2>1 DEF Frame
    <3>3. PICK r : r = Rune(loading.load)
      OBVIOUS
    <3>4. ~Held(r)' /\ r # x
      BY <1>1, <3>1, <3>3
    <3>5. ~Held(Rune(loading.load))'
      BY <1>2, <3>3, <3>4 DEF Held, Rune
    <3> QED BY <1>1, <3>1, <3>2, <3>3, <3>4, <3>5
  <2>3. Dying \subseteq Dying'
    BY <1>1
  <2> QED BY <1>1, <1>2, <2>2, <2>3 DEF BaseInv, LoadInv, Mapping, Held
<1>9. ShapeInv'
  <2>1. Dying \subseteq Dying'
    BY <1>1
  <2>2. \A p \in Alive \ Dying' : members'[p] = members[p]
    BY <1>1
  <2>3. ASSUME NEW k \in 1 .. MaxRuntimes, Runtime(k) \in Alive
        PROVE  Begins(members'[Runtime(k)], RuntimeMembers(k))
    <3>1. Begins(members[Runtime(k)], RuntimeMembers(k)) /\ members[Runtime(k)] \in Seq(Alive)
      BY <2>3 DEF BaseInv, ShapeInv, CountInv, HoldInv
    <3>2. Len(RuntimeMembers(k)) \in Nat
      BY DEF RuntimeMembers
    <3>3. members[o] # <<>>
      BY <1>1
    <3> QED BY <1>1, <2>3, <3>1, <3>2, <3>3, FrontBegins
  <2>4. ASSUME NEW l \in 1 .. Loads PROVE RuneShape(l)'
    <3>1. RuneShape(l) /\ Mapping(l)' = Mapping(l)
      BY <1>2 DEF BaseInv, ShapeInv, Mapping
    <3> QED BY <1>1, <1>2, <2>1, <2>2, <3>1 DEF RuneShape, Rune, RuneMembers, Logger, Module,
        M3Runtime, Manager, Models
  <2> QED BY <1>1, <1>2, <2>1, <2>2, <2>3, <2>4 DEF BaseInv, ShapeInv
<1> QED BY <1>4, <1>5, <1>6, <1>7, <1>8, <1>9 DEF BaseInv, CountInv

\* What Deallocate does, o being the object that goes.
LEMMA ObjectGone ==
    ASSUME BaseInv, Deallocate
    PROVE  \E o \in Alive \cap Dying :
              /\ o = Last(dying) /\ members[o] = <<>> /\ ~Held(o)
              /\ Alive' = Alive \ {o}
              /\ \A p \in Alive \ {o} : members'[p] = members[p]
              /\ dying' = Front(dying) /\ dying' \in Seq(Alive) /\ Dying' = Dying \ {o}
              /\ Len(dying') = Len(dying) - 1 /\ Len(dying) \in Nat \ {0}
              /\ \A i \in 1 .. Len(dying) - 1 : dying'[i] = dying[i]
              /\ \A p : p # o => (Held(p)' <=> Held(p))
<1>1. DyingInv /\ dying # <<>>
  BY DEF Deallocate, BaseInv, CountInv
<1>2. PICK o \in Alive \cap Dying : o = Last(dying) /\ ~Held(o)
  BY <1>1, LastDying
<1>3. members[o] = <<>> /\ members' = Gone(members, o) /\ dying' = Front(dying) /\ UNCHANGED handles
  BY <1>2 DEF Deallocate
<1>4. Alive' = Alive \ {o} /\ \A p \in Alive \ {o} : members'[p] = members[p]
  BY <1>2, <1>3 DEF Alive, Gone
<1>5. /\ dying' \in Seq(Alive) /\ Dying' = Dying \ {o}
      /\ Len(dying') = Len(dying) - 1 /\ Len(dying) \in Nat \ {0}
      /\ \A i \in 1 .. Len(dying) - 1 : dying'[i] = dying[i]
  <2>1. /\ Front(dying) \in Seq(Alive) /\ Len(Front(dying)) = Len(dying) - 1
        /\ Len(dying) \in Nat \ {0}
        /\ \A i \in 1 .. Len(dying) - 1 : Front(dying)[i] = dying[i]
        /\ {Front(dying)[i] : i \in 1 .. Len(Front(dying))} = Dying \ {o}
    BY <1>1, <1>2, LastDying
  <2>2. Dying' = {dying'[i] : i \in 1 .. Len(dying')}
    BY DEF Dying
  <2> QED BY <1>3, <2>1, <2>2
<1>6. \A p : p # o => (Held(p)' <=> Held(p))
  <2>1. Range(members[o]) = {}
    BY <1>3 DEF Range
  <2> QED BY <1>2, <1>3, <1>4, <2>1 DEF Held, Holds, Alive
<1> QED BY <1>2, <1>3, <1>4, <1>5, <1>6

LEMMA DeallocateBase == BaseInv /\ Deallocate => BaseInv'
<1> SUFFICES ASSUME BaseInv, Deallocate PROVE BaseInv'
  OBVIOUS
<1>1. PICK o \in Alive \cap Dying :
         /\ o = Last(dying) /\ members[o] = <<>> /\ ~Held(o)
         /\ Alive' = Alive \ {o}
         /\ \A p \in Alive \ {o} : members'[p] = members[p]
         /\ dying' = Front(dying) /\ dying' \in Seq(Alive) /\ Dying' = Dying \ {o}
         /\ Len(dying') = Len(dying) - 1 /\ Len(dying) \in Nat \ {0}
         /\ \A i \in 1 .. Len(dying) - 1 : dying'[i] = dying[i]
         /\ \A p : p # o => (Held(p)' <=> Held(p))
  BY ObjectGone
<1>2. UNCHANGED <<handles, loading, loaded, code, source, Loads>>
  BY DEF Deallocate, Loads
<1>3. o \notin handles /\ \A p \in Alive : o \notin Range(members[p])
  BY <1>1 DEF Held, Holds, Alive
<1>4. DataInv'
  <2>1. freed' \in [Load -> Nat]
    <3>1. freed' = [l \in Load |-> IF l \in FreesModules(o) THEN freed[l] + 1 ELSE freed[l]]
      BY <1>1 DEF Deallocate
    <3> QED BY <3>1 DEF BaseInv, DataInv
  <2>2. modules' \in [1 .. MaxRuntimes -> Seq(1 .. Loads)]
    <3>1. modules' = [k \in DOMAIN modules |-> IF o = M3Runtime(k) THEN <<>> ELSE modules[k]]
      BY <1>1 DEF Deallocate
    <3>2. <<>> \in Seq(1 .. Loads)
      BY EmptySeq
    <3> QED BY <3>1, <3>2 DEF BaseInv, DataInv
  <2> QED BY <1>2, <2>1, <2>2 DEF BaseInv, DataInv
<1>5. HoldInv'
  <2>1. ASSUME NEW p \in Alive' PROVE p = <<p[1], p[2]>> /\ members'[p] \in Seq(Alive')
    BY <1>1, <1>3, <2>1, Without DEF BaseInv, CountInv, HoldInv
  <2> QED BY <1>1, <1>2, <1>3, <2>1 DEF BaseInv, CountInv, HoldInv
<1>6. DyingInv'
  <2>1. \A p \in Dying' : ~Held(p)'
    BY <1>1 DEF BaseInv, CountInv, DyingInv
  <2>2. ASSUME NEW i \in 1 .. Len(dying'), NEW j \in 1 .. Len(dying'), dying'[i] = dying'[j]
        PROVE  i = j
    <3>1. /\ i \in 1 .. Len(dying) - 1 /\ j \in 1 .. Len(dying) - 1
          /\ i \in 1 .. Len(dying) /\ j \in 1 .. Len(dying)
      BY <1>1
    <3> QED BY <1>1, <2>2, <3>1 DEF BaseInv, CountInv, DyingInv
  <2>3. o \notin Range(dying')
    <3>1. \A p \in Range(dying') : \E i \in 1 .. Len(dying') : p = dying'[i]
      BY <1>1, ListedMembers
    <3> QED BY <1>1, <3>1 DEF Dying
  <2>4. dying' \in Seq(Alive')
    BY <1>1, <2>3, Without
  <2> QED BY <2>1, <2>2, <2>4 DEF DyingInv
<1>7. KindsInv'
  <2>1. \A p \in Alive' : p[1] \in Leaves => members'[p] = <<>> /\ (Held(p)' \/ p \in Dying')
    BY <1>1 DEF BaseInv, KindsInv
  <2>2. ASSUME NEW i \in 1 .. Len(dying') - 1 PROVE dying'[i][1] \notin Leaves
    <3>1. i \in 1 .. Len(dying) - 1
      BY <1>1
    <3> QED BY <1>1, <3>1 DEF BaseInv, KindsInv
  <2> QED BY <1>1, <1>2, <2>1, <2>2 DEF BaseInv, KindsInv, MayHold
<1>8. LoadInv'
  <2>1. ASSUME loading # None
        PROVE  /\ Runtime(loading.runtime) \in handles'
               /\ Frame \in Alive' \ Dying' /\ members'[Frame] = members[Frame]
               /\ ~Held(Rune(loading.load))' /\ Rune(loading.load) \notin Dying'
               /\ Rune(loading.load) \in Alive' <=> Rune(loading.load) \in Alive
    <3>1. /\ Frame \in Alive \ Dying /\ ~Held(Rune(loading.load))
          /\ Rune(loading.load) \notin Dying /\ Runtime(loading.runtime) \in handles
      BY <2>1 DEF BaseInv, LoadInv
    <3>2. Rune(loading.load) # o
      BY <1>1, <3>1
    <3> QED BY <1>1, <1>2, <3>1, <3>2
  <2> QED BY <1>1, <1>2, <2>1 DEF BaseInv, LoadInv, Mapping, Held
<1>9. ShapeInv'
  <2>1. ASSUME NEW l \in 1 .. Loads PROVE RuneShape(l)'
    <3>1. RuneShape(l) /\ Mapping(l)' = Mapping(l)
      BY <1>2 DEF BaseInv, ShapeInv, Mapping
    <3> QED BY <1>1, <1>2, <3>1 DEF RuneShape, Rune, RuneMembers, Logger, Module,
        M3Runtime, Manager, Models
  <2> QED BY <1>1, <1>2, <2>1 DEF BaseInv, ShapeInv
<1> QED BY <1>4, <1>5, <1>6, <1>7, <1>8, <1>9 DEF BaseInv, CountInv

-----------------------------------------------------------------------------
(* The base of the invariant *)

LEMMA BaseInit == Init => BaseInv
<1> SUFFICES ASSUME Init PROVE BaseInv
  OBVIOUS
<1> DEFINE delegates == {DelegateObject(d) : d \in Delegate}
<1>1. /\ Alive = {Logger} \cup delegates /\ handles = Alive
      /\ \A o \in Alive : members[o] = IF o = Logger THEN <<>> ELSE <<Logger>>
      /\ dying = <<>> /\ loading = None /\ source = <<>> /\ Loads = 0
      /\ modules = [k \in 1 .. MaxRuntimes |-> <<>>] /\ loaded = {}
      /\ code = [l \in {} |-> 0] /\ freed = [l \in Load |-> 0]
  BY DEF Init, Alive, Loads
<1>2. \A o \in Alive : o = <<o[1], o[2]>> /\ o[1] \in {"ILogger", "IDelegate"}
  BY <1>1 DEF Logger, DelegateObject
<1>3. Dying = {} /\ Len(dying) = 0
  BY <1>1, NothingDying
<1>4. DataInv
  <2>1. <<>> \in Seq(1 .. Loads) /\ <<>> \in Seq([runtime : 1 .. MaxRuntimes, fromFile : BOOLEAN])
    BY EmptySeq
  <2> QED BY <1>1, <2>1, LifetimesAssumption DEF DataInv
<1>5. HoldInv
  <2>1. Logger \in Alive
    BY <1>1
  <2>2. ASSUME NEW S, Logger \in S PROVE <<>> \in Seq(S) /\ <<Logger>> \in Seq(S)
    BY <2>2
  <2> QED BY <1>1, <1>2, <2>1, <2>2 DEF HoldInv
<1>6. DyingInv
  <2>1. <<>> \in Seq(Alive)
    BY EmptySeq
  <2> QED BY <1>1, <1>3, <2>1 DEF DyingInv
<1>7. KindsInv
  <2>1. \A o \in Alive : Range(members[o]) \subseteq {Logger}
    BY <1>1 DEF Range
  <2>2. \A o : MayHold(o, Logger)
    BY DEF MayHold, Logger
  <2>3. \A o \in Alive : o[1] \notin Leaves \cup {"locals"}
    BY <1>2 DEF Leaves
  <2>4. \A o \in Alive : \A p \in Range(members[o]) : MayHold(o, p)
    BY <2>1, <2>2
  <2>5. \A i \in 1 .. Len(dying) - 1 : dying[i][1] \notin Leaves
    BY <1>3
  <2> QED BY <1>1, <2>3, <2>4, <2>5 DEF KindsInv
<1>8. LoadInv
  BY <1>1, <1>2 DEF LoadInv, Frame, ModelFrame
<1>9. ShapeInv
  BY <1>1, <1>2 DEF ShapeInv, RuneShape, Engine, Runtime, Rune
<1> QED BY <1>4, <1>5, <1>6, <1>7, <1>8, <1>9 DEF BaseInv, CountInv

LEMMA BaseStep == BaseInv /\ [Next]_vars => BaseInv'
<1> SUFFICES ASSUME BaseInv, [Next]_vars PROVE BaseInv'
  OBVIOUS
<1>1. CASE CreateEngine
  BY <1>1, CreateEngineBase
<1>2. CASE CreateEngineThrows
  BY <1>2, CreateEngineThrowsBase
<1>3. CASE \E k \in 1 .. MaxRuntimes : CreateRuntime(k)
  BY <1>3, CreateRuntimeBase
<1>4. CASE \E k \in 1 .. MaxRuntimes : \E fromFile \in BOOLEAN : BeginLoad(k, fromFile)
  BY <1>4, BeginLoadBase
<1>5. CASE ModuleIsRefused \/ ConstructorThrows
  BY <1>5, LoadFailsSteps, LoadFailsBase
<1>6. CASE \E d \in Delegate : DelegateObject(d) \in handles /\ ModuleIsLoaded(<<d>>)
  <2>1. PICK d \in Delegate : DelegateObject(d) \in handles /\ ModuleIsLoaded(<<d>>)
    BY <1>6
  <2>2. loading.load \in 1 .. Loads /\ loading.runtime \in 1 .. MaxRuntimes
        /\ RuneIsMade(loading.load, loading.runtime, d)
    BY <2>1 DEF RuneIsMade, ModuleIsLoaded, BaseInv, DataInv
  <2> QED BY <2>2, RuneMadeBase
<1>7. CASE LoadReturns
  <2>1. loading.load \in 1 .. Loads
    BY <1>7 DEF LoadReturns, BaseInv, DataInv
  <2> QED BY <1>7, <2>1, LoadReturnsBase
<1>8. CASE \E l \in Load : LoadModel(l) \/ LoadModelFails(l) \/ GetContext(l)
  BY <1>8, LoadModelBase, LoadModelFailsBase, GetContextBase
<1>9. CASE \E o \in handles : Release(o) \/ \E d \in Delegate : Store(d, o)
  BY <1>9, ReleaseBase, StoreBase
<1>10. CASE Destruct
  BY <1>10, DropLastMemberBase, DeallocateBase DEF Destruct
<1>11. CASE UNCHANGED vars
  <2>1. /\ UNCHANGED <<members, handles, dying, loading, modules, loaded, code, freed, source>>
        /\ UNCHANGED <<Alive, Dying, Loads>>
    BY <1>11 DEF vars, Alive, Dying, Loads
  <2>2. DataInv' /\ CountInv' /\ KindsInv'
    BY <2>1 DEF BaseInv, DataInv, CountInv, HoldInv, DyingInv, KindsInv, MayHold, Held
  <2>3. LoadInv' /\ ShapeInv'
    BY <2>1 DEF BaseInv, LoadInv, ShapeInv, RuneShape, Mapping, Held
  <2> QED BY <2>2, <2>3 DEF BaseInv
<1> QED BY <1>1, <1>2, <1>3, <1>4, <1>5, <1>6, <1>7, <1>8, <1>9, <1>10, <1>11 DEF Next

\* No object holds, and the application keeps, one that is gone; and the records
\* of the loads have their types (Wasm3Runtime.cpp:121-170).
THEOREM TypeCorrect == Spec => []LifetimesTypeOK
<1>1. BaseInv => LifetimesTypeOK
  <2> SUFFICES ASSUME BaseInv PROVE LifetimesTypeOK
    OBVIOUS
  <2>1. Loads \in Nat /\ 1 .. Loads \subseteq Load
    BY LenProperties, LifetimesAssumption DEF BaseInv, DataInv, Loads, Load
  <2>2. \A o \in Alive : members[o] \in Seq(Alive)
    BY DEF BaseInv, CountInv, HoldInv
  <2>3. handles \subseteq Alive /\ Range(dying) \subseteq Alive
    BY ListedMembers DEF BaseInv, CountInv, HoldInv, DyingInv
  <2>4. modules \in [1 .. MaxRuntimes -> Seq(Load)]
    <3>1. \A s \in Seq(1 .. Loads) : s \in Seq(Load)
      BY <2>1, SeqMonotonic
    <3> QED BY <3>1 DEF BaseInv, DataInv
  <2>5. /\ loading \in [load : Load, runtime : 1 .. MaxRuntimes] \cup {None}
        /\ loaded \subseteq Load
        /\ code \in [DOMAIN code -> Load] /\ DOMAIN code \subseteq Load
        /\ freed \in [Load -> Nat]
    BY <2>1 DEF BaseInv, DataInv
  <2> QED BY <2>2, <2>3, <2>4, <2>5 DEF LifetimesTypeOK
<1> QED BY <1>1, BaseInit, BaseStep, PTL DEF Spec

-----------------------------------------------------------------------------
(* wasm3's runtimes have their environment *)

LEMMA Sources ==
    ASSUME BaseInv
    PROVE  /\ Loads \in Nat
           /\ \A l \in 1 .. Loads :
                 l \in Load /\ source[l].runtime \in 1 .. MaxRuntimes /\ source[l].fromFile \in BOOLEAN
<1>1. source \in Seq([runtime : 1 .. MaxRuntimes, fromFile : BOOLEAN]) /\ Loads <= MaxLoads
  BY DEF BaseInv, DataInv
<1>2. Loads \in Nat
  BY <1>1, LenProperties DEF Loads
<1>3. \A l \in 1 .. Loads : source[l] \in [runtime : 1 .. MaxRuntimes, fromFile : BOOLEAN]
  BY <1>1, ElementOfSeq DEF Loads
<1>4. \A l \in 1 .. Loads : l \in Load
  BY <1>1, <1>2, LifetimesAssumption DEF Load
<1> QED BY <1>2, <1>3, <1>4

\* What the load that begins is recorded as, and what its locals hold.
LoadIsRecorded(l, k, fromFile) ==
    /\ l = Loads + 1 /\ Loads \in Nat /\ Loads' = l /\ l \notin 1 .. Loads
    /\ source'[l] = [runtime |-> k, fromFile |-> fromFile]
    /\ \A j \in 1 .. Loads : source'[j] = source[j]
    /\ dying = <<>> /\ dying' = <<>> /\ loading = None
    /\ loading' = [load |-> l, runtime |-> k]
    /\ Alive' = Alive \cup {Memory(l), Module(l), Frame}
    /\ \A o \in Alive \ {Memory(l), Module(l), Frame} : members'[o] = members[o]
    /\ Range(members'[Frame]) \subseteq {Memory(l), M3Runtime(k), Module(l)}
    /\ Runtime(k) \in handles
    /\ handles' = IF fromFile THEN handles ELSE handles \cup {Memory(l)}
    /\ UNCHANGED <<modules, loaded, code, freed>>

LEMMA LoadRecorded ==
    ASSUME BaseInv, NEW k \in 1 .. MaxRuntimes, NEW fromFile \in BOOLEAN, BeginLoad(k, fromFile)
    PROVE  \E l \in Load : LoadIsRecorded(l, k, fromFile)
<1>1. PICK l \in Load : l = Loads + 1
  BY DEF BeginLoad
<1> DEFINE mapping == IF fromFile THEN <<Memory(l)>> ELSE <<>>
           rest    == <<M3Runtime(k), Module(l)>>
<1>2. /\ dying = <<>> /\ loading = None
      /\ Runtime(k) \in handles
      /\ handles' = IF fromFile THEN handles ELSE handles \cup {Memory(l)}
      /\ loading' = [load |-> l, runtime |-> k]
      /\ source' = Append(source, [runtime |-> k, fromFile |-> fromFile])
      /\ UNCHANGED <<dying, modules, loaded, code, freed>>
  BY <1>1 DEF BeginLoad, Idle
<1>3. /\ Loads \in Nat /\ Loads' = l /\ l \notin 1 .. Loads
      /\ source'[l] = [runtime |-> k, fromFile |-> fromFile]
      /\ \A j \in 1 .. Loads : source'[j] = source[j]
  BY <1>1, <1>2 DEF BaseInv, DataInv, Loads
<1>4. /\ Alive' = Alive \cup {Memory(l), Module(l), Frame}
      /\ members'[Frame] = mapping \o rest
      /\ \A o \in Alive \ {Memory(l), Module(l), Frame} : members'[o] = members[o]
  BY <1>1, LoadBegun
<1>5. Range(mapping \o rest) \subseteq {Memory(l), M3Runtime(k), Module(l)}
  <2>1. ASSUME NEW S, Memory(l) \in S, M3Runtime(k) \in S, Module(l) \in S
        PROVE  mapping \in Seq(S) /\ rest \in Seq(S)
    BY <2>1
  <2> HIDE DEF mapping, rest
  <2>2. mapping \o rest \in Seq({Memory(l), M3Runtime(k), Module(l)})
    BY <2>1, ConcatProperties
  <2> QED BY <2>2, ListedMembers
<1> QED BY <1>1, <1>2, <1>3, <1>4, <1>5 DEF LoadIsRecorded

\* What loadRune holds while it runs.
LEMMA LoadHolds ==
    ASSUME BaseInv, loading # None
    PROVE  LET l == loading.load
               k == loading.runtime
           IN  /\ l \in 1 .. Loads /\ k \in 1 .. MaxRuntimes /\ source[l].runtime = k
               /\ Runtime(k) \in handles
               /\ Frame \in Alive \ Dying
               /\ Range(Mapping(l)) \subseteq {Memory(l)}
               /\ Rune(l) \in Alive => Range(members[Frame]) = Range(Mapping(l))
               /\ Rune(l) \notin Alive =>
                     Range(members[Frame]) = Range(Mapping(l)) \cup {M3Runtime(k), Module(l)}
BY FrameHolds DEF BaseInv, DataInv, LoadInv

LEMMA KeepKept ==
    ASSUME KeepInv, handles \subseteq handles',
           \A l \in 1 .. Loads' : Rune(l) \in Alive' =>
              \/ l \in 1 .. Loads /\ source'[l] = source[l] /\ Rune(l) \in Alive
              \/ Runtime(source'[l].runtime) \in handles',
           \A k \in 1 .. MaxRuntimes : Frame \in Alive' /\ M3Runtime(k) \in Range(members'[Frame]) =>
              \/ Runtime(k) \in handles'
              \/ Frame \in Alive /\ M3Runtime(k) \in Range(members[Frame]),
           \A k \in 1 .. MaxRuntimes : M3Runtime(k) \in Alive' =>
              \/ Runtime(k) \in Alive' /\ Environment \in Range(members'[Runtime(k)])
              \/ /\ M3Runtime(k) \in Alive
                 /\ Runtime(k) \in Alive =>
                       Runtime(k) \in Alive' /\ members'[Runtime(k)] = members[Runtime(k)]
    PROVE  KeepInv'
<1>1. \A l \in 1 .. Loads' : Rune(l) \in Alive' =>
         Engine \in handles' \/ Runtime(source'[l].runtime) \in handles'
  BY DEF KeepInv
<1>2. \A k \in 1 .. MaxRuntimes :
         Frame \in Alive' /\ M3Runtime(k) \in Range(members'[Frame]) => Runtime(k) \in handles'
  BY DEF KeepInv
<1>3. ASSUME NEW k \in 1 .. MaxRuntimes, M3Runtime(k) \in Alive'
      PROVE  \/ Engine \in handles'
             \/ Runtime(k) \in Alive' /\ Environment \in Range(members'[Runtime(k)])
  BY <1>3 DEF KeepInv
<1> QED BY <1>1, <1>2, <1>3 DEF KeepInv, Rune, Runtime, M3Runtime, Frame, Engine, Environment

LEMMA KeepMakes ==
    ASSUME BaseInv, KeepInv,
           \/ CreateEngine \/ CreateEngineThrows
           \/ \E k \in 1 .. MaxRuntimes :
                 CreateRuntime(k) \/ \E fromFile \in BOOLEAN : BeginLoad(k, fromFile)
    PROVE  KeepInv'
<1>1. CASE CreateEngine
  <2>1. handles \subseteq handles' /\ UNCHANGED <<source, Loads>>
    BY <1>1 DEF CreateEngine, Loads
  <2>2. \A o : o[1] \in {"Wasm3Rune", "Wasm3Runtime", "M3Runtime", "locals"} =>
           /\ o \in Alive' <=> o \in Alive
           /\ o \in Alive => members'[o] = members[o]
    BY <1>1, EngineMade DEF TfRuntime, Models, Environment, Engine
  <2> QED BY <2>1, <2>2, KeepKept DEF Rune, Runtime, M3Runtime, Frame
<1>2. CASE CreateEngineThrows
  <2>1. handles \subseteq handles' /\ UNCHANGED <<source, Loads>>
    BY <1>2 DEF CreateEngineThrows, Loads
  <2>2. \A o : o[1] \in {"Wasm3Rune", "Wasm3Runtime", "M3Runtime"} =>
           /\ o \in Alive' <=> o \in Alive
           /\ o \in Alive => members'[o] = members[o]
    BY <1>2, EngineHalfMade DEF TfRuntime, Models, Frame
  <2>3. Range(members'[Frame]) = {TfRuntime, Models}
    BY <1>2, EngineHalfMade DEF Range
  <2>4. \A k : M3Runtime(k) \notin Range(members'[Frame])
    BY <2>3 DEF M3Runtime, TfRuntime, Models
  <2> QED BY <2>1, <2>2, <2>4, KeepKept DEF Rune, Runtime, M3Runtime
<1>3. ASSUME NEW k \in 1 .. MaxRuntimes, CreateRuntime(k) PROVE KeepInv'
  <2>1. handles \subseteq handles' /\ UNCHANGED <<source, Loads>>
    BY <1>3 DEF CreateRuntime, Loads
  <2>2. \A o : o \notin {M3Runtime(k), Runtime(k)} =>
           /\ o \in Alive' <=> o \in Alive
           /\ o \in Alive => members'[o] = members[o]
    BY <1>3, RuntimeMade
  <2>3. Runtime(k) \in Alive' /\ Environment \in Range(members'[Runtime(k)])
    BY <1>3, RuntimeMade DEF Range, RuntimeMembers
  <2>4. \A j : Rune(j) \notin {M3Runtime(k), Runtime(k)} /\ Frame \notin {M3Runtime(k), Runtime(k)}
    BY DEF Rune, Frame, Runtime, M3Runtime
  <2>5. \A j : j # k => {Runtime(j), M3Runtime(j)} \cap {M3Runtime(k), Runtime(k)} = {}
    BY DEF Runtime, M3Runtime
  <2> QED BY <2>1, <2>2, <2>3, <2>4, <2>5, KeepKept
<1>4. ASSUME NEW k \in 1 .. MaxRuntimes, NEW fromFile \in BOOLEAN, BeginLoad(k, fromFile)
      PROVE  KeepInv'
  <2>0. PICK l \in Load : LoadIsRecorded(l, k, fromFile)
    BY <1>4, LoadRecorded
  <2>1. /\ Loads \in Nat /\ Loads' = l /\ l = Loads + 1
        /\ \A j \in 1 .. Loads : source'[j] = source[j]
        /\ Alive' = Alive \cup {Memory(l), Module(l), Frame}
        /\ \A o \in Alive \ {Memory(l), Module(l), Frame} : members'[o] = members[o]
        /\ Range(members'[Frame]) \subseteq {Memory(l), M3Runtime(k), Module(l)}
        /\ Runtime(k) \in handles
        /\ handles' = IF fromFile THEN handles ELSE handles \cup {Memory(l)}
    BY <2>0 DEF LoadIsRecorded
  <2>2. handles \subseteq handles'
    BY <2>1
  <2>3. \A o : o[1] \in {"Wasm3Rune", "Wasm3Runtime", "M3Runtime"} =>
           /\ o \in Alive' <=> o \in Alive
           /\ o \in Alive => members'[o] = members[o]
    BY <2>1 DEF Memory, Module, Frame
  <2>4. ASSUME NEW j, Rune(j) \in Alive' PROVE j \in 1 .. Loads /\ Rune(j) \in Alive
    BY <2>3, <2>4 DEF BaseInv, LoadInv, Rune
  <2>5. \A j : M3Runtime(j) \in Range(members'[Frame]) => j = k
    BY <2>1 DEF M3Runtime, Memory, Module
  <2> QED BY <2>1, <2>2, <2>3, <2>4, <2>5, KeepKept DEF Runtime, M3Runtime
<1> QED BY <1>1, <1>2, <1>3, <1>4

LEMMA KeepLoads ==
    ASSUME BaseInv, KeepInv,
           \/ ModuleIsRefused \/ ConstructorThrows \/ LoadReturns
           \/ \E d : DelegateObject(d) \in handles /\ ModuleIsLoaded(<<d>>)
    PROVE  KeepInv'
<1>1. CASE ModuleIsRefused \/ ConstructorThrows
  <2>1. UNCHANGED <<members, Alive, handles, source, Loads>>
    BY <1>1, LoadFailsSteps DEF LoadFails, Alive, Loads
  <2> QED BY <2>1, KeepKept
<1>2. CASE LoadReturns
  <2>1. PICK l \in 1 .. Loads : loading.load = l
    BY <1>2 DEF LoadReturns, BaseInv, DataInv
  <2>2. /\ Alive' = Alive \ {Frame}
        /\ \A o \in Alive \ {Frame, Rune(l)} : members'[o] = members[o]
    BY <1>2, <2>1, RuneReturned
  <2>3. handles \subseteq handles' /\ UNCHANGED <<source, Loads>>
    BY <1>2 DEF LoadReturns, Loads
  <2>4. \A k : {Runtime(k), M3Runtime(k)} \cap {Frame, Rune(l)} = {}
    BY DEF Runtime, M3Runtime, Frame, Rune
  <2> QED BY <2>2, <2>3, <2>4, KeepKept
<1>3. ASSUME NEW d, DelegateObject(d) \in handles, ModuleIsLoaded(<<d>>) PROVE KeepInv'
  <2>1. PICK l \in 1 .. Loads, k \in 1 .. MaxRuntimes :
           /\ loading.load = l /\ source[l].runtime = k /\ Runtime(k) \in handles
           /\ Range(Mapping(l)) \subseteq {Memory(l)}
    BY <1>3, LoadHolds DEF ModuleIsLoaded
  <2>2. /\ Alive' = Alive \cup {Rune(l), Manager(l), Frame}
        /\ members'[Frame] = Mapping(l)
        /\ \A o \in Alive \ {Rune(l), Manager(l), Frame} : members'[o] = members[o]
    BY <1>3, <2>1, RuneMade
  <2>3. UNCHANGED <<handles, source, Loads>>
    BY <1>3 DEF ModuleIsLoaded, Loads
  <2>4. \A j : {Runtime(j), M3Runtime(j)} \cap {Rune(l), Manager(l), Frame} = {}
    BY DEF Runtime, M3Runtime, Frame, Rune, Manager
  <2>5. \A j : M3Runtime(j) \notin Range(members'[Frame])
    BY <2>1, <2>2 DEF M3Runtime, Memory
  <2>6. \A j : j # l => Rune(j) \notin {Rune(l), Manager(l), Frame}
    BY DEF Rune, Manager, Frame
  <2> QED BY <2>1, <2>2, <2>3, <2>4, <2>5, <2>6, KeepKept
<1> QED BY <1>1, <1>2, <1>3

\* The actions that leave runtimes, their locals and runes as they are.
LEMMA KeepOthers ==
    ASSUME BaseInv, KeepInv,
           \/ \E l \in Load : LoadModel(l) \/ LoadModelFails(l) \/ GetContext(l)
           \/ \E o \in handles, d \in Delegate : Store(d, o)
    PROVE  KeepInv'
<1> DEFINE kinds == {"Wasm3Rune", "Wasm3Runtime", "M3Runtime"}
           Same  == \A o : o[1] \in kinds \/ o = Frame =>
                       /\ o \in Alive' <=> o \in Alive
                       /\ o \in Alive => members'[o] = members[o]
<1>1. handles \subseteq handles' /\ UNCHANGED <<source, Loads>>
  BY DEF LoadModel, LoadModelFails, GetContext, Store, Loads
<1>2. ASSUME NEW l \in Load, LoadModel(l) PROVE Same
  <2>1. \A o \in {TfLogger(l), ModelData(l), TfModel(l), Interpreter(l), Model(l), Models} :
           o[1] \notin kinds /\ o # Frame
    BY DEF TfLogger, ModelData, TfModel, Interpreter, Model, Models, Frame
  <2> QED BY <1>2, <2>1, ModelMade
<1>3. ASSUME NEW l \in Load, LoadModelFails(l) PROVE Same
  <2>1. \A o \in {TfLogger(l), ModelData(l), TfModel(l), Interpreter(l), ModelFrame} :
           o[1] \notin kinds /\ o # Frame
    BY DEF TfLogger, ModelData, TfModel, Interpreter, ModelFrame, Frame
  <2> QED BY <1>3, <2>1, ModelHalfMade
<1>4. ASSUME NEW l \in Load, GetContext(l) PROVE Same
  BY <1>4 DEF GetContext, Alive
<1>5. ASSUME NEW o \in handles, NEW d \in Delegate, Store(d, o) PROVE Same
  <2>1. members' = [members EXCEPT ![DelegateObject(d)] = Append(@, o)]
    BY <1>5 DEF Store
  <2>2. DelegateObject(d)[1] \notin kinds /\ DelegateObject(d) # Frame
    BY DEF DelegateObject, Frame
  <2> HIDE DEF kinds
  <2> QED BY <2>1, <2>2 DEF Alive
<1>6. Same
  BY <1>2, <1>3, <1>4, <1>5
<1> QED BY <1>1, <1>6, KeepKept DEF Rune, Runtime, M3Runtime

\* The application keeps the runtime, or the engine, of a rune and of a load.
LEMMA KeepRelease ==
    ASSUME BaseInv, KeepInv, NEW o \in handles, Release(o)
    PROVE  KeepInv'
<1>1. /\ dying = <<>> /\ MayRelease(o) /\ handles' = handles \ {o}
      /\ UNCHANGED <<members, Alive, source, loading, Loads>>
  BY DEF Release, AppRuns, Alive, Loads
<1>2. Dying = {}
  BY <1>1, NothingDying
<1>3. ASSUME NEW l \in 1 .. Loads, Rune(l) \in Alive
      PROVE  Engine \in handles' \/ Runtime(source[l].runtime) \in handles'
  <2>1. source[l].runtime \in 1 .. MaxRuntimes
    BY Sources
  <2> QED BY <1>1, <1>3, <2>1 DEF MayRelease
<1>4. ASSUME NEW k \in 1 .. MaxRuntimes, Frame \in Alive, M3Runtime(k) \in Range(members[Frame])
      PROVE  Runtime(k) \in handles'
  <2>1. loading # None
    BY <1>2, <1>4 DEF BaseInv, LoadInv
  <2>2. k = loading.runtime
    BY <1>4, <2>1, LoadHolds DEF Memory, M3Runtime, Module
  <2> QED BY <1>1, <1>4, <2>1, <2>2 DEF KeepInv, MayRelease
<1>5. ASSUME NEW k \in 1 .. MaxRuntimes, M3Runtime(k) \in Alive, Engine \notin handles'
      PROVE  Runtime(k) \in Alive /\ Environment \in Range(members[Runtime(k)])
  <2>1. CASE Engine \notin handles
    BY <1>5, <2>1 DEF KeepInv
  <2>2. CASE Engine \in handles
    <3>1. Held(M3Runtime(k)) /\ M3Runtime(k) \notin handles
      BY <1>2, <1>5 DEF BaseInv, KindsInv, M3Runtime, Leaves
    <3>2. PICK p \in Alive : M3Runtime(k) \in Range(members[p])
      BY <3>1 DEF Held, Holds, Alive
    <3>3. p \in {Frame, Runtime(k)} \/ (p[1] = "Wasm3Rune" /\ source[p[2]].runtime = k)
      BY <3>2 DEF BaseInv, KindsInv, MayHold, M3Runtime
    <3>4. Runtime(k) \in Alive
      <4>1. CASE p = Frame
        BY <3>2, <4>1 DEF KeepInv, BaseInv, CountInv, HoldInv
      <4>2. CASE p[1] = "Wasm3Rune" /\ source[p[2]].runtime = k
        <5>1. p[2] \in 1 .. Loads /\ p = Rune(p[2])
          BY <3>2, <4>2 DEF BaseInv, LoadInv, CountInv, HoldInv, Rune
        <5>2. Runtime(k) \in handles'
          BY <1>3, <1>5, <3>2, <4>2, <5>1
        <5> QED BY <1>1, <5>2 DEF BaseInv, CountInv, HoldInv
      <4> QED BY <3>2, <3>3, <4>1, <4>2
    <3>5. members[Runtime(k)] = RuntimeMembers(k)
      BY <1>2, <3>4 DEF BaseInv, ShapeInv
    <3> QED BY <3>4, <3>5 DEF RuntimeMembers, Range
  <2> QED BY <2>1, <2>2
<1> QED BY <1>1, <1>3, <1>4, <1>5 DEF KeepInv

\* The environment is the last thing but one that a dying runtime lets go.
LEMMA KeepDestruct ==
    ASSUME BaseInv, KeepInv, DropLastMember \/ Deallocate
    PROVE  KeepInv'
<1>1. CASE DropLastMember
  <2>1. PICK o \in Alive \cap Dying, x \in Alive \ Dying :
           /\ members[o] # <<>> /\ o[1] \notin Leaves
           /\ Alive' = Alive /\ members'[o] = Front(members[o])
           /\ \A p \in Alive \ {o} : members'[p] = members[p]
           /\ Range(members[o]) = Range(members'[o]) \cup {x}
           /\ x = Last(members[o])
           /\ o = dying[Len(dying)]
    BY <1>1, MemberDropped
  <2>2. UNCHANGED <<handles, source, Loads>>
    BY <1>1 DEF DropLastMember, Loads
  <2>3. ASSUME NEW k \in 1 .. MaxRuntimes, M3Runtime(k) \in Alive, Engine \notin handles
        PROVE  Environment \in Range(members'[Runtime(k)])
    <3>1. Runtime(k) \in Alive /\ Environment \in Range(members[Runtime(k)])
      BY <2>3 DEF KeepInv
    <3>2. CASE o = Runtime(k) /\ x = Environment
      <4>1. M3Runtime(k) \notin Range(members[Runtime(k)])
        <5>1. /\ members[o] \in Seq(Alive) /\ members[o] # <<>>
              /\ Begins(members[o], RuntimeMembers(k))
          BY <2>1, <3>2 DEF BaseInv, CountInv, HoldInv, ShapeInv
        <5>2. x = members[o][Len(members[o])] /\ Len(members[o]) \in Nat \ {0}
          BY <2>1, <5>1, FrontLast
        <5>3. Len(members[o]) \in 1 .. 4
              /\ \A i \in 1 .. Len(members[o]) : members[o][i] = RuntimeMembers(k)[i]
          <6>1. Len(RuntimeMembers(k)) = 4
            BY DEF RuntimeMembers
          <6>2. /\ Len(members[o]) <= Len(RuntimeMembers(k))
                /\ \A i \in 1 .. Len(members[o]) : members[o][i] = RuntimeMembers(k)[i]
            BY <5>1 DEF Begins
          <6>3. Len(members[o]) \in 1 .. 4
            <7>1. ASSUME NEW n \in Nat \ {0}, n <= 4 PROVE n \in 1 .. 4
              BY <7>1
            <7> QED BY <5>2, <6>1, <6>2, <7>1
          <6> QED BY <6>2, <6>3
        <5>4. Environment # Logger /\ Environment # M3Runtime(k) /\ Environment # Models
              /\ M3Runtime(k) # Logger
          BY DEF Environment, Logger, M3Runtime, Models
        <5>5. Len(members[o]) = 2
          <6>1. PICK n \in 1 .. 4 : n = Len(members[o])
            BY <5>3
          <6>2. RuntimeMembers(k)[n] = Environment
            BY <3>2, <5>2, <5>3, <6>1
          <6>3. n = 1 \/ n = 2 \/ n = 3 \/ n = 4
            OBVIOUS
          <6>4. /\ RuntimeMembers(k)[1] = Logger /\ RuntimeMembers(k)[3] = M3Runtime(k)
                /\ RuntimeMembers(k)[4] = Models
            BY DEF RuntimeMembers
          <6> QED BY <5>4, <6>1, <6>2, <6>3, <6>4
        <5>6. ASSUME NEW y \in Range(members[o]) PROVE y # M3Runtime(k)
          <6>1. PICK i \in 1 .. Len(members[o]) : y = members[o][i]
            BY <5>1, ListedMembers
          <6>2. i = 1 \/ i = 2
            BY <5>5, <6>1
          <6> QED BY <5>3, <5>4, <6>1, <6>2 DEF RuntimeMembers
        <5> QED BY <3>2, <5>6
      <4>2. ~Held(Runtime(k))
        BY <2>1, <3>2 DEF BaseInv, CountInv, DyingInv
      <4>3. Runtime(k) \notin handles
        BY <4>2 DEF Held, Holds
      <4>4. M3Runtime(k) \notin Dying
        <5>1. ASSUME NEW i \in 1 .. Len(dying), dying[i] = M3Runtime(k) PROVE FALSE
          <6>1. Len(dying) \in Nat /\ Runtime(k) # M3Runtime(k)
            BY LenProperties DEF BaseInv, CountInv, DyingInv, Runtime, M3Runtime
          <6>2. i # Len(dying)
            BY <2>1, <3>2, <5>1, <6>1
          <6>3. i \in 1 .. Len(dying) - 1
            BY <6>1, <6>2
          <6> QED BY <5>1, <6>3 DEF BaseInv, KindsInv, M3Runtime, Leaves
        <5> QED BY <5>1 DEF Dying
      <4>5. Held(M3Runtime(k)) /\ M3Runtime(k) \notin handles
        BY <2>3, <4>4 DEF BaseInv, KindsInv, M3Runtime, Leaves
      <4>6. PICK p \in Alive : M3Runtime(k) \in Range(members[p])
        BY <4>5 DEF Held, Holds, Alive
      <4>7. p = Frame \/ (p[1] = "Wasm3Rune" /\ source[p[2]].runtime = k)
        BY <4>1, <4>6 DEF BaseInv, KindsInv, MayHold, M3Runtime
      <4>8. CASE p = Frame
        BY <4>3, <4>6, <4>8 DEF KeepInv
      <4>9. CASE p[1] = "Wasm3Rune" /\ source[p[2]].runtime = k
        <5>1. p[2] \in 1 .. Loads /\ p = Rune(p[2])
          BY <4>6, <4>9 DEF BaseInv, LoadInv, CountInv, HoldInv, Rune
        <5> QED BY <2>3, <4>3, <4>6, <4>9, <5>1 DEF KeepInv
      <4> QED BY <4>7, <4>8, <4>9
    <3> QED BY <2>1, <3>1, <3>2
  <2>4. \A p \in Alive : Range(members'[p]) \subseteq Range(members[p])
    BY <2>1
  <2> QED BY <2>1, <2>2, <2>3, <2>4 DEF KeepInv
<1>2. CASE Deallocate
  <2>1. PICK o \in Alive \cap Dying :
           /\ members[o] = <<>>
           /\ Alive' = Alive \ {o}
           /\ \A p \in Alive \ {o} : members'[p] = members[p]
    BY <1>2, ObjectGone
  <2>2. UNCHANGED <<handles, source, Loads>>
    BY <1>2 DEF Deallocate, Loads
  <2>3. Environment \notin Range(members[o])
    BY <2>1 DEF Range
  <2> QED BY <2>1, <2>2, <2>3 DEF KeepInv
<1> QED BY <1>1, <1>2

LEMMA KeepStep == BaseInv /\ KeepInv /\ [Next]_vars => KeepInv'
<1> SUFFICES ASSUME BaseInv, KeepInv, [Next]_vars PROVE KeepInv'
  OBVIOUS
<1>1. CASE UNCHANGED vars
  <2>1. UNCHANGED <<members, Alive, handles, source, Loads>>
    BY <1>1 DEF vars, Alive, Loads
  <2> QED BY <2>1, KeepKept
<1> QED BY <1>1, KeepMakes, KeepLoads, KeepOthers, KeepRelease, KeepDestruct DEF Next, Destruct

-----------------------------------------------------------------------------
(* TensorFlow Lite's objects have the bytes of their model and their logger *)

\* An object that is about to lose a member has lost the later ones.
LEMMA LastMember ==
    ASSUME NEW S, NEW s \in Seq(S), s # <<>>, NEW t, Len(t) \in Nat, Begins(s, t),
           \A i, j \in 1 .. Len(t) : t[i] = t[j] => i = j,
           NEW n \in 1 .. Len(t), Last(s) = t[n]
    PROVE  \A m \in 1 .. Len(t) : m > n => t[m] \notin Range(s)
<1>1. Last(s) = s[Len(s)] /\ Len(s) \in 1 .. Len(t)
  BY FrontLast DEF Begins
<1>2. Len(s) = n
  <2>1. t[Len(s)] = t[n]
    BY <1>1 DEF Begins
  <2> QED BY <1>1, <2>1
<1>3. ASSUME NEW m \in 1 .. Len(t), m > n, t[m] \in Range(s) PROVE FALSE
  <2>1. PICK i \in 1 .. Len(s) : t[m] = s[i]
    BY <1>3, ListedMembers
  <2>2. i \in 1 .. Len(t) /\ t[m] = t[i] /\ i # m
    BY <1>1, <1>2, <1>3, <2>1 DEF Begins
  <2> QED BY <2>2
<1> QED BY <1>3

LEMMA BeginsAmong ==
    ASSUME NEW S, NEW s \in Seq(S), NEW t, Len(t) \in Nat, Begins(s, t)
    PROVE  \A x \in Range(s) : \E i \in 1 .. Len(t) : x = t[i]
<1> SUFFICES ASSUME NEW x \in Range(s) PROVE \E i \in 1 .. Len(t) : x = t[i]
  OBVIOUS
<1>1. PICK i \in 1 .. Len(s) : x = s[i]
  BY ListedMembers
<1>2. Len(s) \in Nat /\ i \in 1 .. Len(t)
  BY LenProperties DEF Begins
<1> QED BY <1>1, <1>2 DEF Begins

LEMMA ModelMembersDiffer ==
    ASSUME NEW l
    PROVE  /\ Len(ModelMembers(l)) = 5 /\ Len(FrameMembers(l)) = 4
           /\ \A i, j \in 1 .. 5 : ModelMembers(l)[i] = ModelMembers(l)[j] => i = j
           /\ \A i, j \in 1 .. 4 : FrameMembers(l)[i] = FrameMembers(l)[j] => i = j
<1>1. /\ ModelMembers(l)[1] = Logger /\ ModelMembers(l)[2] = TfLogger(l)
      /\ ModelMembers(l)[3] = ModelData(l) /\ ModelMembers(l)[4] = TfModel(l)
      /\ ModelMembers(l)[5] = Interpreter(l) /\ Len(ModelMembers(l)) = 5
  BY DEF ModelMembers
<1>2. /\ FrameMembers(l)[1] = ModelData(l) /\ FrameMembers(l)[2] = TfModel(l)
      /\ FrameMembers(l)[3] = TfLogger(l) /\ FrameMembers(l)[4] = Interpreter(l)
      /\ Len(FrameMembers(l)) = 4
  BY DEF FrameMembers
<1>3. /\ Logger \notin {TfLogger(l), ModelData(l), TfModel(l), Interpreter(l)}
      /\ TfLogger(l) \notin {ModelData(l), TfModel(l), Interpreter(l)}
      /\ ModelData(l) \notin {TfModel(l), Interpreter(l)}
      /\ TfModel(l) # Interpreter(l)
  BY DEF Logger, TfLogger, ModelData, TfModel, Interpreter
<1>4. /\ \A i \in 1 .. 5 : i = 1 \/ i = 2 \/ i = 3 \/ i = 4 \/ i = 5
      /\ \A i \in 1 .. 4 : i = 1 \/ i = 2 \/ i = 3 \/ i = 4
  OBVIOUS
<1>5. ASSUME NEW i \in 1 .. 5, NEW j \in 1 .. 5, ModelMembers(l)[i] = ModelMembers(l)[j]
      PROVE  i = j
  BY <1>1, <1>3, <1>4, <1>5
<1>6. ASSUME NEW i \in 1 .. 4, NEW j \in 1 .. 4, FrameMembers(l)[i] = FrameMembers(l)[j]
      PROVE  i = j
  BY <1>2, <1>3, <1>4, <1>6
<1> QED BY <1>1, <1>2, <1>5, <1>6

\* What is left of a model that is about to lose what its objects use: not they.
LEMMA ModelLetsGo ==
    ASSUME NEW l, NEW S, NEW s \in Seq(S), s # <<>>,
           Begins(s, ModelMembers(l)) \/ Begins(s, FrameMembers(l))
    PROVE  /\ Last(s) = ModelData(l) => TfModel(l) \notin Range(s) /\ Interpreter(l) \notin Range(s)
           /\ Last(s) = TfLogger(l) => Interpreter(l) \notin Range(s)
<1> DEFINE m == ModelMembers(l)
           f == FrameMembers(l)
<1>1. /\ Len(m) = 5 /\ Len(f) = 4
      /\ \A i, j \in 1 .. 5 : m[i] = m[j] => i = j
      /\ \A i, j \in 1 .. 4 : f[i] = f[j] => i = j
  BY ModelMembersDiffer
<1>2. /\ m[2] = TfLogger(l) /\ m[3] = ModelData(l) /\ m[4] = TfModel(l) /\ m[5] = Interpreter(l)
      /\ f[1] = ModelData(l) /\ f[2] = TfModel(l) /\ f[3] = TfLogger(l) /\ f[4] = Interpreter(l)
  BY DEF ModelMembers, FrameMembers
<1> HIDE DEF m, f
<1>3. CASE Begins(s, m)
  <2>1. ASSUME NEW n \in 1 .. 5, Last(s) = m[n] PROVE \A i \in 1 .. 5 : i > n => m[i] \notin Range(s)
    <3>1. /\ Len(m) \in Nat /\ n \in 1 .. Len(m)
          /\ \A i, j \in 1 .. Len(m) : m[i] = m[j] => i = j
      BY <1>1
    <3>2. \A i \in 1 .. Len(m) : i > n => m[i] \notin Range(s)
      BY <1>3, <2>1, <3>1, LastMember
    <3> QED BY <1>1, <3>2
  <2> QED BY <1>2, <2>1
<1>4. CASE Begins(s, f)
  <2>1. ASSUME NEW n \in 1 .. 4, Last(s) = f[n] PROVE \A i \in 1 .. 4 : i > n => f[i] \notin Range(s)
    <3>1. /\ Len(f) \in Nat /\ n \in 1 .. Len(f)
          /\ \A i, j \in 1 .. Len(f) : f[i] = f[j] => i = j
      BY <1>1
    <3>2. \A i \in 1 .. Len(f) : i > n => f[i] \notin Range(s)
      BY <1>4, <2>1, <3>1, LastMember
    <3> QED BY <1>1, <3>2
  <2> QED BY <1>2, <2>1
<1> QED BY <1>3, <1>4 DEF m, f

\* The locals of loadModel are those of a model that is not there.
LEMMA FrameOfModel ==
    ASSUME BaseInv, ModelsInv, ModelFrame \in Alive
    PROVE  \E l \in Load :
              /\ Model(l) \notin Alive
              /\ Begins(members[ModelFrame], FrameMembers(l))
              /\ Range(members[ModelFrame]) \subseteq
                    {ModelData(l), TfModel(l), TfLogger(l), Interpreter(l)}
<1>1. PICK l \in Load : Model(l) \notin Alive /\ Begins(members[ModelFrame], FrameMembers(l))
  BY DEF ModelsInv
<1>2. members[ModelFrame] \in Seq(Alive)
  BY DEF BaseInv, CountInv, HoldInv
<1>3. Len(FrameMembers(l)) = 4
  BY DEF FrameMembers
<1>4. \A x \in Range(members[ModelFrame]) : \E i \in 1 .. 4 : x = FrameMembers(l)[i]
  BY <1>1, <1>2, <1>3, BeginsAmong
<1>5. \A i \in 1 .. 4 :
         FrameMembers(l)[i] \in {ModelData(l), TfModel(l), TfLogger(l), Interpreter(l)}
  <2>1. \A i \in 1 .. 4 : i = 1 \/ i = 2 \/ i = 3 \/ i = 4
    OBVIOUS
  <2> QED BY <2>1 DEF FrameMembers
<1> QED BY <1>1, <1>4, <1>5

\* What the objects of a model use, by their kinds.
LEMMA ModelUses ==
    ASSUME NEW l
    PROVE  /\ LibraryUses(TfModel(l)) = {ModelData(l)}
           /\ LibraryUses(Interpreter(l)) = {ModelData(l), TfLogger(l)}
BY DEF LibraryUses, TfModel, Interpreter

\* What no other action touches.
ModelKinds == {"TfLiteRuntimeModel", "TfLiteModel", "TfLiteInterpreter"}

LEMMA ModelsKept ==
    ASSUME ModelsInv,
           \A o : o[1] \in ModelKinds \/ o = ModelFrame =>
              /\ o \in Alive' <=> o \in Alive
              /\ o \in Alive => members'[o] = members[o]
    PROVE  ModelsInv'
<1>1. \A o \in Alive' : o[1] = "TfLiteRuntimeModel" => Begins(members'[o], ModelMembers(o[2]))
  BY DEF ModelsInv, ModelKinds
<1>2. \A l : Model(l) \in Alive' <=> Model(l) \in Alive
  BY DEF ModelKinds, Model
<1>3. ModelFrame \in Alive' => \E l \in Load :
         Model(l) \notin Alive' /\ Begins(members'[ModelFrame], FrameMembers(l))
  BY <1>2 DEF ModelsInv
<1>4. ASSUME NEW o \in Alive', o[1] \in {"TfLiteModel", "TfLiteInterpreter"}
      PROVE  \E p \in {Model(o[2]), ModelFrame} \cap Alive' : LibraryUses(o) \subseteq Range(members'[p])
  <2>1. PICK p \in {Model(o[2]), ModelFrame} \cap Alive : LibraryUses(o) \subseteq Range(members[p])
    BY <1>4 DEF ModelsInv, ModelKinds
  <2>2. p \in Alive' /\ members'[p] = members[p]
    BY <2>1 DEF ModelKinds, Model
  <2> QED BY <2>1, <2>2
<1> QED BY <1>1, <1>3, <1>4 DEF ModelsInv, Model, ModelFrame, LibraryUses, ModelMembers, FrameMembers,
    Logger, TfLogger, ModelData, TfModel, Interpreter, Environment

LEMMA ModelsOthers ==
    ASSUME BaseInv, ModelsInv,
           \/ CreateEngine \/ CreateEngineThrows
           \/ \E k \in 1 .. MaxRuntimes :
                 CreateRuntime(k) \/ \E fromFile \in BOOLEAN : BeginLoad(k, fromFile)
           \/ ModuleIsRefused \/ ConstructorThrows \/ LoadReturns
           \/ \E d : DelegateObject(d) \in handles /\ ModuleIsLoaded(<<d>>)
           \/ \E l \in Load : GetContext(l)
           \/ \E o \in handles : Release(o) \/ \E d \in Delegate : Store(d, o)
           \/ UNCHANGED vars
    PROVE  ModelsInv'
<1> DEFINE Same == \A o : o[1] \in ModelKinds \/ o = ModelFrame =>
                      /\ o \in Alive' <=> o \in Alive
                      /\ o \in Alive => members'[o] = members[o]
<1>1. CASE CreateEngine
  <2>1. \A o \in {TfRuntime, Models, Environment, Engine} : o[1] \notin ModelKinds /\ o # ModelFrame
    BY DEF TfRuntime, Models, Environment, Engine, ModelKinds, ModelFrame
  <2>2. Same
    BY <1>1, <2>1, EngineMade
  <2> QED BY <2>2, ModelsKept
<1>2. CASE CreateEngineThrows
  <2>1. \A o \in {TfRuntime, Models, Frame} : o[1] \notin ModelKinds /\ o # ModelFrame
    BY DEF TfRuntime, Models, Frame, ModelKinds, ModelFrame
  <2>2. Same
    BY <1>2, <2>1, EngineHalfMade
  <2> QED BY <2>2, ModelsKept
<1>3. ASSUME NEW k \in 1 .. MaxRuntimes, CreateRuntime(k) PROVE ModelsInv'
  <2>1. \A o \in {M3Runtime(k), Runtime(k)} : o[1] \notin ModelKinds /\ o # ModelFrame
    BY DEF M3Runtime, Runtime, ModelKinds, ModelFrame
  <2>2. Same
    BY <1>3, <2>1, RuntimeMade
  <2> QED BY <2>2, ModelsKept
<1>4. ASSUME NEW k \in 1 .. MaxRuntimes, NEW fromFile \in BOOLEAN, BeginLoad(k, fromFile)
      PROVE  ModelsInv'
  <2>0. PICK l \in Load : LoadIsRecorded(l, k, fromFile)
    BY <1>4, LoadRecorded
  <2>1. /\ Alive' = Alive \cup {Memory(l), Module(l), Frame}
        /\ \A o \in Alive \ {Memory(l), Module(l), Frame} : members'[o] = members[o]
    BY <2>0 DEF LoadIsRecorded
  <2>2. \A o \in {Memory(l), Module(l), Frame} : o[1] \notin ModelKinds /\ o # ModelFrame
    BY DEF Memory, Module, Frame, ModelKinds, ModelFrame
  <2>3. Same
    BY <2>1, <2>2
  <2> QED BY <2>3, ModelsKept
<1>5. CASE LoadReturns
  <2>1. PICK l \in 1 .. Loads : loading.load = l
    BY <1>5 DEF LoadReturns, BaseInv, DataInv
  <2>2. /\ Alive' = Alive \ {Frame}
        /\ \A o \in Alive \ {Frame, Rune(l)} : members'[o] = members[o]
    BY <1>5, <2>1, RuneReturned
  <2>3. \A o \in {Frame, Rune(l)} : o[1] \notin ModelKinds /\ o # ModelFrame
    BY DEF Frame, Rune, ModelKinds, ModelFrame
  <2>4. Same
    BY <2>2, <2>3
  <2> QED BY <2>4, ModelsKept
<1>6. ASSUME NEW d, ModuleIsLoaded(<<d>>) PROVE ModelsInv'
  <2>1. PICK l : l = loading.load
    OBVIOUS
  <2>2. /\ Alive' = Alive \cup {Rune(l), Manager(l), Frame}
        /\ \A o \in Alive \ {Rune(l), Manager(l), Frame} : members'[o] = members[o]
    BY <1>6, <2>1, RuneMade
  <2>3. \A o \in {Rune(l), Manager(l), Frame} : o[1] \notin ModelKinds /\ o # ModelFrame
    BY DEF Rune, Manager, Frame, ModelKinds, ModelFrame
  <2>4. Same
    BY <2>2, <2>3
  <2> QED BY <2>4, ModelsKept
<1>7. ASSUME NEW o \in handles, NEW d \in Delegate, Store(d, o) PROVE ModelsInv'
  <2>1. members' = [members EXCEPT ![DelegateObject(d)] = Append(@, o)]
    BY <1>7 DEF Store
  <2>2. DelegateObject(d)[1] \notin ModelKinds /\ DelegateObject(d) # ModelFrame
    BY DEF DelegateObject, ModelKinds, ModelFrame
  <2>3. Same
    BY <2>1, <2>2 DEF Alive
  <2> QED BY <2>3, ModelsKept
<1>8. CASE UNCHANGED members
  <2>1. Same
    BY <1>8 DEF Alive
  <2> QED BY <2>1, ModelsKept
<1> QED BY <1>1, <1>2, <1>3, <1>4, <1>5, <1>6, <1>7, <1>8
    DEF ModuleIsRefused, ConstructorThrows, GetContext, Release, vars

LEMMA ModelsMade ==
    ASSUME BaseInv, ModelsInv, NEW l \in Load, LoadModel(l) \/ LoadModelFails(l)
    PROVE  ModelsInv'
<1> DEFINE parts == {TfLogger(l), ModelData(l), TfModel(l), Interpreter(l)}
<1>1. dying = <<>> /\ Dying = {} /\ Model(l) \notin Alive /\ ModelFrame \notin Alive
  BY NothingDying DEF LoadModel, LoadModelFails, Runs, AppRuns, BaseInv, LoadInv
<1>2. \A o \in parts : o[1] \notin {"TfLiteRuntimeModel", "locals"}
  BY DEF TfLogger, ModelData, TfModel, Interpreter
<1>3. \A o \in Alive : o = <<o[1], o[2]>>
  BY DEF BaseInv, CountInv, HoldInv
<1>4. \A o \in parts : o[1] \in {"TfLiteModel", "TfLiteInterpreter"} => o \in {TfModel(l), Interpreter(l)}
  BY DEF TfLogger, ModelData, TfModel, Interpreter
<1>5. /\ LibraryUses(TfModel(l)) = {ModelData(l)} /\ TfModel(l)[2] = l
      /\ LibraryUses(Interpreter(l)) = {ModelData(l), TfLogger(l)} /\ Interpreter(l)[2] = l
  BY ModelUses DEF TfModel, Interpreter
<1>6. /\ Range(ModelMembers(l)) = {Logger} \cup parts /\ Range(FrameMembers(l)) = parts
      /\ Begins(ModelMembers(l), ModelMembers(l)) /\ Begins(FrameMembers(l), FrameMembers(l))
  BY DEF Range, Begins, ModelMembers, FrameMembers
<1>7. /\ Model(l) = <<Model(l)[1], Model(l)[2]>> /\ Model(l)[1] = "TfLiteRuntimeModel"
      /\ Model(l)[2] = l /\ ModelFrame[1] = "locals"
      /\ Models[1] \notin ModelKinds \cup {"locals"}
      /\ \A o : Model(o)[1] = "TfLiteRuntimeModel" /\ (Model(o) = Model(l) => o = l)
  BY DEF Model, ModelFrame, Models, ModelKinds
<1>8. ASSUME NEW o \in Alive, o[1] \in {"TfLiteModel", "TfLiteInterpreter"}
      PROVE  Model(o[2]) \in Alive /\ o[2] # l /\ LibraryUses(o) \subseteq Range(members[Model(o[2])])
  BY <1>1, <1>8 DEF ModelsInv
<1>9. CASE LoadModel(l)
  <2>1. /\ Alive' = Alive \cup parts \cup {Model(l), Models}
        /\ members'[Model(l)] = ModelMembers(l)
        /\ \A o \in Alive \ (parts \cup {Model(l), Models}) : members'[o] = members[o]
    BY <1>9, ModelMade
  <2> HIDE DEF parts
  <2>2. ASSUME NEW o \in Alive', o[1] = "TfLiteRuntimeModel"
        PROVE  Begins(members'[o], ModelMembers(o[2]))
    BY <1>2, <1>6, <1>7, <2>1, <2>2 DEF ModelsInv, ModelKinds
  <2>3. ModelFrame \notin Alive'
    BY <1>1, <1>2, <1>7, <2>1 DEF ModelKinds
  <2>4. ASSUME NEW o \in Alive', o[1] \in {"TfLiteModel", "TfLiteInterpreter"}
        PROVE  \E p \in {Model(o[2]), ModelFrame} \cap Alive' : LibraryUses(o) \subseteq Range(members'[p])
    <3>1. CASE o \in {TfModel(l), Interpreter(l)}
      <4>1. {ModelData(l), TfLogger(l)} \subseteq Range(members'[Model(l)])
        BY <1>6, <2>1 DEF parts
      <4> QED BY <1>5, <2>1, <3>1, <4>1
    <3>2. CASE o \notin {TfModel(l), Interpreter(l)}
      <4>1. o \in Alive
        BY <1>4, <1>7, <2>1, <2>4, <3>2 DEF ModelKinds
      <4>2. Model(o[2]) \in Alive /\ o[2] # l /\ LibraryUses(o) \subseteq Range(members[Model(o[2])])
        BY <1>8, <2>4, <4>1
      <4>3. Model(o[2]) \in Alive \ (parts \cup {Model(l), Models})
        BY <1>2, <1>7, <4>2 DEF ModelKinds
      <4> QED BY <2>1, <4>2, <4>3
    <3> QED BY <3>1, <3>2
  <2> QED BY <2>2, <2>3, <2>4 DEF ModelsInv, Model, ModelFrame, LibraryUses, ModelMembers, Logger,
      TfLogger, ModelData, TfModel, Interpreter, Environment
<1>10. CASE LoadModelFails(l)
  <2>1. /\ Alive' = Alive \cup parts \cup {ModelFrame}
        /\ members'[ModelFrame] = FrameMembers(l)
        /\ \A o \in Alive \ (parts \cup {ModelFrame}) : members'[o] = members[o]
    BY <1>10, ModelHalfMade DEF FrameMembers
  <2> HIDE DEF parts
  <2>2. ASSUME NEW o \in Alive', o[1] = "TfLiteRuntimeModel"
        PROVE  Begins(members'[o], ModelMembers(o[2]))
    BY <1>2, <1>7, <2>1, <2>2 DEF ModelsInv
  <2>3. Model(l) \notin Alive' /\ Begins(members'[ModelFrame], FrameMembers(l))
    BY <1>1, <1>2, <1>6, <1>7, <2>1
  <2>4. ASSUME NEW o \in Alive', o[1] \in {"TfLiteModel", "TfLiteInterpreter"}
        PROVE  \E p \in {Model(o[2]), ModelFrame} \cap Alive' : LibraryUses(o) \subseteq Range(members'[p])
    <3>1. CASE o \in {TfModel(l), Interpreter(l)}
      <4>1. {ModelData(l), TfLogger(l)} \subseteq Range(members'[ModelFrame])
        BY <1>6, <2>1 DEF parts
      <4> QED BY <1>5, <2>1, <3>1, <4>1
    <3>2. CASE o \notin {TfModel(l), Interpreter(l)}
      <4>1. o \in Alive
        BY <1>4, <1>7, <2>1, <2>4, <3>2
      <4>2. Model(o[2]) \in Alive /\ o[2] # l /\ LibraryUses(o) \subseteq Range(members[Model(o[2])])
        BY <1>8, <2>4, <4>1
      <4>3. Model(o[2]) \in Alive \ (parts \cup {ModelFrame})
        BY <1>2, <1>7, <4>2
      <4> QED BY <2>1, <4>2, <4>3
    <3> QED BY <3>1, <3>2
  <2> QED BY <2>2, <2>3, <2>4 DEF ModelsInv, Model, ModelFrame, LibraryUses, ModelMembers, FrameMembers,
      Logger, TfLogger, ModelData, TfModel, Interpreter, Environment
<1> QED BY <1>9, <1>10

LEMMA ModelsDestruct ==
    ASSUME BaseInv, ModelsInv, DropLastMember \/ Deallocate
    PROVE  ModelsInv'
<1>1. CASE DropLastMember
  <2>1. PICK o \in Alive \cap Dying, x \in Alive \ Dying :
           /\ members[o] # <<>> /\ o[1] \notin Leaves
           /\ Alive' = Alive /\ members'[o] = Front(members[o])
           /\ \A p \in Alive \ {o} : members'[p] = members[p]
           /\ Range(members[o]) = Range(members'[o]) \cup {x}
           /\ x = Last(members[o])
           /\ Len(dying) \in Nat \ {0} /\ o = dying[Len(dying)]
    BY <1>1, MemberDropped
  <2>2. members[o] \in Seq(Alive) /\ \A p \in Alive : p = <<p[1], p[2]>>
    BY DEF BaseInv, CountInv, HoldInv
  <2>3. ASSUME NEW p \in Alive, p[1] = "TfLiteRuntimeModel"
        PROVE  Begins(members'[p], ModelMembers(p[2]))
    <3>1. Begins(members[p], ModelMembers(p[2])) /\ Len(ModelMembers(p[2])) = 5
      BY <2>3, ModelMembersDiffer DEF ModelsInv
    <3> QED BY <2>1, <2>2, <3>1, FrontBegins
  <2>4. ASSUME ModelFrame \in Alive
        PROVE  \E l \in Load : Model(l) \notin Alive /\ Begins(members'[ModelFrame], FrameMembers(l))
    <3>1. PICK l \in Load : Model(l) \notin Alive /\ Begins(members[ModelFrame], FrameMembers(l))
      BY <2>4 DEF ModelsInv
    <3>2. Len(FrameMembers(l)) = 4
      BY ModelMembersDiffer
    <3> QED BY <2>1, <2>2, <2>4, <3>1, <3>2, FrontBegins
  <2>5. ASSUME NEW q \in Alive, q[1] \in {"TfLiteModel", "TfLiteInterpreter"}
        PROVE  \E p \in {Model(q[2]), ModelFrame} \cap Alive : LibraryUses(q) \subseteq Range(members'[p])
    <3>1. PICK n : n = q[2]
      OBVIOUS
    <3>2. PICK p \in {Model(n), ModelFrame} \cap Alive : LibraryUses(q) \subseteq Range(members[p])
      BY <2>5, <3>1 DEF ModelsInv
    <3>3. \/ q = TfModel(n) /\ LibraryUses(q) = {ModelData(n)}
          \/ q = Interpreter(n) /\ LibraryUses(q) = {ModelData(n), TfLogger(n)}
      BY <2>2, <2>5, <3>1, ModelUses DEF TfModel, Interpreter
    <3>4. CASE p = o /\ x \in LibraryUses(q)
      <4>1. Begins(members[o], ModelMembers(n)) \/ Begins(members[o], FrameMembers(n))
        <5>1. CASE p = Model(n)
          BY <3>2, <3>4, <5>1 DEF ModelsInv, Model
        <5>2. CASE p = ModelFrame
          <6>1. PICK l \in Load :
                   /\ Begins(members[ModelFrame], FrameMembers(l))
                   /\ Range(members[ModelFrame]) \subseteq
                         {ModelData(l), TfModel(l), TfLogger(l), Interpreter(l)}
            BY <3>2, <5>2, FrameOfModel
          <6>2. l = n
            <7>1. ModelData(n) \in Range(members[ModelFrame])
              BY <3>2, <3>3, <5>2
            <7> QED BY <6>1, <7>1 DEF ModelData, TfModel, TfLogger, Interpreter
          <6> QED BY <3>4, <5>2, <6>1, <6>2
        <5> QED BY <3>2, <5>1, <5>2
      <4>2. q \notin Range(members[o])
        <5>1. ModelData(n) # TfLogger(n)
          BY DEF ModelData, TfLogger
        <5>2. members[o] \in Seq(Alive) /\ members[o] # <<>> /\ x = Last(members[o])
          BY <2>1, <2>2
        <5>3. /\ x = ModelData(n) => /\ TfModel(n) \notin Range(members[o])
                                     /\ Interpreter(n) \notin Range(members[o])
              /\ x = TfLogger(n) => Interpreter(n) \notin Range(members[o])
          BY <4>1, <5>2, ModelLetsGo
        <5> QED BY <3>3, <3>4, <5>1, <5>3
      <4>3. q \notin Dying
        <5>1. ASSUME NEW i \in 1 .. Len(dying), dying[i] = q PROVE FALSE
          <6>1. q # o
            BY <2>1, <2>5 DEF Leaves
          <6>2. i \in 1 .. Len(dying) - 1
            BY <2>1, <5>1, <6>1
          <6> QED BY <2>5, <5>1, <6>2 DEF BaseInv, KindsInv, Leaves
        <5> QED BY <5>1 DEF Dying
      <4>4. Held(q) /\ q \notin handles
        BY <2>5, <4>3 DEF BaseInv, KindsInv, Leaves
      <4>5. PICK r \in Alive : q \in Range(members[r])
        BY <4>4 DEF Held, Holds, Alive
      <4>6. r \in {ModelFrame, Model(n)}
        BY <2>5, <3>1, <4>5 DEF BaseInv, KindsInv, MayHold
      <4>7. ModelFrame \in Alive /\ Model(n) \in Alive /\ r # o
        BY <3>2, <3>4, <4>2, <4>5, <4>6
      <4>8. ASSUME NEW s \in {ModelFrame},
                   Range(members[s]) \cap {ModelData(n), TfLogger(n), TfModel(n), Interpreter(n)} # {}
            PROVE  FALSE
        <5>1. PICK l \in Load :
                 /\ Model(l) \notin Alive
                 /\ Range(members[ModelFrame]) \subseteq
                       {ModelData(l), TfModel(l), TfLogger(l), Interpreter(l)}
          BY <4>7, FrameOfModel
        <5>2. l = n
          BY <4>8, <5>1 DEF ModelData, TfModel, TfLogger, Interpreter
        <5> QED BY <4>7, <5>1, <5>2
      <4> QED BY <3>2, <3>3, <3>4, <4>5, <4>6, <4>7, <4>8
    <3>5. CASE ~(p = o /\ x \in LibraryUses(q))
      <4>1. LibraryUses(q) \subseteq Range(members'[p])
        BY <2>1, <3>2, <3>5
      <4> QED BY <3>1, <3>2, <4>1
    <3> QED BY <3>4, <3>5
  <2> QED BY <2>1, <2>3, <2>4, <2>5 DEF ModelsInv, Model, ModelFrame, LibraryUses, ModelMembers,
      FrameMembers, Logger, TfLogger, ModelData, TfModel, Interpreter, Environment
<1>2. CASE Deallocate
  <2>1. PICK o \in Alive \cap Dying :
           /\ members[o] = <<>>
           /\ Alive' = Alive \ {o}
           /\ \A p \in Alive \ {o} : members'[p] = members[p]
    BY <1>2, ObjectGone
  <2>2. ASSUME NEW q \in Alive', q[1] \in {"TfLiteModel", "TfLiteInterpreter"}
        PROVE  \E p \in {Model(q[2]), ModelFrame} \cap Alive' : LibraryUses(q) \subseteq Range(members'[p])
    <3>1. PICK p \in {Model(q[2]), ModelFrame} \cap Alive : LibraryUses(q) \subseteq Range(members[p])
      BY <2>1, <2>2 DEF ModelsInv
    <3>2. ModelData(q[2]) \in LibraryUses(q)
      BY <2>2 DEF LibraryUses
    <3>3. p # o
      BY <2>1, <3>1, <3>2 DEF Range
    <3> QED BY <2>1, <3>1, <3>3
  <2> QED BY <2>1, <2>2 DEF ModelsInv, Model, ModelFrame, LibraryUses, ModelMembers,
      FrameMembers, Logger, TfLogger, ModelData, TfModel, Interpreter, Environment
<1> QED BY <1>1, <1>2

LEMMA ModelsStep == BaseInv /\ ModelsInv /\ [Next]_vars => ModelsInv'
BY ModelsOthers, ModelsMade, ModelsDestruct DEF Next, Destruct

\* An M3Runtime that is there has its environment; the objects TensorFlow Lite
\* made for a model have its bytes and its logger.
LEMMA LibraryUsedIsThere ==
    BaseInv /\ KeepInv /\ ModelsInv => \A o \in Alive : LibraryUses(o) \subseteq Alive
<1> SUFFICES ASSUME BaseInv, KeepInv, ModelsInv, NEW o \in Alive
             PROVE  LibraryUses(o) \subseteq Alive
  OBVIOUS
<1>1. \A p \in Alive : Range(members[p]) \subseteq Alive
  BY ListedMembers DEF BaseInv, CountInv, HoldInv
<1>2. CASE o[1] = "M3Runtime"
  <2>1. o[2] \in 1 .. MaxRuntimes /\ o = M3Runtime(o[2])
    BY <1>2 DEF BaseInv, LoadInv, CountInv, HoldInv, M3Runtime
  <2>2. Environment \in Alive
    <3>1. CASE Engine \in handles
      <4>1. Engine \in Alive \ Dying
        BY <3>1 DEF BaseInv, CountInv, HoldInv, DyingInv, Held, Holds
      <4>2. members[Engine] = <<Logger, Environment, Models>>
        BY <4>1 DEF BaseInv, ShapeInv
      <4>3. Environment \in Range(members[Engine])
        BY <4>2 DEF Range
      <4> QED BY <1>1, <4>1, <4>3
    <3>2. CASE Engine \notin handles
      BY <1>1, <2>1, <3>2 DEF KeepInv
    <3> QED BY <3>1, <3>2
  <2> QED BY <1>2, <2>2 DEF LibraryUses
<1>3. CASE o[1] \in {"TfLiteModel", "TfLiteInterpreter"}
  BY <1>1, <1>3 DEF ModelsInv
<1>4. CASE o[1] \notin {"M3Runtime", "TfLiteModel", "TfLiteInterpreter"}
  BY <1>4 DEF LibraryUses
<1> QED BY <1>2, <1>3, <1>4

-----------------------------------------------------------------------------
(* Each module has one owner *)

\* What OneModuleOwner says of one load.
OneOwner(l) ==
    LET k       == source[l].runtime
        deleter == Module(l) \in Alive /\ l \notin loaded
        runtime == M3Runtime(k) \in Alive /\ l \in Range(modules[k])
    IN /\ freed[l] <= 1
       /\ freed[l] = 1 <=> ~deleter /\ ~runtime
       /\ ~(deleter /\ runtime)

\* Objects that a module's owners are, and runes.
OwnerKinds == {"SharedM3Module", "M3Runtime", "Wasm3Rune"}

\* Steps that make and destroy none of these, and end a load or leave it alone.
OwnersAlone ==
    /\ UNCHANGED <<modules, loaded, freed, source, Loads>>
    /\ loading' = None \/ UNCHANGED loading
    /\ \A o : o[1] \in OwnerKinds => (o \in Alive' <=> o \in Alive)

LEMMA OthersLeaveOwnersAlone ==
    ASSUME BaseInv,
           \/ CreateEngine \/ CreateEngineThrows
           \/ ModuleIsRefused \/ ConstructorThrows \/ LoadReturns
           \/ \E l \in Load : LoadModel(l) \/ LoadModelFails(l) \/ GetContext(l)
           \/ \E o \in handles : Release(o) \/ \E d \in Delegate : Store(d, o)
           \/ DropLastMember
           \/ UNCHANGED vars
    PROVE  OwnersAlone
<1>1. CASE CreateEngine
  <2>1. \A o \in {TfRuntime, Models, Environment, Engine} : o[1] \notin OwnerKinds
    BY DEF TfRuntime, Models, Environment, Engine, OwnerKinds
  <2> QED BY <1>1, <2>1, EngineMade DEF CreateEngine, OwnersAlone, Loads
<1>2. CASE CreateEngineThrows
  <2>1. \A o \in {TfRuntime, Models, Frame} : o[1] \notin OwnerKinds
    BY DEF TfRuntime, Models, Frame, OwnerKinds
  <2> QED BY <1>2, <2>1, EngineHalfMade DEF CreateEngineThrows, OwnersAlone, Loads
<1>3. CASE ModuleIsRefused \/ ConstructorThrows
  BY <1>3 DEF ModuleIsRefused, ConstructorThrows, OwnersAlone, Alive, Loads
<1>4. CASE LoadReturns
  <2>1. PICK l \in 1 .. Loads : loading.load = l
    BY <1>4 DEF LoadReturns, BaseInv, DataInv
  <2>2. Alive' = Alive \ {Frame}
    BY <1>4, <2>1, RuneReturned
  <2>3. Frame[1] \notin OwnerKinds
    BY DEF Frame, OwnerKinds
  <2> QED BY <1>4, <2>2, <2>3 DEF LoadReturns, OwnersAlone, Loads
<1>5. ASSUME NEW l \in Load, LoadModel(l) PROVE OwnersAlone
  <2>1. \A o \in {TfLogger(l), ModelData(l), TfModel(l), Interpreter(l), Model(l), Models} :
           o[1] \notin OwnerKinds
    BY DEF TfLogger, ModelData, TfModel, Interpreter, Model, Models, OwnerKinds
  <2>2. Alive' = Alive \cup {TfLogger(l), ModelData(l), TfModel(l), Interpreter(l), Model(l), Models}
    BY <1>5, ModelMade
  <2>3. UNCHANGED <<modules, loaded, freed, source, loading>>
    BY <1>5 DEF LoadModel
  <2> QED BY <2>1, <2>2, <2>3 DEF OwnersAlone, Loads
<1>6. ASSUME NEW l \in Load, LoadModelFails(l) PROVE OwnersAlone
  <2>1. \A o \in {TfLogger(l), ModelData(l), TfModel(l), Interpreter(l), ModelFrame} :
           o[1] \notin OwnerKinds
    BY DEF TfLogger, ModelData, TfModel, Interpreter, ModelFrame, OwnerKinds
  <2> QED BY <1>6, <2>1, ModelHalfMade DEF LoadModelFails, OwnersAlone, Loads
<1>7. ASSUME NEW l \in Load, GetContext(l) PROVE OwnersAlone
  BY <1>7 DEF GetContext, OwnersAlone, Alive, Loads
<1>8. ASSUME NEW o \in handles, Release(o) PROVE OwnersAlone
  BY <1>8 DEF Release, OwnersAlone, Alive, Loads
<1>9. ASSUME NEW o \in handles, NEW d \in Delegate, Store(d, o) PROVE OwnersAlone
  BY <1>9 DEF Store, OwnersAlone, Alive, Loads
<1>10. CASE DropLastMember
  <2>1. Alive' = Alive
    BY <1>10, MemberDropped
  <2> QED BY <1>10, <2>1 DEF DropLastMember, OwnersAlone, Loads
<1>11. CASE UNCHANGED vars
  BY <1>11 DEF vars, OwnersAlone, Alive, Loads
<1> QED BY <1>1, <1>2, <1>3, <1>4, <1>5, <1>6, <1>7, <1>8, <1>9, <1>10, <1>11

LEMMA ModulesLeftAlone ==
    ASSUME ModulesInv, OwnersAlone
    PROVE  ModulesInv'
<1>1. \A l : /\ Module(l) \in Alive' <=> Module(l) \in Alive
             /\ M3Runtime(l) \in Alive' <=> M3Runtime(l) \in Alive
             /\ Rune(l) \in Alive' <=> Rune(l) \in Alive
  BY DEF OwnersAlone, OwnerKinds, Module, M3Runtime, Rune
<1>2. UNCHANGED <<modules, loaded, freed, source, Loads>> /\ (loading' = None \/ UNCHANGED loading)
  BY DEF OwnersAlone
<1> QED BY <1>1, <1>2 DEF ModulesInv, OneModuleOwner, Module, M3Runtime, Rune

LEMMA ModulesMade ==
    ASSUME BaseInv, ModulesInv,
           \/ \E k \in 1 .. MaxRuntimes :
                 CreateRuntime(k) \/ \E fromFile \in BOOLEAN : BeginLoad(k, fromFile)
           \/ \E d : DelegateObject(d) \in handles /\ ModuleIsLoaded(<<d>>)
    PROVE  ModulesInv'
<1>1. \A l \in 1 .. Loads : OneOwner(l)
  BY DEF ModulesInv, OneModuleOwner, OneOwner
<1>2. \A l \in 1 .. Loads : source[l].runtime \in 1 .. MaxRuntimes
  BY Sources
<1>3. ASSUME NEW k \in 1 .. MaxRuntimes, CreateRuntime(k) PROVE ModulesInv'
  <2>1. /\ UNCHANGED <<modules, loaded, freed, source, Loads>> /\ loading' = None
        /\ M3Runtime(k) \notin Alive
        /\ Alive' = Alive \cup {M3Runtime(k), Runtime(k)}
    BY <1>3, RuntimeMade DEF CreateRuntime, Idle, Loads
  <2>2. modules[k] = <<>> /\ Range(<<>>) = {}
    BY <2>1 DEF ModulesInv, Range
  <2>3. \A l : Module(l) \notin {M3Runtime(k), Runtime(k)}
    BY DEF Module, M3Runtime, Runtime
  <2>4. \A j : M3Runtime(j) # Runtime(k) /\ (M3Runtime(j) = M3Runtime(k) => j = k)
    BY DEF M3Runtime, Runtime
  <2>5. ASSUME NEW l \in 1 .. Loads PROVE OneOwner(l)'
    BY <1>1, <2>1, <2>2, <2>3, <2>4 DEF OneOwner, Module, M3Runtime
  <2> QED BY <2>1, <2>4, <2>5 DEF ModulesInv, OneModuleOwner, OneOwner, M3Runtime, Module
<1>4. ASSUME NEW k \in 1 .. MaxRuntimes, NEW fromFile \in BOOLEAN, BeginLoad(k, fromFile)
      PROVE  ModulesInv'
  <2>0. PICK l \in Load : LoadIsRecorded(l, k, fromFile)
    BY <1>4, LoadRecorded
  <2>1. /\ Loads \in Nat /\ Loads' = l /\ l = Loads + 1 /\ l \notin 1 .. Loads
        /\ source'[l] = [runtime |-> k, fromFile |-> fromFile]
        /\ \A j \in 1 .. Loads : source'[j] = source[j]
        /\ loading' = [load |-> l, runtime |-> k]
        /\ Alive' = Alive \cup {Memory(l), Module(l), Frame}
        /\ UNCHANGED <<modules, loaded, code, freed>>
    BY <2>0 DEF LoadIsRecorded
  <2>2. \A j : M3Runtime(j) \in Alive' <=> M3Runtime(j) \in Alive
    BY <2>1 DEF M3Runtime, Memory, Module, Frame
  <2>3. \A j : j # l => (Module(j) \in Alive' <=> Module(j) \in Alive)
    BY <2>1 DEF Memory, Module, Frame
  <2>4. Module(l) \in Alive' /\ l \notin loaded
    BY <2>1 DEF BaseInv, DataInv
  <2>5. l \notin Range(modules[k])
    <3>1. modules[k] \in Seq(1 .. Loads)
      BY DEF BaseInv, DataInv
    <3> QED BY <2>1, <3>1, ListedMembers
  <2>6. freed[l] = 0
    BY <2>1 DEF ModulesInv
  <2>7. OneOwner(l)'
    BY <2>1, <2>4, <2>5, <2>6 DEF OneOwner, Module
  <2>8. ASSUME NEW j \in 1 .. Loads PROVE OneOwner(j)'
    <3>1. j # l
      BY <2>1
    <3> QED BY <1>1, <2>1, <2>2, <2>3, <3>1 DEF OneOwner, Module, M3Runtime
  <2>9. OneModuleOwner'
    <3>1. \A j \in 1 .. Loads' : j = l \/ j \in 1 .. Loads
      BY <2>1
    <3> QED BY <2>7, <2>8, <3>1 DEF OneModuleOwner, OneOwner
  <2>10. \A j \in Load : j > Loads' => freed'[j] = 0
    BY <2>1 DEF ModulesInv, Load
  <2> QED BY <2>1, <2>2, <2>4, <2>9, <2>10 DEF ModulesInv, M3Runtime
<1>5. ASSUME NEW d, DelegateObject(d) \in handles, ModuleIsLoaded(<<d>>) PROVE ModulesInv'
  <2>1. PICK l \in 1 .. Loads, k \in 1 .. MaxRuntimes :
           /\ loading.load = l /\ loading.runtime = k /\ source[l].runtime = k
           /\ Runtime(k) \in handles
           /\ Rune(l) \notin Alive =>
                 Range(members[Frame]) = Range(Mapping(l)) \cup {M3Runtime(k), Module(l)}
           /\ Frame \in Alive \ Dying
    BY <1>5, LoadHolds DEF ModuleIsLoaded
  <2>2. /\ loading # None /\ Rune(l) \notin Alive
        /\ modules' = [modules EXCEPT ![k] = <<l>> \o modules[k]]
        /\ loaded' = loaded \cup {l}
        /\ loading' = None \/ UNCHANGED loading
        /\ UNCHANGED <<freed, source, Loads>>
    BY <1>5, <2>1 DEF ModuleIsLoaded, LoadedWith, Loads
  <2>3. Alive' = Alive \cup {Rune(l), Manager(l), Frame}
    BY <1>5, <2>1, RuneMade
  <2>4. \A j : /\ Module(j) \in Alive' <=> Module(j) \in Alive
               /\ M3Runtime(j) \in Alive' <=> M3Runtime(j) \in Alive
    BY <2>3 DEF Module, M3Runtime, Rune, Manager, Frame
  <2>5. Module(l) \in Alive /\ M3Runtime(k) \in Alive
    <3>1. Range(members[Frame]) \subseteq Alive
      BY <2>1, ListedMembers DEF BaseInv, CountInv, HoldInv
    <3> QED BY <2>1, <2>2, <3>1
  <2>6. l \notin loaded
    BY <2>1, <2>2 DEF ModulesInv
  <2>7. modules'[k] = <<l>> \o modules[k] /\ Range(modules'[k]) = {l} \cup Range(modules[k])
    <3>1. modules[k] \in Seq(1 .. Loads) /\ <<l>> \in Seq(1 .. Loads) /\ k \in DOMAIN modules
      BY DEF BaseInv, DataInv
    <3>2. Range(<<l>> \o modules[k]) = Range(<<l>>) \cup Range(modules[k])
      <4>1. ASSUME NEW s \in Seq(1 .. Loads), NEW t \in Seq(1 .. Loads)
            PROVE  Range(s \o t) = Range(s) \cup Range(t)
        BY RangeOfConcat
      <4> QED BY <3>1, <4>1
    <3>3. Range(<<l>>) = {l}
      BY DEF Range
    <3> QED BY <2>2, <3>1, <3>2, <3>3
  <2>8. \A j \in 1 .. MaxRuntimes : j # k => modules'[j] = modules[j]
    BY <2>2 DEF BaseInv, DataInv
  <2>9. OneOwner(l)'
    <3>1. OneOwner(l)
      BY <1>1
    <3>2. freed[l] # 1 /\ freed[l] <= 1
      BY <2>5, <2>6, <3>1 DEF OneOwner
    <3> QED BY <2>1, <2>2, <2>4, <2>5, <2>7, <3>2 DEF OneOwner, Module, M3Runtime
  <2>10. ASSUME NEW j \in 1 .. Loads, j # l PROVE OneOwner(j)'
    <3>1. \A i \in 1 .. MaxRuntimes : j \in Range(modules'[i]) <=> j \in Range(modules[i])
      BY <2>7, <2>8, <2>10
    <3> QED BY <1>1, <1>2, <2>2, <2>4, <2>10, <3>1 DEF OneOwner, Module, M3Runtime
  <2>11. OneModuleOwner'
    BY <2>2, <2>9, <2>10 DEF OneModuleOwner, OneOwner
  <2>12. \A j \in 1 .. MaxRuntimes : Range(modules'[j]) \subseteq loaded'
    BY <2>2, <2>7, <2>8 DEF ModulesInv
  <2>13. \A j \in 1 .. MaxRuntimes : M3Runtime(j) \notin Alive' => modules'[j] = <<>>
    BY <2>4, <2>5, <2>8 DEF ModulesInv
  <2>14. \A j \in Load : j > Loads' => freed'[j] = 0
    BY <2>2 DEF ModulesInv
  <2>15. loading' # None => Rune(loading'.load) \in Alive'
    BY <2>1, <2>2, <2>3
  <2> QED BY <2>11, <2>12, <2>13, <2>14, <2>15 DEF ModulesInv, M3Runtime, Rune
<1> QED BY <1>3, <1>4, <1>5

\* The two owners: the deleter frees a module that was not loaded, and an
\* M3Runtime those that were loaded into it.
LEMMA ModulesFreed ==
    ASSUME BaseInv, ModulesInv, Deallocate
    PROVE  ModulesInv'
<1>1. PICK o \in Alive \cap Dying : o = Last(dying) /\ Alive' = Alive \ {o}
  BY ObjectGone
<1>2. /\ freed' = [l \in Load |-> IF l \in FreesModules(o) THEN freed[l] + 1 ELSE freed[l]]
      /\ modules' = [k \in DOMAIN modules |-> IF o = M3Runtime(k) THEN <<>> ELSE modules[k]]
      /\ UNCHANGED <<loading, loaded, source, Loads>>
  BY <1>1 DEF Deallocate, Loads
<1>3. /\ \A l \in Load : freed[l] \in Nat
      /\ \A l \in 1 .. Loads : l \in Load /\ source[l].runtime \in 1 .. MaxRuntimes
      /\ DOMAIN modules = 1 .. MaxRuntimes
  BY Sources DEF BaseInv, DataInv
<1>4. \A k \in 1 .. MaxRuntimes : modules'[k] = IF o = M3Runtime(k) THEN <<>> ELSE modules[k]
  BY <1>2, <1>3
<1>5. Range(<<>>) = {}
  BY DEF Range
<1>6. \A l, k : /\ Module(l) # M3Runtime(k)
                /\ \A j : (Module(l) = Module(j) \/ M3Runtime(l) = M3Runtime(j)) => l = j
  BY DEF Module, M3Runtime
<1>7. ASSUME NEW l \in 1 .. Loads PROVE OneOwner(l)'
  <2>1. PICK k \in 1 .. MaxRuntimes : k = source[l].runtime
    BY <1>3
  <2>2. /\ freed[l] \in Nat /\ freed[l] <= 1
        /\ freed[l] = 1 <=> /\ ~(Module(l) \in Alive /\ l \notin loaded)
                            /\ ~(M3Runtime(k) \in Alive /\ l \in Range(modules[k]))
        /\ ~(Module(l) \in Alive /\ l \notin loaded /\ M3Runtime(k) \in Alive
             /\ l \in Range(modules[k]))
    BY <1>3, <2>1 DEF ModulesInv, OneModuleOwner
  <2>3. l \in FreesModules(o) <=> \/ o = Module(l) /\ l \notin loaded
                                  \/ o = M3Runtime(k) /\ l \in Range(modules[k])
    BY <2>1 DEF FreesModules
  <2>4. freed'[l] = IF l \in FreesModules(o) THEN freed[l] + 1 ELSE freed[l]
    BY <1>2, <1>3
  <2>5. /\ Module(l) \in Alive' <=> Module(l) \in Alive /\ o # Module(l)
        /\ M3Runtime(k) \in Alive' <=> M3Runtime(k) \in Alive /\ o # M3Runtime(k)
        /\ l \in Range(modules'[k]) <=> o # M3Runtime(k) /\ l \in Range(modules[k])
    BY <1>1, <1>4, <1>5
  <2>6. /\ freed'[l] <= 1
        /\ freed'[l] = 1 <=> /\ ~(Module(l) \in Alive' /\ l \notin loaded)
                             /\ ~(M3Runtime(k) \in Alive' /\ l \in Range(modules'[k]))
        /\ ~(Module(l) \in Alive' /\ l \notin loaded /\ M3Runtime(k) \in Alive'
             /\ l \in Range(modules'[k]))
    <3>1. CASE l \in FreesModules(o)
      <4>1. freed[l] = 0 /\ freed'[l] = 1
        BY <1>1, <2>2, <2>3, <2>4, <3>1
      <4> QED BY <1>1, <1>6, <2>2, <2>3, <2>5, <3>1, <4>1
    <3>2. CASE l \notin FreesModules(o)
      <4>1. freed'[l] = freed[l]
        BY <2>4, <3>2
      <4> QED BY <2>2, <2>3, <2>5, <3>2, <4>1
    <3> QED BY <3>1, <3>2
  <2> QED BY <1>2, <2>1, <2>6 DEF OneOwner, Module, M3Runtime
<1>8. \A k \in 1 .. MaxRuntimes : Range(modules'[k]) \subseteq loaded'
  BY <1>2, <1>4, <1>5 DEF ModulesInv
<1>9. \A k \in 1 .. MaxRuntimes : M3Runtime(k) \notin Alive' => modules'[k] = <<>>
  BY <1>1, <1>4 DEF ModulesInv
<1>10. \A l \in Load : l > Loads' => freed'[l] = 0
  <2>1. Loads \in Nat
    BY LenProperties DEF BaseInv, DataInv, Loads
  <2>2. \A l \in Load : l > Loads => l \notin FreesModules(o)
    BY <2>1 DEF FreesModules, Load
  <2> QED BY <1>2, <2>2 DEF ModulesInv
<1>11. loading # None => (Rune(loading.load) \in Alive' <=> Rune(loading.load) \in Alive)
  BY <1>1 DEF BaseInv, LoadInv
<1> QED BY <1>2, <1>7, <1>8, <1>9, <1>10, <1>11 DEF ModulesInv, OneModuleOwner, OneOwner,
    M3Runtime, Rune

LEMMA ModulesStep == BaseInv /\ ModulesInv /\ [Next]_vars => ModulesInv'
BY OthersLeaveOwnersAlone, ModulesLeftAlone, ModulesMade, ModulesFreed DEF Next, Destruct

\* Wherever a load fails, and whatever is released first, a module is freed once:
\* by its deleter until m3_LoadModule has taken it, by the M3Runtime from then on
\* (Wasm3Runtime.cpp:47-65).
THEOREM ModulesHaveOneOwner == Spec => []OneModuleOwner
<1>1. Init => ModulesInv
  <2> SUFFICES ASSUME Init PROVE ModulesInv
    OBVIOUS
  <2>1. /\ Loads = 0 /\ loading = None /\ freed = [l \in Load |-> 0]
        /\ modules = [k \in 1 .. MaxRuntimes |-> <<>>]
    BY DEF Init, Loads
  <2>2. Range(<<>>) = {}
    BY DEF Range
  <2> QED BY <2>1, <2>2 DEF ModulesInv, OneModuleOwner
<1>2. ModulesInv => OneModuleOwner
  BY DEF ModulesInv
<1> QED BY <1>1, <1>2, BaseInit, BaseStep, ModulesStep, PTL DEF Spec

-----------------------------------------------------------------------------
(* The bytes a rune's module was parsed from *)

LEMMA BytesKept ==
    ASSUME BytesInv, handles \subseteq handles', OwnersAlone, UNCHANGED code
    PROVE  BytesInv'
<1>1. \A l : Rune(l) \in Alive' <=> Rune(l) \in Alive
  BY DEF OwnersAlone, OwnerKinds, Rune
<1>2. \A l \in 1 .. Loads : loading'.load = l => loading.load = l
  BY DEF OwnersAlone, None
<1> QED BY <1>1, <1>2 DEF BytesInv, OwnersAlone, Rune, Memory

LEMMA BytesOthers ==
    ASSUME BaseInv, BytesInv,
           \/ CreateEngine \/ CreateEngineThrows
           \/ ModuleIsRefused \/ ConstructorThrows \/ LoadReturns
           \/ \E l \in Load : LoadModel(l) \/ LoadModelFails(l) \/ GetContext(l)
           \/ \E o \in handles, d \in Delegate : Store(d, o)
           \/ DropLastMember
           \/ UNCHANGED vars
    PROVE  BytesInv'
<1>1. OwnersAlone
  BY OthersLeaveOwnersAlone
<1>2. handles \subseteq handles' /\ UNCHANGED code
  BY DEF CreateEngine, CreateEngineThrows, ModuleIsRefused, ConstructorThrows, LoadReturns,
     LoadModel, LoadModelFails, GetContext, Store, DropLastMember, vars
<1> QED BY <1>1, <1>2, BytesKept

LEMMA BytesStep == BaseInv /\ BytesInv /\ [Next]_vars => BytesInv'
<1> SUFFICES ASSUME BaseInv, BytesInv, [Next]_vars PROVE BytesInv'
  OBVIOUS
<1>1. ASSUME NEW k \in 1 .. MaxRuntimes, CreateRuntime(k) PROVE BytesInv'
  <2>1. handles \subseteq handles' /\ UNCHANGED <<code, source, Loads, loading>>
    BY <1>1 DEF CreateRuntime, Loads
  <2>2. \A l : Rune(l) \in Alive' <=> Rune(l) \in Alive
    <3>1. Alive' = Alive \cup {M3Runtime(k), Runtime(k)}
      BY <1>1, RuntimeMade
    <3> QED BY <3>1 DEF Rune, Runtime, M3Runtime
  <2> QED BY <2>1, <2>2 DEF BytesInv, Rune, Memory
<1>2. ASSUME NEW k \in 1 .. MaxRuntimes, NEW fromFile \in BOOLEAN, BeginLoad(k, fromFile)
      PROVE  BytesInv'
  <2>0. PICK l \in Load : LoadIsRecorded(l, k, fromFile)
    BY <1>2, LoadRecorded
  <2>1. /\ Loads \in Nat /\ Loads' = l /\ l = Loads + 1
        /\ source'[l] = [runtime |-> k, fromFile |-> fromFile]
        /\ \A j \in 1 .. Loads : source'[j] = source[j]
        /\ loading' = [load |-> l, runtime |-> k]
        /\ Alive' = Alive \cup {Memory(l), Module(l), Frame}
        /\ handles' = IF fromFile THEN handles ELSE handles \cup {Memory(l)}
        /\ UNCHANGED <<modules, loaded, code, freed>>
    BY <2>0 DEF LoadIsRecorded
  <2>2. \A j : Rune(j) \in Alive' <=> Rune(j) \in Alive
    BY <2>1 DEF Rune, Memory, Module, Frame
  <2>3. \A j \in 1 .. Loads' : j = l \/ (j \in 1 .. Loads /\ j # l)
    BY <2>1
  <2>4. ASSUME NEW j \in 1 .. Loads', ~source'[j].fromFile, Rune(j) \in Alive' \/ loading'.load = j
        PROVE  Memory(j) \in handles'
    <3>1. CASE j = l
      BY <2>1, <2>4, <3>1
    <3>2. CASE j \in 1 .. Loads /\ j # l
      BY <2>1, <2>2, <2>4, <3>2 DEF BytesInv
    <3> QED BY <2>3, <3>1, <3>2
  <2> QED BY <2>1, <2>4 DEF BytesInv, Rune, Memory
<1>3. ASSUME NEW d, DelegateObject(d) \in handles, ModuleIsLoaded(<<d>>) PROVE BytesInv'
  <2>1. PICK l \in 1 .. Loads, k \in 1 .. MaxRuntimes : loading.load = l /\ loading.runtime = k
    BY <1>3, LoadHolds DEF ModuleIsLoaded
  <2> DEFINE loads == <<l>> \o modules[k]
  <2>2. /\ UNCHANGED <<handles, source, Loads>> /\ (loading' = None \/ UNCHANGED loading)
        /\ \/ UNCHANGED code
           \/ ~(Range(loads) \subseteq Lacking) /\ code' = code ++ <<l, FindCall(loads)>>
    BY <1>3, <2>1 DEF ModuleIsLoaded, Loads
  <2>3. ~(Range(loads) \subseteq Lacking) => (l \notin Lacking => FindCall(loads) = l)
    <3>1. modules[k] \in Seq(1 .. Loads) /\ <<l>> \in Seq(1 .. Loads)
      BY DEF BaseInv, DataInv
    <3>2. loads \in Seq(1 .. Loads)
      BY <3>1, ConcatProperties
    <3> QED BY <3>1, <3>2, FindsCall
  <2> HIDE DEF loads
  <2>4. \A j \in DOMAIN code' : j \notin Lacking => code'[j] = j
    BY <2>2, <2>3 DEF BytesInv, ++
  <2>5. Alive' = Alive \cup {Rune(l), Manager(l), Frame}
    BY <1>3, <2>1, RuneMade
  <2>6. \A j : j # l => (Rune(j) \in Alive' <=> Rune(j) \in Alive)
    BY <2>5 DEF Rune, Manager, Frame
  <2>7. \A j \in 1 .. Loads : loading'.load = j => loading.load = j
    BY <2>2 DEF None
  <2>8. \A j \in 1 .. Loads :
           ~source[j].fromFile /\ (Rune(j) \in Alive' \/ loading'.load = j) => Memory(j) \in handles
    BY <2>1, <2>6, <2>7 DEF BytesInv
  <2> QED BY <2>2, <2>4, <2>8 DEF BytesInv, Rune, Memory
<1>4. ASSUME NEW o \in handles, Release(o) PROVE BytesInv'
  <2>1. /\ handles' = handles \ {o} /\ MayRelease(o)
        /\ UNCHANGED <<Alive, loading, code, source, Loads>>
    BY <1>4 DEF Release, Alive, Loads
  <2> QED BY <2>1 DEF BytesInv, MayRelease, Rune, Memory
<1>5. CASE Deallocate
  <2>1. Alive' \subseteq Alive /\ UNCHANGED <<handles, loading, code, source, Loads>>
    BY <1>5, ObjectGone DEF Deallocate, Loads
  <2> QED BY <2>1 DEF BytesInv, Rune, Memory
<1> QED BY <1>1, <1>2, <1>3, <1>4, <1>5, BytesOthers DEF Next, Destruct

LEMMA BytesAreThere == BaseInv /\ BytesInv => CompleteRunesHaveTheirBytes
<1> SUFFICES ASSUME BaseInv, BytesInv, NEW l \in DOMAIN code, Usable(l), l \notin Lacking
             PROVE  Memory(code[l]) \in Alive
  BY DEF CompleteRunesHaveTheirBytes
<1>1. code[l] = l /\ l \in 1 .. Loads
  BY DEF BytesInv, BaseInv, DataInv
<1>2. Rune(l) \in Alive \ Dying
  <2>1. \A x \in Dying : x \in Range(dying)
    BY ListedMembers DEF BaseInv, CountInv, DyingInv, Dying
  <2> QED BY <2>1 DEF Usable
<1>3. CASE ~source[l].fromFile
  BY <1>1, <1>2, <1>3 DEF BytesInv, BaseInv, CountInv, HoldInv
<1>4. CASE source[l].fromFile
  <2>1. Range(Mapping(l)) = {Memory(l)}
    BY <1>4 DEF Mapping, Range
  <2>2. CASE loading.load = l
    <3>1. loading # None
      BY <1>1, <2>2 DEF None
    <3>2. Frame \in Alive /\ Memory(l) \in Range(members[Frame])
      BY <1>2, <2>1, <2>2, <3>1, LoadHolds
    <3>3. Range(members[Frame]) \subseteq Alive
      BY <3>2, ListedMembers DEF BaseInv, CountInv, HoldInv
    <3> QED BY <1>1, <3>2, <3>3
  <2>3. CASE loading.load # l
    BY <1>1, <1>2, <2>1, <2>3, RuneHolds
  <2> QED BY <2>2, <2>3
<1> QED BY <1>3, <1>4

\* A rune whose own module has the entry points runs the code of that module, and
\* the bytes wasm3 compiles it from are there as long as it lives
\* (Wasm3Runtime.cpp:156-168, Wasm3Rune.cpp:275-293).
THEOREM CompleteRunesRun == Spec => []CompleteRunesHaveTheirBytes
<1>1. Init => BytesInv
  <2> SUFFICES ASSUME Init PROVE BytesInv
    OBVIOUS
  <2>1. Loads = 0 /\ DOMAIN code = {}
    BY DEF Init, Loads
  <2> QED BY <2>1 DEF BytesInv
<1> QED BY <1>1, BaseInit, BaseStep, BytesStep, BytesAreThere, PTL DEF Spec

-----------------------------------------------------------------------------
(* What is used is there *)

\* The HostContext that answers a rune with a _call of its own is its own.
LEMMA OwnContext ==
    ASSUME BytesInv, NEW o \in Alive \ {Rune(l) : l \in Lacking}
    PROVE  Uses(o) \subseteq LibraryUses(o) \cup {o}
<1> SUFFICES ASSUME NEW l \in DOMAIN code, o = Rune(l) PROVE Rune(code[l]) = o
  BY DEF Uses
<1>1. l \notin Lacking
  OBVIOUS
<1> QED BY <1>1 DEF BytesInv

\* Whatever the application releases, in whatever order it is allowed to, and
\* wherever a constructor throws, no object goes before one that uses it through
\* a plain pointer, the HostContext of a rune that runs its own module included
\* (Wasm3Runtime.hpp:39-41, TfLiteRuntime.hpp:44-50, Wasm3Rune.cpp:235).
THEOREM UsedStaysThere == Spec => []UsedOutlivesUser
<1>1. Init => KeepInv /\ ModelsInv /\ BytesInv
  <2> SUFFICES ASSUME Init PROVE KeepInv /\ ModelsInv /\ BytesInv
    OBVIOUS
  <2>1. \A o \in Alive : o[1] \in {"ILogger", "IDelegate"}
    BY DEF Init, Alive, Logger, DelegateObject
  <2>2. Loads = 0 /\ DOMAIN code = {}
    BY DEF Init, Loads
  <2>3. KeepInv /\ ModelsInv
    BY <2>1 DEF KeepInv, ModelsInv, Rune, Frame, M3Runtime, ModelFrame
  <2> QED BY <2>2, <2>3 DEF BytesInv
<1>2. BaseInv /\ KeepInv /\ ModelsInv /\ BytesInv => UsedOutlivesUser
  BY LibraryUsedIsThere, OwnContext DEF UsedOutlivesUser
<1> QED
  BY <1>1, <1>2, BaseInit, BaseStep, KeepStep, ModelsStep, BytesStep, PTL DEF Spec

-----------------------------------------------------------------------------
(* What can be reached *)

\* A set of objects that holds nothing outside of it.
Closed(S) == \A o \in S : Range(members[o]) \subseteq S

\* The objects and what their members hold.
WithHeld(S) == S \cup UNION {Range(members[o]) : o \in S}

\* The sets that Reached goes through on its way, up to the k-th.
Spreads(f, objects, k) ==
    /\ f = [n \in 0 .. k |-> f[n]]
    /\ \A n \in 0 .. k : f[n] = IF n = 0 THEN objects ELSE WithHeld(f[n - 1])

\* The graph of objects is finite, and has no edges out of it.
GraphOK == IsFiniteSet(Alive) /\ Closed(Alive)

LEMMA SpreadExists ==
    ASSUME NEW objects, NEW k \in Nat
    PROVE  \E f : Spreads(f, objects, k)
<1> DEFINE Bad == {n \in Nat : ~ \E f : Spreads(f, objects, n)}
<1> SUFFICES ASSUME Bad # {} PROVE FALSE
  OBVIOUS
<1>1. PICK n \in Bad : \A m \in Bad : n <= m
  BY SmallestExists
<1>2. CASE n = 0
  <2>1. Spreads([m \in 0 .. 0 |-> objects], objects, 0)
    BY DEF Spreads
  <2> QED BY <1>2, <2>1
<1>3. CASE n # 0
  <2>1. n \in Nat /\ n - 1 \in Nat /\ ~(n <= n - 1)
    BY <1>3
  <2>2. n - 1 \notin Bad
    BY <1>1, <2>1
  <2>3. PICK f : Spreads(f, objects, n - 1)
    BY <2>1, <2>2
  <2> DEFINE g == [m \in 0 .. n |-> IF m = n THEN WithHeld(f[n - 1]) ELSE f[m]]
  <2>4. \A m \in 0 .. n : g[m] = IF m = 0 THEN objects ELSE WithHeld(g[m - 1])
    <3>1. \A m \in 0 .. (n - 1) : f[m] = IF m = 0 THEN objects ELSE WithHeld(f[m - 1])
      BY <2>3 DEF Spreads
    <3>2. \A m \in 0 .. (n - 1) : m \in 0 .. n /\ g[m] = f[m]
      BY <2>1
    <3>3. \A m \in 0 .. (n - 1) : m # 0 => m - 1 \in 0 .. (n - 1)
      BY <2>1
    <3>4. g[n] = WithHeld(g[n - 1])
      BY <2>1, <3>2
    <3> HIDE DEF g
    <3>5. \A m \in 0 .. (n - 1) : g[m] = IF m = 0 THEN objects ELSE WithHeld(g[m - 1])
      BY <3>1, <3>2, <3>3
    <3> QED BY <2>1, <1>3, <3>4, <3>5
  <2>5. g = [m \in 0 .. n |-> g[m]]
    OBVIOUS
  <2> HIDE DEF g
  <2>6. Spreads(g, objects, n)
    BY <2>4, <2>5 DEF Spreads
  <2> QED BY <2>6
<1> QED BY <1>2, <1>3

LEMMA ReachedSpreads ==
    ASSUME IsFiniteSet(Alive), NEW objects
    PROVE  \E f : Spreads(f, objects, Cardinality(Alive)) /\ Reached(objects) = f[Cardinality(Alive)]
<1> DEFINE k == Cardinality(Alive)
           Solves(f) == f = [n \in 0 .. k |->
                               IF n = 0 THEN objects
                               ELSE LET before == f[n - 1]
                                    IN before \cup UNION {Range(members[o]) : o \in before}]
           step == CHOOSE f : Solves(f)
<1>1. k \in Nat
  BY FS_CardinalityType
<1>2. Reached(objects) = step[k]
  BY DEF Reached
<1> HIDE DEF k
<1>3. \A f : Solves(f) <=> Spreads(f, objects, k)
  BY DEF Spreads, WithHeld
<1>4. \E f : Solves(f)
  BY <1>1, <1>3, SpreadExists
<1>5. Solves(step)
  <2> HIDE DEF Solves
  <2> QED BY <1>4
<1>6. Spreads(step, objects, k)
  BY <1>3, <1>5
<1> HIDE DEF step
<1> QED BY <1>2, <1>6 DEF k

\* The sets on the way stay inside every closed set that holds the first one.
LEMMA SpreadStaysInside ==
    ASSUME NEW k \in Nat, NEW f, NEW objects, Spreads(f, objects, k),
           NEW S, objects \subseteq S, Closed(S)
    PROVE  \A n \in 0 .. k : f[n] \subseteq S
<1> DEFINE Bad == {n \in 0 .. k : ~(f[n] \subseteq S)}
<1> SUFFICES ASSUME Bad # {} PROVE FALSE
  OBVIOUS
<1>1. PICK n \in Bad : \A m \in Bad : n <= m
  <2>1. Bad \in SUBSET Nat
    OBVIOUS
  <2> HIDE DEF Bad
  <2> QED BY <2>1, SmallestExists
<1>2. n \in 0 .. k /\ ~(f[n] \subseteq S)
  OBVIOUS
<1>3. f[n] = IF n = 0 THEN objects ELSE WithHeld(f[n - 1])
  BY <1>2 DEF Spreads
<1>4. CASE n # 0
  <2>1. n - 1 \in 0 .. k /\ ~(n <= n - 1)
    BY <1>2, <1>4
  <2>2. f[n - 1] \subseteq S
    BY <1>1, <2>1
  <2>3. WithHeld(f[n - 1]) \subseteq S
    BY <2>2 DEF WithHeld, Closed
  <2> QED BY <1>2, <1>3, <1>4, <2>3
<1> QED BY <1>2, <1>3, <1>4

\* The n-th set on the way is closed or has n objects at least.
LEMMA SpreadGrows ==
    ASSUME GraphOK, NEW k \in Nat, NEW f, NEW objects \in SUBSET Alive, Spreads(f, objects, k)
    PROVE  \A n \in 0 .. k : Closed(f[n]) \/ Cardinality(f[n]) >= n
<1> DEFINE Bad == {n \in 0 .. k : ~(Closed(f[n]) \/ Cardinality(f[n]) >= n)}
<1> SUFFICES ASSUME Bad # {} PROVE FALSE
  OBVIOUS
<1>0. \A n \in 0 .. k : f[n] \subseteq Alive /\ IsFiniteSet(f[n]) /\ Cardinality(f[n]) \in Nat
  <2>1. \A n \in 0 .. k : f[n] \subseteq Alive
    BY SpreadStaysInside DEF GraphOK
  <2> QED BY <2>1, FS_Subset, FS_CardinalityType DEF GraphOK
<1>1. PICK n \in Bad : \A m \in Bad : n <= m
  <2>1. Bad \in SUBSET Nat
    OBVIOUS
  <2> HIDE DEF Bad
  <2> QED BY <2>1, SmallestExists
<1>2. n \in 0 .. k /\ ~Closed(f[n]) /\ ~(Cardinality(f[n]) >= n)
  OBVIOUS
<1>3. n # 0 /\ n - 1 \in 0 .. k /\ ~(n <= n - 1)
  BY <1>0, <1>2
<1>4. f[n] = WithHeld(f[n - 1])
  BY <1>2, <1>3 DEF Spreads
<1>5. Closed(f[n - 1]) \/ Cardinality(f[n - 1]) >= n - 1
  BY <1>1, <1>3
<1>6. ~Closed(f[n - 1])
  <2>1. Closed(f[n - 1]) => f[n] = f[n - 1]
    BY <1>4 DEF Closed, WithHeld
  <2> QED BY <1>2, <2>1
<1>7. f[n - 1] \subseteq f[n] /\ f[n - 1] # f[n]
  BY <1>4, <1>6 DEF Closed, WithHeld
<1>8. Cardinality(f[n - 1]) < Cardinality(f[n])
  <2>1. /\ Cardinality(f[n - 1]) <= Cardinality(f[n])
        /\ Cardinality(f[n]) = Cardinality(f[n - 1]) => f[n] = f[n - 1]
    BY <1>0, <1>2, <1>7, FS_Subset
  <2> QED BY <1>0, <1>2, <1>3, <1>7, <2>1
<1> QED BY <1>0, <1>2, <1>3, <1>5, <1>6, <1>8

\* What is reached is the smallest closed set around the objects.
LEMMA ReachedIsClosure ==
    ASSUME GraphOK, NEW objects \in SUBSET Alive
    PROVE  /\ objects \subseteq Reached(objects)
           /\ Reached(objects) \subseteq Alive
           /\ Closed(Reached(objects))
           /\ \A S : objects \subseteq S /\ Closed(S) => Reached(objects) \subseteq S
<1> DEFINE k == Cardinality(Alive)
<1>1. k \in Nat /\ k \in 0 .. k /\ 0 \in 0 .. k
  BY FS_CardinalityType DEF GraphOK
<1>2. PICK f : Spreads(f, objects, k) /\ Reached(objects) = f[k]
  BY ReachedSpreads DEF GraphOK
<1> HIDE DEF k
<1>3. \A S : objects \subseteq S /\ Closed(S) => f[k] \subseteq S
  BY <1>1, <1>2, SpreadStaysInside
<1>4. f[k] \subseteq Alive
  BY <1>3 DEF GraphOK
<1>5. Closed(f[k])
  <2>1. Closed(f[k]) \/ Cardinality(f[k]) >= k
    BY <1>1, <1>2, SpreadGrows
  <2>2. ASSUME Cardinality(f[k]) >= k PROVE f[k] = Alive
    <3>1. Cardinality(f[k]) <= k /\ (k = Cardinality(f[k]) => f[k] = Alive)
      BY <1>4, FS_Subset DEF GraphOK, k
    <3>2. Cardinality(f[k]) \in Nat
      BY <1>4, FS_Subset, FS_CardinalityType DEF GraphOK
    <3> QED BY <1>1, <2>2, <3>1, <3>2
  <2> QED BY <2>1, <2>2 DEF GraphOK
<1>6. objects \subseteq f[k]
  <2> DEFINE Bad == {n \in 0 .. k : ~(objects \subseteq f[n])}
  <2> SUFFICES ASSUME Bad # {} PROVE FALSE
    BY <1>1
  <2>1. PICK n \in Bad : \A m \in Bad : n <= m
    <3>1. Bad \in SUBSET Nat
      BY <1>1
    <3> HIDE DEF Bad
    <3> QED BY <3>1, SmallestExists
  <2>2. n \in 0 .. k /\ ~(objects \subseteq f[n])
    OBVIOUS
  <2>3. f[n] = IF n = 0 THEN objects ELSE WithHeld(f[n - 1])
    BY <1>2, <2>2 DEF Spreads
  <2>4. CASE n # 0
    <3>1. n - 1 \in 0 .. k /\ ~(n <= n - 1)
      BY <1>1, <2>2, <2>4
    <3>2. objects \subseteq f[n - 1]
      BY <2>1, <3>1
    <3> QED BY <2>2, <2>3, <2>4, <3>2 DEF WithHeld
  <2> QED BY <2>2, <2>3, <2>4
<1> QED BY <1>2, <1>3, <1>4, <1>5, <1>6

-----------------------------------------------------------------------------
(* Only delegates close loops *)

\* The kinds of objects, q, that the members of an object of kind k hold.
IsPart(q, k) ==
    \/ q = "ILogger" /\ k \in {"TfLiteLogger", "TfLiteRuntime", "TfLiteRuntimeModel", "ModelManager",
                              "CapabilitiesDelegatesManager", "Wasm3Rune", "Wasm3Engine", "Wasm3Runtime"}
    \/ q \in {"TfLiteLogger", "ModelBytes", "TfLiteModel", "TfLiteInterpreter"}
          /\ k \in {"TfLiteRuntimeModel", "locals"}
    \/ q = "TfLiteRuntimeModel" /\ k = "ModelManager"
    \/ q = "TfLiteRuntime" /\ k \in {"ModelManager", "locals"}
    \/ q = "ModelManager" /\ k \in {"Wasm3Rune", "Wasm3Engine", "Wasm3Runtime", "locals"}
    \/ q = "IDelegate" /\ k = "CapabilitiesDelegatesManager"
    \/ q = "CapabilitiesDelegatesManager" /\ k = "Wasm3Rune"
    \/ q = "M3Environment" /\ k \in {"Wasm3Engine", "Wasm3Runtime"}
    \/ q = "M3Runtime" /\ k \in {"Wasm3Runtime", "Wasm3Rune", "locals"}
    \/ q \in {"WasmBytes", "SharedM3Module"} /\ k \in {"Wasm3Rune", "locals"}

\* How far down an object of a kind is.
Depth(k) ==
    CASE k \in {"Wasm3Rune", "Wasm3Engine", "Wasm3Runtime", "locals"}  -> 0
      [] k \in {"CapabilitiesDelegatesManager", "ModelManager"}        -> 1
      [] k \in {"TfLiteRuntime", "TfLiteRuntimeModel"}                 -> 2
      [] k = "TfLiteLogger"                                            -> 3
      [] OTHER                                                         -> 4

PartsInv ==
    /\ \A o \in Alive : o[1] = "IDelegate" => o[2] \in Delegate
    /\ \A o \in Alive : o[1] = "ILogger" => o = Logger
    /\ \A o \in Alive : o[1] # "IDelegate" => \A p \in Range(members[o]) : IsPart(p[1], o[1])
    /\ loading # None /\ Rune(loading.load) \notin Alive => Manager(loading.load) \notin Alive

LEMMA PartsAreBelow ==
    /\ \A k : Depth(k) \in Nat
    /\ \A q, k : IsPart(q, k) /\ q # "IDelegate" => Depth(k) < Depth(q)
<1>1. \A k : Depth(k) \in Nat
  BY DEF Depth
<1>2. ASSUME NEW q, NEW k, IsPart(q, k), q # "IDelegate" PROVE Depth(k) < Depth(q)
  BY <1>2 DEF IsPart, Depth
<1> QED BY <1>1, <1>2

\* If every object is held, all are reached from the handles and from the
\* delegates that reach themselves.  The objects that are not would all be reached
\* from delegates among them, and each such delegate from another one, which
\* reaches more than it does: there are too few objects for that.
LEMMA LoopsKeepTheRest ==
    ASSUME GraphOK, PartsInv, handles \subseteq Alive,
           \A o \in Alive : o = <<o[1], o[2]>> /\ Held(o)
    PROVE  Alive \subseteq Reached(handles \cup Looping)
<1> DEFINE roots == handles \cup Looping
           Lost  == Alive \ Reached(roots)
           Below(d) == Reached(Range(members[d]))
           Givers == {d \in Lost : d[1] = "IDelegate"}
<1>1. /\ roots \subseteq Reached(roots) /\ Reached(roots) \subseteq Alive /\ Closed(Reached(roots))
  <2>1. roots \in SUBSET Alive
    BY DEF Looping
  <2> HIDE DEF roots
  <2> QED BY <2>1, ReachedIsClosure
<1>2. ASSUME NEW d \in Alive
      PROVE  /\ Range(members[d]) \subseteq Below(d) /\ Below(d) \subseteq Alive /\ Closed(Below(d))
             /\ \A S : Range(members[d]) \subseteq S /\ Closed(S) => Below(d) \subseteq S
  <2>1. Range(members[d]) \in SUBSET Alive
    BY DEF GraphOK, Closed
  <2> QED BY <2>1, ReachedIsClosure
<1>3. ASSUME NEW o \in Lost PROVE \E p \in Lost : o \in Range(members[p])
  <2>1. o \notin handles /\ o \in Alive
    BY <1>1
  <2>2. PICK p \in Alive : o \in Range(members[p])
    BY <2>1 DEF Held, Holds, Alive
  <2> QED BY <1>1, <2>2 DEF Closed
<1>4. ASSUME NEW d \in Givers PROVE d \in Alive /\ d \notin Below(d)
  <2>1. d \in Alive /\ d \notin Looping /\ d[1] = "IDelegate"
    BY <1>1
  <2>2. d[2] \in Delegate /\ d = DelegateObject(d[2])
    BY <2>1 DEF PartsInv, DelegateObject
  <2>3. d \in {DelegateObject(e) : e \in Delegate} \cap Alive
    BY <2>1, <2>2
  <2> QED BY <2>1, <2>3 DEF Looping
<1> HIDE DEF roots, Below
<1>5. \A o \in Lost : o \in Givers \/ \E d \in Givers : o \in Below(d)
  <2> DEFINE Bad == {o \in Lost : ~(o \in Givers \/ \E d \in Givers : o \in Below(d))}
             Depths == {Depth(o[1]) : o \in Bad}
  <2> SUFFICES ASSUME Bad # {} PROVE FALSE
    OBVIOUS
  <2>1. PICK least \in Depths : \A other \in Depths : least <= other
    <3>1. Depths \in SUBSET Nat /\ Depths # {}
      BY PartsAreBelow
    <3> HIDE DEF Depths
    <3> QED BY <3>1, SmallestExists
  <2>2. PICK o \in Bad : least = Depth(o[1])
    OBVIOUS
  <2>3. PICK p \in Lost : o \in Range(members[p])
    BY <1>3
  <2>4. p \notin Givers
    BY <1>2, <1>4, <2>3
  <2>5. ASSUME NEW d \in Givers, p \in Below(d) PROVE FALSE
    <3>1. o \in Below(d)
      BY <1>2, <1>4, <2>3, <2>5 DEF Closed
    <3> QED BY <3>1
  <2>6. p \in Bad
    BY <2>4, <2>5
  <2>7. Depth(p[1]) < Depth(o[1])
    <3>1. o[1] # "IDelegate" /\ p[1] # "IDelegate" /\ p \in Alive
      BY <2>4
    <3> QED BY <2>3, <3>1, PartsAreBelow DEF PartsInv
  <2>8. Depth(o[1]) <= Depth(p[1])
    BY <2>1, <2>2, <2>6
  <2> QED BY <2>7, <2>8, PartsAreBelow
<1>6. ASSUME NEW d \in Givers
      PROVE  \E e \in Givers : Below(d) \subseteq Below(e) /\ Below(d) # Below(e)
  <2>1. PICK p \in Lost : d \in Range(members[p])
    BY <1>3
  <2>2. \E e \in Givers : d \in Below(e)
    <3>1. CASE p \in Givers
      BY <1>2, <1>4, <2>1, <3>1
    <3>2. CASE p \notin Givers
      <4>1. PICK e \in Givers : p \in Below(e)
        BY <1>5, <3>2
      <4> QED BY <1>2, <1>4, <2>1, <4>1 DEF Closed
    <3> QED BY <3>1, <3>2
  <2>3. PICK e \in Givers : d \in Below(e)
    BY <2>2
  <2>4. Below(d) \subseteq Below(e)
    BY <1>2, <1>4, <2>3 DEF Closed
  <2> QED BY <1>4, <2>3, <2>4
<1>7. ASSUME NEW d \in Givers
      PROVE  /\ Cardinality(Below(d)) \in 0 .. Cardinality(Alive)
             /\ IsFiniteSet(Below(d)) /\ Cardinality(Alive) \in Nat
  <2>1. IsFiniteSet(Below(d)) /\ Cardinality(Below(d)) <= Cardinality(Alive)
    BY <1>2, <1>4, FS_Subset DEF GraphOK
  <2> QED BY <2>1, FS_CardinalityType DEF GraphOK
<1>8. Givers = {}
  <2> DEFINE Room == {Cardinality(Alive) - Cardinality(Below(d)) : d \in Givers}
  <2> SUFFICES ASSUME Givers # {} PROVE FALSE
    OBVIOUS
  <2>1. PICK least \in Room : \A other \in Room : least <= other
    <3>1. Room \in SUBSET Nat /\ Room # {}
      BY <1>7
    <3> HIDE DEF Room
    <3> QED BY <3>1, SmallestExists
  <2>2. PICK d \in Givers : least = Cardinality(Alive) - Cardinality(Below(d))
    OBVIOUS
  <2>3. PICK e \in Givers : Below(d) \subseteq Below(e) /\ Below(d) # Below(e)
    BY <1>6
  <2>4. Cardinality(Below(d)) <= Cardinality(Below(e))
        /\ Cardinality(Below(d)) # Cardinality(Below(e))
    BY <1>7, <2>3, FS_Subset
  <2>5. least <= Cardinality(Alive) - Cardinality(Below(e))
    BY <2>1
  <2>6. /\ Cardinality(Below(d)) \in Nat /\ Cardinality(Below(e)) \in Nat
        /\ Cardinality(Alive) \in Nat
    BY <1>7
  <2> HIDE DEF Room, Givers
  <2> QED BY <2>2, <2>4, <2>5, <2>6
<1>9. Lost = {}
  BY <1>5, <1>8
<1> QED BY <1>9 DEF roots

-----------------------------------------------------------------------------
(* Nothing is forgotten *)

\* A local of the load in progress, or the rune that its constructor makes.
IsLocal(o) == loading # None /\ o \in {Frame, Rune(loading.load)}

\* Every object has somebody who will destroy it.
NothingForgotten == \A o \in Alive : Held(o) \/ o \in Dying \/ IsLocal(o)

LeakInv == IsFiniteSet(Alive) /\ PartsInv /\ NothingForgotten

LEMMA FewAreFinite == \A a, b, c, d, e, g : IsFiniteSet({a, b, c, d, e, g})
<1> SUFFICES ASSUME NEW a, NEW b, NEW c, NEW d, NEW e, NEW g
             PROVE  IsFiniteSet({a, b, c, d, e, g})
  OBVIOUS
<1>1. IsFiniteSet({} \cup {a})
  BY FS_EmptySet, FS_AddElement
<1>2. IsFiniteSet(({} \cup {a}) \cup {b})
  BY <1>1, FS_AddElement
<1>3. IsFiniteSet((({} \cup {a}) \cup {b}) \cup {c})
  BY <1>2, FS_AddElement
<1>4. IsFiniteSet(((({} \cup {a}) \cup {b}) \cup {c}) \cup {d})
  BY <1>3, FS_AddElement
<1>5. IsFiniteSet((((({} \cup {a}) \cup {b}) \cup {c}) \cup {d}) \cup {e})
  BY <1>4, FS_AddElement
<1>6. IsFiniteSet(((((({} \cup {a}) \cup {b}) \cup {c}) \cup {d}) \cup {e}) \cup {g})
  BY <1>5, FS_AddElement
<1>7. {a, b, c, d, e, g} = ((((({} \cup {a}) \cup {b}) \cup {c}) \cup {d}) \cup {e}) \cup {g}
  OBVIOUS
<1> QED BY <1>6, <1>7

\* The objects that hold nothing, and those that hold the logger at most.
LEMMA SmallParts ==
    ASSUME BaseInv, PartsInv, NEW o \in Alive
    PROVE  /\ o[1] \in {"M3Environment", "WasmBytes", "SharedM3Module", "M3Runtime",
                        "ModelBytes", "TfLiteModel", "TfLiteInterpreter"}
                => Range(members[o]) = {}
           /\ o[1] \in {"TfLiteLogger", "TfLiteRuntime"} => Range(members[o]) \subseteq {Logger}
<1>1. Range(members[o]) \subseteq Alive
  BY ListedMembers DEF BaseInv, CountInv, HoldInv
<1>2. ASSUME NEW p \in Range(members[o]),
             o[1] \in {"M3Environment", "WasmBytes", "SharedM3Module", "M3Runtime",
                      "ModelBytes", "TfLiteModel", "TfLiteInterpreter"}
      PROVE  FALSE
  <2>1. IsPart(p[1], o[1])
    BY <1>2 DEF PartsInv
  <2> QED BY <1>2, <2>1 DEF IsPart
<1>3. ASSUME NEW p \in Range(members[o]), o[1] \in {"TfLiteLogger", "TfLiteRuntime"}
      PROVE  p = Logger
  <2>1. IsPart(p[1], o[1])
    BY <1>3 DEF PartsInv
  <2>2. p[1] = "ILogger"
    BY <1>3, <2>1 DEF IsPart
  <2> QED BY <1>1, <1>3, <2>2 DEF PartsInv
<1> QED BY <1>2, <1>3

\* Objects are made, and what those that are made anew held is held still.
LEMMA LeakMakes ==
    ASSUME LeakInv, dying = <<>>, NEW made, IsFiniteSet(made), Alive' = Alive \cup made,
           \A o \in Alive \ made : members'[o] = members[o],
           handles \subseteq handles',
           \A o \in Alive : IsLocal(o) => IsLocal(o)' \/ o \in Dying' \/ Held(o)',
           \A o \in Alive \cap made : \A p \in Range(members[o]) : Held(p)',
           \A o \in made : Held(o)' \/ o \in Dying' \/ IsLocal(o)',
           \A o \in made : o[1] = "IDelegate" => o \in Alive,
           \A o \in made : o[1] # "ILogger",
           \A o \in made : o[1] # "IDelegate" => \A p \in Range(members'[o]) : IsPart(p[1], o[1]),
           loading' # None /\ Rune(loading'.load) \notin Alive' => Manager(loading'.load) \notin Alive'
    PROVE  LeakInv'
<1>1. IsFiniteSet(Alive')
  BY FS_Union DEF LeakInv
<1>2. PartsInv'
  <2>1. \A o \in Alive' : o[1] = "IDelegate" => o[2] \in Delegate
    BY DEF LeakInv, PartsInv
  <2>2. \A o \in Alive' : o[1] = "ILogger" => o = Logger
    BY DEF LeakInv, PartsInv
  <2>3. \A o \in Alive' : o[1] # "IDelegate" => \A p \in Range(members'[o]) : IsPart(p[1], o[1])
    BY DEF LeakInv, PartsInv
  <2>4. loading' # None /\ Rune(loading.load)' \notin Alive' => Manager(loading.load)' \notin Alive'
    BY DEF Rune, Manager
  <2> QED BY <2>1, <2>2, <2>3, <2>4 DEF PartsInv, Rune, Manager, Logger
<1>3. ASSUME NEW o \in Alive \ made PROVE Held(o)' \/ o \in Dying' \/ IsLocal(o)'
  <2>1. Held(o) \/ IsLocal(o)
    BY <1>3, NothingDying DEF LeakInv, NothingForgotten
  <2>2. ASSUME o \in handles PROVE Held(o)'
    BY <2>2 DEF Held, Holds
  <2>3. ASSUME NEW p \in Alive, o \in Range(members[p]) PROVE Held(o)'
    <3>1. CASE p \in made
      BY <2>3, <3>1
    <3>2. CASE p \notin made
      BY <2>3, <3>2 DEF Held, Holds, Alive
    <3> QED BY <3>1, <3>2
  <2> QED BY <2>1, <2>2, <2>3 DEF Held, Holds, Alive
<1>4. NothingForgotten'
  BY <1>3 DEF NothingForgotten
<1> QED BY <1>1, <1>2, <1>4 DEF LeakInv

LEMMA CreateEngineLeaks == BaseInv /\ LeakInv /\ CreateEngine => LeakInv'
<1> SUFFICES ASSUME BaseInv, LeakInv, CreateEngine PROVE LeakInv'
  OBVIOUS
<1> DEFINE made == {TfRuntime, Models, Environment, Engine}
<1>1. /\ Alive' = Alive \cup made
      /\ members'[TfRuntime] = <<Logger>>
      /\ members'[Models] = <<Logger, TfRuntime>>
      /\ members'[Environment] = <<>>
      /\ members'[Engine] = <<Logger, Environment, Models>>
      /\ \A o \in Alive \ made : members'[o] = members[o]
  BY EngineMade
<1>2. /\ dying = <<>> /\ loading = None /\ UNCHANGED loading
      /\ {Environment, Models} \cap Alive = {}
      /\ handles' = handles \cup {Engine}
  BY DEF CreateEngine, Idle
<1>3. Engine \notin Alive
  <2>1. Engine \in Alive => <<Logger, Environment, Models>> \in Seq(Alive)
    BY <1>2, NothingDying DEF BaseInv, ShapeInv, CountInv, HoldInv
  <2>2. ASSUME NEW a, NEW b, NEW c, NEW S, <<a, b, c>> \in Seq(S) PROVE {a, b, c} \subseteq S
    BY <2>2
  <2>3. Engine \in Alive => Models \in Alive
    BY <2>1, <2>2
  <2> QED BY <1>2, <2>3
<1>4. /\ Range(members'[TfRuntime]) = {Logger}
      /\ Range(members'[Models]) = {Logger, TfRuntime}
      /\ Range(members'[Environment]) = {}
      /\ Range(members'[Engine]) = {Logger, Environment, Models}
  BY <1>1, Members
<1>5. Held(Logger)' /\ \A o \in made : Held(o)'
  BY <1>1, <1>2, <1>4 DEF Held, Holds, Alive
<1>6. \A o \in Alive \cap made : \A p \in Range(members[o]) : Held(p)'
  <2>1. TfRuntime \in Alive => Range(members[TfRuntime]) \subseteq {Logger}
    BY SmallParts DEF LeakInv, TfRuntime
  <2> QED BY <1>2, <1>3, <1>5, <2>1
<1>7. \A o \in made : \A p \in Range(members'[o]) : IsPart(p[1], o[1])
  BY <1>4 DEF IsPart, TfRuntime, Models, Environment, Engine, Logger
<1>8. \A o \in made : o[1] \notin {"ILogger", "IDelegate"}
  BY DEF TfRuntime, Models, Environment, Engine
<1>9. IsFiniteSet(made)
  <2>1. made = {TfRuntime, Models, Environment, Engine, Engine, Engine}
    OBVIOUS
  <2> QED BY <2>1, FewAreFinite
<1>10. \A o \in Alive : ~IsLocal(o)
  BY <1>2 DEF IsLocal
<1> HIDE DEF made
<1> QED BY <1>1, <1>2, <1>5, <1>6, <1>7, <1>8, <1>9, <1>10, LeakMakes

LEMMA CreateEngineThrowsLeaks == BaseInv /\ LeakInv /\ CreateEngineThrows => LeakInv'
<1> SUFFICES ASSUME BaseInv, LeakInv, CreateEngineThrows PROVE LeakInv'
  OBVIOUS
<1> DEFINE made == {TfRuntime, Models, Frame}
<1>1. /\ Alive' = Alive \cup made
      /\ members'[TfRuntime] = <<Logger>>
      /\ members'[Models] = <<Logger, TfRuntime>>
      /\ members'[Frame] = <<TfRuntime, Models>>
      /\ \A o \in Alive \ made : members'[o] = members[o]
  BY EngineHalfMade
<1>2. /\ dying = <<>> /\ loading = None /\ UNCHANGED <<loading, handles>>
      /\ Models \notin Alive /\ dying' = <<Frame>>
  BY DEF CreateEngineThrows, Idle
<1>3. Frame \notin Alive /\ Dying' = {Frame}
  BY <1>2, NothingDying DEF BaseInv, LoadInv, Dying
<1>4. /\ Range(members'[TfRuntime]) = {Logger}
      /\ Range(members'[Models]) = {Logger, TfRuntime}
      /\ Range(members'[Frame]) = {TfRuntime, Models}
  BY <1>1, Members
<1>5. Held(Logger)' /\ \A o \in made : Held(o)' \/ o \in Dying'
  BY <1>1, <1>3, <1>4 DEF Held, Holds, Alive
<1>6. \A o \in Alive \cap made : \A p \in Range(members[o]) : Held(p)'
  <2>1. TfRuntime \in Alive => Range(members[TfRuntime]) \subseteq {Logger}
    BY SmallParts DEF LeakInv, TfRuntime
  <2> QED BY <1>2, <1>3, <1>5, <2>1
<1>7. \A o \in made : \A p \in Range(members'[o]) : IsPart(p[1], o[1])
  BY <1>4 DEF IsPart, TfRuntime, Models, Frame, Logger
<1>8. \A o \in made : o[1] \notin {"ILogger", "IDelegate"}
  BY DEF TfRuntime, Models, Frame
<1>9. IsFiniteSet(made)
  <2>1. made = {TfRuntime, Models, Frame, Frame, Frame, Frame}
    OBVIOUS
  <2> QED BY <2>1, FewAreFinite
<1>10. \A o \in Alive : ~IsLocal(o)
  BY <1>2 DEF IsLocal
<1> HIDE DEF made
<1> QED BY <1>1, <1>2, <1>5, <1>6, <1>7, <1>8, <1>9, <1>10, LeakMakes

LEMMA CreateRuntimeLeaks ==
    \A k \in 1 .. MaxRuntimes : BaseInv /\ LeakInv /\ CreateRuntime(k) => LeakInv'
<1> SUFFICES ASSUME NEW k \in 1 .. MaxRuntimes, BaseInv, LeakInv, CreateRuntime(k) PROVE LeakInv'
  OBVIOUS
<1> DEFINE made == {M3Runtime(k), Runtime(k)}
<1>1. /\ Alive' = Alive \cup made
      /\ members'[M3Runtime(k)] = <<>>
      /\ members'[Runtime(k)] = RuntimeMembers(k)
      /\ \A o \in Alive \ made : members'[o] = members[o]
  BY RuntimeMade
<1>2. /\ dying = <<>> /\ loading = None /\ UNCHANGED loading
      /\ made \cap Alive = {} /\ handles' = handles \cup {Runtime(k)}
  BY DEF CreateRuntime, Idle
<1>3. /\ Range(members'[M3Runtime(k)]) = {}
      /\ Range(members'[Runtime(k)]) = {Logger, Environment, M3Runtime(k), Models}
  BY <1>1 DEF Range, RuntimeMembers
<1>4. \A o \in made : Held(o)'
  BY <1>1, <1>2, <1>3 DEF Held, Holds, Alive
<1>5. \A o \in made : \A p \in Range(members'[o]) : IsPart(p[1], o[1])
  BY <1>3 DEF IsPart, Logger, Environment, M3Runtime, Models, Runtime
<1>6. \A o \in made : o[1] \notin {"ILogger", "IDelegate"}
  BY DEF M3Runtime, Runtime
<1>7. IsFiniteSet(made)
  <2>1. made = {M3Runtime(k), Runtime(k), Runtime(k), Runtime(k), Runtime(k), Runtime(k)}
    OBVIOUS
  <2> QED BY <2>1, FewAreFinite
<1>8. \A o \in Alive : ~IsLocal(o)
  BY <1>2 DEF IsLocal
<1> HIDE DEF made
<1> QED BY <1>1, <1>2, <1>4, <1>5, <1>6, <1>7, <1>8, LeakMakes

LEMMA BeginLoadLeaks ==
    \A k \in 1 .. MaxRuntimes : \A fromFile \in BOOLEAN :
        BaseInv /\ LeakInv /\ BeginLoad(k, fromFile) => LeakInv'
<1> SUFFICES ASSUME NEW k \in 1 .. MaxRuntimes, NEW fromFile \in BOOLEAN,
                    BaseInv, LeakInv, BeginLoad(k, fromFile)
             PROVE  LeakInv'
  OBVIOUS
<1>0. PICK l \in Load : l = Loads + 1
  BY DEF BeginLoad
<1> DEFINE mapping == IF fromFile THEN <<Memory(l)>> ELSE <<>>
           rest    == <<M3Runtime(k), Module(l)>>
           made    == {Memory(l), Module(l), Frame}
<1>1. /\ Alive' = Alive \cup made
      /\ members'[Memory(l)] = <<>>
      /\ members'[Module(l)] = <<>>
      /\ members'[Frame] = mapping \o rest
      /\ \A o \in Alive \ made : members'[o] = members[o]
  BY <1>0, LoadBegun
<1>2. /\ dying = <<>> /\ loading = None
      /\ handles' = IF fromFile THEN handles ELSE handles \cup {Memory(l)}
      /\ loading' = [load |-> l, runtime |-> k]
      /\ Loads \in Nat /\ l \notin 1 .. Loads
  BY <1>0 DEF BeginLoad, Idle, BaseInv, DataInv, Loads
<1>3. Frame \notin Alive /\ Manager(l) \notin Alive
  BY <1>2, NothingDying DEF BaseInv, LoadInv, Manager
<1>4. /\ Range(members'[Memory(l)]) = {} /\ Range(members'[Module(l)]) = {}
      /\ Range(members'[Frame]) = Range(mapping) \cup {M3Runtime(k), Module(l)}
      /\ Range(mapping) = IF fromFile THEN {Memory(l)} ELSE {}
  <2>1. ASSUME NEW S, Memory(l) \in S, M3Runtime(k) \in S, Module(l) \in S
        PROVE  mapping \in Seq(S) /\ rest \in Seq(S)
    BY <2>1
  <2>2. Range(rest) = {M3Runtime(k), Module(l)} /\ Range(mapping) = IF fromFile THEN {Memory(l)} ELSE {}
    BY Members
  <2> HIDE DEF mapping, rest
  <2>3. Range(mapping \o rest) = Range(mapping) \cup Range(rest)
    <3>1. /\ mapping \in Seq({Memory(l), M3Runtime(k), Module(l)})
          /\ rest \in Seq({Memory(l), M3Runtime(k), Module(l)})
      BY <2>1
    <3> QED BY <3>1, RangeOfConcat
  <2> QED BY <1>1, <2>2, <2>3, Members
<1> HIDE DEF mapping, rest
<1>5. \A o \in made : Held(o)' \/ IsLocal(o)'
  <2>1. IsLocal(Frame)'
    BY <1>0, <1>2, LifetimesAssumption DEF IsLocal, Frame, None, Load
  <2>2. Held(Module(l))'
    BY <1>1, <1>4 DEF Held, Holds, Alive
  <2>3. Held(Memory(l))'
    BY <1>1, <1>2, <1>4 DEF Held, Holds, Alive
  <2> QED BY <2>1, <2>2, <2>3
<1>6. \A o \in Alive \cap made : Range(members[o]) = {}
  BY <1>3, SmallParts DEF LeakInv, Memory, Module
<1>7. \A o \in made : \A p \in Range(members'[o]) : IsPart(p[1], o[1])
  BY <1>4 DEF IsPart, Memory, Module, M3Runtime, Frame
<1>8. \A o \in made : o[1] \notin {"ILogger", "IDelegate"}
  BY DEF Memory, Module, Frame
<1>9. IsFiniteSet(made)
  <2>1. made = {Memory(l), Module(l), Frame, Frame, Frame, Frame}
    OBVIOUS
  <2> QED BY <2>1, FewAreFinite
<1>10. \A o \in Alive : ~IsLocal(o)
  BY <1>2 DEF IsLocal
<1>11. Manager(loading'.load) \notin Alive'
  BY <1>1, <1>2, <1>3 DEF Manager, Memory, Module, Frame
<1>12. handles \subseteq handles'
  BY <1>2
<1> HIDE DEF made
<1> QED BY <1>1, <1>2, <1>5, <1>6, <1>7, <1>8, <1>9, <1>10, <1>11, <1>12, LeakMakes

LEMMA RuneMadeLeaks ==
    ASSUME NEW l \in 1 .. Loads, NEW k \in 1 .. MaxRuntimes, NEW d,
           BaseInv, LeakInv, RuneIsMade(l, k, d)
    PROVE  LeakInv'
<1> DEFINE made == {Rune(l), Manager(l), Frame}
<1>1. /\ Alive' = Alive \cup made
      /\ members'[Rune(l)] = RuneMembers(l, k)
      /\ members'[Manager(l)] = <<Logger, DelegateObject(d)>>
      /\ members'[Frame] = Mapping(l)
      /\ \A o \in Alive \ made : members'[o] = members[o]
  BY RuneMade DEF RuneIsMade
<1>2. /\ dying = <<>> /\ loading # None /\ loading.load = l /\ loading.runtime = k
      /\ Rune(l) \notin Alive
      /\ \/ dying' = <<Frame, Rune(l)>> /\ loading' = None
         \/ dying' = <<>> /\ UNCHANGED loading
      /\ UNCHANGED handles
  BY DEF RuneIsMade, ModuleIsLoaded
<1>3. /\ members[Frame] = Mapping(l) \o <<M3Runtime(k), Module(l)>>
      /\ Range(members[Frame]) = Range(Mapping(l)) \cup {M3Runtime(k), Module(l)}
      /\ Range(Mapping(l)) \subseteq {Memory(l)}
      /\ Manager(l) \notin Alive
  BY <1>2, FrameHolds DEF BaseInv, LoadInv, LeakInv, PartsInv
<1>4. /\ Range(members'[Rune(l)]) = {Logger, Module(l), M3Runtime(k), Manager(l), Models}
      /\ Range(members'[Manager(l)]) = {Logger, DelegateObject(d)}
  BY <1>1 DEF Range, RuneMembers
<1>5. \A o \in {Frame, Rune(l)} : IsLocal(o)' \/ o \in Dying'
  <2>1. CASE dying' = <<Frame, Rune(l)>>
    BY <2>1 DEF Dying
  <2>2. CASE UNCHANGED loading
    BY <1>2, <2>2 DEF IsLocal, Rune, Frame
  <2> QED BY <1>2, <2>1, <2>2
<1>6. \A o \in made : Held(o)' \/ o \in Dying' \/ IsLocal(o)'
  <2>1. Held(Manager(l))'
    BY <1>1, <1>4 DEF Held, Holds, Alive
  <2> QED BY <1>5, <2>1
<1>7. \A o \in Alive \cap made : \A p \in Range(members[o]) : Held(p)'
  <2>1. \A p \in Range(members[Frame]) : Held(p)'
    BY <1>1, <1>3, <1>4 DEF Held, Holds, Alive
  <2> QED BY <1>2, <1>3, <2>1
<1>8. \A o \in made : \A p \in Range(members'[o]) : IsPart(p[1], o[1])
  <2>1. \A p \in Range(members'[Rune(l)]) : IsPart(p[1], Rune(l)[1])
    BY <1>4 DEF IsPart, Module, M3Runtime, Manager, Models, Rune, Logger
  <2>2. \A p \in Range(members'[Manager(l)]) : IsPart(p[1], Manager(l)[1])
    BY <1>4 DEF IsPart, Manager, Logger, DelegateObject
  <2>3. \A p \in Range(members'[Frame]) : IsPart(p[1], Frame[1])
    <3>1. \A p \in Range(members'[Frame]) : p = Memory(l)
      BY <1>1, <1>3
    <3> QED BY <3>1 DEF IsPart, Memory, Frame
  <2> QED BY <2>1, <2>2, <2>3
<1>9. \A o \in made : o[1] \notin {"ILogger", "IDelegate"}
  BY DEF Rune, Manager, Frame
<1>10. IsFiniteSet(made)
  <2>1. made = {Rune(l), Manager(l), Frame, Frame, Frame, Frame}
    OBVIOUS
  <2> QED BY <2>1, FewAreFinite
<1>11. \A o \in Alive : IsLocal(o) => IsLocal(o)' \/ o \in Dying'
  BY <1>2, <1>5 DEF IsLocal
<1>12. loading' # None => Rune(loading'.load) \in Alive'
  BY <1>1, <1>2
<1> HIDE DEF made
<1> QED BY <1>1, <1>2, <1>6, <1>7, <1>8, <1>9, <1>10, <1>11, <1>12, LeakMakes

LEMMA LoadModelLeaks == \A l \in Load : BaseInv /\ LeakInv /\ LoadModel(l) => LeakInv'
<1> SUFFICES ASSUME NEW l \in Load, BaseInv, LeakInv, LoadModel(l) PROVE LeakInv'
  OBVIOUS
<1> DEFINE parts == {TfLogger(l), ModelData(l), TfModel(l), Interpreter(l)}
           made  == parts \cup {Model(l), Models}
<1>1. /\ Alive' = Alive \cup made
      /\ members'[TfLogger(l)] = <<Logger>>
      /\ members'[ModelData(l)] = <<>>
      /\ members'[TfModel(l)] = <<>>
      /\ members'[Interpreter(l)] = <<>>
      /\ members'[Model(l)] = ModelMembers(l)
      /\ members'[Models] = Append(members[Models], Model(l))
      /\ \A o \in Alive \ made : members'[o] = members[o]
  BY ModelMade
<1>2. /\ dying = <<>> /\ Model(l) \notin Alive /\ Models \in Alive
      /\ UNCHANGED <<handles, dying, loading>>
  BY RunsHolds DEF LoadModel, Runs, AppRuns
<1>3. /\ Range(members'[TfLogger(l)]) = {Logger}
      /\ \A o \in {ModelData(l), TfModel(l), Interpreter(l)} : Range(members'[o]) = {}
      /\ Range(members'[Model(l)]) = {Logger} \cup parts
  BY <1>1 DEF Range, ModelMembers
<1>4. Range(members'[Models]) = Range(members[Models]) \cup {Model(l)}
  <2>1. members[Models] \in Seq(Alive') /\ Model(l) \in Alive'
    BY <1>1, <1>2, SeqMonotonic DEF BaseInv, CountInv, HoldInv
  <2> QED BY <1>1, <2>1, OneMore
<1>5. Held(Models)'
  <2>1. Held(Models) \/ IsLocal(Models)
    BY <1>2, NothingDying DEF LeakInv, NothingForgotten
  <2>2. ~IsLocal(Models)
    BY DEF IsLocal, Models, Frame, Rune
  <2>3. CASE Models \in handles
    BY <1>2, <2>3 DEF Held, Holds
  <2>4. CASE Models \notin handles
    <3>1. PICK p \in Alive : Models \in Range(members[p])
      BY <2>1, <2>2, <2>4 DEF Held, Holds, Alive
    <3>2. IsPart(Models[1], p[1]) \/ p[1] = "IDelegate"
      BY <3>1 DEF LeakInv, PartsInv
    <3>3. p \notin made
      BY <3>2 DEF IsPart, Models, TfLogger, ModelData, TfModel, Interpreter, Model
    <3> QED BY <1>1, <3>1, <3>3 DEF Held, Holds, Alive
  <2> QED BY <2>3, <2>4
<1>6. Held(Logger)' /\ \A o \in made : Held(o)'
  BY <1>1, <1>3, <1>4, <1>5 DEF Held, Holds, Alive
<1>7. \A o \in Alive \cap made : \A p \in Range(members[o]) : Held(p)'
  <2>1. ASSUME NEW o \in Alive \cap parts PROVE Range(members[o]) \subseteq {Logger}
    BY SmallParts DEF LeakInv, TfLogger, ModelData, TfModel, Interpreter
  <2>2. \A p \in Range(members[Models]) : Held(p)'
    BY <1>1, <1>4 DEF Held, Holds, Alive
  <2> QED BY <1>2, <1>6, <2>1, <2>2
<1>8. \A o \in made : \A p \in Range(members'[o]) : IsPart(p[1], o[1])
  <2>1. \A o \in made \ {Models} : \A p \in Range(members'[o]) : IsPart(p[1], o[1])
    BY <1>3 DEF IsPart, TfLogger, ModelData, TfModel, Interpreter, Model, Models, Logger
  <2>2. \A p \in Range(members[Models]) : IsPart(p[1], Models[1])
    BY <1>2 DEF LeakInv, PartsInv, Models
  <2>3. IsPart(Model(l)[1], Models[1])
    BY DEF IsPart, Model, Models
  <2> QED BY <1>4, <2>1, <2>2, <2>3
<1>9. \A o \in made : o[1] \notin {"ILogger", "IDelegate"}
  BY DEF TfLogger, ModelData, TfModel, Interpreter, Model, Models
<1>10. IsFiniteSet(made)
  <2>1. made = {TfLogger(l), ModelData(l), TfModel(l), Interpreter(l), Model(l), Models}
    OBVIOUS
  <2> HIDE DEF made
  <2> QED BY <2>1, FewAreFinite
<1>11. \A o \in Alive : IsLocal(o) => IsLocal(o)'
  BY <1>2 DEF IsLocal, Frame, Rune
<1>12. loading' # None /\ Rune(loading'.load) \notin Alive' => Manager(loading'.load) \notin Alive'
  <2>1. \A o \in made : o[1] \notin {"Wasm3Rune", "CapabilitiesDelegatesManager"}
    BY DEF TfLogger, ModelData, TfModel, Interpreter, Model, Models
  <2> HIDE DEF made
  <2> QED BY <1>1, <1>2, <2>1 DEF LeakInv, PartsInv, Rune, Manager
<1> HIDE DEF made
<1> QED BY <1>1, <1>2, <1>6, <1>7, <1>8, <1>9, <1>10, <1>11, <1>12, LeakMakes

LEMMA LoadModelFailsLeaks == \A l \in Load : BaseInv /\ LeakInv /\ LoadModelFails(l) => LeakInv'
<1> SUFFICES ASSUME NEW l \in Load, BaseInv, LeakInv, LoadModelFails(l) PROVE LeakInv'
  OBVIOUS
<1> DEFINE parts == {TfLogger(l), ModelData(l), TfModel(l), Interpreter(l)}
           made  == parts \cup {ModelFrame}
<1>1. /\ Alive' = Alive \cup made
      /\ members'[TfLogger(l)] = <<Logger>>
      /\ members'[ModelData(l)] = <<>>
      /\ members'[TfModel(l)] = <<>>
      /\ members'[Interpreter(l)] = <<>>
      /\ members'[ModelFrame] = <<ModelData(l), TfModel(l), TfLogger(l), Interpreter(l)>>
      /\ \A o \in Alive \ made : members'[o] = members[o]
  BY ModelHalfMade
<1>2. /\ dying = <<>> /\ dying' = <<ModelFrame>> /\ UNCHANGED <<handles, loading>>
  BY DEF LoadModelFails, Runs, AppRuns
<1>3. ModelFrame \notin Alive /\ Dying' = {ModelFrame}
  BY <1>2, NothingDying DEF BaseInv, LoadInv, Dying
<1>4. /\ Range(members'[TfLogger(l)]) = {Logger}
      /\ \A o \in {ModelData(l), TfModel(l), Interpreter(l)} : Range(members'[o]) = {}
      /\ Range(members'[ModelFrame]) = parts
  BY <1>1, Members
<1>5. Held(Logger)' /\ \A o \in made : Held(o)' \/ o \in Dying'
  BY <1>1, <1>3, <1>4 DEF Held, Holds, Alive
<1>6. \A o \in Alive \cap made : \A p \in Range(members[o]) : Held(p)'
  <2>1. ASSUME NEW o \in Alive \cap parts PROVE Range(members[o]) \subseteq {Logger}
    BY SmallParts DEF LeakInv, TfLogger, ModelData, TfModel, Interpreter
  <2> QED BY <1>3, <1>5, <2>1
<1>7. \A o \in made : \A p \in Range(members'[o]) : IsPart(p[1], o[1])
  BY <1>4 DEF IsPart, TfLogger, ModelData, TfModel, Interpreter, ModelFrame, Logger
<1>8. \A o \in made : o[1] \notin {"ILogger", "IDelegate"}
  BY DEF TfLogger, ModelData, TfModel, Interpreter, ModelFrame
<1>9. IsFiniteSet(made)
  <2>1. made = {TfLogger(l), ModelData(l), TfModel(l), Interpreter(l), ModelFrame, ModelFrame}
    OBVIOUS
  <2> HIDE DEF made
  <2> QED BY <2>1, FewAreFinite
<1>10. \A o \in Alive : IsLocal(o) => IsLocal(o)'
  BY <1>2 DEF IsLocal, Frame, Rune
<1>11. loading' # None /\ Rune(loading'.load) \notin Alive' => Manager(loading'.load) \notin Alive'
  <2>1. \A o \in made : o[1] \notin {"Wasm3Rune", "CapabilitiesDelegatesManager"}
    BY DEF TfLogger, ModelData, TfModel, Interpreter, ModelFrame
  <2> HIDE DEF made
  <2> QED BY <1>1, <1>2, <2>1 DEF LeakInv, PartsInv, Rune, Manager
<1> HIDE DEF made
<1> QED BY <1>1, <1>2, <1>5, <1>6, <1>7, <1>8, <1>9, <1>10, <1>11, LeakMakes

LEMMA LoadFailsLeaks == \A l \in 1 .. Loads : BaseInv /\ LeakInv /\ LoadFails(l) => LeakInv'
<1> SUFFICES ASSUME NEW l \in 1 .. Loads, BaseInv, LeakInv, LoadFails(l) PROVE LeakInv'
  OBVIOUS
<1>1. /\ dying = <<>> /\ loading # None /\ loading.load = l /\ loading' = None
      /\ UNCHANGED <<members, Alive, handles>>
      /\ \/ dying' = <<Frame>> /\ Rune(l) \notin Alive
         \/ dying' = <<Frame, Rune(l)>>
  BY DEF LoadFails, Alive
<1>2. PartsInv'
  BY <1>1 DEF LeakInv, PartsInv
<1>3. \A o \in Alive : Held(o) => Held(o)'
  BY <1>1 DEF Held
<1>4. ASSUME NEW o \in Alive, IsLocal(o) PROVE o \in Dying'
  <2>1. o \in {Frame, Rune(l)}
    BY <1>1, <1>4 DEF IsLocal
  <2>2. dying' = <<Frame>> => Frame \in Dying'
    BY DEF Dying
  <2>3. dying' = <<Frame, Rune(l)>> => Frame \in Dying' /\ Rune(l) \in Dying'
    BY DEF Dying
  <2> QED BY <1>1, <2>1, <2>2, <2>3
<1>5. NothingForgotten'
  BY <1>1, <1>3, <1>4, NothingDying DEF LeakInv, NothingForgotten
<1> QED BY <1>1, <1>2, <1>5 DEF LeakInv

LEMMA LoadReturnsLeaks == \A l \in 1 .. Loads :
    BaseInv /\ LeakInv /\ LoadReturns /\ loading.load = l => LeakInv'
<1> SUFFICES ASSUME NEW l \in 1 .. Loads, BaseInv, LeakInv, LoadReturns, loading.load = l
             PROVE  LeakInv'
  OBVIOUS
<1>1. /\ Alive' = Alive \ {Frame} /\ Frame # Rune(l) /\ Rune(l) \in Alive
      /\ Dying = {} /\ loading # None
      /\ members[Frame] = Mapping(l)
      /\ Range(members'[Rune(l)]) = Range(Mapping(l)) \cup Range(members[Rune(l)])
      /\ \A o \in Alive \ {Frame, Rune(l)} : members'[o] = members[o]
  BY RuneReturned
<1>2. handles' = handles \cup {Rune(l)} /\ loading' = None
  BY DEF LoadReturns
<1>3. IsFiniteSet(Alive')
  BY <1>1, FS_Subset DEF LeakInv
<1>4. PartsInv'
  <2>1. ASSUME NEW o \in Alive', o[1] # "IDelegate", NEW p \in Range(members'[o])
        PROVE  IsPart(p[1], o[1])
    <3>1. CASE o # Rune(l)
      BY <1>1, <2>1, <3>1 DEF LeakInv, PartsInv
    <3>2. CASE o = Rune(l) /\ p \in Range(members[o])
      BY <1>1, <2>1, <3>2 DEF LeakInv, PartsInv
    <3>3. CASE o = Rune(l) /\ p \in Range(Mapping(l))
      <4>1. p = Memory(l)
        BY <3>3, FrameHolds
      <4> QED BY <3>3, <4>1 DEF IsPart, Memory, Rune
    <3> QED BY <1>1, <2>1, <3>1, <3>2, <3>3
  <2> QED BY <1>1, <1>2, <2>1 DEF LeakInv, PartsInv
<1>5. ASSUME NEW o \in Alive' PROVE Held(o)'
  <2>1. Held(o) \/ o = Rune(l)
    BY <1>1 DEF LeakInv, NothingForgotten, IsLocal
  <2>2. CASE o = Rune(l) \/ o \in handles
    BY <1>2, <2>2 DEF Held, Holds
  <2>3. ASSUME NEW p \in Alive, o \in Range(members[p]) PROVE Held(o)'
    <3>1. CASE p = Frame \/ p = Rune(l)
      <4>1. o \in Range(members'[Rune(l)]) /\ Rune(l) \in Alive'
        BY <1>1, <2>3, <3>1
      <4> QED BY <4>1 DEF Held, Holds, Alive
    <3>2. CASE p # Frame /\ p # Rune(l)
      <4>1. o \in Range(members'[p]) /\ p \in Alive'
        BY <1>1, <2>3, <3>2
      <4> QED BY <4>1 DEF Held, Holds, Alive
    <3> QED BY <3>1, <3>2
  <2> QED BY <2>1, <2>2, <2>3 DEF Held, Holds, Alive
<1> QED BY <1>3, <1>4, <1>5 DEF LeakInv, NothingForgotten

LEMMA GetContextLeaks == \A l \in Load : BaseInv /\ LeakInv /\ GetContext(l) => LeakInv'
<1> SUFFICES ASSUME NEW l \in Load, BaseInv, LeakInv, GetContext(l) PROVE LeakInv'
  OBVIOUS
<1>1. handles \subseteq handles' /\ UNCHANGED <<members, Alive, dying, Dying, loading>>
  BY DEF GetContext, Alive, Dying
<1>2. PartsInv'
  BY <1>1 DEF LeakInv, PartsInv
<1>3. \A o \in Alive : (Held(o) => Held(o)') /\ (IsLocal(o) <=> IsLocal(o)')
  BY <1>1 DEF Held, Holds, Alive, IsLocal
<1> QED BY <1>1, <1>2, <1>3 DEF LeakInv, NothingForgotten

\* A delegate may hold whatever it is given.
LEMMA StoreLeaks ==
    \A d \in Delegate : \A p \in handles : BaseInv /\ LeakInv /\ Store(d, p) => LeakInv'
<1> SUFFICES ASSUME NEW d \in Delegate, NEW p \in handles, BaseInv, LeakInv, Store(d, p)
             PROVE  LeakInv'
  OBVIOUS
<1> DEFINE made == {DelegateObject(d)}
<1>1. /\ dying = <<>> /\ DelegateObject(d) \in handles
      /\ members' = [members EXCEPT ![DelegateObject(d)] = Append(@, p)]
      /\ UNCHANGED <<handles, dying, loading>>
  BY DEF Store, AppRuns
<1>2. DelegateObject(d) \in Alive /\ p \in Alive /\ members[DelegateObject(d)] \in Seq(Alive)
  BY <1>1 DEF BaseInv, CountInv, HoldInv
<1>3. /\ Alive' = Alive \cup made
      /\ members'[DelegateObject(d)] = Append(members[DelegateObject(d)], p)
      /\ \A o \in Alive \ made : members'[o] = members[o]
  BY <1>1, <1>2 DEF Alive
<1>4. Range(members'[DelegateObject(d)]) = Range(members[DelegateObject(d)]) \cup {p}
  BY <1>2, <1>3, OneMore
<1>5. \A o \in made : \A q \in Range(members[o]) : Held(q)'
  BY <1>3, <1>4 DEF Held, Holds, Alive
<1>6. \A o \in made : Held(o)'
  BY <1>1 DEF Held, Holds
<1>7. \A o \in made : o[1] = "IDelegate" /\ o \in Alive
  BY <1>2 DEF DelegateObject
<1>8. \A o \in Alive : IsLocal(o) => IsLocal(o)'
  BY <1>1 DEF IsLocal, Frame, Rune
<1>9. IsFiniteSet(made)
  <2>1. made = {DelegateObject(d), DelegateObject(d), DelegateObject(d), DelegateObject(d),
                DelegateObject(d), DelegateObject(d)}
    OBVIOUS
  <2> HIDE DEF made
  <2> QED BY <2>1, FewAreFinite
<1>10. loading' # None /\ Rune(loading'.load) \notin Alive' => Manager(loading'.load) \notin Alive'
  <2>1. \A l : Rune(l) \notin made /\ Manager(l) \notin made
    BY <1>7 DEF Rune, Manager
  <2> HIDE DEF made
  <2> QED BY <1>1, <1>3, <2>1 DEF LeakInv, PartsInv, Rune, Manager
<1> HIDE DEF made
<1> QED BY <1>1, <1>3, <1>5, <1>6, <1>7, <1>8, <1>9, <1>10, LeakMakes

LEMMA ReleaseLeaks == \A r \in handles : BaseInv /\ LeakInv /\ Release(r) => LeakInv'
<1> SUFFICES ASSUME NEW r \in handles, BaseInv, LeakInv, Release(r) PROVE LeakInv'
  OBVIOUS
<1>1. /\ dying = <<>> /\ handles' = handles \ {r}
      /\ dying' = Unheld(members, handles', r)
      /\ UNCHANGED <<members, Alive, loading>>
  BY DEF Release, AppRuns, Alive
<1>2. PartsInv'
  BY <1>1 DEF LeakInv, PartsInv
<1>3. ASSUME NEW o \in Alive PROVE Held(o)' \/ o \in Dying' \/ IsLocal(o)'
  <2>1. Held(o) \/ IsLocal(o)
    BY <1>1, NothingDying DEF LeakInv, NothingForgotten
  <2>2. IsLocal(o) => IsLocal(o)'
    BY <1>1 DEF IsLocal, Frame, Rune
  <2>3. CASE o # r
    BY <1>1, <2>1, <2>2, <2>3 DEF Held, Holds
  <2>4. CASE o = r /\ ~Held(o)'
    <3>1. dying' = <<r>>
      BY <1>1, <2>4 DEF Unheld, Held
    <3>2. dying' = <<r>> => r \in Dying'
      BY DEF Dying
    <3> QED BY <2>4, <3>1, <3>2
  <2> QED BY <2>3, <2>4
<1> QED BY <1>1, <1>2, <1>3 DEF LeakInv, NothingForgotten

LEMMA DropLastMemberLeaks == BaseInv /\ LeakInv /\ DropLastMember => LeakInv'
<1> SUFFICES ASSUME BaseInv, LeakInv, DropLastMember PROVE LeakInv'
  OBVIOUS
<1>1. PICK o \in Alive \cap Dying, x \in Alive \ Dying :
        /\ Alive' = Alive
        /\ \A p \in Alive \ {o} : members'[p] = members[p]
        /\ Range(members[o]) = Range(members'[o]) \cup {x}
        /\ \A p : Held(p) /\ p # x => Held(p)'
        /\ Dying' = IF Held(x)' THEN Dying ELSE Dying \cup {x}
  BY MemberDropped
<1>2. UNCHANGED loading
  BY DEF DropLastMember
<1>3. PartsInv'
  <2>1. \A p \in Alive : Range(members'[p]) \subseteq Range(members[p])
    BY <1>1
  <2> QED BY <1>1, <1>2, <2>1 DEF LeakInv, PartsInv
<1>4. \A p \in Alive : IsLocal(p) => IsLocal(p)'
  BY <1>2 DEF IsLocal, Frame, Rune
<1>5. NothingForgotten'
  BY <1>1, <1>4 DEF LeakInv, NothingForgotten
<1> QED BY <1>1, <1>3, <1>5 DEF LeakInv

LEMMA DeallocateLeaks == BaseInv /\ LeakInv /\ Deallocate => LeakInv'
<1> SUFFICES ASSUME BaseInv, LeakInv, Deallocate PROVE LeakInv'
  OBVIOUS
<1>1. PICK o \in Alive \cap Dying :
        /\ Alive' = Alive \ {o}
        /\ \A p \in Alive \ {o} : members'[p] = members[p]
        /\ Dying' = Dying \ {o}
        /\ \A p : p # o => (Held(p)' <=> Held(p))
  BY ObjectGone
<1>2. UNCHANGED loading
  BY DEF Deallocate
<1>3. IsFiniteSet(Alive')
  BY <1>1, FS_Subset DEF LeakInv
<1>4. PartsInv'
  <2>1. loading # None => Rune(loading.load) # o
    BY <1>1 DEF BaseInv, LoadInv
  <2>2. loading' # None /\ Rune(loading'.load) \notin Alive' => Manager(loading'.load) \notin Alive'
    BY <1>1, <1>2, <2>1 DEF LeakInv, PartsInv, Rune, Manager
  <2> QED BY <1>1, <2>2 DEF LeakInv, PartsInv, Rune, Manager, Logger
<1>5. \A p \in Alive : IsLocal(p) => IsLocal(p)'
  BY <1>2 DEF IsLocal, Frame, Rune
<1>6. NothingForgotten'
  BY <1>1, <1>5 DEF LeakInv, NothingForgotten
<1> QED BY <1>3, <1>4, <1>6 DEF LeakInv

LEMMA LeakStep == BaseInv /\ LeakInv /\ [Next]_vars => LeakInv'
<1> SUFFICES ASSUME BaseInv, LeakInv, [Next]_vars PROVE LeakInv'
  OBVIOUS
<1>1. CASE CreateEngine \/ CreateEngineThrows
  BY <1>1, CreateEngineLeaks, CreateEngineThrowsLeaks
<1>2. CASE \E k \in 1 .. MaxRuntimes :
             CreateRuntime(k) \/ \E fromFile \in BOOLEAN : BeginLoad(k, fromFile)
  BY <1>2, CreateRuntimeLeaks, BeginLoadLeaks
<1>3. CASE ModuleIsRefused \/ ConstructorThrows
  BY <1>3, LoadFailsSteps, LoadFailsLeaks
<1>4. CASE \E d \in Delegate : DelegateObject(d) \in handles /\ ModuleIsLoaded(<<d>>)
  <2>1. PICK d \in Delegate : DelegateObject(d) \in handles /\ ModuleIsLoaded(<<d>>)
    BY <1>4
  <2>2. loading.load \in 1 .. Loads /\ loading.runtime \in 1 .. MaxRuntimes
        /\ RuneIsMade(loading.load, loading.runtime, d)
    BY <2>1 DEF RuneIsMade, ModuleIsLoaded, BaseInv, DataInv
  <2> QED BY <2>2, RuneMadeLeaks
<1>5. CASE LoadReturns
  <2>1. loading.load \in 1 .. Loads
    BY <1>5 DEF LoadReturns, BaseInv, DataInv
  <2> QED BY <1>5, <2>1, LoadReturnsLeaks
<1>6. CASE \E l \in Load : LoadModel(l) \/ LoadModelFails(l) \/ GetContext(l)
  BY <1>6, LoadModelLeaks, LoadModelFailsLeaks, GetContextLeaks
<1>7. CASE \E o \in handles : Release(o) \/ \E d \in Delegate : Store(d, o)
  BY <1>7, ReleaseLeaks, StoreLeaks
<1>8. CASE Destruct
  BY <1>8, DropLastMemberLeaks, DeallocateLeaks DEF Destruct
<1>9. CASE UNCHANGED vars
  <2>1. UNCHANGED <<members, handles, dying, loading, Alive, Dying>>
    BY <1>9 DEF vars, Alive, Dying
  <2>2. \A o : (Held(o) <=> Held(o)') /\ (IsLocal(o) <=> IsLocal(o)')
    BY <2>1 DEF Held, IsLocal
  <2> QED BY <2>1, <2>2 DEF LeakInv, PartsInv, NothingForgotten
<1> QED BY <1>1, <1>2, <1>3, <1>4, <1>5, <1>6, <1>7, <1>8, <1>9 DEF Next

LEMMA LeakInit == Init => LeakInv
<1> SUFFICES ASSUME Init PROVE LeakInv
  OBVIOUS
<1> DEFINE delegates == {DelegateObject(d) : d \in Delegate}
<1>1. /\ Alive = delegates \cup {Logger} /\ handles = Alive /\ loading = None
      /\ \A o \in Alive : members[o] = IF o = Logger THEN <<>> ELSE <<Logger>>
  BY DEF Init, Alive
<1>2. IsFiniteSet(Alive)
  <2> DEFINE object == [d \in Delegate |-> DelegateObject(d)]
  <2>1. object \in [Delegate -> delegates] /\ \A o \in delegates : \E d \in Delegate : object[d] = o
    OBVIOUS
  <2> HIDE DEF delegates, object
  <2>2. IsFiniteSet(delegates)
    BY <2>1, Fun_IsSurj, FS_Surjection, LifetimesAssumption
  <2> QED BY <1>1, <2>2, FS_AddElement
<1>3. PartsInv
  <2>1. \A o \in delegates : o[1] = "IDelegate" /\ o[2] \in Delegate
    BY DEF DelegateObject
  <2>2. Range(members[Logger]) = {}
    BY <1>1 DEF Range
  <2> HIDE DEF delegates
  <2> QED BY <1>1, <2>1, <2>2 DEF PartsInv, Logger
<1>4. NothingForgotten
  BY <1>1 DEF NothingForgotten, Held, Holds
<1> QED BY <1>2, <1>3, <1>4 DEF LeakInv

\* The members of an object are there.
LEMMA GraphIsClosed == BaseInv /\ LeakInv => GraphOK
<1> SUFFICES ASSUME BaseInv, LeakInv PROVE GraphOK
  OBVIOUS
<1>1. \A o \in Alive : Range(members[o]) \subseteq Alive
  BY ListedMembers DEF BaseInv, CountInv, HoldInv
<1> QED BY <1>1 DEF GraphOK, Closed, LeakInv

LEMMA NothingElseLeaks == BaseInv /\ LeakInv => OnlyLoopsLeak
<1> SUFFICES ASSUME BaseInv, LeakInv, Idle PROVE Alive \subseteq Reached(handles \cup Looping)
  BY DEF OnlyLoopsLeak
<1>1. GraphOK /\ PartsInv /\ handles \subseteq Alive
  BY GraphIsClosed DEF LeakInv, BaseInv, CountInv, HoldInv
<1>2. \A o \in Alive : o = <<o[1], o[2]>> /\ Held(o)
  BY NothingDying DEF Idle, BaseInv, CountInv, HoldInv, LeakInv, NothingForgotten, IsLocal
<1> QED BY <1>1, <1>2, LoopsKeepTheRest

\* When no destructor and no load runs, every object is reached from what the
\* application holds, or from a delegate that keeps itself alive by what it has
\* stored: with delegates that obey example0.cpp:161 nothing leaks, whatever is
\* created, thrown, loaded and released in whatever order (Wasm3Rune.hpp:34-38,
\* HostFunctions.hpp:35-39).
THEOREM LeaksAreLoops == Spec => []OnlyLoopsLeak
BY BaseInit, BaseStep, LeakInit, LeakStep, NothingElseLeaks, PTL DEF Spec

\* An application that holds nothing any more loads nothing.
LEMMA NothingHeldNothingLoads == BaseInv /\ handles = {} => loading = None
BY DEF BaseInv, LoadInv

\* Once the application holds nothing and the destructors have run, exactly what
\* the loops of delegates keep is left; models, which their ModelManager never
\* unloads (ModelManager.cpp:74), and wasm3's objects have gone with the rest.
THEOREM ReleasedButLoops == Spec => [](handles = {} /\ dying = <<>> => Alive = Reached(Looping))
<1>1. BaseInv /\ LeakInv => (handles = {} /\ dying = <<>> => Alive = Reached(Looping))
  <2> SUFFICES ASSUME BaseInv, LeakInv, handles = {}, dying = <<>> PROVE Alive = Reached(Looping)
    OBVIOUS
  <2>1. Alive \subseteq Reached(handles \cup Looping)
    BY NothingElseLeaks, NothingHeldNothingLoads DEF OnlyLoopsLeak, Idle
  <2>2. handles \cup Looping = Looping
    OBVIOUS
  <2>3. Looping \in SUBSET Alive
    BY DEF Looping
  <2>4. Reached(Looping) \subseteq Alive
    BY <2>3, GraphIsClosed, ReachedIsClosure
  <2> QED BY <2>1, <2>2, <2>4
<1> QED BY <1>1, BaseInit, BaseStep, LeakInit, LeakStep, PTL DEF Spec

\* From then on nothing but destructors runs, and each of their steps takes the
\* last member from an object or the object itself: no constructor, no delegate
\* and no load can begin again, and nobody comes to hold what nobody held.
OnlyDestructorsRun ==
    handles = {} =>
        /\ Destruct /\ handles' = {} /\ Alive' \subseteq Alive
        /\ \A o \in Alive' : Begins(members'[o], members[o])
        /\ \E o \in Alive : o \in Alive' => Len(members'[o]) < Len(members[o])

THEOREM ReleasingOnlyShrinks == Spec => [][OnlyDestructorsRun]_vars
<1>1. BaseInv /\ [Next]_vars => [OnlyDestructorsRun]_vars
  <2> SUFFICES ASSUME BaseInv, Next, handles = {} PROVE OnlyDestructorsRun
    BY DEF OnlyDestructorsRun
  <2>1. loading = None
    BY NothingHeldNothingLoads
  <2>2. \A l \in Load : ~Runs(l)
    BY <2>1 DEF Runs, None, Load
  <2>3. Destruct
    BY <2>1, <2>2 DEF Next, CreateEngine, CreateEngineThrows, CreateRuntime, BeginLoad,
       ModuleIsRefused, ConstructorThrows, LoadReturns, LoadModel, LoadModelFails, GetContext
  <2>4. \A o \in Alive : members[o] \in Seq(Alive) /\ Begins(members[o], members[o])
    <3>1. \A s \in Seq(Alive) : Begins(s, s)
      BY LenProperties DEF Begins
    <3> QED BY <3>1 DEF BaseInv, CountInv, HoldInv
  <2>5. CASE DropLastMember
    <3>1. PICK o \in Alive : /\ members[o] # <<>> /\ Alive' = Alive /\ members'[o] = Front(members[o])
                             /\ \A p \in Alive \ {o} : members'[p] = members[p]
      BY <2>5, MemberDropped
    <3>2. Begins(members'[o], members[o]) /\ Len(members'[o]) < Len(members[o])
      <4>1. \A s \in Seq(Alive) : s # <<>> => Begins(Front(s), s) /\ Len(Front(s)) < Len(s)
        <5> SUFFICES ASSUME NEW s \in Seq(Alive), s # <<>>
                     PROVE  Begins(Front(s), s) /\ Len(Front(s)) < Len(s)
          OBVIOUS
        <5>1. /\ Len(s) \in Nat \ {0} /\ Len(Front(s)) = Len(s) - 1
              /\ \A i \in 1 .. Len(s) - 1 : Front(s)[i] = s[i]
          BY FrontLast
        <5> QED BY <5>1 DEF Begins
      <4>2. members[o] \in Seq(Alive) /\ members[o] # <<>> /\ members'[o] = Front(members[o])
        BY <2>4, <3>1
      <4> QED BY <4>1, <4>2
    <3>3. UNCHANGED handles
      BY <2>5 DEF DropLastMember
    <3>4. \A p \in Alive' : Begins(members'[p], members[p])
      BY <2>4, <3>1, <3>2
    <3> QED BY <2>3, <3>1, <3>2, <3>3, <3>4 DEF OnlyDestructorsRun
  <2>6. CASE Deallocate
    <3>1. PICK o \in Alive : Alive' = Alive \ {o} /\ \A p \in Alive \ {o} : members'[p] = members[p]
      BY <2>6, ObjectGone
    <3>2. UNCHANGED handles
      BY <2>6 DEF Deallocate
    <3>3. \A p \in Alive' : Begins(members'[p], members[p])
      BY <2>4, <3>1
    <3> QED BY <2>3, <3>1, <3>2, <3>3 DEF OnlyDestructorsRun
  <2> QED BY <2>3, <2>5, <2>6 DEF Destruct
<1> QED BY <1>1, BaseInit, BaseStep, PTL DEF Spec
=============================================================================
