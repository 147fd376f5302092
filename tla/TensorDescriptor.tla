--------------------------- MODULE TensorDescriptor ---------------------------
(***************************************************************************)
(* TensorDescriptor of src/src/inference/Inference.cpp: a rune describes a *)
(* tensor with a string such as f32[1,28]; the host parses it when the     *)
(* model is loaded and takes from it how many bytes of wasm memory the     *)
(* tensor occupies when the model is run.                                  *)
(*                                                                         *)
(* A string is what the regular expressions see of it: whether it has a    *)
(* bracketed part, what stands before it, and the numbers inside.          *)
(***************************************************************************)
EXTENDS Integers, Sequences

CONSTANTS
    IntMod,  \* number of values of int: 2^32
    SizeMod  \* number of values of size_t: 2^64

ASSUME WidthAssumption ==
    /\ IntMod \in Nat /\ IntMod > 1
    /\ SizeMod \in Nat \ {0}

IntMax == (IntMod \div 2) - 1

DataType == {"NoType", "f32", "i32", "u8", "i64", "s", "b", "i16", "c64", "i8", "f16",
             "f64", "c128"}

TensorString == [bracketed : BOOLEAN, prefix : STRING, numbers : Seq(Nat)]

\* What the constructor can make of a string.  Without a bracketed part dataType
\* is never assigned, and copied all the same: any value.  A number that stoi
\* cannot represent discards the type with the shape.
Descriptors(string) ==
    IF ~string.bracketed
    THEN {[dataType |-> t, shape |-> <<>>] : t \in DataType}
    ELSE IF \E i \in DOMAIN string.numbers : string.numbers[i] > IntMax
    THEN {[dataType |-> "NoType", shape |-> <<>>]}
    ELSE {[dataType |-> IF string.prefix \in DataType THEN string.prefix ELSE "NoType",
           shape |-> string.numbers]}

BytesPerUnit(dataType) ==
    CASE dataType \in {"NoType", "b", "u8", "i8"}        -> 1
      [] dataType \in {"i16", "f16"}                     -> 2
      [] dataType \in {"f32", "i32"}                     -> 4
      [] dataType \in {"i64", "c64", "f64", "c128"}      -> 8
      [] OTHER                                           -> 0

\* Multiplication of ints, on hardware that wraps.
Times(a, b) == ((a * b + IntMax + 1) % IntMod) - IntMax - 1

\* std::accumulate over the shape.
Elements(shape) ==
    LET product[n \in 0 .. Len(shape)] == IF n = 0 THEN 1 ELSE Times(product[n - 1], shape[n])
    IN product[Len(shape)]

\* The product is an int, converted to size_t before it is scaled.
ByteCount(descriptor) ==
    (BytesPerUnit(descriptor.dataType) * (Elements(descriptor.shape) % SizeMod)) % SizeMod

-----------------------------------------------------------------------------
(* What a string should stand for *)

\* The bytes of a value, which the name of its type gives in bits.
TrueWidth == [b |-> 1, u8 |-> 1, i8 |-> 1, i16 |-> 2, f16 |-> 2, f32 |-> 4, i32 |-> 4,
              i64 |-> 8, c64 |-> 8, f64 |-> 8, c128 |-> 16]

Volume(shape) ==
    LET product[n \in 0 .. Len(shape)] == IF n = 0 THEN 1 ELSE product[n - 1] * shape[n]
    IN product[Len(shape)]

TrueBytes(string) == TrueWidth[string.prefix] * Volume(string.numbers)

Describes(string) == string.bracketed /\ string.prefix \in DOMAIN TrueWidth

\* A tensor whose elements an int can count has its true size, but that
\* byteCount has 8 bytes for c128 (Inference.cpp:37-44).
SizeIsTrue(string) ==
    /\ Describes(string) /\ string.prefix # "c128"
    /\ \A i \in DOMAIN string.numbers : string.numbers[i] <= IntMax
    /\ Volume(string.numbers) <= IntMax
    /\ TrueBytes(string) < SizeMod
    => \A d \in Descriptors(string) : ByteCount(d) = TrueBytes(string)

\* Whatever overflows, or is too large to be parsed, a string of a tensor that is
\* not empty never stands for more bytes than it describes, unless for so many
\* that no wasm memory has them: a negative count as a size_t (Inference.cpp:44,
\* 89-95).
SizeIsNotOverstated(string) ==
    Describes(string) /\ 0 \notin {string.numbers[i] : i \in DOMAIN string.numbers}
    => \A d \in Descriptors(string) :
          \/ ByteCount(d) <= TrueBytes(string)
          \/ ByteCount(d) >= SizeMod - 8 * (IntMod \div 2)
=============================================================================
