-------------------------------- MODULE Result --------------------------------
(***************************************************************************)
(* src/src/Result.cpp: the results a rune's call yields.  A Result is an   *)
(* array to which elements are added, other results among them; asJson     *)
(* writes it as one JSON document.  A JsonResult is a JSON text.           *)
(*                                                                         *)
(* Results are held by pointer: one may be an element of several others,   *)
(* of itself too, and be added to afterwards.  A number, string or byte    *)
(* is what the JSON writer sees of it.                                     *)
(***************************************************************************)
EXTENDS Integers, Sequences, FiniteSets, SequencesExt

CONSTANTS
    MaxResults,  \* bound of the model: results made in a behaviour
    MaxElements  \* bound of the model: elements added in a behaviour

ASSUME ResultAssumption == MaxResults \in Nat /\ MaxElements \in Nat

VARIABLE results \* the results made so far; a pointer is an index into it

Pointer == DOMAIN results
Null    == 0

\* TInternalVariant: a float may be NaN, a string may not be UTF-8.
Scalar  == [type : {"Uint32", "Int32"}, value : {"number"}]
           \cup [type : {"Float"}, value : {"number", "nan"}]
           \cup [type : {"String"}, value : {"utf8", "other"}]
           \cup [type : {"ByteBuffer"}, value : {"none", "bytes"}]
Element == [scalar : Scalar, result : {Null}]
           \cup [scalar : {[type |-> "IResult", value |-> "none"]}, result : 1 .. MaxResults]

Init == results = <<>>

-----------------------------------------------------------------------------
(* Building *)

MakeResult ==
    /\ Len(results) < MaxResults
    /\ results' = Append(results, [class |-> "Result", m_data |-> <<>>])

\* The constructor throws when the text is not JSON.
MakeJsonResult(isJson) ==
    /\ Len(results) < MaxResults
    /\ results' = IF isJson THEN Append(results, [class |-> "JsonResult", m_data |-> <<>>])
                            ELSE results

\* A null string, buffer or pointer makes add throw.
Add(r, element, isNull) ==
    /\ results[r].class = "Result"
    /\ FoldLeft(LAMBDA n, s : n + Len(s.m_data), 0, results) < MaxElements
    /\ element.result \in Pointer \cup {Null}
    /\ isNull => element.scalar.type \in {"String", "ByteBuffer", "IResult"}
    /\ results' = IF isNull THEN results
                  ELSE [results EXCEPT ![r].m_data = Append(@, element)]

Next ==
    \/ MakeResult
    \/ \E isJson \in BOOLEAN : MakeJsonResult(isJson)
    \/ \E r \in Pointer, element \in Element, isNull \in BOOLEAN : Add(r, element, isNull)

Spec == Init /\ [][Next]_results

-----------------------------------------------------------------------------
(* Writing *)

Count(r) == IF results[r].class = "JsonResult" THEN 1 ELSE Len(results[r].m_data)

\* The element of a Result; TVariant has a view of it.
GetAt(r, idx) == results[r].m_data[idx]

TypeAt(r, idx) ==
    IF results[r].class = "JsonResult" THEN "Json" ELSE GetAt(r, idx).scalar.type

\* A JSON value is a leaf or an array of values.
Leaf(kind)   == [kind |-> kind, items |-> <<>>]
Array(items) == [kind |-> "array", items |-> items]
Thrown       == Leaf("thrown")

\* A byte buffer is an array of numbers; NaN is written as null, and a string
\* that is not UTF-8 cannot be written.
ScalarAsJson(scalar) ==
    CASE scalar.type \in {"Uint32", "Int32"} -> Leaf("number")
      [] scalar.type = "Float"               -> Leaf(IF scalar.value = "nan" THEN "null" ELSE "number")
      [] scalar.type = "String"              -> IF scalar.value = "utf8" THEN Leaf("string") ELSE Thrown
      [] scalar.type = "ByteBuffer"          -> Array(IF scalar.value = "bytes" THEN <<Leaf("number")>> ELSE <<>>)

RECURSIVE Parse(_)

\* A slip for the mutation checks: an element that cannot be written is left out.
ParsedSkipping(items) == Array(SelectSeq(items, LAMBDA item : item # Thrown))

\* An exception abandons the whole array.
Parsed(items) == IF Thrown \in Range(items) THEN Thrown ELSE Array(items)

\* parse, then dump: both throw to asJson.  The type Json has no case.
Parse(r) ==
    Parsed([idx \in 1 .. Count(r) |->
        CASE TypeAt(r, idx) = "IResult" -> Parse(GetAt(r, idx).result)
          [] TypeAt(r, idx) = "Json"    -> Thrown
          [] OTHER                      -> ScalarAsJson(GetAt(r, idx).scalar)])

\* "" when something was thrown; the text of a JsonResult as it is.
AsJson(r) ==
    IF results[r].class = "JsonResult" THEN Leaf("text")
    ELSE IF Parse(r) = Thrown THEN Leaf("") ELSE Parse(r)

-----------------------------------------------------------------------------
(* What it should write *)

Elements(r) == Range(results[r].m_data)
Nested(rs)  == UNION {{e.result : e \in Elements(r)} \ {Null} : r \in rs}

\* The results inside r at any depth.
Inside(r) ==
    LET level[n \in 1 .. MaxResults] ==
            IF n = 1 THEN Nested({r}) ELSE Nested(level[n - 1])
    IN UNION {level[n] : n \in 1 .. MaxResults}

\* parse calls itself without end when a result is inside itself.
Ends(r) == \A s \in {r} \cup Inside(r) : s \notin Inside(s)

\* Follows a path of indices through the results, and through a document.
ElementAt(r, path) ==
    FoldLeft(LAMBDA e, i : results[e.result].m_data[i],
             [scalar |-> [type |-> "IResult", value |-> "none"], result |-> r], path)
ItemAt(json, path) == FoldLeft(LAMBDA item, i : item.items[i], json, path)

RECURSIVE PathsFrom(_)
PathsFrom(r) ==
    {<<>>} \cup UNION {IF results[r].m_data[i].result = Null THEN {<<i>>}
                       ELSE {<<i>> \o p : p \in PathsFrom(results[r].m_data[i].result)}
                       : i \in DOMAIN results[r].m_data}

\* A result is written whole or not at all, whoever shares its parts and
\* whenever they were added: "" if and only if a JSON text or a string that is
\* not UTF-8 is in it at some depth, else a document that has, under every path
\* of indices, what is there in the results, and as many items
\* (Result.cpp:14-55, 150-156).
WrittenWhole ==
    \A r \in Pointer : results[r].class = "Result" /\ Ends(r) =>
        LET lost == \E s \in {r} \cup Inside(r) :
                        \/ results[s].class = "JsonResult"
                        \/ \E e \in Elements(s) : e.scalar.value = "other"
            json == AsJson(r)
        IN IF lost THEN json = Leaf("")
           ELSE \A path \in PathsFrom(r) :
                   LET e == ElementAt(r, path)
                   IN IF e.result = Null THEN ItemAt(json, path) = ScalarAsJson(e.scalar)
                      ELSE /\ ItemAt(json, path).kind = "array"
                           /\ Len(ItemAt(json, path).items) = Count(e.result)
=============================================================================
