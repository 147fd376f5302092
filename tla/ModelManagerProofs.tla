-------------------------- MODULE ModelManagerProofs --------------------------
(***************************************************************************)
(* Theorems about ModelManager for every set of model files, whatever      *)
(* tensors they have and however runes describe them, for every counter    *)
(* width and any number of loads and inferences.                           *)
(***************************************************************************)
EXTENDS ModelManager, WellFoundedInduction, TLAPS

-----------------------------------------------------------------------------
(* Tensors *)

\* A sequence, whatever its elements are.
IsTuple(s) == Len(s) \in Nat /\ s = [i \in 1 .. Len(s) |-> s[i]]

LEMMA SequenceIsTuple ==
    ASSUME NEW R, NEW s \in Seq(R)
    PROVE  IsTuple(s)
BY DEF IsTuple

LEMMA EqualTuples ==
    ASSUME NEW s, NEW t, IsTuple(s), IsTuple(t), Len(s) = Len(t),
           \A i \in 1 .. Len(s) : s[i] = t[i]
    PROVE  s = t
BY DEF IsTuple

\* A sequence that is not empty has an element.
LEMMA NotEmpty ==
    ASSUME NEW s, IsTuple(s), s # <<>>
    PROVE  Len(s) > 0
<1>1. Len(s) = 0 => s = <<>>
  <2>1. IsTuple(<<>>) /\ Len(<<>>) = 0
    BY DEF IsTuple
  <2>2. Len(s) = 0 => \A i \in 1 .. Len(s) : s[i] = <<>>[i]
    OBVIOUS
  <2> QED BY <2>1, <2>2, EqualTuples
<1> QED BY <1>1 DEF IsTuple

\* A non-empty set of natural numbers has a smallest one.
LEMMA SmallestExists ==
    ASSUME NEW S \in SUBSET Nat, S # {}
    PROVE  \E x \in S : \A y \in S : x <= y
<1>1. PICK x \in S : \A y \in S : ~(<<y, x>> \in OpToRel(<, Nat))
  BY WFMin, NatLessThanWellFounded
<1>2. ASSUME NEW y \in S PROVE x <= y
  <2>1. x \in Nat /\ y \in Nat
    OBVIOUS
  <2>2. y < x => <<y, x>> \in OpToRel(<, Nat)
    BY ONLY <2>1 DEF OpToRel
  <2>3. ~(y < x)
    BY ONLY <1>1, <2>2, y \in S
  <2> QED BY ONLY <2>1, <2>3
<1> QED BY <1>2

\* The copying loop stops at the first view that does not fit, or at the end.
LEMMA HandledStops ==
    ASSUME NEW views, NEW sizes, IsTuple(views)
    PROVE  LET n == Handled(views, sizes)
           IN /\ n \in 0 .. Len(views)
              /\ \A i \in 1 .. n : Fits(views[i], sizes[i])
<1> DEFINE Stops(n) == /\ \A i \in 1 .. n : Fits(views[i], sizes[i])
                       /\ n < Len(views) => ~Fits(views[n + 1], sizes[n + 1])
           Bad == {i \in 1 .. Len(views) : ~Fits(views[i], sizes[i])}
<1>1. Len(views) \in Nat
  BY DEF IsTuple
<1>2. \E n \in 0 .. Len(views) : Stops(n)
  <2>1. CASE Bad = {}
    <3>1. Stops(Len(views))
      BY <2>1, <1>1
    <3> QED BY <3>1, <1>1
  <2>2. CASE Bad # {}
    <3>1. PICK first \in Bad : \A other \in Bad : first <= other
      <4>1. Bad \in SUBSET Nat
        BY <1>1
      <4> HIDE DEF Bad
      <4> QED BY <2>2, <4>1, SmallestExists
    <3>2. first \in 1 .. Len(views) /\ ~Fits(views[first], sizes[first])
      OBVIOUS
    <3>3. ASSUME NEW i \in 1 .. (first - 1)
          PROVE  Fits(views[i], sizes[i])
      <4>1. i \in 1 .. Len(views) /\ ~(first <= i)
        BY <1>1, <3>2
      <4> QED BY <3>1, <4>1
    <3>4. Stops(first - 1)
      BY <1>1, <3>2, <3>3
    <3>5. first - 1 \in 0 .. Len(views)
      BY <1>1, <3>2
    <3> HIDE DEF Stops
    <3> QED BY <3>4, <3>5
  <2> QED BY <2>1, <2>2
<1> QED BY <1>2 DEF Handled

\* When all views are handled, all of them fit.
LEMMA HandledAll ==
    ASSUME NEW views, NEW sizes, IsTuple(views), Handled(views, sizes) = Len(views)
    PROVE  \A i \in 1 .. Len(views) : views[i] = sizes[i]
BY HandledStops DEF Fits

-----------------------------------------------------------------------------
(* Byte counts *)

LEMMA TimesIsInt == \A a, b \in Int : Times(a, b) \in Int
<1> SUFFICES ASSUME NEW a \in Int, NEW b \in Int
             PROVE  Times(a, b) \in Int
  OBVIOUS
<1>1. IntMax \in Int /\ a * b \in Int /\ IntMod \in Nat \ {0}
  BY WidthAssumption DEF IntMax
<1>2. a * b + IntMax + 1 \in Int
  BY <1>1
<1>3. (a * b + IntMax + 1) % IntMod \in Int
  BY <1>1, <1>2
<1> QED BY <1>1, <1>3 DEF Times

\* The products of the first numbers of a shape, of all their counts up to k.
IsProducts(f, shape, k) ==
    /\ f = [n \in 0 .. k |-> f[n]]
    /\ \A n \in 0 .. k : f[n] = IF n = 0 THEN 1 ELSE Times(f[n - 1], shape[n])

\* The equations of Elements have a solution for every shape.
LEMMA ProductsExist ==
    ASSUME NEW shape, NEW k \in Nat
    PROVE  \E f : IsProducts(f, shape, k)
<1> DEFINE Bad == {n \in Nat : ~ \E f : IsProducts(f, shape, n)}
<1> SUFFICES ASSUME Bad # {} PROVE FALSE
  OBVIOUS
<1>1. PICK n \in Bad : \A m \in Bad : n <= m
  BY SmallestExists
<1>2. CASE n = 0
  <2>1. IsProducts([m \in 0 .. 0 |-> 1], shape, 0)
    BY DEF IsProducts
  <2> QED BY <1>2, <2>1
<1>3. CASE n # 0
  <2>1. n \in Nat /\ n - 1 \in Nat /\ ~(n <= n - 1)
    BY <1>3
  <2>2. n - 1 \notin Bad
    BY <1>1, <2>1
  <2>3. PICK f : IsProducts(f, shape, n - 1)
    BY <2>1, <2>2
  <2> DEFINE g == [m \in 0 .. n |-> IF m = n THEN Times(f[n - 1], shape[n]) ELSE f[m]]
  <2>4. \A m \in 0 .. n : g[m] = IF m = 0 THEN 1 ELSE Times(g[m - 1], shape[m])
    <3>1. \A m \in 0 .. (n - 1) : f[m] = IF m = 0 THEN 1 ELSE Times(f[m - 1], shape[m])
      BY <2>3 DEF IsProducts
    <3>2. \A m \in 0 .. (n - 1) : m \in 0 .. n /\ g[m] = f[m]
      BY <2>1
    <3>3. \A m \in 0 .. (n - 1) : m # 0 => m - 1 \in 0 .. (n - 1)
      BY <2>1
    <3>4. g[n] = Times(g[n - 1], shape[n])
      BY <2>1, <3>2
    <3> HIDE DEF g
    <3>5. \A m \in 0 .. (n - 1) : g[m] = IF m = 0 THEN 1 ELSE Times(g[m - 1], shape[m])
      BY <3>1, <3>2, <3>3
    <3> QED BY <2>1, <1>3, <3>4, <3>5
  <2>5. g = [m \in 0 .. n |-> g[m]]
    OBVIOUS
  <2> HIDE DEF g
  <2>6. IsProducts(g, shape, n)
    BY <2>4, <2>5 DEF IsProducts
  <2> QED BY <2>6
<1> QED BY <1>2, <1>3

\* A solution has integers for values.
LEMMA ProductsAreInts ==
    ASSUME NEW f, NEW shape, NEW k \in Nat, IsProducts(f, shape, k),
           \A i \in 1 .. k : shape[i] \in Int
    PROVE  \A n \in 0 .. k : f[n] \in Int
<1> DEFINE Bad == {n \in 0 .. k : f[n] \notin Int}
<1> SUFFICES ASSUME Bad # {} PROVE FALSE
  OBVIOUS
<1>1. PICK n \in Bad : \A m \in Bad : n <= m
  <2>1. Bad \in SUBSET Nat
    OBVIOUS
  <2> HIDE DEF Bad
  <2> QED BY <2>1, SmallestExists
<1>2. n \in 0 .. k /\ f[n] \notin Int
  OBVIOUS
<1>3. f[n] = IF n = 0 THEN 1 ELSE Times(f[n - 1], shape[n])
  BY <1>2 DEF IsProducts
<1>4. CASE n # 0
  <2>1. n - 1 \in 0 .. k /\ ~(n <= n - 1) /\ n \in 1 .. k
    BY <1>2, <1>4
  <2>2. f[n - 1] \in Int
    BY <1>1, <2>1
  <2> QED BY <1>2, <1>3, <1>4, <2>1, <2>2, TimesIsInt
<1> QED BY <1>2, <1>3, <1>4

LEMMA ElementsProducts ==
    ASSUME NEW shape, Len(shape) \in Nat
    PROVE  \E f : IsProducts(f, shape, Len(shape)) /\ Elements(shape) = f[Len(shape)]
<1> DEFINE k == Len(shape)
           Solves(f) == f = [n \in 0 .. k |-> IF n = 0 THEN 1 ELSE Times(f[n - 1], shape[n])]
           product == CHOOSE f : Solves(f)
<1>1. Elements(shape) = product[k]
  BY DEF Elements
<1> HIDE DEF k
<1>2. \A f : Solves(f) <=> IsProducts(f, shape, k)
  BY DEF IsProducts
<1>3. \E f : Solves(f)
  BY <1>2, ProductsExist DEF k
<1>4. Solves(product)
  <2> HIDE DEF Solves
  <2> QED BY <1>3
<1>5. IsProducts(product, shape, k)
  BY <1>2, <1>4
<1> HIDE DEF product
<1> QED BY <1>1, <1>5 DEF k

LEMMA ElementsIsInt ==
    ASSUME NEW shape \in Seq(Int)
    PROVE  Elements(shape) \in Int
<1>1. Len(shape) \in Nat /\ \A i \in 1 .. Len(shape) : shape[i] \in Int
  OBVIOUS
<1>2. PICK f : IsProducts(f, shape, Len(shape)) /\ Elements(shape) = f[Len(shape)]
  BY <1>1, ElementsProducts
<1>3. Len(shape) \in 0 .. Len(shape)
  BY <1>1
<1> QED BY <1>1, <1>2, <1>3, ProductsAreInts

\* Whatever a string describes takes a number of bytes that a size_t holds.
LEMMA ByteCountIsSize ==
    ASSUME NEW string \in TensorString, NEW d \in Descriptors(string)
    PROVE  ByteCount(d) \in ByteSize
<1>1. d.shape \in Seq(Int)
  <2>1. string.numbers \in Seq(Nat) /\ <<>> \in Seq(Int)
    BY DEF TensorString
  <2>2. d.shape \in {<<>>, string.numbers}
    BY DEF Descriptors
  <2>3. Seq(Nat) \subseteq Seq(Int)
    OBVIOUS
  <2> QED BY <2>1, <2>2, <2>3
<1>2. Elements(d.shape) \in Int /\ SizeMod \in Nat \ {0}
  BY <1>1, ElementsIsInt, WidthAssumption
<1>3. Elements(d.shape) % SizeMod \in Nat
  BY <1>2
<1>4. BytesPerUnit(d.dataType) \in Nat
  BY DEF BytesPerUnit
<1>5. BytesPerUnit(d.dataType) * (Elements(d.shape) % SizeMod) \in Nat
  BY <1>3, <1>4
<1> QED BY <1>2, <1>5 DEF ByteCount, ByteSize

\* The volumes of the first numbers of a shape, which no width cuts off.
IsVolumes(f, shape, k) ==
    /\ f = [n \in 0 .. k |-> f[n]]
    /\ \A n \in 0 .. k : f[n] = IF n = 0 THEN 1 ELSE f[n - 1] * shape[n]

LEMMA VolumesExist ==
    ASSUME NEW shape, NEW k \in Nat
    PROVE  \E f : IsVolumes(f, shape, k)
<1> DEFINE Bad == {n \in Nat : ~ \E f : IsVolumes(f, shape, n)}
<1> SUFFICES ASSUME Bad # {} PROVE FALSE
  OBVIOUS
<1>1. PICK n \in Bad : \A m \in Bad : n <= m
  BY SmallestExists
<1>2. CASE n = 0
  <2>1. IsVolumes([m \in 0 .. 0 |-> 1], shape, 0)
    BY DEF IsVolumes
  <2> QED BY <1>2, <2>1
<1>3. CASE n # 0
  <2>1. n \in Nat /\ n - 1 \in Nat /\ ~(n <= n - 1)
    BY <1>3
  <2>2. n - 1 \notin Bad
    BY <1>1, <2>1
  <2>3. PICK f : IsVolumes(f, shape, n - 1)
    BY <2>1, <2>2
  <2> DEFINE last == f[n - 1] * shape[n]
             g == [m \in 0 .. n |-> IF m = n THEN last ELSE f[m]]
  <2>4. \A m \in 0 .. n : g[m] = IF m = 0 THEN 1 ELSE g[m - 1] * shape[m]
    <3>1. \A m \in 0 .. (n - 1) : f[m] = IF m = 0 THEN 1 ELSE f[m - 1] * shape[m]
      BY <2>3 DEF IsVolumes
    <3>2. \A m \in 0 .. (n - 1) : m \in 0 .. n /\ g[m] = f[m]
      BY <2>1
    <3>3. \A m \in 0 .. (n - 1) : m # 0 => m - 1 \in 0 .. (n - 1)
      BY <2>1
    <3>4. g[n] = g[n - 1] * shape[n]
      <4>1. n \in 0 .. n /\ n - 1 \in 0 .. (n - 1)
        BY <2>1
      <4>2. g[n] = last /\ g[n - 1] = f[n - 1]
        BY <3>2, <4>1
      <4> HIDE DEF g
      <4> QED BY <4>2
    <3> HIDE DEF g, last
    <3>5. \A m \in 0 .. (n - 1) : g[m] = IF m = 0 THEN 1 ELSE g[m - 1] * shape[m]
      <4> SUFFICES ASSUME NEW m \in 0 .. (n - 1)
                   PROVE  g[m] = IF m = 0 THEN 1 ELSE g[m - 1] * shape[m]
        OBVIOUS
      <4>1. g[m] = f[m] /\ (m # 0 => g[m - 1] = f[m - 1])
        BY <3>2, <3>3
      <4>2. f[m] = IF m = 0 THEN 1 ELSE f[m - 1] * shape[m]
        BY <3>1
      <4>3. m # 0 => g[m - 1] * shape[m] = f[m - 1] * shape[m]
        BY <4>1
      <4> QED BY <4>1, <4>2, <4>3
    <3>6. \A m \in 0 .. n : m \in 0 .. (n - 1) \/ m = n
      BY <2>1
    <3> QED BY <1>3, <3>4, <3>5, <3>6
  <2>5. g = [m \in 0 .. n |-> g[m]]
    OBVIOUS
  <2> HIDE DEF g
  <2>6. IsVolumes(g, shape, n)
    BY <2>4, <2>5 DEF IsVolumes
  <2> QED BY <2>6
<1> QED BY <1>2, <1>3

LEMMA VolumeProducts ==
    ASSUME NEW shape, Len(shape) \in Nat
    PROVE  \E f : IsVolumes(f, shape, Len(shape)) /\ Volume(shape) = f[Len(shape)]
<1> DEFINE k == Len(shape)
           Solves(f) == f = [n \in 0 .. k |-> IF n = 0 THEN 1 ELSE f[n - 1] * shape[n]]
           product == CHOOSE f : Solves(f)
<1>1. Volume(shape) = product[k]
  BY DEF Volume
<1> HIDE DEF k
<1>2. \A f : Solves(f) <=> IsVolumes(f, shape, k)
  BY DEF IsVolumes
<1>3. \E f : Solves(f)
  BY <1>2, VolumesExist DEF k
<1>4. Solves(product)
  <2> HIDE DEF Solves
  <2> QED BY <1>3
<1>5. IsVolumes(product, shape, k)
  BY <1>2, <1>4
<1> HIDE DEF product
<1> QED BY <1>1, <1>5 DEF k

\* A product of ints is the product, but for a multiple of the width.
LEMMA TimesWraps ==
    ASSUME NEW a \in Int, NEW b \in Int
    PROVE  /\ Times(a, b) \in Int
           /\ 0 - (IntMod \div 2) <= Times(a, b) /\ Times(a, b) < IntMod
           /\ \E r \in Int : a * b = Times(a, b) + r * IntMod
<1> DEFINE c == a * b
           x == c + IntMax + 1
<1>1. /\ IntMod \in Nat /\ IntMod > 1 /\ IntMod \div 2 \in Nat /\ IntMax = (IntMod \div 2) - 1
      /\ c \in Int /\ x \in Int
  BY WidthAssumption DEF IntMax
<1>2. Times(a, b) = (x % IntMod) - (IntMod \div 2)
  BY <1>1 DEF Times
<1> HIDE DEF c
<1>3. x % IntMod \in 0 .. (IntMod - 1) /\ x \div IntMod \in Int
      /\ x = (x \div IntMod) * IntMod + (x % IntMod)
  <2> HIDE DEF x
  <2> QED BY <1>1
<1> HIDE DEF x
<1>4. x = c + (IntMod \div 2)
  BY <1>1 DEF x
<1>5. c = Times(a, b) + (x \div IntMod) * IntMod
  <2> DEFINE q == (x \div IntMod) * IntMod
             m == x % IntMod
  <2>1. q \in Int /\ m \in Int /\ x = q + m
    BY <1>1, <1>3
  <2> HIDE DEF q, m
  <2>2. c = (m - (IntMod \div 2)) + q
    BY <1>1, <1>4, <2>1
  <2> QED BY <1>2, <2>2 DEF q, m
<1>6. /\ Times(a, b) \in Int
      /\ 0 - (IntMod \div 2) <= Times(a, b) /\ Times(a, b) < IntMod
  <2> DEFINE m == x % IntMod
             h == IntMod \div 2
  <2>1. m \in 0 .. (IntMod - 1) /\ h \in Nat /\ Times(a, b) = m - h
    BY <1>1, <1>2, <1>3
  <2> HIDE DEF m, h
  <2>2. Times(a, b) \in Int /\ 0 - h <= Times(a, b) /\ Times(a, b) < IntMod
    BY <1>1, <2>1
  <2> QED BY <2>2 DEF h
<1> QED BY <1>3, <1>5, <1>6 DEF c

\* The product of a shape's numbers as ints is its volume, but for a multiple of
\* the width.
LEMMA ProductsWrap ==
    ASSUME NEW shape, NEW k \in Nat, \A i \in 1 .. k : shape[i] \in Int,
           NEW f, IsProducts(f, shape, k), NEW v, IsVolumes(v, shape, k)
    PROVE  \A n \in 0 .. k :
              /\ f[n] \in Int /\ v[n] \in Int
              /\ 0 - (IntMod \div 2) <= f[n] /\ f[n] < IntMod
              /\ \E q \in Int : v[n] = f[n] + q * IntMod
<1> DEFINE Wraps(n) == /\ f[n] \in Int /\ v[n] \in Int
                       /\ 0 - (IntMod \div 2) <= f[n] /\ f[n] < IntMod
                       /\ \E q \in Int : v[n] = f[n] + q * IntMod
           Bad == {n \in 0 .. k : ~Wraps(n)}
<1> SUFFICES ASSUME Bad # {} PROVE FALSE
  OBVIOUS
<1>1. PICK n \in Bad : \A m \in Bad : n <= m
  <2>1. Bad \in SUBSET Nat
    OBVIOUS
  <2> HIDE DEF Bad
  <2> QED BY <2>1, SmallestExists
<1>2. n \in 0 .. k /\ ~Wraps(n)
  OBVIOUS
<1>3. /\ f[n] = IF n = 0 THEN 1 ELSE Times(f[n - 1], shape[n])
      /\ v[n] = IF n = 0 THEN 1 ELSE v[n - 1] * shape[n]
  BY <1>2 DEF IsProducts, IsVolumes
<1>4. CASE n = 0
  <2>1. f[n] = 1 /\ v[n] = 1 /\ v[n] = f[n] + 0 * IntMod
    BY <1>3, <1>4, WidthAssumption
  <2> QED BY <1>2, <2>1, WidthAssumption
<1>5. CASE n # 0
  <2>1. n - 1 \in 0 .. k /\ ~(n <= n - 1) /\ n \in 1 .. k
    BY <1>2, <1>5
  <2>2. Wraps(n - 1)
    BY <1>1, <2>1
  <2> DEFINE s == shape[n]
             a == f[n - 1]
             p == v[n - 1]
  <2>3. s \in Int /\ a \in Int /\ p \in Int
    BY <2>1, <2>2
  <2>4. PICK q \in Int : p = a + q * IntMod
    BY <2>2
  <2>5. f[n] = Times(a, s) /\ v[n] = p * s
    BY <1>3, <1>5
  <2> HIDE DEF s, a, p
  <2>6. PICK r \in Int : a * s = Times(a, s) + r * IntMod
    BY <2>3, TimesWraps
  <2>7. /\ Times(a, s) \in Int
        /\ 0 - (IntMod \div 2) <= Times(a, s) /\ Times(a, s) < IntMod
    BY <2>3, TimesWraps
  <2>8. p * s = Times(a, s) + (r + q * s) * IntMod
    <3>1. p * s = a * s + (q * IntMod) * s
      BY <2>3, <2>4, WidthAssumption
    <3>2. (q * IntMod) * s = (q * s) * IntMod
      BY <2>3, WidthAssumption
    <3> QED BY <2>3, <2>6, <2>7, <3>1, <3>2, WidthAssumption
  <2>9. p * s \in Int /\ r + q * s \in Int
    BY <2>3
  <2> QED BY <1>2, <2>5, <2>7, <2>8, <2>9
<1> QED BY <1>4, <1>5

\* A product of numbers is one, and is not zero if none of them is.
LEMMA VolumesAreNumbers ==
    ASSUME NEW shape, NEW k \in Nat, \A i \in 1 .. k : shape[i] \in Nat,
           NEW v, IsVolumes(v, shape, k)
    PROVE  \A n \in 0 .. k :
              v[n] \in Nat /\ ((\A i \in 1 .. k : shape[i] # 0) => v[n] # 0)
<1> DEFINE Fine(n) == v[n] \in Nat /\ ((\A i \in 1 .. k : shape[i] # 0) => v[n] # 0)
           Bad == {n \in 0 .. k : ~Fine(n)}
<1> SUFFICES ASSUME Bad # {} PROVE FALSE
  OBVIOUS
<1>1. PICK n \in Bad : \A m \in Bad : n <= m
  <2>1. Bad \in SUBSET Nat
    OBVIOUS
  <2> HIDE DEF Bad
  <2> QED BY <2>1, SmallestExists
<1>2. n \in 0 .. k /\ ~Fine(n)
  OBVIOUS
<1>3. v[n] = IF n = 0 THEN 1 ELSE v[n - 1] * shape[n]
  BY <1>2 DEF IsVolumes
<1>4. CASE n = 0
  BY <1>2, <1>3, <1>4
<1>5. CASE n # 0
  <2>1. n - 1 \in 0 .. k /\ ~(n <= n - 1) /\ n \in 1 .. k
    BY <1>2, <1>5
  <2>2. Fine(n - 1)
    BY <1>1, <2>1
  <2>3. \A a, b \in Nat : a * b \in Nat /\ (a # 0 /\ b # 0 => a * b # 0)
    OBVIOUS
  <2> QED BY <1>2, <1>3, <1>5, <2>1, <2>2, <2>3
<1> QED BY <1>4, <1>5

\* What the int that Elements is tells of the volume.
LEMMA ElementsWrap ==
    ASSUME NEW shape \in Seq(Nat)
    PROVE  /\ Elements(shape) \in Int /\ Volume(shape) \in Nat
           /\ 0 - (IntMod \div 2) <= Elements(shape)
           /\ 0 <= Elements(shape) => Elements(shape) <= Volume(shape)
           /\ Volume(shape) <= IntMax => Elements(shape) = Volume(shape)
           /\ (\A i \in 1 .. Len(shape) : shape[i] # 0) => Volume(shape) # 0
<1>1. Len(shape) \in Nat /\ Len(shape) \in 0 .. Len(shape)
      /\ \A i \in 1 .. Len(shape) : shape[i] \in Nat /\ shape[i] \in Int
  OBVIOUS
<1>2. PICK f : IsProducts(f, shape, Len(shape)) /\ Elements(shape) = f[Len(shape)]
  BY <1>1, ElementsProducts
<1>3. PICK v : IsVolumes(v, shape, Len(shape)) /\ Volume(shape) = v[Len(shape)]
  BY <1>1, VolumeProducts
<1> DEFINE e == Elements(shape)
           h == IntMod \div 2
<1>4. Volume(shape) \in Nat /\ ((\A i \in 1 .. Len(shape) : shape[i] # 0) => Volume(shape) # 0)
  BY <1>1, <1>3, VolumesAreNumbers
<1>5. e \in Int /\ 0 - h <= e /\ e < IntMod
      /\ \E q \in Int : Volume(shape) = e + q * IntMod
  BY <1>1, <1>2, <1>3, ProductsWrap
<1>6. PICK q \in Int : Volume(shape) = e + q * IntMod
  BY <1>5
<1>7. IntMod \in Nat /\ IntMod > 1 /\ h \in Nat /\ 2 * h <= IntMod /\ IntMax = h - 1
  BY WidthAssumption DEF IntMax
<1> DEFINE w == q * IntMod
<1>8. /\ w \in Int
      /\ q < 0 => w <= 0 - IntMod
      /\ q = 0 => w = 0
      /\ q > 0 => w >= IntMod
  BY <1>7
<1>9. Volume(shape) = e + w
  BY <1>6
<1> HIDE DEF w, e, h
<1>10. q >= 0
  BY <1>4, <1>5, <1>7, <1>8, <1>9
<1>11. 0 <= e => e <= Volume(shape)
  BY <1>4, <1>5, <1>7, <1>8, <1>9, <1>10
<1>12. Volume(shape) <= IntMax => e = Volume(shape)
  BY <1>4, <1>5, <1>7, <1>8, <1>9, <1>10
<1> QED BY <1>4, <1>5, <1>11, <1>12 DEF e, h

LEMMA Remainders ==
    ASSUME NEW s \in Nat \ {0}
    PROVE  /\ \A n \in Nat : n % s \in Nat /\ n % s <= n /\ n % s < s
           /\ \A n \in Nat : n < s => n % s = n
           /\ \A n \in Int : n % s \in Nat
           /\ \A m \in Nat \ {0} : m < s => (0 - m) % s = s - m
<1>1. \A n \in Int : /\ n % s \in 0 .. s - 1
                     /\ n \div s \in Int
                     /\ n = s * (n \div s) + (n % s)
  OBVIOUS
<1>2. \A q \in Int : (q >= 1 => s * q >= s) /\ (q <= 0 - 1 => s * q <= 0 - s)
                    /\ (q <= 0 - 2 => s * q <= 0 - (s + s)) /\ (q = 0 => s * q = 0)
                    /\ s * q \in Int
  OBVIOUS
<1>3. ASSUME NEW n \in Nat PROVE n % s \in Nat /\ n % s <= n /\ n % s < s
  <2> DEFINE q == n \div s
             r == n % s
             p == s * q
  <2>1. r \in 0 .. s - 1 /\ q \in Int /\ n = p + r
    BY <1>1
  <2>2. (q <= 0 - 1 => p <= 0 - s) /\ (q = 0 => p = 0) /\ (q >= 1 => p >= s) /\ p \in Int
    BY <1>2, <2>1
  <2> HIDE DEF p, q, r
  <2>3. r \in Nat /\ r <= n /\ r < s
    BY <2>1, <2>2
  <2> QED BY <2>3 DEF r
<1>4. ASSUME NEW n \in Nat, n < s PROVE n % s = n
  <2> DEFINE q == n \div s
             r == n % s
             p == s * q
  <2>1. r \in 0 .. s - 1 /\ q \in Int /\ n = p + r
    BY <1>1
  <2>2. (q <= 0 - 1 => p <= 0 - s) /\ (q = 0 => p = 0) /\ (q >= 1 => p >= s) /\ p \in Int
    BY <1>2, <2>1
  <2> HIDE DEF p, q, r
  <2>3. r = n
    BY <1>4, <2>1, <2>2
  <2> QED BY <2>3 DEF r
<1>5. ASSUME NEW m \in Nat \ {0}, m < s PROVE (0 - m) % s = s - m
  <2> DEFINE q == (0 - m) \div s
             r == (0 - m) % s
             p == s * q
  <2>1. r \in 0 .. s - 1 /\ q \in Int /\ 0 - m = p + r
    BY <1>1
  <2>2. /\ (q <= 0 - 2 => p <= 0 - (s + s)) /\ (q = 0 => p = 0) /\ (q >= 1 => p >= s)
        /\ (q = 0 - 1 => p = 0 - s) /\ p \in Int
    BY <1>2, <2>1
  <2> HIDE DEF p, q, r
  <2>3. r = s - m
    BY <1>5, <2>1, <2>2
  <2> QED BY <2>3 DEF r
<1> QED BY <1>1, <1>3, <1>4, <1>5

\* A multiple of the divisor does not change the remainder.
LEMMA AddedMultiples ==
    ASSUME NEW s \in Nat \ {0}, NEW n \in Int, NEW t \in Int
    PROVE  (n + t * s) % s = n % s
<1> DEFINE x == n + t * s
           d == (x \div s) - (n \div s) - t
<1>1. \A y \in Int : /\ y % s \in 0 .. s - 1
                     /\ y \div s \in Int
                     /\ y = s * (y \div s) + (y % s)
  OBVIOUS
<1>2. x \in Int /\ d \in Int
  BY <1>1
<1>3. s * d = (n % s) - (x % s)
  <2> DEFINE a == x \div s
             c == n \div s
             ra == x % s
             rc == n % s
  <2>1. a \in Int /\ c \in Int /\ ra \in Int /\ rc \in Int /\ x = s * a + ra /\ n = s * c + rc
    BY <1>1, <1>2
  <2>2. x = n + t * s /\ d = a - c - t
    OBVIOUS
  <2> HIDE DEF a, c, ra, rc, x, d
  <2>3. s * d = s * a - s * c - t * s
    BY <2>1, <2>2
  <2>4. s * d = rc - ra
    BY <2>1, <2>2, <2>3
  <2> QED BY <2>4 DEF rc, ra
<1>4. d = 0
  <2>1. (d >= 1 => s * d >= s) /\ (d <= 0 - 1 => s * d <= 0 - s)
    <3> HIDE DEF d
    <3> QED BY <1>2
  <2>2. n % s \in 0 .. s - 1 /\ x % s \in 0 .. s - 1
    BY <1>1, <1>2
  <2> HIDE DEF d, x
  <2> QED BY <1>2, <1>3, <2>1, <2>2
<1>5. n % s = x % s
  <2> DEFINE rn == n % s
             rx == x % s
  <2>1. rn \in Int /\ rx \in Int
    BY <1>1, <1>2
  <2>2. s * d = 0
    BY <1>4
  <2>3. s * d = rn - rx
    BY <1>3
  <2> HIDE DEF rn, rx, d, x
  <2>4. rn = rx
    BY <2>1, <2>2, <2>3
  <2> QED BY <2>4 DEF rn, rx
<1> QED BY <1>5

\* The bytes of so many elements, an int, as a size_t.
LEMMA SizeWraps ==
    ASSUME NEW e \in Int, NEW b \in {1, 2, 4, 8}, NEW h \in Nat, 0 - h <= e
    PROVE  LET size == (b * (e % SizeMod)) % SizeMod
           IN  /\ 0 <= e => size <= b * e
               /\ 0 <= e /\ b * e < SizeMod => size = b * e
               /\ e < 0 => size >= SizeMod - 8 * h
<1> DEFINE s    == SizeMod
           size == (b * (e % s)) % s
<1>0. s \in Nat \ {0}
  BY WidthAssumption
<1> HIDE DEF s
<1>1. e % s \in Nat /\ b * (e % s) \in Nat /\ size \in Nat /\ size <= b * (e % s)
  <2>1. e % s \in Nat
    BY <1>0, Remainders
  <2>2. b * (e % s) \in Nat
    BY <2>1
  <2> QED BY <1>0, <2>1, <2>2, Remainders
<1>2. ASSUME 0 <= e PROVE size <= b * e
  <2>1. e % s <= e
    BY <1>0, <1>2, Remainders
  <2>2. \A x, y \in Nat : x <= y => b * x <= b * y
    OBVIOUS
  <2>3. b * (e % s) <= b * e
    BY <1>1, <1>2, <2>1, <2>2
  <2>4. \A x, y, z \in Nat : x <= y /\ y <= z => x <= z
    OBVIOUS
  <2>5. b * e \in Nat
    BY <1>2
  <2> HIDE DEF size
  <2> QED BY <1>1, <2>3, <2>4, <2>5
<1>3. ASSUME 0 <= e, b * e < s PROVE size = b * e
  <2>1. e <= b * e /\ b * e \in Nat
    BY <1>3
  <2>2. e < s
    BY <1>0, <1>3, <2>1
  <2>3. e % s = e
    BY <1>0, <1>3, <2>2, Remainders
  <2> QED BY <1>0, <1>3, <2>1, <2>3, Remainders
<1>4. ASSUME e < 0 PROVE size >= s - 8 * h
  <2>1. CASE s <= 8 * h
    <3> HIDE DEF size
    <3> QED BY <1>0, <1>1, <2>1
  <2>2. CASE 8 * h < s
    <3> DEFINE m == 0 - e
    <3>1. m \in Nat \ {0} /\ m <= h /\ e = 0 - m
      BY <1>4
    <3> HIDE DEF m
    <3>2. e % s = s - m
      <4>1. m < s
        BY <1>0, <2>2, <3>1
      <4> QED BY <1>0, <3>1, <4>1, Remainders
    <3>3. /\ b * m \in Nat \ {0} /\ b * m <= 8 * h
          /\ b * (s - m) = (0 - (b * m)) + b * s
      BY <1>0, <3>1
    <3>4. \A n, t \in Int : (n + t * s) % s = n % s
      BY <1>0, AddedMultiples
    <3>5. size = (0 - (b * m)) % s
      <4> DEFINE n == 0 - (b * m)
      <4>1. n \in Int /\ b * (e % s) = n + b * s
        BY <3>2, <3>3
      <4> HIDE DEF n
      <4>2. (n + b * s) % s = n % s
        BY <3>4, <4>1
      <4> QED BY <4>1, <4>2 DEF n
    <3>6. size = s - b * m
      <4>1. b * m < s
        BY <1>0, <2>2, <3>3
      <4> QED BY <1>0, <3>3, <3>5, <4>1, Remainders
    <3> HIDE DEF size
    <3> QED BY <1>0, <3>3, <3>6
  <2> QED BY <1>0, <2>1, <2>2
<1> QED BY <1>2, <1>3, <1>4 DEF s

\* For every descriptor that a rune may pass and every width of int and size_t: a
\* tensor whose elements fit an int is given its true size, and no overflow of
\* the product, no number too large for stoi and no conversion of a negative
\* count makes it look larger than it is, unless larger than any wasm memory
\* (Inference.cpp:34-45, 47-95).
THEOREM SizesOfDescriptors ==
    \A string \in TensorString : SizeIsTrue(string) /\ SizeIsNotOverstated(string)
<1> SUFFICES ASSUME NEW string \in TensorString
             PROVE  SizeIsTrue(string) /\ SizeIsNotOverstated(string)
  OBVIOUS
<1> DEFINE t     == string.prefix
           shape == string.numbers
           b     == BytesPerUnit(t)
           h     == IntMod \div 2
           tooLarge == \E i \in DOMAIN shape : shape[i] > IntMax
<1>1. /\ shape \in Seq(Nat) /\ DOMAIN shape = 1 .. Len(shape) /\ Len(shape) \in Nat
      /\ \A i \in DOMAIN shape : shape[i] \in Nat
  BY DEF TensorString
<1>2. /\ IntMod \in Nat /\ IntMod > 1 /\ h \in Nat /\ h > 0 /\ IntMax = h - 1 /\ IntMax \in Int
      /\ SizeMod \in Nat \ {0}
  BY WidthAssumption DEF IntMax
<1>3. ASSUME Describes(string)
      PROVE  /\ b \in {1, 2, 4, 8} /\ TrueWidth[t] \in Nat /\ b <= TrueWidth[t]
             /\ t # "c128" => b = TrueWidth[t]
             /\ t \in DataType
  <2>1. t \in {"b", "u8", "i8", "i16", "f16", "f32", "i32", "i64", "c64", "f64", "c128"}
    BY <1>3 DEF Describes, TrueWidth
  <2> QED BY <2>1 DEF BytesPerUnit, TrueWidth, DataType
<1>4. /\ Elements(shape) \in Int /\ Volume(shape) \in Nat
      /\ 0 - h <= Elements(shape)
      /\ 0 <= Elements(shape) => Elements(shape) <= Volume(shape)
      /\ Volume(shape) <= IntMax => Elements(shape) = Volume(shape)
      /\ (\A i \in 1 .. Len(shape) : shape[i] # 0) => Volume(shape) # 0
  BY <1>1, ElementsWrap
<1>5. ASSUME Describes(string), NEW d \in Descriptors(string)
      PROVE  \/ tooLarge /\ d = [dataType |-> "NoType", shape |-> <<>>]
             \/ ~tooLarge /\ d = [dataType |-> t, shape |-> shape]
  BY <1>3, <1>5 DEF Descriptors, Describes
<1>6. ASSUME Describes(string), NEW d, d = [dataType |-> t, shape |-> shape]
      PROVE  ByteCount(d) = (b * (Elements(shape) % SizeMod)) % SizeMod
  BY <1>6 DEF ByteCount
<1>7. ASSUME Describes(string)
      PROVE  /\ 0 <= Elements(shape) =>
                    (b * (Elements(shape) % SizeMod)) % SizeMod <= b * Elements(shape)
             /\ 0 <= Elements(shape) /\ b * Elements(shape) < SizeMod =>
                    (b * (Elements(shape) % SizeMod)) % SizeMod = b * Elements(shape)
             /\ Elements(shape) < 0 =>
                    (b * (Elements(shape) % SizeMod)) % SizeMod >= SizeMod - 8 * h
             /\ (b * (Elements(shape) % SizeMod)) % SizeMod \in Nat
  <2>1. b \in {1, 2, 4, 8}
    BY <1>3, <1>7
  <2> HIDE DEF b, h
  <2>2. Elements(shape) % SizeMod \in Nat
    BY <1>2, <1>4, Remainders
  <2>3. (b * (Elements(shape) % SizeMod)) % SizeMod \in Nat
    <3>1. b * (Elements(shape) % SizeMod) \in Nat
      BY <2>1, <2>2
    <3> QED BY <1>2, <3>1, Remainders
  <2> QED BY <1>2, <1>4, <2>1, <2>3, SizeWraps
<1>8. SizeIsTrue(string)
  <2> SUFFICES ASSUME Describes(string), t # "c128",
                      \A i \in DOMAIN shape : shape[i] <= IntMax,
                      Volume(shape) <= IntMax, TrueBytes(string) < SizeMod,
                      NEW d \in Descriptors(string)
               PROVE  ByteCount(d) = TrueBytes(string)
    BY DEF SizeIsTrue
  <2>1. d = [dataType |-> t, shape |-> shape]
    <3>1. ~tooLarge
      BY <1>1, <1>2
    <3> QED BY <1>5, <3>1
  <2>2. Elements(shape) = Volume(shape) /\ TrueBytes(string) = b * Elements(shape)
    BY <1>3, <1>4 DEF TrueBytes
  <2> QED BY <1>4, <1>6, <1>7, <2>1, <2>2
<1>9. SizeIsNotOverstated(string)
  <2> SUFFICES ASSUME Describes(string), \A i \in DOMAIN shape : shape[i] # 0,
                      NEW d \in Descriptors(string)
               PROVE  ByteCount(d) <= TrueBytes(string) \/ ByteCount(d) >= SizeMod - 8 * h
    BY DEF SizeIsNotOverstated
  <2>1. Volume(shape) \in Nat /\ Volume(shape) # 0 /\ TrueBytes(string) = TrueWidth[t] * Volume(shape)
    BY <1>1, <1>4 DEF TrueBytes
  <2>2. TrueWidth[t] \in Nat /\ b \in {1, 2, 4, 8} /\ b <= TrueWidth[t]
    BY <1>3
  <2>3. CASE d = [dataType |-> "NoType", shape |-> <<>>]
    <3>1. BytesPerUnit(d.dataType) = 1 /\ d.shape = <<>>
      BY <2>3 DEF BytesPerUnit
    <3>2. Elements(<<>>) = 1
      <4>1. Len(<<>>) = 0 /\ Len(<<>>) \in Nat
        OBVIOUS
      <4>2. PICK f : IsProducts(f, <<>>, 0) /\ Elements(<<>>) = f[0]
        BY <4>1, ElementsProducts
      <4> QED BY <4>2 DEF IsProducts
    <3>3. ByteCount(d) \in Nat /\ ByteCount(d) <= 1
      <4> DEFINE r == 1 % SizeMod
      <4>1. r \in Nat /\ r <= 1
        BY <1>2, Remainders
      <4>2. ByteCount(d) = (1 * r) % SizeMod
        BY <3>1, <3>2 DEF ByteCount
      <4> HIDE DEF r
      <4>3. 1 * r = r
        BY <4>1
      <4>4. r % SizeMod \in Nat /\ r % SizeMod <= r
        BY <1>2, <4>1, Remainders
      <4> QED BY <4>1, <4>2, <4>3, <4>4
    <3>4. \A x, y \in Nat : x >= 1 /\ y # 0 => x * y \in Nat /\ 1 <= x * y
      OBVIOUS
    <3>5. TrueBytes(string) \in Nat /\ 1 <= TrueBytes(string)
      <4> HIDE DEF b, shape, t
      <4> QED BY <2>1, <2>2, <3>4
    <3> QED BY <3>3, <3>5
  <2>4. CASE d = [dataType |-> t, shape |-> shape]
    <3> DEFINE size == ByteCount(d)
               e    == Elements(shape)
    <3>1. /\ 0 <= e => size <= b * e
          /\ e < 0 => size >= SizeMod - 8 * h
          /\ size \in Nat /\ e \in Int /\ 0 <= e => e <= Volume(shape)
      BY <1>4, <1>6, <1>7, <2>4
    <3>2. \A w, x, y \in Nat : b <= w /\ x <= y => b * x \in Nat /\ w * y \in Nat /\ b * x <= w * y
      <4>1. ASSUME NEW w \in Nat, NEW x \in Nat, NEW y \in Nat, b <= w, x <= y
            PROVE  b * x \in Nat /\ w * y \in Nat /\ b * x <= w * y
        <5> HIDE DEF b
        <5>1. b * x <= b * y /\ b * x \in Nat /\ b * y \in Nat
          BY <2>2, <4>1
        <5>2. b * y <= w * y /\ w * y \in Nat
          BY <2>2, <4>1
        <5> QED BY <5>1, <5>2
      <4> QED BY <4>1
    <3> HIDE DEF size, e, b, h, shape, t
    <3>3. e \in Int /\ size \in Nat
      BY <1>4, <1>6, <1>7, <2>4 DEF e, size, shape, t, b
    <3>4. CASE 0 <= e
      <4>1. /\ size <= b * e /\ b * e <= TrueBytes(string)
            /\ b * e \in Nat /\ TrueBytes(string) \in Nat
        BY <2>1, <2>2, <3>1, <3>2, <3>3, <3>4
      <4> QED BY <3>3, <4>1 DEF size
    <3>5. CASE e < 0
      BY <3>1, <3>5 DEF size
    <3> QED BY <3>3, <3>4, <3>5
  <2> QED BY <1>5, <2>3, <2>4
<1> QED BY <1>8, <1>9

LEMMA ParsesAreSizes ==
    ASSUME NEW strings \in Seq(TensorString), NEW p \in Parses(strings)
    PROVE  p \in Seq(ByteSize)
<1> DEFINE Sizes(i) == {ByteCount(d) : d \in Descriptors(strings[i])}
<1>1. p \in [DOMAIN strings -> UNION {Sizes(i) : i \in DOMAIN strings}]
      /\ \A i \in DOMAIN strings : p[i] \in Sizes(i)
  BY DEF Parses
<1>2. DOMAIN strings = 1 .. Len(strings) /\ Len(strings) \in Nat
      /\ \A i \in DOMAIN strings : strings[i] \in TensorString
  OBVIOUS
<1>3. \A i \in DOMAIN strings : Sizes(i) \subseteq ByteSize
  BY <1>2, ByteCountIsSize
<1>4. p = [i \in 1 .. Len(strings) |-> p[i]] /\ \A i \in 1 .. Len(strings) : p[i] \in ByteSize
  <2> HIDE DEF Sizes
  <2> QED BY <1>1, <1>2, <1>3
<1> QED BY <1>2, <1>4

-----------------------------------------------------------------------------
(* The shape of the cache *)

\* A model has the tensors of its file and some list of descriptors.
IsModel(m) ==
    /\ m = [blob |-> m.blob, inputDescriptors |-> m.inputDescriptors,
            outputDescriptors |-> m.outputDescriptors, inputs |-> m.inputs]
    /\ m.blob \in DOMAIN TensorSizes
    /\ IsTuple(m.inputDescriptors) /\ IsTuple(m.outputDescriptors)
    /\ DOMAIN m.inputs = DOMAIN TensorSizes[m.blob].inputs

\* Until the ids wrap, the counter is the number of loads and the ids in use
\* are those before it.
Shape ==
    /\ loads \in Nat /\ runs \in Nat
    /\ m_idCounter \in ModelId
    /\ loads < IdMod => m_idCounter = loads
    /\ IdsAreDense
    /\ \A id \in Loaded : IsModel(m_models[id])

SameModel(m, n) ==
    /\ n.blob = m.blob
    /\ n.inputDescriptors = m.inputDescriptors
    /\ n.outputDescriptors = m.outputDescriptors

LEMMA SizesAreTuples ==
    ASSUME NEW blob \in DOMAIN TensorSizes
    PROVE  /\ TensorSizes[blob].inputs \in Seq(Nat) /\ TensorSizes[blob].outputs \in Seq(Nat)
           /\ IsTuple(TensorSizes[blob].inputs) /\ IsTuple(TensorSizes[blob].outputs)
           /\ DOMAIN TensorSizes[blob].inputs = 1 .. Len(TensorSizes[blob].inputs)
<1>1. TensorSizes[blob] \in [inputs : Seq(Nat), outputs : Seq(Nat)]
  BY ModelAssumption
<1>2. TensorSizes[blob].inputs \in Seq(Nat) /\ TensorSizes[blob].outputs \in Seq(Nat)
  BY <1>1
<1> QED BY <1>2, SequenceIsTuple

LEMMA ParsesAreTuples ==
    ASSUME NEW strings \in Seq(TensorString), NEW p \in Parses(strings)
    PROVE  IsTuple(p)
BY ParsesAreSizes, SequenceIsTuple

LEMMA NextIdType ==
    ASSUME m_idCounter \in ModelId
    PROVE  /\ NextId \in ModelId
           /\ m_idCounter + 1 < IdMod => NextId = m_idCounter + 1
<1>1. IdMod \in Nat /\ IdMod > 0 /\ m_idCounter \in Nat /\ m_idCounter < IdMod
  BY ModelAssumption DEF ModelId
<1>2. CASE m_idCounter = IdMod - 1
  BY <1>1, <1>2 DEF ModelId, NextId
<1>3. CASE m_idCounter # IdMod - 1
  BY <1>1, <1>3 DEF ModelId, NextId
<1> QED BY <1>2, <1>3

\* A load adds one model; until the ids wrap it replaces none.
LEMMA LoadStep ==
    ASSUME Shape, NEW blob, NEW ins, NEW outs, IsTuple(ins), IsTuple(outs),
           LoadModel(blob, ins, outs), runs' = runs
    PROVE  /\ Shape'
           /\ loads' = loads + 1
           /\ loads < IdMod =>
                \A id \in Loaded : id \in Loaded' /\ m_models'[id] = m_models[id]
<1> DEFINE new == [blob |-> blob, inputDescriptors |-> ins, outputDescriptors |-> outs,
                   inputs |-> [i \in DOMAIN TensorSizes[blob].inputs |-> NoRun]]
<1>1. /\ blob \in DOMAIN TensorSizes
      /\ m_models' = With(m_models, m_idCounter, new)
      /\ m_idCounter' = NextId
      /\ loads' = loads + 1
  BY DEF LoadModel
<1>2. IsModel(new)
  BY <1>1 DEF IsModel
<1>3. /\ Loaded' = Loaded \cup {m_idCounter}
      /\ \A id \in Loaded' : m_models'[id] = IF id = m_idCounter THEN new ELSE m_models[id]
  <2> HIDE DEF new
  <2> QED BY <1>1 DEF With, Loaded
<1>4. IdMod \in Nat /\ loads \in Nat /\ m_idCounter \in Nat /\ m_idCounter < IdMod
  BY ModelAssumption DEF Shape, ModelId
<1>5. loads < IdMod => m_idCounter \notin Loaded
  BY <1>4 DEF Shape, IdsAreDense
<1>6. m_idCounter' \in ModelId /\ (loads' < IdMod => m_idCounter' = loads')
  BY <1>1, <1>4, NextIdType DEF Shape
<1>7. loads' <= IdMod => Loaded' = 0 .. (loads' - 1)
  BY <1>1, <1>3, <1>4 DEF Shape, IdsAreDense
<1>8. \A id \in Loaded' : IsModel(m_models'[id])
  <2> HIDE DEF new
  <2> QED BY <1>2, <1>3 DEF Shape
<1>9. Shape'
  <2>1. runs' \in Nat /\ loads' \in Nat
    BY <1>1, <1>4 DEF Shape
  <2> QED BY <2>1, <1>6, <1>7, <1>8 DEF Shape, IdsAreDense, IsModel, IsTuple
<1> QED BY <1>1, <1>3, <1>5, <1>9

\* An inference touches the inputs of one model; when it succeeds, the views
\* were all as large as the tensors and every output is of this run.
LEMMA RunStep ==
    ASSUME Shape, NEW via, NEW id \in Loaded, NEW ins, NEW outs,
           IsTuple(ins), IsTuple(outs), Run(via, id, ins, outs)
    PROVE  /\ Loaded' = Loaded
           /\ \A other \in Loaded : /\ IsModel(m_models'[other])
                                    /\ SameModel(m_models[other], m_models'[other])
           /\ answer'.ok =>
                /\ answer'.via = via /\ answer'.id = id
                /\ ins = TensorSizes[m_models[id].blob].inputs
                /\ outs = TensorSizes[m_models[id].blob].outputs
                /\ DOMAIN answer'.written = 1 .. Len(outs)
                /\ Len(answer'.written) = Len(outs)
                /\ \A j \in 1 .. Len(outs) : answer'.written[j] = {runs + 1}
<1> DEFINE sizes    == TensorSizes[m_models[id].blob]
           nInputs  == Handled(ins, sizes.inputs)
           nOutputs == Handled(outs, sizes.outputs)
           copied   == Copied(m_models[id].inputs, nInputs)
           done     == [ok |-> nOutputs = Len(outs), via |-> via, id |-> id,
                        written |-> [j \in 1 .. nOutputs |-> {copied[i] : i \in DOMAIN copied}]]
<1>1. IsModel(m_models[id])
  BY DEF Shape
<1>2. DOMAIN copied = DOMAIN m_models[id].inputs
  BY DEF Copied
<1>3. CASE UNCHANGED m_models /\ answer' = Failed
  BY <1>3 DEF Shape, SameModel, Loaded, Failed
<1>4. ASSUME m_models' = [m_models EXCEPT ![id].inputs = copied]
      PROVE  /\ Loaded' = Loaded
             /\ \A other \in Loaded : /\ IsModel(m_models'[other])
                                      /\ SameModel(m_models[other], m_models'[other])
  <2> HIDE DEF copied
  <2>1. Loaded' = Loaded /\ \A other \in Loaded \ {id} : m_models'[other] = m_models[other]
    BY <1>4 DEF Loaded
  <2>2. m_models'[id] = [m_models[id] EXCEPT !.inputs = copied]
    BY <1>4 DEF Loaded
  <2>3. /\ m_models'[id] = [blob |-> m_models[id].blob,
                            inputDescriptors |-> m_models[id].inputDescriptors,
                            outputDescriptors |-> m_models[id].outputDescriptors,
                            inputs |-> copied]
    BY <2>2, <1>1 DEF IsModel
  <2>4. IsModel(m_models'[id]) /\ SameModel(m_models[id], m_models'[id])
    BY <2>3, <1>1, <1>2 DEF IsModel, SameModel
  <2> QED BY <2>1, <2>4 DEF Shape, SameModel
<1>5. ASSUME ins # <<>>, Len(ins) = Len(sizes.inputs),
             outs # <<>>, Len(outs) = Len(sizes.outputs),
             nInputs = Len(ins),
             nOutputs = Len(outs),
             answer' = done
      PROVE  /\ answer'.via = via /\ answer'.id = id
             /\ ins = TensorSizes[m_models[id].blob].inputs
             /\ outs = TensorSizes[m_models[id].blob].outputs
             /\ DOMAIN answer'.written = 1 .. Len(outs)
             /\ Len(answer'.written) = Len(outs)
             /\ \A j \in 1 .. Len(outs) : answer'.written[j] = {runs + 1}
  <2>1. IsTuple(sizes.inputs) /\ IsTuple(sizes.outputs)
        /\ DOMAIN sizes.inputs = 1 .. Len(sizes.inputs)
    BY <1>1, SizesAreTuples DEF IsModel
  <2>2. ins = sizes.inputs
    BY <2>1, <1>5, HandledAll, EqualTuples
  <2>3. outs = sizes.outputs
    BY <2>1, <1>5, HandledAll, EqualTuples
  <2>4. Len(ins) \in Nat /\ Len(ins) > 0 /\ Len(outs) \in Nat
    BY <1>5, NotEmpty DEF IsTuple
  <2>5. DOMAIN m_models[id].inputs = 1 .. Len(ins)
    BY <1>1, <2>1, <2>2 DEF IsModel
  <2>6. copied = [i \in 1 .. Len(ins) |-> runs + 1]
    BY <1>5, <2>4, <2>5 DEF Copied
  <2>7. {copied[i] : i \in DOMAIN copied} = {runs + 1}
    <3> HIDE DEF copied
    <3>1. 1 \in 1 .. Len(ins)
      BY <2>4
    <3> QED BY <2>6, <3>1
  <2>8. answer'.written = [j \in 1 .. Len(outs) |-> {runs + 1}]
    <3> HIDE DEF copied
    <3> QED BY <1>5, <2>7
  <2>9. Len(answer'.written) = Len(outs)
    BY <2>4, <2>8
  <2> QED BY <1>5, <2>2, <2>3, <2>8, <2>9
<1>6. \/ UNCHANGED m_models /\ answer' = Failed
      \/ answer' = Failed /\ m_models' = [m_models EXCEPT ![id].inputs = copied]
      \/ /\ ins # <<>> /\ Len(ins) = Len(sizes.inputs)
         /\ outs # <<>> /\ Len(outs) = Len(sizes.outputs)
         /\ nInputs = Len(ins)
         /\ m_models' = [m_models EXCEPT ![id].inputs = copied]
         /\ answer' = done
  BY DEF Run
<1>7. done.ok = (nOutputs = Len(outs))
  OBVIOUS
<1>8. ~Failed.ok
  BY DEF Failed
<1> HIDE DEF copied, done, nInputs, nOutputs, sizes
<1> QED BY <1>3, <1>4, <1>5, <1>6, <1>7, <1>8

\* A failed load writes descriptors into a model only once its id is as large
\* as the error code.
LEMMA DescribeStep ==
    ASSUME Shape, RC_InputError \in Loaded, NEW ins, NEW outs, IsTuple(ins), IsTuple(outs),
           m_models' = [m_models EXCEPT ![RC_InputError].inputDescriptors  = ins,
                                        ![RC_InputError].outputDescriptors = outs]
    PROVE  /\ loads > IdMod - 2
           /\ Loaded' = Loaded
           /\ \A id \in Loaded : IsModel(m_models'[id]) /\ m_models'[id].blob = m_models[id].blob
<1>1. /\ Loaded' = Loaded
      /\ \A id \in Loaded \ {RC_InputError} : m_models'[id] = m_models[id]
      /\ m_models'[RC_InputError] = [m_models[RC_InputError] EXCEPT !.inputDescriptors = ins,
                                                                   !.outputDescriptors = outs]
  BY DEF Loaded
<1>2. IsModel(m_models[RC_InputError])
  BY DEF Shape
<1>3. /\ IsModel(m_models'[RC_InputError])
      /\ m_models'[RC_InputError].blob = m_models[RC_InputError].blob
  <2> DEFINE m == m_models[RC_InputError]
             n == m_models'[RC_InputError]
  <2>1. m = [blob |-> m.blob, inputDescriptors |-> m.inputDescriptors,
             outputDescriptors |-> m.outputDescriptors, inputs |-> m.inputs]
    BY <1>2 DEF IsModel
  <2>2. n = [m EXCEPT !.inputDescriptors = ins, !.outputDescriptors = outs]
    BY <1>1
  <2> HIDE DEF m, n
  <2>3. n = [blob |-> m.blob, inputDescriptors |-> ins,
             outputDescriptors |-> outs, inputs |-> m.inputs]
    BY <2>1, <2>2
  <2>4. IsModel(m) => IsModel(n) /\ n.blob = m.blob
    BY <2>3 DEF IsModel
  <2> QED BY <2>4, <1>2 DEF m, n
<1>4. loads > IdMod - 2
  BY ModelAssumption DEF Shape, IdsAreDense, RC_InputError
<1> QED BY <1>1, <1>3, <1>4 DEF Shape

-----------------------------------------------------------------------------
(* The invariant *)

\* What the last answer says holds of the model its id denotes, and it does
\* until the ids wrap.
AnswerInv ==
    answer.ok /\ loads <= IdMod =>
        /\ answer.id \in Loaded
        /\ FreshOutputs

IInv == Shape /\ AnswerInv /\ OnlyTrueDescriptionsRun

LEMMA InvInit == Init => IInv
BY ModelAssumption DEF Init, IInv, Shape, AnswerInv, OnlyTrueDescriptionsRun, IdsAreDense,
    Failed, Loaded, ModelId

\* What a load does, whether it succeeds or fails.
Loads ==
    /\ UNCHANGED <<runs, answer>>
    /\ \/ \E blob, ins, outs : IsTuple(ins) /\ IsTuple(outs) /\ LoadModel(blob, ins, outs)
       \/ /\ RC_InputError \in Loaded
          /\ UNCHANGED <<m_idCounter, loads>>
          /\ \E ins, outs : /\ IsTuple(ins) /\ IsTuple(outs)
                           /\ m_models' = [m_models EXCEPT
                                 ![RC_InputError].inputDescriptors  = ins,
                                 ![RC_InputError].outputDescriptors = outs]
       \/ UNCHANGED <<m_models, m_idCounter, loads>>

\* What an inference does.
Infers ==
    /\ UNCHANGED <<m_idCounter, loads>>
    /\ runs' = runs + 1
    /\ \/ Refuse
       \/ \E id \in Loaded :
             \/ \E ins, outs : IsTuple(ins) /\ IsTuple(outs) /\ Run("tfm", id, ins, outs)
             \/ Run("rune", id, m_models[id].inputDescriptors, m_models[id].outputDescriptors)

LEMMA NextIsLoadOrInference == Next => Loads \/ Infers
<1> SUFFICES ASSUME Next PROVE Loads \/ Infers
  OBVIOUS
<1>1. IsTuple(<<>>) /\ \A x : IsTuple(<<x>>)
  BY DEF IsTuple
<1>2. ASSUME NEW blob \in Blob, TfmPreloadModel(blob)
      PROVE  Loads
  BY <1>1, <1>2 DEF TfmPreloadModel, Loads
<1>3. ASSUME NEW blob \in Blob, NEW description \in Descriptions,
             RuneModelLoad(blob, description[1], description[2])
      PROVE  Loads
  <2>1. description[1] \in Seq(TensorString) /\ description[2] \in Seq(TensorString)
    BY ModelAssumption
  <2>2. PICK ins \in Parses(description[1]), outs \in Parses(description[2]) :
          \/ LoadModel(blob, ins, outs)
          \/ /\ RC_InputError \in Loaded
             /\ m_models' = [m_models EXCEPT ![RC_InputError].inputDescriptors  = ins,
                                             ![RC_InputError].outputDescriptors = outs]
             /\ UNCHANGED <<m_idCounter, loads>>
          \/ UNCHANGED <<m_models, m_idCounter, loads>>
    BY <1>3 DEF RuneModelLoad
  <2>3. IsTuple(ins) /\ IsTuple(outs)
    BY <2>1, <2>2, ParsesAreTuples
  <2>4. UNCHANGED <<runs, answer>>
    BY <1>3 DEF RuneModelLoad
  <2> QED BY <2>2, <2>3, <2>4 DEF Loads
<1>4. ASSUME NEW id \in ModelId, NEW input \in ViewSize, NEW output \in ViewSize,
             TfmModelInvoke(id, input, output)
      PROVE  Infers
  BY <1>1, <1>4 DEF TfmModelInvoke, Infers
<1>5. ASSUME NEW id \in ModelId, RuneModelInfer(id)
      PROVE  Infers
  BY <1>5 DEF RuneModelInfer, Infers
<1> QED BY <1>2, <1>3, <1>4, <1>5 DEF Next

\* Until the ids wrap, a load leaves the models where they are, and until there
\* is an id that equals the error code, as they are.
LEMMA LoadsKeep ==
    ASSUME Shape, Loads
    PROVE  /\ Shape' /\ loads <= loads'
           /\ loads' <= IdMod =>
                \A id \in Loaded : id \in Loaded' /\ m_models'[id].blob = m_models[id].blob
           /\ loads' <= IdMod - 2 =>
                \A id \in Loaded : id \in Loaded' /\ SameModel(m_models[id], m_models'[id])
<1>1. IdMod \in Nat /\ loads \in Nat
  BY ModelAssumption DEF Shape
<1>2. CASE \E blob, ins, outs : IsTuple(ins) /\ IsTuple(outs) /\ LoadModel(blob, ins, outs)
  <2>1. PICK blob, ins, outs : IsTuple(ins) /\ IsTuple(outs) /\ LoadModel(blob, ins, outs)
    BY <1>2
  <2>2. runs' = runs
    BY DEF Loads
  <2> QED BY <1>1, <2>1, <2>2, LoadStep DEF SameModel
<1>3. CASE /\ RC_InputError \in Loaded
           /\ UNCHANGED <<m_idCounter, loads>>
           /\ \E ins, outs : /\ IsTuple(ins) /\ IsTuple(outs)
                            /\ m_models' = [m_models EXCEPT
                                  ![RC_InputError].inputDescriptors  = ins,
                                  ![RC_InputError].outputDescriptors = outs]
  <2>1. /\ loads > IdMod - 2
        /\ Loaded' = Loaded
        /\ \A id \in Loaded : IsModel(m_models'[id]) /\ m_models'[id].blob = m_models[id].blob
    BY <1>3, DescribeStep
  <2>2. Shape'
    BY <1>3, <2>1 DEF Shape, IdsAreDense, Loads, IsModel, IsTuple
  <2>3. loads' = loads /\ ~(loads' <= IdMod - 2)
    BY <1>1, <1>3, <2>1
  <2>4. loads <= loads'
    BY <1>1, <2>3
  <2> QED BY <2>1, <2>2, <2>3, <2>4
<1>4. CASE UNCHANGED <<m_models, m_idCounter, loads>>
  <2>1. Shape'
    BY <1>4 DEF Shape, IdsAreDense, Loads, Loaded, IsModel, IsTuple
  <2>2. loads' = loads /\ Loaded' = Loaded /\ \A id \in Loaded : m_models'[id] = m_models[id]
    BY <1>4 DEF Loaded
  <2> QED BY <1>1, <2>1, <2>2 DEF SameModel
<1> QED BY <1>2, <1>3, <1>4 DEF Loads

LEMMA InfersKeep ==
    ASSUME Shape, Infers
    PROVE  /\ Shape' /\ loads' = loads
           /\ Loaded' = Loaded
           /\ \A id \in Loaded : SameModel(m_models[id], m_models'[id])
<1>1. CASE Refuse
  BY <1>1 DEF Refuse, Infers, Shape, IdsAreDense, Loaded, IsModel, IsTuple, SameModel
<1>2. CASE ~Refuse
  <2>1. \A id \in Loaded : /\ IsTuple(m_models[id].inputDescriptors)
                           /\ IsTuple(m_models[id].outputDescriptors)
    BY DEF Shape, IsModel
  <2>2. \E id \in Loaded : \E via, ins, outs :
          IsTuple(ins) /\ IsTuple(outs) /\ Run(via, id, ins, outs)
    BY ONLY <1>2, <2>1, Infers DEF Infers
  <2>3. PICK id \in Loaded : \E via, ins, outs :
          IsTuple(ins) /\ IsTuple(outs) /\ Run(via, id, ins, outs)
    BY <2>2
  <2>4. /\ Loaded' = Loaded
        /\ \A other \in Loaded : /\ IsModel(m_models'[other])
                                 /\ SameModel(m_models[other], m_models'[other])
    BY <2>3, RunStep
  <2>5. Shape'
    BY <2>4 DEF Infers, Shape, IdsAreDense, IsModel, IsTuple
  <2> QED BY <2>4, <2>5 DEF Infers
<1> QED BY <1>1, <1>2

LEMMA InvStep == IInv /\ [Next]_vars => IInv'
<1> SUFFICES ASSUME IInv, [Next]_vars PROVE IInv'
  OBVIOUS
<1>0. IdMod \in Nat /\ loads \in Nat
  BY ModelAssumption DEF IInv, Shape
<1>1. CASE Loads
  <2>1. /\ Shape' /\ loads <= loads' /\ loads' \in Nat
        /\ loads' <= IdMod =>
             \A id \in Loaded : id \in Loaded' /\ m_models'[id].blob = m_models[id].blob
        /\ loads' <= IdMod - 2 =>
             \A id \in Loaded : id \in Loaded' /\ SameModel(m_models[id], m_models'[id])
    BY <1>1, LoadsKeep DEF IInv, Shape
  <2>2. answer' = answer /\ runs' = runs
    BY <1>1 DEF Loads
  <2>3. AnswerInv'
    BY <1>0, <2>1, <2>2 DEF IInv, AnswerInv, FreshOutputs
  <2>4. OnlyTrueDescriptionsRun'
    BY <1>0, <2>1, <2>2 DEF IInv, AnswerInv, OnlyTrueDescriptionsRun, SameModel
  <2> QED BY <2>1, <2>3, <2>4 DEF IInv
<1>2. CASE Infers
  <2>1. Shape' /\ loads' = loads /\ runs' = runs + 1
    BY <1>2, InfersKeep DEF IInv, Infers
  <2>2. CASE Refuse
    <3>1. ~answer'.ok
      BY <2>2 DEF Refuse, Failed
    <3> QED BY <2>1, <3>1 DEF IInv, AnswerInv, OnlyTrueDescriptionsRun
  <2>3. ASSUME NEW id \in Loaded, NEW ins, NEW outs, IsTuple(ins), IsTuple(outs),
               NEW via, Run(via, id, ins, outs),
               via = "rune" => /\ ins = m_models[id].inputDescriptors
                               /\ outs = m_models[id].outputDescriptors
        PROVE  IInv'
    <3> DEFINE sizes == TensorSizes[m_models[id].blob]
    <3>1. /\ Loaded' = Loaded
          /\ SameModel(m_models[id], m_models'[id])
          /\ answer'.ok =>
               /\ answer'.via = via /\ answer'.id = id
               /\ ins = sizes.inputs /\ outs = sizes.outputs
               /\ DOMAIN answer'.written = 1 .. Len(outs)
               /\ Len(answer'.written) = Len(outs)
               /\ \A j \in 1 .. Len(outs) : answer'.written[j] = {runs + 1}
      BY <2>3, RunStep DEF IInv
    <3>2. AnswerInv'
      BY <2>1, <3>1 DEF AnswerInv, FreshOutputs, SameModel
    <3>3. OnlyTrueDescriptionsRun'
      BY <2>3, <3>1 DEF OnlyTrueDescriptionsRun, SameModel
    <3> QED BY <2>1, <3>2, <3>3 DEF IInv
  <2>4. ASSUME NEW id \in Loaded, NEW ins, NEW outs, IsTuple(ins), IsTuple(outs),
               Run("tfm", id, ins, outs)
        PROVE  IInv'
    BY <2>3, <2>4
  <2>5. ASSUME NEW id \in Loaded,
               Run("rune", id, m_models[id].inputDescriptors, m_models[id].outputDescriptors)
        PROVE  IInv'
    <3>1. IsTuple(m_models[id].inputDescriptors) /\ IsTuple(m_models[id].outputDescriptors)
      BY DEF IInv, Shape, IsModel
    <3> QED BY <2>3, <2>5, <3>1
  <2> QED BY <1>2, <2>2, <2>4, <2>5 DEF Infers
<1>3. CASE UNCHANGED vars
  BY <1>3 DEF vars, IInv, Shape, AnswerInv, FreshOutputs, OnlyTrueDescriptionsRun, IdsAreDense,
      Loaded, IsModel, IsTuple
<1> QED BY <1>1, <1>2, <1>3, NextIsLoadOrInference

LEMMA Invariant == Spec => []IInv
BY InvInit, InvStep, PTL DEF Spec

-----------------------------------------------------------------------------
(* Types *)

\* A model as it is typed after r runs.
ModelAfter(r) ==
    {m \in [blob : DOMAIN TensorSizes,
            inputDescriptors : Seq(ByteSize), outputDescriptors : Seq(ByteSize),
            inputs : Seq(0 .. r)] :
        DOMAIN m.inputs = DOMAIN TensorSizes[m.blob].inputs}

LEMMA Later ==
    ASSUME runs \in Nat
    PROVE  /\ Seq(0 .. runs) \subseteq Seq(0 .. (runs + 1))
           /\ ModelAfter(runs) \subseteq ModelAfter(runs + 1)
<1>1. 0 .. runs \subseteq 0 .. (runs + 1)
  OBVIOUS
<1>2. Seq(0 .. runs) \subseteq Seq(0 .. (runs + 1))
  BY <1>1
<1> QED BY <1>2 DEF ModelAfter

LEMMA LoadKeepsType ==
    ASSUME TypeOK, NEW blob, NEW ins \in Seq(ByteSize), NEW outs \in Seq(ByteSize),
           LoadModel(blob, ins, outs), UNCHANGED <<runs, answer>>
    PROVE  TypeOK'
<1> DEFINE new == [blob |-> blob, inputDescriptors |-> ins, outputDescriptors |-> outs,
                   inputs |-> [i \in DOMAIN TensorSizes[blob].inputs |-> NoRun]]
<1>1. /\ blob \in DOMAIN TensorSizes
      /\ m_models' = With(m_models, m_idCounter, new)
      /\ m_idCounter' = NextId
      /\ loads' = loads + 1
  BY DEF LoadModel
<1>2. new \in Model
  <2>1. runs \in Nat /\ NoRun \in 0 .. runs
    BY DEF TypeOK, NoRun
  <2>2. Len(TensorSizes[blob].inputs) \in Nat
        /\ DOMAIN TensorSizes[blob].inputs = 1 .. Len(TensorSizes[blob].inputs)
    BY <1>1, SizesAreTuples
  <2>3. new.inputs \in Seq(0 .. runs)
    BY <2>1, <2>2
  <2> QED BY <1>1, <2>3 DEF Model
<1>3. Loaded' = Loaded \cup {m_idCounter} /\ m_models' \in [Loaded' -> Model]
  <2> HIDE DEF new
  <2> QED BY <1>1, <1>2 DEF TypeOK, With, Loaded
<1>4. m_idCounter' \in ModelId /\ m_idCounter \in ModelId
  BY <1>1, NextIdType DEF TypeOK
<1>5. Model' = Model
  BY DEF Model
<1>6. Loaded' \subseteq ModelId /\ loads' \in Nat
  BY <1>1, <1>3, <1>4 DEF TypeOK
<1> HIDE DEF new
<1> QED BY <1>3, <1>4, <1>5, <1>6 DEF TypeOK

LEMMA DescribeKeepsType ==
    ASSUME TypeOK, RC_InputError \in Loaded, NEW ins \in Seq(ByteSize), NEW outs \in Seq(ByteSize),
           m_models' = [m_models EXCEPT ![RC_InputError].inputDescriptors  = ins,
                                        ![RC_InputError].outputDescriptors = outs],
           UNCHANGED <<m_idCounter, loads, runs, answer>>
    PROVE  TypeOK'
<1> DEFINE m == m_models[RC_InputError]
           n == [m EXCEPT !.inputDescriptors = ins, !.outputDescriptors = outs]
<1>1. n \in Model
  <2>1. m \in Model
    BY DEF TypeOK
  <2> HIDE DEF m
  <2> QED BY <2>1 DEF Model
<1>2. m_models' = [m_models EXCEPT ![RC_InputError] = n]
  BY DEF TypeOK
<1>3. Loaded' = Loaded /\ m_models' \in [Loaded -> Model]
  <2> HIDE DEF n
  <2> QED BY <1>1, <1>2 DEF TypeOK, Loaded
<1>4. Model' = Model
  BY DEF Model
<1> QED BY <1>3, <1>4 DEF TypeOK

LEMMA RunKeepsType ==
    ASSUME TypeOK, NEW via \in {"none", "tfm", "rune"}, NEW id \in Loaded,
           NEW ins, NEW outs, IsTuple(ins), IsTuple(outs),
           Run(via, id, ins, outs), runs' = runs + 1, UNCHANGED <<m_idCounter, loads>>
    PROVE  TypeOK'
<1> DEFINE sizes    == TensorSizes[m_models[id].blob]
           nInputs  == Handled(ins, sizes.inputs)
           nOutputs == Handled(outs, sizes.outputs)
           copied   == Copied(m_models[id].inputs, nInputs)
           done     == [ok |-> nOutputs = Len(outs), via |-> via, id |-> id,
                        written |-> [j \in 1 .. nOutputs |-> {copied[i] : i \in DOMAIN copied}]]
           Answer(r) == [ok : BOOLEAN, via : {"none", "tfm", "rune"}, id : ModelId,
                         written : Seq(SUBSET (0 .. r))]
<1>1. runs \in Nat /\ Seq(0 .. runs) \subseteq Seq(0 .. (runs + 1))
      /\ ModelAfter(runs) \subseteq ModelAfter(runs + 1)
  BY Later DEF TypeOK
<1>2. Model = ModelAfter(runs) /\ Model' = ModelAfter(runs + 1)
  BY DEF Model, ModelAfter
<1>3. m_models \in [Loaded -> ModelAfter(runs + 1)] /\ m_models[id] \in ModelAfter(runs)
  BY <1>1, <1>2 DEF TypeOK
<1>4. copied \in Seq(0 .. (runs + 1))
  <2>1. m_models[id].inputs \in Seq(0 .. runs)
    BY <1>3 DEF ModelAfter
  <2>2. \A i \in DOMAIN m_models[id].inputs :
           (IF i <= nInputs THEN runs + 1 ELSE m_models[id].inputs[i]) \in 0 .. (runs + 1)
    BY <1>1, <2>1
  <2>3. DOMAIN m_models[id].inputs = 1 .. Len(m_models[id].inputs)
        /\ Len(m_models[id].inputs) \in Nat
    BY <2>1
  <2> QED BY <2>2, <2>3 DEF Copied
<1>5. ASSUME m_models' = [m_models EXCEPT ![id].inputs = copied]
      PROVE  Loaded' = Loaded /\ m_models' \in [Loaded -> ModelAfter(runs + 1)]
  <2> DEFINE n == [m_models[id] EXCEPT !.inputs = copied]
  <2>0. DOMAIN copied = DOMAIN m_models[id].inputs
    BY DEF Copied
  <2> HIDE DEF copied
  <2>1. n \in ModelAfter(runs + 1)
    <3> DEFINE m == m_models[id]
    <3>1. /\ m \in [blob : DOMAIN TensorSizes,
                    inputDescriptors : Seq(ByteSize), outputDescriptors : Seq(ByteSize),
                    inputs : Seq(0 .. runs)]
          /\ DOMAIN m.inputs = DOMAIN TensorSizes[m.blob].inputs
      BY <1>3 DEF ModelAfter
    <3> HIDE DEF m
    <3>2. LET k == [m EXCEPT !.inputs = copied]
          IN /\ k \in [blob : DOMAIN TensorSizes,
                       inputDescriptors : Seq(ByteSize), outputDescriptors : Seq(ByteSize),
                       inputs : Seq(0 .. (runs + 1))]
             /\ k.blob = m.blob /\ k.inputs = copied
      BY <1>4, <3>1
    <3>3. n = [m EXCEPT !.inputs = copied] /\ DOMAIN copied = DOMAIN m.inputs
      BY <2>0 DEF m
    <3> QED BY <3>1, <3>2, <3>3 DEF ModelAfter
  <2>2. m_models' = [m_models EXCEPT ![id] = n]
    BY <1>5
  <2> HIDE DEF n
  <2> QED BY <1>3, <2>1, <2>2 DEF Loaded
<1>6. done \in Answer(runs + 1)
  <2>1. nOutputs \in 0 .. Len(outs) /\ Len(outs) \in Nat
    BY HandledStops DEF IsTuple
  <2>2. {copied[i] : i \in DOMAIN copied} \in SUBSET (0 .. (runs + 1))
    <3> HIDE DEF copied
    <3> QED BY <1>4
  <2>3. id \in ModelId
    BY DEF TypeOK
  <2> HIDE DEF copied, nOutputs
  <2>4. done.written \in Seq(SUBSET (0 .. (runs + 1)))
    BY <2>1, <2>2
  <2> QED BY <2>3, <2>4
<1>7. Failed \in Answer(runs + 1)
  BY ModelAssumption DEF Failed, ModelId
<1>8. \/ UNCHANGED m_models /\ answer' = Failed
      \/ answer' = Failed /\ m_models' = [m_models EXCEPT ![id].inputs = copied]
      \/ m_models' = [m_models EXCEPT ![id].inputs = copied] /\ answer' = done
  BY DEF Run
<1>9. UNCHANGED m_models => Loaded' = Loaded /\ m_models' \in [Loaded -> ModelAfter(runs + 1)]
  BY <1>3 DEF Loaded
<1> HIDE DEF copied, done, nInputs, nOutputs, sizes
<1>10. answer' \in Answer(runs + 1)
  BY <1>6, <1>7, <1>8
<1>11. Loaded' = Loaded /\ m_models' \in [Loaded -> ModelAfter(runs + 1)]
  BY <1>5, <1>8, <1>9
<1> QED BY <1>1, <1>2, <1>10, <1>11 DEF TypeOK, ModelId

LEMMA TypeStep == TypeOK /\ [Next]_vars => TypeOK'
<1> SUFFICES ASSUME TypeOK, [Next]_vars PROVE TypeOK'
  OBVIOUS
<1>0. <<>> \in Seq(ByteSize) /\ \A x : IsTuple(<<x>>)
  BY DEF IsTuple
<1>1. ASSUME UNCHANGED <<m_models, m_idCounter, loads, runs, answer>> PROVE TypeOK'
  BY <1>1 DEF TypeOK, Model, Loaded
<1>2. ASSUME NEW blob \in Blob, TfmPreloadModel(blob) PROVE TypeOK'
  BY <1>0, <1>1, <1>2, LoadKeepsType DEF TfmPreloadModel
<1>3. ASSUME NEW blob \in Blob, NEW description \in Descriptions,
             RuneModelLoad(blob, description[1], description[2])
      PROVE  TypeOK'
  <2>1. description[1] \in Seq(TensorString) /\ description[2] \in Seq(TensorString)
    BY ModelAssumption
  <2>2. PICK ins \in Parses(description[1]), outs \in Parses(description[2]) :
          \/ LoadModel(blob, ins, outs)
          \/ /\ RC_InputError \in Loaded
             /\ m_models' = [m_models EXCEPT ![RC_InputError].inputDescriptors  = ins,
                                             ![RC_InputError].outputDescriptors = outs]
             /\ UNCHANGED <<m_idCounter, loads>>
          \/ UNCHANGED <<m_models, m_idCounter, loads>>
    BY <1>3 DEF RuneModelLoad
  <2>3. ins \in Seq(ByteSize) /\ outs \in Seq(ByteSize)
    BY <2>1, <2>2, ParsesAreSizes
  <2>4. UNCHANGED <<runs, answer>>
    BY <1>3 DEF RuneModelLoad
  <2> QED BY <1>1, <2>2, <2>3, <2>4, LoadKeepsType, DescribeKeepsType
<1>4. ASSUME Refuse, runs' = runs + 1, UNCHANGED <<m_idCounter, loads>> PROVE TypeOK'
  <2>1. m_models \in [Loaded -> ModelAfter(runs + 1)]
    <3>1. Model = ModelAfter(runs)
      BY DEF Model, ModelAfter
    <3> QED BY <3>1, Later DEF TypeOK
  <2>2. Model' = ModelAfter(runs + 1) /\ Loaded' = Loaded
    BY <1>4 DEF Model, ModelAfter, Refuse, Loaded
  <2>3. Failed \in [ok : BOOLEAN, via : {"none", "tfm", "rune"}, id : ModelId,
                    written : Seq(SUBSET (0 .. (runs + 1)))]
    BY ModelAssumption DEF Failed, ModelId
  <2> QED BY <1>4, <2>1, <2>2, <2>3 DEF TypeOK, Refuse, ModelId
<1>5. ASSUME NEW id \in ModelId, NEW input \in ViewSize, NEW output \in ViewSize,
             TfmModelInvoke(id, input, output)
      PROVE  TypeOK'
  BY <1>0, <1>4, <1>5, RunKeepsType DEF TfmModelInvoke
<1>6. ASSUME NEW id \in ModelId, RuneModelInfer(id) PROVE TypeOK'
  <2>1. id \in Loaded => /\ IsTuple(m_models[id].inputDescriptors)
                         /\ IsTuple(m_models[id].outputDescriptors)
    BY SequenceIsTuple DEF TypeOK, Model
  <2> QED BY <1>4, <1>6, <2>1, RunKeepsType DEF RuneModelInfer
<1> QED BY <1>1, <1>2, <1>3, <1>5, <1>6 DEF Next, vars

-----------------------------------------------------------------------------
(* The theorems *)

\* Whatever runes describe and run, the descriptors of a model are byte counts that
\* a size_t holds, it has an input for each tensor of its file, inputs and outputs
\* hold runs up to the last one, and every id is an id (Inference.cpp:34-95, ModelManager.cpp:26-33, TfLiteRuntime.cpp:80-135).
THEOREM TypeCorrect == Spec => []TypeOK
<1>1. Init => TypeOK
  BY ModelAssumption DEF Init, TypeOK, Failed, Loaded, Model, ModelId, NoRun
<1> QED BY <1>1, TypeStep, PTL DEF Spec

\* Until the ids wrap, the cache is exactly the models loaded so far
\* (ModelManager.cpp:26-33).
THEOREM DenseIds == Spec => []IdsAreDense
<1>1. IInv => IdsAreDense
  BY DEF IInv, Shape
<1> QED BY <1>1, Invariant, PTL

\* A loaded model keeps its id, its file and its descriptors while no id equals
\* the error code (ModelManager.cpp:31, HostFunctions.cpp:336-356).
THEOREM Stability == Spec => ModelsAreStable
<1> DEFINE Stable == loads' <= IdMod - 2 =>
                        \A id \in Loaded :
                           /\ id \in Loaded'
                           /\ m_models'[id].blob = m_models[id].blob
                           /\ m_models'[id].inputDescriptors = m_models[id].inputDescriptors
                           /\ m_models'[id].outputDescriptors = m_models[id].outputDescriptors
<1>1. IInv /\ [Next]_vars => [Stable]_vars
  <2> SUFFICES ASSUME IInv, Next PROVE Stable
    BY DEF vars
  <2>1. CASE Loads
    BY <2>1, LoadsKeep DEF IInv, SameModel
  <2>2. CASE Infers
    BY <2>2, InfersKeep DEF IInv, SameModel
  <2> QED BY <2>1, <2>2, NextIsLoadOrInference
<1>2. Spec => [][Stable]_vars
  BY <1>1, Invariant, PTL DEF Spec
<1> QED BY <1>2 DEF ModelsAreStable

\* A successful inference answers from its own inputs only
\* (TfLiteRuntime.cpp:80-135).
THEOREM Freshness == Spec => []FreshOutputs
<1>1. IInv => FreshOutputs
  BY DEF IInv, AnswerInv, FreshOutputs
<1> QED BY <1>1, Invariant, PTL

\* A rune that describes a tensor wrongly never gets an answer
\* (HostFunctions.cpp:383-391, TfLiteRuntime.cpp:90-122).
THEOREM TrueDescriptions == Spec => []OnlyTrueDescriptionsRun
<1>1. IInv => OnlyTrueDescriptionsRun
  BY DEF IInv
<1> QED BY <1>1, Invariant, PTL
=============================================================================
