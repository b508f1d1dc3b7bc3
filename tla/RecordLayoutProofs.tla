------------------------- MODULE RecordLayoutProofs -------------------------
(***************************************************************************)
(* Where the bytes of a record are, for every schema: any number of        *)
(* attributes of any types, lengths and names, through any order of the    *)
(* calls.                                                                  *)
(***************************************************************************)
EXTENDS RecordLayout, FiniteSetTheorems, WellFoundedInduction, TLAPS

-----------------------------------------------------------------------------
(* Induction, in a form without an operator as a parameter: a set of numbers *)
(* that is not empty has a smallest one, because intervals are finite.       *)

LEMMA Smallest ==
  ASSUME NEW S \in SUBSET Nat, S # {}
  PROVE  \E x \in S : \A y \in S : x <= y
<1> DEFINE T == {0 .. x : x \in S}
<1>1. \A x \in S : IsFiniteSet(0 .. x) /\ 0 .. x \in SUBSET Nat
  BY FS_Interval
<1>2. T \subseteq FiniteSubsetsOf(Nat)
  BY <1>1 DEF FiniteSubsetsOf
<1>3. T # {}
  OBVIOUS
<1>4. IsWellFoundedOn(StrictSubsetOrdering(Nat), FiniteSubsetsOf(Nat))
  BY FS_StrictSubsetOrderingWellFounded
<1>5. PICK t \in T : \A r \in T : ~(<<r, t>> \in StrictSubsetOrdering(Nat))
  <2> HIDE DEF T
  <2> QED BY <1>2, <1>3, <1>4, WFMin
<1>6. PICK x \in S : t = 0 .. x
  OBVIOUS
<1>7. ASSUME NEW y \in S, y < x PROVE FALSE
  <2>1. (0 .. y) \subseteq (0 .. x) /\ x \in 0 .. x /\ x \notin 0 .. y
    BY <1>7
  <2>2. <<0 .. y, t>> \in StrictSubsetOrdering(Nat)
    BY <1>6, <2>1, <1>7 DEF StrictSubsetOrdering
  <2> QED BY <1>5, <2>2
<1> QED BY <1>7

LEMMA FromZero ==
  ASSUME NEW m \in Nat, NEW S, 0 \in S,
         \A n \in 1 .. m : n - 1 \in S => n \in S
  PROVE  m \in S
<1> DEFINE Bad == {n \in 0 .. m : n \notin S}
<1> SUFFICES ASSUME Bad # {} PROVE FALSE
  OBVIOUS
<1>1. Bad \in SUBSET Nat
  OBVIOUS
<1>2. PICK x \in Bad : \A y \in Bad : x <= y
  <2> HIDE DEF Bad
  <2> QED BY <1>1, Smallest
<1>3. x # 0 /\ x \in 1 .. m
  BY <1>2
<1>4. x - 1 \in 0 .. m /\ x - 1 < x
  BY <1>3
<1>5. x - 1 \in S
  BY <1>2, <1>4
<1> QED BY <1>2, <1>3, <1>5

-----------------------------------------------------------------------------
(* Sums *)

LEMMA SumsIs ==
  ASSUME NEW n \in Nat, NEW w \in [0 .. n - 1 -> Nat]
  PROVE  /\ Sums(w, n) \in [0 .. n -> Nat]
         /\ Sums(w, n)[0] = 0
         /\ \A i \in 0 .. n - 1 : Sums(w, n)[i + 1] = Sums(w, n)[i] + w[i]
<1> DEFINE Eq(f, k) == f = [i \in 0 .. k |-> IF i = 0 THEN 0 ELSE f[i - 1] + w[i - 1]]
           S == {k \in Nat : \E f : Eq(f, k)}
<1>1. 0 \in S
  <2> DEFINE z == [i \in 0 .. 0 |-> 0]
  <2>1. z = [i \in 0 .. 0 |-> IF i = 0 THEN 0 ELSE z[i - 1] + w[i - 1]]
    OBVIOUS
  <2> QED BY <2>1
<1>2. ASSUME NEW k \in 1 .. n, k - 1 \in S PROVE k \in S
  <2>1. PICK f : Eq(f, k - 1)
    BY <1>2
  <2> DEFINE g == [i \in 0 .. k |-> IF i = 0 THEN 0 ELSE f[i - 1] + w[i - 1]]
  <2>2. \A i \in 0 .. k - 1 : f[i] = g[i]
    BY <2>1
  <2>3. g = [i \in 0 .. k |-> IF i = 0 THEN 0 ELSE g[i - 1] + w[i - 1]]
    <3> HIDE DEF g
    <3>1. \A i \in 0 .. k : i # 0 => f[i - 1] + w[i - 1] = g[i - 1] + w[i - 1]
      BY <2>2
    <3> QED BY <3>1 DEF g
  <2> HIDE DEF g
  <2> QED BY <2>3
<1>3. n \in S
  <2> HIDE DEF S
  <2> QED BY <1>1, <1>2, FromZero
<1>4. Eq(Sums(w, n), n)
  <2>1. PICK f : Eq(f, n)
    BY <1>3
  <2> QED BY <2>1, Zenon DEF Sums
<1> DEFINE f == Sums(w, n)
           T == {k \in Nat : f[k] \in Nat}
<1> HIDE DEF f
<1>5. f = [i \in 0 .. n |-> IF i = 0 THEN 0 ELSE f[i - 1] + w[i - 1]]
  BY <1>4 DEF f
<1>6. f[0] = 0 /\ \A i \in 0 .. n - 1 : f[i + 1] = f[i] + w[i]
  BY <1>5
<1>7. ASSUME NEW m \in 0 .. n PROVE m \in T
  <2>1. 0 \in T
    BY <1>6
  <2>2. ASSUME NEW k \in 1 .. m, k - 1 \in T PROVE k \in T
    BY <1>6, <2>2
  <2> HIDE DEF T
  <2> QED BY <2>1, <2>2, FromZero
<1>8. f \in [0 .. n -> Nat]
  BY <1>5, <1>7
<1> QED BY <1>6, <1>8 DEF f

\* A sum is no smaller than one with fewer terms.
LEMMA SumsGrow ==
  ASSUME NEW n \in Nat, NEW w \in [0 .. n - 1 -> Nat],
         NEW j \in 0 .. n, NEW i \in 0 .. j
  PROVE  Sums(w, n)[i] <= Sums(w, n)[j]
<1> DEFINE f == Sums(w, n)
           S == {k \in Nat : i + k <= n => f[i] <= f[i + k]}
<1>1. f \in [0 .. n -> Nat] /\ \A k \in 0 .. n - 1 : f[k + 1] = f[k] + w[k]
  BY SumsIs
<1> HIDE DEF f
<1>2. 0 \in S
  BY <1>1
<1>3. ASSUME NEW k \in 1 .. j - i, k - 1 \in S PROVE k \in S
  <2>1. i + (k - 1) \in 0 .. n - 1 /\ i + (k - 1) + 1 = i + k
    OBVIOUS
  <2>2. f[i] <= f[i + (k - 1)] /\ f[i + k] = f[i + (k - 1)] + w[i + (k - 1)]
    BY <1>1, <1>3, <2>1
  <2>3. w[i + (k - 1)] \in Nat /\ f[i + (k - 1)] \in Nat /\ f[i] \in Nat
    BY <1>1, <2>1
  <2> QED BY <2>2, <2>3
<1>4. j - i \in S
  <2> HIDE DEF S
  <2> QED BY <1>2, <1>3, FromZero
<1> QED BY <1>4 DEF f

\* A sum is no smaller than one of smaller terms.
LEMMA SumsMonotone ==
  ASSUME NEW n \in Nat,
         NEW v \in [0 .. n - 1 -> Nat], NEW w \in [0 .. n - 1 -> Nat],
         \A i \in 0 .. n - 1 : v[i] <= w[i],
         NEW j \in 0 .. n
  PROVE  Sums(v, n)[j] <= Sums(w, n)[j]
<1> DEFINE f == Sums(v, n)
           g == Sums(w, n)
           S == {k \in Nat : f[k] <= g[k]}
<1>1. /\ f \in [0 .. n -> Nat] /\ f[0] = 0
      /\ \A k \in 0 .. n - 1 : f[k + 1] = f[k] + v[k]
  BY SumsIs
<1>2. /\ g \in [0 .. n -> Nat] /\ g[0] = 0
      /\ \A k \in 0 .. n - 1 : g[k + 1] = g[k] + w[k]
  BY SumsIs
<1> HIDE DEF f, g
<1>3. 0 \in S
  BY <1>1, <1>2
<1>4. ASSUME NEW k \in 1 .. j, k - 1 \in S PROVE k \in S
  <2>1. k - 1 \in 0 .. n - 1 /\ k - 1 + 1 = k /\ f[k - 1] <= g[k - 1]
    BY <1>4
  <2>2. f[k] = f[k - 1] + v[k - 1] /\ g[k] = g[k - 1] + w[k - 1]
    BY <1>1, <1>2, <2>1
  <2>3. /\ f[k - 1] \in Nat /\ g[k - 1] \in Nat
        /\ v[k - 1] \in Nat /\ w[k - 1] \in Nat /\ v[k - 1] <= w[k - 1]
    BY <1>1, <1>2, <2>1
  <2> QED BY <2>1, <2>2, <2>3
<1>5. j \in S
  <2> HIDE DEF S
  <2> QED BY <1>3, <1>4, FromZero
<1> QED BY <1>5 DEF f, g

LEMMA SumsOfFours ==
  ASSUME NEW n \in Nat, NEW w \in [0 .. n - 1 -> {4}], NEW j \in 0 .. n
  PROVE  Sums(w, n)[j] = 4 * j
<1> DEFINE f == Sums(w, n)
           S == {k \in Nat : f[k] = 4 * k}
<1>1. f \in [0 .. n -> Nat] /\ f[0] = 0 /\ \A k \in 0 .. n - 1 : f[k + 1] = f[k] + 4
  <2>1. w \in [0 .. n - 1 -> Nat] /\ \A k \in 0 .. n - 1 : w[k] = 4
    OBVIOUS
  <2> QED BY <2>1, SumsIs
<1> HIDE DEF f
<1>2. 0 \in S
  BY <1>1
<1>3. ASSUME NEW k \in 1 .. j, k - 1 \in S PROVE k \in S
  <2>1. k - 1 \in 0 .. n - 1 /\ k - 1 + 1 = k /\ f[k - 1] = 4 * (k - 1)
    BY <1>3
  <2> QED BY <1>1, <2>1
<1>4. j \in S
  <2> HIDE DEF S
  <2> QED BY <1>2, <1>3, FromZero
<1> QED BY <1>4 DEF f

-----------------------------------------------------------------------------
(* Schemas, and the header of page 0 *)

LEMMA SchemaIs ==
  ASSUME NEW s, IsSchema(s)
  PROVE  /\ s.numAttr \in 1 .. MaxAttrs /\ s.numAttr \in Nat
         /\ Attrs(s) = 0 .. s.numAttr - 1
         /\ s.dataTypes \in [Attrs(s) -> {DT_INT, DT_STRING, DT_FLOAT, DT_BOOL}]
         /\ s.typeLength \in [Attrs(s) -> Nat]
         /\ s # NoSchema
<1>1. DT_INT .. DT_BOOL = {DT_INT, DT_STRING, DT_FLOAT, DT_BOOL}
  BY DEF DT_INT, DT_STRING, DT_FLOAT, DT_BOOL
<1>2. s # NoSchema
  BY DEF IsSchema, NoSchema
<1>3. /\ s.numAttr \in 1 .. MaxAttrs /\ s.typeLength \in [Attrs(s) -> Nat]
      /\ s.dataTypes \in [Attrs(s) -> DT_INT .. DT_BOOL]
  BY DEF IsSchema
<1>4. s.dataTypes \in [Attrs(s) -> {DT_INT, DT_STRING, DT_FLOAT, DT_BOOL}]
  BY <1>1, <1>3
<1>5. Attrs(s) = 0 .. s.numAttr - 1
  BY DEF Attrs
<1>6. s.numAttr \in Nat
  BY <1>3
<1> QED BY <1>2, <1>3, <1>4, <1>5, <1>6, Zenon

\* getAttr leaves a schema a schema.
LEMMA AskedIs ==
  ASSUME NEW s, IsSchema(s), NEW i \in Attrs(s)
  PROVE  /\ IsSchema(Asked(s, i)) /\ Asked(s, i).numAttr = s.numAttr
         /\ Asked(s, i).typeLength = s.typeLength
         /\ \A j \in Attrs(s) : Asked(s, i).dataTypes[j] =
              IF i = 1 /\ j = 1 THEN DT_STRING ELSE s.dataTypes[j]
<1>1. DT_STRING \in DT_INT .. DT_BOOL
  BY DEF DT_INT, DT_STRING, DT_BOOL
<1> QED BY <1>1 DEF IsSchema, Asked, Attrs

\* What a schema may have become.
Forms == {made} \cup {Asked(made, i) : i \in Attrs(made)}

LEMMA FormsAre ==
  ASSUME IsSchema(made), NEW s \in Forms
  PROVE  /\ IsSchema(s) /\ s.numAttr = made.numAttr /\ Attrs(s) = Attrs(made)
         /\ s.typeLength = made.typeLength
         /\ \A j \in Attrs(made) :
              s.dataTypes[j] = made.dataTypes[j] \/ (j = 1 /\ s.dataTypes[j] = DT_STRING)
         /\ \A i \in Attrs(made) : Asked(s, i) \in Forms
         /\ \A i \in Attrs(made) : Asked(s, i) = made => s = made
<1>1. CASE s = made
  BY <1>1, AskedIs DEF Forms
<1>2. CASE s # made
  <2>1. PICK k \in Attrs(made) : s = Asked(made, k)
    BY <1>2 DEF Forms
  <2>2. k = 1
    BY <1>2, <2>1 DEF Asked
  <2>3. ASSUME NEW i \in Attrs(made) PROVE Asked(s, i) = s
    <3>1. CASE i # 1
      BY <3>1 DEF Asked
    <3>2. CASE i = 1
      <4>1. s = [made EXCEPT !.dataTypes[1] = DT_STRING]
        BY <2>1, <2>2 DEF Asked
      <4> QED BY <3>2, <4>1 DEF Asked, IsSchema
    <3> QED BY <3>1, <3>2
  <2> QED BY <1>2, <2>1, <2>2, <2>3, AskedIs DEF Forms, Attrs
<1> QED BY <1>1, <1>2

\* openTable finds the number of attributes where createTable left it.
LEMMA NumberRead ==
  ASSUME NEW s, IsSchema(s)
  PROVE  IntAt(s, NumAttrAt) = s.numAttr
<1> DEFINE v == s.numAttr
<1>1. v \in 1 .. 177
  BY SchemaIs DEF MaxAttrs
<1>2. /\ HeaderByte(s, 8) = IntByte(v, 0) /\ HeaderByte(s, 9) = IntByte(v, 1)
      /\ HeaderByte(s, 10) = IntByte(v, 2) /\ HeaderByte(s, 11) = IntByte(v, 3)
  BY DEF HeaderByte
<1> HIDE DEF v
<1>3. /\ IntByte(v, 0) = v /\ IntByte(v, 1) = 0
      /\ IntByte(v, 2) = 0 /\ IntByte(v, 3) = 0
  BY <1>1 DEF IntByte, Weight
<1>4. IntAt(s, 8) = v
  BY <1>1, <1>2, <1>3 DEF IntAt
<1> QED BY <1>4 DEF NumAttrAt, v

\* For the type of an attribute it takes the end of the name.
LEMMA TypeRead ==
  ASSUME NEW s, IsSchema(s), NEW i \in Attrs(s)
  PROVE  LET o == FirstAttr + i * Stride + NameLength
             byte(k) == IF 11 + k < s.attrNames[i] THEN 97 ELSE 0
         IN  IntAt(s, o) = byte(0) + 256 * byte(1) + 65536 * byte(2)
                             + 16777216 * byte(3)
<1> DEFINE o == FirstAttr + i * Stride + NameLength
           byte(k) == IF 11 + k < s.attrNames[i] THEN 97 ELSE 0
<1>1. i \in Nat
  BY SchemaIs
<1>2. ASSUME NEW k \in 0 .. 3
      PROVE  HeaderByte(s, o + k) = byte(k)
  <2> DEFINE x == o + k
  <2>1. x - 16 = 23 * i + (11 + k) /\ x \in Nat /\ x >= 27
    BY <1>1 DEF FirstAttr, Stride, NameLength
  <2> HIDE DEF x
  <2>2. (23 * i + (11 + k)) \div 23 = i /\ (23 * i + (11 + k)) % 23 = 11 + k
    BY <1>1
  <2>3. Stride = 23 /\ NameLength = 15
    BY DEF Stride, NameLength
  <2>4. /\ x \in Nat /\ ~(x < 4) /\ x \notin 4 .. 7 /\ x \notin 8 .. 11
        /\ x \notin 12 .. 15 /\ x >= 16
    BY <2>1
  <2>5. 11 + k < NameLength /\ 11 + k \notin 15 .. 18 /\ ~(11 + k > 18)
    BY <2>3
  <2>6. (x - 16) \div Stride = i /\ (x - 16) % Stride = 11 + k
    BY <2>1, <2>2, <2>3
  <2>7. HeaderByte(s, x) = byte(k)
    BY <2>4, <2>5, <2>6, Zenon DEF HeaderByte
  <2> QED BY <2>7 DEF x
<1>3. o \in Nat
  BY <1>1 DEF FirstAttr, Stride, NameLength
<1> HIDE DEF o, byte
<1>4. HeaderByte(s, o) = byte(0)
  <2>1. HeaderByte(s, o + 0) = byte(0)
    BY <1>2
  <2> QED BY <1>3, <2>1
<1>5. /\ HeaderByte(s, o + 1) = byte(1) /\ HeaderByte(s, o + 2) = byte(2)
      /\ HeaderByte(s, o + 3) = byte(3)
  BY <1>2
<1>6. IntAt(s, o) = byte(0) + 256 * byte(1) + 65536 * byte(2) + 16777216 * byte(3)
  BY <1>4, <1>5 DEF IntAt
<1> QED BY <1>6 DEF o, byte

\* An opened table has the number of attributes; it has a size if all names are
\* short, and then every attribute is an int.
LEMMA ParseIs ==
  ASSUME NEW s, IsSchema(s)
  PROVE  /\ Parse(s).numAttr = s.numAttr /\ Attrs(Parse(s)) = Attrs(s)
         /\ Callable(Parse(s)) <=> \A i \in Attrs(s) : s.attrNames[i] <= 11
         /\ Callable(Parse(s)) => \A i \in Attrs(s) : Parse(s).dataTypes[i] = DT_INT
         /\ Parse(s) # NoSchema
<1>1. Parse(s).numAttr = s.numAttr /\ Attrs(Parse(s)) = Attrs(s)
  BY NumberRead DEF Parse, Attrs
<1>2. ASSUME NEW i \in Attrs(s)
      PROVE  /\ Parse(s).dataTypes[i] \in DT_INT .. DT_BOOL <=> s.attrNames[i] <= 11
             /\ s.attrNames[i] <= 11 => Parse(s).dataTypes[i] = DT_INT
  <2> DEFINE o == FirstAttr + i * Stride + NameLength
             byte(k) == IF 11 + k < s.attrNames[i] THEN 97 ELSE 0
  <2>1. Parse(s).dataTypes[i] = IntAt(s, o)
    BY NumberRead DEF Parse, Attrs
  <2>2. IntAt(s, o) = byte(0) + 256 * byte(1) + 65536 * byte(2) + 16777216 * byte(3)
    BY TypeRead
  <2>3. s.attrNames[i] \in Nat
    BY DEF IsSchema
  <2> HIDE DEF o
  <2> QED BY <2>1, <2>2, <2>3 DEF DT_INT, DT_BOOL
<1>3. Parse(s) # NoSchema
  <2>1. NoSchema.numAttr = 0
    BY DEF NoSchema
  <2>2. Parse(s).numAttr # 0
    <3>1. s.numAttr \in 1 .. MaxAttrs
      BY SchemaIs
    <3> QED BY <1>1, <3>1
  <2> QED BY <2>1, <2>2
<1> QED BY <1>1, <1>2, <1>3 DEF Callable

-----------------------------------------------------------------------------
(* Sizes and positions *)

LEMMA WidthsAre ==
  ASSUME NEW s, IsSchema(s)
  PROVE  /\ Handled(s) \in [0 .. s.numAttr - 1 -> Nat]
         /\ Skipped(s) \in [0 .. s.numAttr - 1 -> Nat]
         /\ \A i \in Attrs(s) :
              /\ Width(s, i) \in Nat
              /\ s.dataTypes[i] # DT_BOOL => Skipped(s)[i] = Width(s, i)
<1>1. /\ Attrs(s) = 0 .. s.numAttr - 1 /\ s.typeLength \in [Attrs(s) -> Nat]
      /\ s.dataTypes \in [Attrs(s) -> {DT_INT, DT_STRING, DT_FLOAT, DT_BOOL}]
  BY SchemaIs
<1>2. \A i \in Attrs(s) : /\ s.dataTypes[i] \in {DT_INT, DT_STRING, DT_FLOAT, DT_BOOL}
                          /\ s.typeLength[i] \in Nat
  BY <1>1
<1>3. \A i \in Attrs(s) : Width(s, i) \in Nat
  BY <1>2 DEF Width
<1>4. Handled(s) \in [Attrs(s) -> Nat]
  <2>1. \A i \in Attrs(s) :
          (CASE s.dataTypes[i] = DT_INT    -> 4
             [] s.dataTypes[i] = DT_STRING -> 4
             [] s.dataTypes[i] = DT_FLOAT  -> s.typeLength[i]
             [] s.dataTypes[i] = DT_BOOL   -> 2) \in Nat
    BY <1>2
  <2> QED BY <2>1 DEF Handled
<1>5. Skipped(s) \in [Attrs(s) -> Nat]
  BY <1>3 DEF Skipped
<1>6. \A i \in Attrs(s) : s.dataTypes[i] # DT_BOOL => Skipped(s)[i] = Width(s, i)
  BY DEF Skipped
<1> QED BY <1>1, <1>3, <1>4, <1>5, <1>6

LEMMA PosIs ==
  ASSUME NEW s, IsSchema(s)
  PROVE  /\ GetRecordSize(s) \in Nat \ {0}
         /\ \A i \in Attrs(s) :
              /\ Pos(s, i) \in Nat \ {0} /\ Width(s, i) \in Nat
              /\ End(s, i) = Pos(s, i) + Width(s, i)
              /\ s.dataTypes[i] # DT_BOOL =>
                   End(s, i) = 1 + Sums(Skipped(s), s.numAttr)[i + 1]
<1>1. s.numAttr \in Nat /\ Attrs(s) = 0 .. s.numAttr - 1
  BY SchemaIs
<1>2. GetRecordSize(s) \in Nat \ {0}
  <2>1. Sums(Handled(s), s.numAttr) \in [0 .. s.numAttr -> Nat]
    BY <1>1, WidthsAre, SumsIs
  <2> QED BY <1>1, <2>1 DEF GetRecordSize
<1>3. ASSUME NEW i \in Attrs(s)
      PROVE  /\ Pos(s, i) \in Nat \ {0} /\ Width(s, i) \in Nat
             /\ End(s, i) = Pos(s, i) + Width(s, i)
             /\ s.dataTypes[i] # DT_BOOL =>
                  End(s, i) = 1 + Sums(Skipped(s), s.numAttr)[i + 1]
  <2> DEFINE f == Sums(Skipped(s), s.numAttr)
  <2>1. /\ f \in [0 .. s.numAttr -> Nat]
        /\ \A k \in 0 .. s.numAttr - 1 : f[k + 1] = f[k] + Skipped(s)[k]
    BY <1>1, WidthsAre, SumsIs
  <2>2. Pos(s, i) = 1 + f[i] /\ End(s, i) = Pos(s, i) + Width(s, i)
    BY DEF Pos, End
  <2> HIDE DEF f
  <2>3. f[i] \in Nat /\ f[i + 1] = f[i] + Skipped(s)[i] /\ Width(s, i) \in Nat
    BY <1>1, <2>1, WidthsAre
  <2>4. s.dataTypes[i] # DT_BOOL => Skipped(s)[i] = Width(s, i)
    BY WidthsAre
  <2>5. s.dataTypes[i] # DT_BOOL => End(s, i) = 1 + f[i + 1]
    BY <2>2, <2>3, <2>4
  <2> QED BY <2>2, <2>3, <2>5 DEF f
<1> QED BY <1>2, <1>3

\* Only a bool is still there where the next attribute begins.
LEMMA EndBefore ==
  ASSUME NEW s, IsSchema(s), NEW i \in Attrs(s), NEW j \in Attrs(s), i < j,
         s.dataTypes[i] # DT_BOOL
  PROVE  End(s, i) <= Pos(s, j)
<1> DEFINE f == Sums(Skipped(s), s.numAttr)
<1>1. s.numAttr \in Nat /\ Attrs(s) = 0 .. s.numAttr - 1
  BY SchemaIs
<1>2. i + 1 \in 0 .. j /\ j \in 0 .. s.numAttr
  BY <1>1
<1>3. f[i + 1] <= f[j] /\ f \in [0 .. s.numAttr -> Nat]
  BY <1>1, <1>2, WidthsAre, SumsIs, SumsGrow
<1>4. End(s, i) = 1 + f[i + 1] /\ Pos(s, j) = 1 + f[j]
  BY PosIs DEF Pos
<1> HIDE DEF f
<1>5. f[i + 1] \in Nat /\ f[j] \in Nat
  BY <1>1, <1>2, <1>3
<1> QED BY <1>3, <1>4, <1>5

LEMMA Apart ==
  ASSUME IsSchema(made), NEW i \in Attrs(made), NEW j \in Attrs(made), i # j,
         ~Shared(j)
  PROVE  End(made, i) <= Pos(made, j) \/ End(made, j) <= Pos(made, i)
<1>1. /\ Pos(made, i) \in Nat /\ End(made, i) \in Nat
      /\ Pos(made, j) \in Nat /\ End(made, j) \in Nat
  BY PosIs
<1>2. CASE DT_BOOL \in {made.dataTypes[i], made.dataTypes[j]}
  <2>1. ~(Pos(made, j) < End(made, i) /\ Pos(made, i) < End(made, j))
    BY <1>2 DEF Shared
  <2> QED BY <1>1, <2>1
<1>3. CASE DT_BOOL \notin {made.dataTypes[i], made.dataTypes[j]}
  <2>1. i \in Nat /\ j \in Nat
    BY SchemaIs
  <2>2. i < j \/ j < i
    BY <2>1
  <2> QED BY <1>3, <2>2, EndBefore
<1> QED BY <1>2, <1>3

\* The table takes every attribute for an int.
LEMMA TableSize ==
  ASSUME NEW s, IsSchema(s), Callable(Parse(s))
  PROVE  GetRecordSize(Parse(s)) = 4 * s.numAttr + 1
<1>1. s.numAttr \in Nat /\ Attrs(s) = 0 .. s.numAttr - 1
  BY SchemaIs
<1>2. /\ Parse(s).numAttr = s.numAttr /\ Attrs(Parse(s)) = Attrs(s)
      /\ \A i \in Attrs(s) : Parse(s).dataTypes[i] = DT_INT
  BY ParseIs
<1>3. Handled(Parse(s)) \in [0 .. s.numAttr - 1 -> {4}]
  BY <1>1, <1>2 DEF Handled, DT_INT, DT_STRING, DT_FLOAT, DT_BOOL
<1>4. Sums(Handled(Parse(s)), s.numAttr)[s.numAttr] = 4 * s.numAttr
  <2>1. s.numAttr \in 0 .. s.numAttr
    BY <1>1
  <2> QED BY <1>1, <1>3, <2>1, SumsOfFours
<1> QED BY <1>2, <1>4 DEF GetRecordSize

Bools == \E i \in Attrs(made) : made.dataTypes[i] = DT_BOOL

\* A record has room for its attributes as they may become, and for the
\* table's ints.
LEMMA Fits ==
  ASSUME IsSchema(made), Roomy(made), ~Bools, NEW s \in Forms, NEW t \in Forms
  PROVE  /\ GetRecordSize(s) >= 2
         /\ 4 * made.numAttr + 1 <= GetRecordSize(s)
         /\ \A i \in Attrs(made) : End(t, i) <= GetRecordSize(s)
<1> DEFINE n == made.numAttr
           four == [i \in 0 .. n - 1 |-> 4]
           f == Sums(Handled(s), n)
           g == Sums(Skipped(t), n)
<1>1. /\ IsSchema(s) /\ s.numAttr = n /\ Attrs(s) = Attrs(made)
      /\ IsSchema(t) /\ t.numAttr = n /\ Attrs(t) = Attrs(made)
      /\ s.typeLength = made.typeLength /\ t.typeLength = made.typeLength
      /\ \A j \in Attrs(made) :
           /\ s.dataTypes[j] = made.dataTypes[j] \/ (j = 1 /\ s.dataTypes[j] = DT_STRING)
           /\ t.dataTypes[j] = made.dataTypes[j] \/ (j = 1 /\ t.dataTypes[j] = DT_STRING)
  BY FormsAre
<1>2. /\ n \in 1 .. MaxAttrs /\ n \in Nat /\ Attrs(made) = 0 .. n - 1
      /\ made.typeLength \in [Attrs(made) -> Nat]
      /\ made.dataTypes \in [Attrs(made) -> {DT_INT, DT_STRING, DT_FLOAT, DT_BOOL}]
  BY SchemaIs
<1>3. ASSUME NEW j \in Attrs(made)
      PROVE  /\ Handled(s)[j] >= 4
             /\ t.dataTypes[j] # DT_BOOL
             /\ Width(t, j) <= Handled(s)[j]
  <2>1. /\ made.dataTypes[j] \in {DT_INT, DT_STRING, DT_FLOAT}
        /\ made.typeLength[j] \in Nat
        /\ made.dataTypes[j] = DT_STRING \/ j = 1 => made.typeLength[j] <= 4
        /\ made.dataTypes[j] = DT_FLOAT => made.typeLength[j] >= 4
    BY <1>2 DEF Roomy, Bools
  <2>2. DT_INT = 0 /\ DT_STRING = 1 /\ DT_FLOAT = 2 /\ DT_BOOL = 3
    BY DEF DT_INT, DT_STRING, DT_FLOAT, DT_BOOL
  <2>3. Handled(s)[j] = IF s.dataTypes[j] = DT_FLOAT THEN made.typeLength[j] ELSE 4
    <3>1. s.dataTypes[j] \in {DT_INT, DT_STRING, DT_FLOAT}
      BY <1>1, <2>1
    <3> QED BY <1>1, <2>2, <3>1 DEF Handled
  <2>4. Width(t, j) = IF t.dataTypes[j] = DT_STRING THEN made.typeLength[j] ELSE 4
    BY <1>1, <2>1, <2>2 DEF Width
  <2>5. t.dataTypes[j] # DT_BOOL
    BY <1>1, <2>1, <2>2
  <2>6. \/ s.dataTypes[j] = made.dataTypes[j] \/ (j = 1 /\ s.dataTypes[j] = DT_STRING)
    BY <1>1
  <2>7. \/ t.dataTypes[j] = made.dataTypes[j] \/ (j = 1 /\ t.dataTypes[j] = DT_STRING)
    BY <1>1
  <2> QED BY <2>1, <2>2, <2>3, <2>4, <2>5, <2>6, <2>7
<1>4. /\ Handled(s) \in [0 .. n - 1 -> Nat] /\ Skipped(t) \in [0 .. n - 1 -> Nat]
      /\ \A j \in Attrs(made) : t.dataTypes[j] # DT_BOOL => Skipped(t)[j] = Width(t, j)
  BY <1>1, WidthsAre
<1>5. f \in [0 .. n -> Nat] /\ g \in [0 .. n -> Nat]
  BY <1>2, <1>4, SumsIs
<1>6. GetRecordSize(s) = f[n] + 1
  BY <1>1 DEF GetRecordSize
<1>7. 4 * n <= f[n]
  <2>1. /\ four \in [0 .. n - 1 -> Nat] /\ four \in [0 .. n - 1 -> {4}]
        /\ n \in 0 .. n /\ \A j \in 0 .. n - 1 : four[j] <= Handled(s)[j]
    BY <1>2, <1>3
  <2> HIDE DEF four
  <2>2. Sums(four, n)[n] = 4 * n
    <3> HIDE DEF n
    <3> QED BY <1>2, <2>1, SumsOfFours
  <2>3. Sums(four, n)[n] <= f[n]
    <3>1. n \in 0 .. n
      BY <1>2
    <3> HIDE DEF n
    <3> QED BY <1>2, <1>4, <2>1, <3>1, SumsMonotone
  <2> QED BY <2>2, <2>3
<1>8. ASSUME NEW i \in Attrs(made) PROVE End(t, i) <= GetRecordSize(s)
  <2>1. i + 1 \in 0 .. n
    BY <1>2
  <2>2. End(t, i) = 1 + g[i + 1]
    BY <1>1, <1>3, PosIs
  <2>3. g[i + 1] <= f[i + 1]
    <3>1. \A j \in 0 .. n - 1 : Skipped(t)[j] <= Handled(s)[j]
      BY <1>2, <1>3, <1>4
    <3> HIDE DEF n
    <3> QED BY <1>2, <1>4, <2>1, <3>1, SumsMonotone
  <2>4. f[i + 1] <= f[n]
    <3>1. n \in 0 .. n /\ i + 1 \in 0 .. n
      BY <1>2
    <3> HIDE DEF n
    <3> QED BY <1>2, <1>4, <3>1, SumsGrow
  <2> HIDE DEF f, g
  <2>5. g[i + 1] \in Nat /\ f[i + 1] \in Nat /\ f[n] \in Nat
    BY <1>2, <1>5, <2>1
  <2> QED BY <1>6, <2>2, <2>3, <2>4, <2>5
<1> HIDE DEF f, n
<1>9. f[n] \in Nat /\ n >= 1
  BY <1>2, <1>5
<1> QED BY <1>2, <1>6, <1>7, <1>8, <1>9 DEF n

-----------------------------------------------------------------------------
(* The invariant: every copy of the schema is the caller's but for attribute *)
(* 1, a record's size is one of those such a schema has, and what is not cut *)
(* off and shares no byte reads as it was stored, in the record and on the   *)
(* page.                                                                     *)

TableBytes == 4 * made.numAttr + 1

Stored(bytes, i, v) ==
  \A k \in 0 .. Width(made, i) - 1 :
    At(bytes, Pos(made, i) + k) = [attr |-> i, val |-> v, at |-> k]

Faithful(i) ==
  ~Shared(i) =>
    /\ last[i] # Unset /\ (cut = 0 \/ End(made, i) <= cut)
         => Stored(data, i, last[i])
    /\ slot # NoBytes /\ kept[i] # Unset /\ End(made, i) <= TableBytes
         => Stored(slot, i, kept[i])

Copies ==
  /\ made \in Schemas /\ schema \in Forms
  /\ file = NoSchema \/ file \in Forms
  /\ table = NoSchema \/ (file \in Forms /\ table = Parse(file))

Sized ==
  /\ data = NoBytes \/ \E s \in Forms : DOMAIN data = 0 .. GetRecordSize(s) - 1
  /\ slot = NoBytes \/ /\ table # NoSchema /\ Callable(table)
                       /\ DOMAIN slot = 0 .. TableBytes - 1
  /\ cut \in {0, TableBytes}

Typed ==
  /\ \A o \in DOMAIN data : data[o] \in Byte
  /\ \A o \in DOMAIN slot : slot[o] \in Byte
  /\ last \in [Attrs(made) -> Values \cup {Unset}]
  /\ kept \in [Attrs(made) -> Values \cup {Unset}]

Causes ==
  /\ status \in {"running", "overrun", "crashed"}
  /\ OverrunHasCause /\ CrashHasCause

LInv ==
  /\ Copies /\ Sized /\ Typed /\ Causes
  /\ schema = made => \A i \in Attrs(made) : Faithful(i)

LEMMA MadeKept ==
  ASSUME made' = made
  PROVE  /\ Forms' = Forms /\ TableBytes' = TableBytes /\ Byte' = Byte
         /\ Attrs(made)' = Attrs(made)
         /\ \A i : Shared(i)' <=> Shared(i)
         /\ \A b, i, v : Stored(b, i, v)' <=> Stored(b, i, v)
BY DEF Forms, TableBytes, Byte, Shared, Stored

LEMMA MadeIs ==
  ASSUME LInv
  PROVE  /\ IsSchema(made) /\ IsSchema(schema)
         /\ Attrs(schema) = Attrs(made) /\ schema.numAttr = made.numAttr
         /\ made \in Forms /\ TableBytes \in Nat
<1>1. IsSchema(made) /\ schema \in Forms
  BY SchemasAssumption DEF LInv, Copies
<1>2. TableBytes \in Nat
  BY <1>1, SchemaIs DEF TableBytes
<1> QED BY <1>1, <1>2, FormsAre DEF Forms

LEMMA TableIs ==
  ASSUME LInv, table # NoSchema
  PROVE  /\ Callable(table) => GetRecordSize(table) = TableBytes
         /\ ~Callable(table) => \E i \in Attrs(made) : made.attrNames[i] > 11
<1>1. file \in Forms /\ table = Parse(file)
  BY DEF LInv, Copies
<1>2. IsSchema(file) /\ file.numAttr = made.numAttr /\ Attrs(file) = Attrs(made)
  BY <1>1, MadeIs, FormsAre
<1>3. file.attrNames = made.attrNames
  <2>1. made \in [numAttr : 1 .. MaxAttrs, keySize : 1 .. MaxAttrs,
                  dataTypes : [Attrs(made) -> DT_INT .. DT_BOOL],
                  typeLength : [Attrs(made) -> Nat],
                  attrNames : [Attrs(made) -> Nat]]
    BY MadeIs DEF IsSchema
  <2> QED BY <1>1, <2>1 DEF Forms, Asked
<1>4. \A i \in Attrs(made) : made.attrNames[i] \in Nat
  BY MadeIs DEF IsSchema
<1>5. Callable(table) => GetRecordSize(table) = TableBytes
  BY <1>1, <1>2, TableSize DEF TableBytes
<1>6. ~Callable(table) => \E i \in Attrs(made) : made.attrNames[i] > 11
  BY <1>1, <1>2, <1>3, <1>4, ParseIs
<1> QED BY <1>5, <1>6

\* A process that has ended keeps everything but its status.
LEMMA OverrunInv ==
  ASSUME LInv, Overrun, ~Roomy(made) \/ Bools
  PROVE  LInv'
<1>1. /\ made' = made /\ schema' = schema /\ file' = file /\ table' = table
      /\ data' = data /\ slot' = slot /\ last' = last /\ kept' = kept
      /\ cut' = cut /\ status' = "overrun"
  BY DEF Overrun
<1>2. Copies' /\ Sized' /\ Typed'
  BY <1>1, MadeKept DEF LInv, Copies, Sized, Typed
<1>3. Causes'
  BY <1>1 DEF Causes, OverrunHasCause, CrashHasCause, Bools, Roomy
<1>4. schema' = made' => \A i \in Attrs(made)' : Faithful(i)'
  BY <1>1, MadeKept DEF LInv, Faithful, Stored
<1> QED BY <1>2, <1>3, <1>4 DEF LInv

LEMMA CrashInv ==
  ASSUME LInv, Crash, \E i \in Attrs(made) : made.attrNames[i] > 11
  PROVE  LInv'
<1>1. /\ made' = made /\ schema' = schema /\ file' = file /\ table' = table
      /\ data' = data /\ slot' = slot /\ last' = last /\ kept' = kept
      /\ cut' = cut /\ status' = "crashed"
  BY DEF Crash
<1>2. Copies' /\ Sized' /\ Typed'
  BY <1>1, MadeKept DEF LInv, Copies, Sized, Typed
<1>3. Causes'
  BY <1>1 DEF Causes, OverrunHasCause, CrashHasCause
<1>4. schema' = made' => \A i \in Attrs(made)' : Faithful(i)'
  BY <1>1, MadeKept DEF LInv, Faithful, Stored
<1> QED BY <1>2, <1>3, <1>4 DEF LInv

\* The status of a process that goes on has no cause to ask for.
LEMMA StillRunning ==
  ASSUME LInv, Running, status' = status
  PROVE  Causes'
BY DEF LInv, Causes, Running, OverrunHasCause, CrashHasCause

LEMMA CreateTableInv ==
  ASSUME LInv, CreateTable
  PROVE  LInv'
<1>1. /\ made' = made /\ schema' = schema /\ file' = schema /\ table' = NoSchema
      /\ data' = data /\ slot' = NoBytes /\ last' = last /\ kept' = kept
      /\ cut' = cut /\ status' = status /\ Running
  BY DEF CreateTable
<1>2. Copies' /\ Sized'
  BY <1>1, MadeKept DEF LInv, Copies, Sized
<1>3. Typed'
  <2>1. DOMAIN NoBytes = {}
    BY DEF NoBytes
  <2> QED BY <1>1, <2>1, MadeKept DEF LInv, Typed
<1>4. schema' = made' => \A i \in Attrs(made)' : Faithful(i)'
  BY <1>1, MadeKept DEF LInv, Faithful, Stored
<1> QED BY <1>1, <1>2, <1>3, <1>4, StillRunning DEF LInv

\* A table that is opened again is the table it was.
LEMMA OpenTableInv ==
  ASSUME LInv, OpenTable
  PROVE  LInv'
<1>1. /\ made' = made /\ schema' = schema /\ file' = file /\ table' = Parse(file)
      /\ data' = data /\ slot' = slot /\ last' = last /\ kept' = kept
      /\ cut' = cut /\ status' = status /\ Running /\ file \in Forms
  BY DEF OpenTable, LInv, Copies
<1>2. Copies'
  BY <1>1, MadeKept DEF LInv, Copies
<1>3. Sized'
  BY <1>1, MadeKept DEF LInv, Sized, Copies
<1>4. Typed'
  BY <1>1, MadeKept DEF LInv, Typed
<1>5. schema' = made' => \A i \in Attrs(made)' : Faithful(i)'
  BY <1>1, MadeKept DEF LInv, Faithful, Stored
<1> QED BY <1>1, <1>2, <1>3, <1>4, <1>5, StillRunning DEF LInv

LEMMA GetAttrInv ==
  ASSUME LInv, NEW i \in Attrs(made), GetAttr(i)
  PROVE  LInv'
<1>1. /\ made' = made /\ schema' = Asked(schema, i) /\ file' = file
      /\ table' = table /\ data' = data /\ slot' = slot /\ last' = last
      /\ kept' = kept /\ cut' = cut /\ status' = status /\ Running
  BY DEF GetAttr
<1>2. Asked(schema, i) \in Forms /\ (Asked(schema, i) = made => schema = made)
  BY MadeIs, FormsAre DEF LInv, Copies
<1>3. Copies' /\ Sized' /\ Typed'
  BY <1>1, <1>2, MadeKept DEF LInv, Copies, Sized, Typed
<1>4. schema' = made' => \A j \in Attrs(made)' : Faithful(j)'
  BY <1>1, <1>2, MadeKept DEF LInv, Faithful, Stored
<1> QED BY <1>1, <1>3, <1>4, StillRunning DEF LInv

LEMMA RawIs == Raw \in Byte
BY DEF Byte

LEMMA CreateRecordInv ==
  ASSUME LInv, CreateRecord
  PROVE  LInv'
<1>1. CASE GetRecordSize(schema) < 2
  <2>1. Overrun
    BY <1>1 DEF CreateRecord
  <2>2. Roomy(made) /\ ~Bools => GetRecordSize(schema) >= 2
    BY MadeIs, Fits DEF LInv, Copies
  <2>3. GetRecordSize(schema) \in Nat
    BY MadeIs, PosIs
  <2> QED BY <1>1, <2>1, <2>2, <2>3, OverrunInv
<1>2. CASE ~(GetRecordSize(schema) < 2)
  <2>1. /\ made' = made /\ schema' = schema /\ file' = file /\ table' = table
        /\ data' = [o \in 0 .. GetRecordSize(schema) - 1 |-> Raw]
        /\ slot' = slot /\ last' = [i \in Attrs(made) |-> Unset] /\ kept' = kept
        /\ cut' = 0 /\ status' = status /\ Running
    BY <1>2 DEF CreateRecord
  <2>2. Copies'
    BY <2>1, MadeKept DEF LInv, Copies
  <2>3. Sized'
    BY <2>1, MadeKept DEF LInv, Sized, Copies
  <2>4. Typed'
    BY <2>1, MadeKept, RawIs DEF LInv, Typed
  <2>5. schema' = made' => \A i \in Attrs(made)' : Faithful(i)'
    BY <2>1, MadeKept DEF LInv, Faithful, Stored
  <2> QED BY <2>1, <2>2, <2>3, <2>4, <2>5, StillRunning DEF LInv
<1> QED BY <1>1, <1>2

\* What is written for an attribute is all of it, and nothing of one that
\* shares no byte.
LEMMA SetAttrInv ==
  ASSUME LInv, NEW i \in Attrs(made), NEW v \in Values, SetAttr(i, v)
  PROVE  LInv'
<1> DEFINE R == Pos(schema, i) .. End(schema, i) - 1
<1>1. /\ Pos(schema, i) \in Nat \ {0} /\ Width(schema, i) \in Nat
      /\ End(schema, i) = Pos(schema, i) + Width(schema, i)
  BY MadeIs, PosIs
<1>2. CASE \E o \in R : o \notin DOMAIN data
  <2>1. Overrun
    BY <1>2 DEF SetAttr
  <2>2. PICK s \in Forms : DOMAIN data = 0 .. GetRecordSize(s) - 1
    BY DEF SetAttr, HasRecord, LInv, Sized
  <2>3. Roomy(made) /\ ~Bools => End(schema, i) <= GetRecordSize(s)
    BY MadeIs, Fits DEF LInv, Copies
  <2>4. GetRecordSize(s) \in Nat
    BY MadeIs, FormsAre, PosIs
  <2>5. ~Roomy(made) \/ Bools
    BY <1>1, <1>2, <2>2, <2>3, <2>4
  <2> QED BY <2>1, <2>5, OverrunInv
<1>3. CASE \A o \in R : o \in DOMAIN data
  <2>1. /\ made' = made /\ schema' = schema /\ file' = file /\ table' = table
        /\ data' = [o \in DOMAIN data |->
                      IF o \in R
                      THEN [attr |-> i, val |-> v, at |-> o - Pos(schema, i)]
                      ELSE data[o]]
        /\ slot' = slot /\ last' = [last EXCEPT ![i] = v] /\ kept' = kept
        /\ cut' = cut /\ status' = status /\ Running /\ data # NoBytes
    BY <1>3 DEF SetAttr, HasRecord
  <2>2. Copies'
    BY <2>1, MadeKept DEF LInv, Copies
  <2>3. Sized'
    BY <2>1, MadeKept DEF LInv, Sized
  <2>4. Typed'
    <3>1. \A o \in R : [attr |-> i, val |-> v, at |-> o - Pos(schema, i)] \in Byte
      BY <1>1 DEF Byte
    <3> HIDE DEF R
    <3>2. \A o \in DOMAIN data' : data'[o] \in Byte
      BY <2>1, <3>1 DEF LInv, Typed
    <3>3. last' \in [Attrs(made) -> Values \cup {Unset}]
      BY <2>1 DEF LInv, Typed
    <3> QED BY <2>1, <3>2, <3>3, MadeKept DEF LInv, Typed
  <2>5. ASSUME schema = made, NEW j \in Attrs(made), ~Shared(j), last'[j] # Unset,
               cut = 0 \/ End(made, j) <= cut
        PROVE  Stored(data', j, last'[j])
    <3>1. /\ Pos(made, j) \in Nat \ {0} /\ Width(made, j) \in Nat
          /\ End(made, j) = Pos(made, j) + Width(made, j)
      BY MadeIs, PosIs
    <3> SUFFICES ASSUME NEW k \in 0 .. Width(made, j) - 1
                 PROVE  At(data', Pos(made, j) + k)
                          = [attr |-> j, val |-> last'[j], at |-> k]
      BY DEF Stored
    <3> DEFINE o == Pos(made, j) + k
    <3>2. o \in Nat /\ o \in Pos(made, j) .. End(made, j) - 1 /\ o - Pos(made, j) = k
      BY <3>1
    <3>3. CASE j = i
      <4>1. last'[j] = v
        BY <2>1, <3>3 DEF LInv, Typed
      <4>2. o \in R /\ o \in DOMAIN data
        BY <1>3, <2>5, <3>2, <3>3
      <4> HIDE DEF o, R
      <4> QED BY <2>1, <2>5, <3>2, <3>3, <4>1, <4>2 DEF At, o
    <3>4. CASE j # i
      <4>1. last'[j] = last[j]
        BY <2>1, <3>4 DEF LInv, Typed
      <4>2. End(made, i) <= Pos(made, j) \/ End(made, j) <= Pos(made, i)
        BY <2>5, <3>4, MadeIs, Apart
      <4>3. o \notin R
        BY <1>1, <2>5, <3>1, <3>2, <4>2
      <4>4. Stored(data, j, last[j])
        BY <2>5, <4>1 DEF LInv, Faithful
      <4>5. At(data, o) = [attr |-> j, val |-> last[j], at |-> k]
        BY <4>4 DEF Stored
      <4> HIDE DEF o, R
      <4>6. At(data', o) = At(data, o)
        BY <2>1, <4>3 DEF At
      <4> QED BY <4>1, <4>5, <4>6 DEF o
    <3> QED BY <3>3, <3>4
  <2>6. schema' = made' => \A j \in Attrs(made)' : Faithful(j)'
    <3> SUFFICES ASSUME schema = made, NEW j \in Attrs(made) PROVE Faithful(j)'
      BY <2>1
    <3>1. Shared(j)' <=> Shared(j)
      BY <2>1, MadeKept
    <3>2. ~Shared(j) /\ last'[j] # Unset /\ (cut' = 0 \/ End(made', j) <= cut')
            => Stored(data, j, last[j])'
      BY <2>1, <2>5 DEF Stored
    <3>3. ~Shared(j) /\ slot' # NoBytes /\ kept'[j] # Unset
            /\ End(made', j) <= TableBytes' => Stored(slot, j, kept[j])'
      BY <2>1, MadeKept DEF LInv, Faithful, Stored
    <3> QED BY <3>1, <3>2, <3>3 DEF Faithful
  <2> QED BY <2>1, <2>2, <2>3, <2>4, <2>6, StillRunning DEF LInv
<1> QED BY <1>2, <1>3

\* The page gets what the record has, but for the mark.
LEMMA InsertRecordInv ==
  ASSUME LInv, InsertRecord
  PROVE  LInv'
<1>1. table # NoSchema /\ data # NoBytes /\ Running
  BY DEF InsertRecord, HasRecord
<1>2. CASE ~Callable(table)
  <2>1. Crash
    BY <1>2 DEF InsertRecord
  <2> QED BY <1>1, <1>2, <2>1, TableIs, CrashInv
<1>3. CASE Callable(table)
  <2>1. GetRecordSize(table) = TableBytes /\ TableBytes \in Nat
    BY <1>1, <1>3, TableIs, MadeIs
  <2>2. /\ made' = made /\ schema' = schema /\ file' = file /\ table' = table
        /\ data' = data
        /\ slot' = [o \in 0 .. TableBytes - 1 |-> IF o = 0 THEN Raw ELSE At(data, o)]
        /\ last' = last /\ kept' = last /\ cut' = cut /\ status' = status
    BY <1>3, <2>1 DEF InsertRecord
  <2>3. Copies'
    BY <2>2, MadeKept DEF LInv, Copies
  <2>4. Sized'
    BY <1>1, <1>3, <2>2, MadeKept DEF LInv, Sized
  <2>5. Typed'
    <3>1. \A o : At(data, o) \in Byte
      BY RawIs DEF At, LInv, Typed
    <3> QED BY <2>2, <3>1, MadeKept, RawIs DEF LInv, Typed
  <2>6. ASSUME schema = made, NEW j \in Attrs(made), ~Shared(j), last[j] # Unset,
               End(made, j) <= TableBytes
        PROVE  Stored(slot', j, last[j])
    <3>1. /\ Pos(made, j) \in Nat \ {0} /\ Width(made, j) \in Nat
          /\ End(made, j) = Pos(made, j) + Width(made, j)
      BY MadeIs, PosIs
    <3>2. Stored(data, j, last[j])
      BY <2>6 DEF LInv, Faithful, Sized
    <3> SUFFICES ASSUME NEW k \in 0 .. Width(made, j) - 1
                 PROVE  At(slot', Pos(made, j) + k)
                          = [attr |-> j, val |-> last[j], at |-> k]
      BY DEF Stored
    <3> DEFINE o == Pos(made, j) + k
    <3>3. o \in 0 .. TableBytes - 1 /\ o # 0
      BY <2>1, <2>6, <3>1
    <3>4. At(data, o) = [attr |-> j, val |-> last[j], at |-> k]
      BY <3>2 DEF Stored
    <3> HIDE DEF o
    <3>5. At(slot', o) = At(data, o)
      <4>1. o \in DOMAIN slot' /\ slot'[o] = At(data, o)
        BY <2>2, <3>3
      <4> QED BY <4>1 DEF At
    <3> QED BY <3>4, <3>5 DEF o
  <2>7. schema' = made' => \A j \in Attrs(made)' : Faithful(j)'
    <3> SUFFICES ASSUME schema = made, NEW j \in Attrs(made) PROVE Faithful(j)'
      BY <2>2
    <3>1. (Shared(j)' <=> Shared(j)) /\ TableBytes' = TableBytes
      BY <2>2, MadeKept
    <3>2. ~Shared(j) /\ last'[j] # Unset /\ (cut' = 0 \/ End(made', j) <= cut')
            => Stored(data, j, last[j])'
      BY <2>2, MadeKept DEF LInv, Faithful, Stored
    <3>3. ~Shared(j) /\ slot' # NoBytes /\ kept'[j] # Unset
            /\ End(made', j) <= TableBytes' => Stored(slot, j, kept[j])'
      BY <2>2, <2>6, <3>1 DEF Stored
    <3> QED BY <3>1, <3>2, <3>3 DEF Faithful
  <2> QED BY <1>1, <2>2, <2>3, <2>4, <2>5, <2>7, StillRunning DEF LInv
<1> QED BY <1>2, <1>3

\* The record gets what the page has, cut to the size of the table.
LEMMA GetRecordInv ==
  ASSUME LInv, GetRecord
  PROVE  LInv'
<1>1. /\ table # NoSchema /\ data # NoBytes /\ slot # NoBytes /\ Running
      /\ Callable(table) /\ DOMAIN slot = 0 .. TableBytes - 1
  BY DEF GetRecord, HasRecord, LInv, Sized
<1>2. GetRecordSize(table) = TableBytes /\ TableBytes \in Nat
  BY <1>1, TableIs, MadeIs
<1>3. CASE \E o \in 1 .. TableBytes - 1 : o \notin DOMAIN data
  <2>1. Overrun
    BY <1>2, <1>3 DEF GetRecord
  <2>2. PICK s \in Forms : DOMAIN data = 0 .. GetRecordSize(s) - 1
    BY <1>1 DEF LInv, Sized
  <2>3. Roomy(made) /\ ~Bools => TableBytes <= GetRecordSize(s)
    BY MadeIs, Fits DEF TableBytes
  <2>4. GetRecordSize(s) \in Nat
    BY MadeIs, FormsAre, PosIs
  <2>5. ~Roomy(made) \/ Bools
    BY <1>2, <1>3, <2>2, <2>3, <2>4
  <2> QED BY <2>1, <2>5, OverrunInv
<1>4. CASE \A o \in 1 .. TableBytes - 1 : o \in DOMAIN data
  <2>1. /\ made' = made /\ schema' = schema /\ file' = file /\ table' = table
        /\ data' = [o \in DOMAIN data |->
                      IF o \in 1 .. TableBytes - 1 THEN slot[o] ELSE data[o]]
        /\ slot' = slot /\ last' = kept /\ kept' = kept /\ cut' = TableBytes
        /\ status' = status
    BY <1>2, <1>4 DEF GetRecord, Copied
  <2>2. Copies'
    BY <2>1, MadeKept DEF LInv, Copies
  <2>3. Sized'
    BY <1>1, <2>1, MadeKept DEF LInv, Sized
  <2>4. Typed'
    <3>1. 1 .. TableBytes - 1 \subseteq DOMAIN slot
      BY <1>1, <1>2
    <3> QED BY <2>1, <3>1, MadeKept DEF LInv, Typed
  <2>5. ASSUME schema = made, NEW j \in Attrs(made), ~Shared(j), kept[j] # Unset,
               End(made, j) <= TableBytes
        PROVE  Stored(data', j, kept[j])
    <3>1. /\ Pos(made, j) \in Nat \ {0} /\ Width(made, j) \in Nat
          /\ End(made, j) = Pos(made, j) + Width(made, j)
      BY MadeIs, PosIs
    <3>2. Stored(slot, j, kept[j])
      BY <1>1, <2>5 DEF LInv, Faithful
    <3> SUFFICES ASSUME NEW k \in 0 .. Width(made, j) - 1
                 PROVE  At(data', Pos(made, j) + k)
                          = [attr |-> j, val |-> kept[j], at |-> k]
      BY DEF Stored
    <3> DEFINE o == Pos(made, j) + k
    <3>3. o \in 1 .. TableBytes - 1 /\ o \in 0 .. TableBytes - 1
      BY <1>2, <2>5, <3>1
    <3>4. At(slot, o) = [attr |-> j, val |-> kept[j], at |-> k]
      BY <3>2 DEF Stored
    <3> HIDE DEF o
    <3>5. o \in DOMAIN data' /\ data'[o] = slot[o] /\ o \in DOMAIN slot
      BY <1>1, <1>4, <2>1, <3>3
    <3> QED BY <3>4, <3>5 DEF At, o
  <2>6. schema' = made' => \A j \in Attrs(made)' : Faithful(j)'
    <3> SUFFICES ASSUME schema = made, NEW j \in Attrs(made) PROVE Faithful(j)'
      BY <2>1
    <3>1. (Shared(j)' <=> Shared(j)) /\ TableBytes' = TableBytes
      BY <2>1, MadeKept
    <3>2. ~Shared(j) /\ last'[j] # Unset /\ (cut' = 0 \/ End(made', j) <= cut')
            => Stored(data, j, last[j])'
      <4>1. made.numAttr \in Nat
        BY MadeIs, SchemaIs
      <4>2. TableBytes # 0
        BY <4>1 DEF TableBytes
      <4> QED BY <2>1, <2>5, <4>2 DEF Stored
    <3>3. ~Shared(j) /\ slot' # NoBytes /\ kept'[j] # Unset
            /\ End(made', j) <= TableBytes' => Stored(slot, j, kept[j])'
      BY <2>1, MadeKept DEF LInv, Faithful, Stored
    <3> QED BY <3>1, <3>2, <3>3 DEF Faithful
  <2> QED BY <1>1, <2>1, <2>2, <2>3, <2>4, <2>6, StillRunning DEF LInv
<1> QED BY <1>3, <1>4

LEMMA InitInv == Init => LInv
<1> SUFFICES ASSUME Init PROVE LInv
  OBVIOUS
<1>1. DOMAIN NoBytes = {}
  BY DEF NoBytes
<1> QED BY <1>1 DEF Init, LInv, Copies, Sized, Typed, Causes, Forms, Faithful,
                    OverrunHasCause, CrashHasCause

LEMMA StutterInv ==
  ASSUME LInv, UNCHANGED vars
  PROVE  LInv'
<1>1. /\ made' = made /\ schema' = schema /\ file' = file /\ table' = table
      /\ data' = data /\ slot' = slot /\ last' = last /\ kept' = kept
      /\ cut' = cut /\ status' = status
  BY DEF vars
<1>2. Copies' /\ Sized' /\ Typed'
  BY <1>1, MadeKept DEF LInv, Copies, Sized, Typed
<1>3. Causes'
  BY <1>1 DEF LInv, Causes, OverrunHasCause, CrashHasCause
<1>4. schema' = made' => \A i \in Attrs(made)' : Faithful(i)'
  BY <1>1, MadeKept DEF LInv, Faithful, Stored
<1> QED BY <1>2, <1>3, <1>4 DEF LInv

LEMMA NextInv ==
  ASSUME LInv, Next
  PROVE  LInv'
BY CreateTableInv, OpenTableInv, CreateRecordInv, GetAttrInv, SetAttrInv,
   InsertRecordInv, GetRecordInv DEF Next

THEOREM Invariance == Spec => []LInv
<1>1. Init => LInv
  BY InitInv
<1>2. LInv /\ [Next]_vars => LInv'
  BY NextInv, StutterInv
<1> QED BY <1>1, <1>2, PTL DEF Spec

-----------------------------------------------------------------------------
(* The properties *)

\* The caller's schema, the one on page 0 and the opened one have the same
\* number of attributes, and every byte is one that was stored, for schemas of
\* any number of attributes, types, lengths and names.
THEOREM TypeCorrect == Spec => []TypeOK
<1>1. LInv => TypeOK
  <2> SUFFICES ASSUME LInv PROVE TypeOK
    OBVIOUS
  <2>1. IsSchema(made) /\ IsSchema(schema) /\ TableBytes \in Nat
    BY MadeIs
  <2>2. file = NoSchema \/ IsSchema(file)
    BY <2>1, FormsAre DEF LInv, Copies
  <2>3. table = NoSchema \/ table.numAttr = made.numAttr
    BY <2>1, FormsAre, ParseIs DEF LInv, Copies
  <2>4. cut \in Nat
    BY <2>1 DEF LInv, Sized
  <2> QED BY <2>1, <2>2, <2>3, <2>4 DEF LInv, Typed, Causes, TypeOK
<1> QED BY <1>1, Invariance, PTL

\* getAttr (record_mgr.c:661-724) returns what setAttr (726-770) stored last,
\* over updatePage's copy to the page (34-41) and getRecord's back (366-370),
\* for every attribute but those the property excepts: the six computations of
\* a position agree on all others.
THEOREM GarblingCaused == Spec => []GarbledHasCause
<1>1. LInv => GarbledHasCause
  <2> SUFFICES ASSUME LInv, NEW i \in Attrs(made), last[i] # Unset,
                      ~Shared(i), ~Retyped,
                      ~(i = 1 /\ made.dataTypes[1] # DT_STRING),
                      ~(cut # 0 /\ End(made, i) > cut), Width(made, i) # 0
               PROVE  Got(i) = last[i]
    BY DEF GarbledHasCause
  <2>1. /\ made \in [numAttr : 1 .. MaxAttrs, keySize : 1 .. MaxAttrs,
                     dataTypes : [Attrs(made) -> DT_INT .. DT_BOOL],
                     typeLength : [Attrs(made) -> Nat],
                     attrNames : [Attrs(made) -> Nat]]
        /\ IsSchema(made)
    BY MadeIs DEF IsSchema
  <2>2. schema = made
    <3>1. CASE schema # made
      <4>1. PICK k \in Attrs(made) : schema = Asked(made, k)
        BY <3>1 DEF LInv, Copies, Forms
      <4>2. k = 1 /\ schema = [made EXCEPT !.dataTypes[1] = DT_STRING]
        BY <3>1, <4>1 DEF Asked
      <4>3. schema.dataTypes = [made.dataTypes EXCEPT ![1] = DT_STRING]
        BY <2>1, <4>2
      <4>4. schema = [made EXCEPT !.dataTypes = schema.dataTypes]
        BY <2>1, <4>2, <4>3
      <4>5. [made EXCEPT !.dataTypes = made.dataTypes] = made
        BY <2>1
      <4> QED BY <3>1, <4>4, <4>5 DEF Retyped
    <3> QED BY <3>1
  <2>3. Asked(schema, i) = made
    <3>1. CASE i # 1
      BY <2>2, <3>1 DEF Asked
    <3>2. CASE i = 1
      <4>1. [made.dataTypes EXCEPT ![1] = DT_STRING] = made.dataTypes
        BY <2>1, <3>2
      <4>2. [made EXCEPT !.dataTypes[1] = DT_STRING]
              = [made EXCEPT !.dataTypes = [made.dataTypes EXCEPT ![1] = DT_STRING]]
        BY <2>1
      <4>3. [made EXCEPT !.dataTypes = made.dataTypes] = made
        BY <2>1
      <4> QED BY <2>2, <3>2, <4>1, <4>2, <4>3 DEF Asked
    <3> QED BY <3>1, <3>2
  <2>4. /\ Width(made, i) \in Nat /\ End(made, i) \in Nat
    BY <2>1, PosIs
  <2>5. cut = 0 \/ End(made, i) <= cut
    <3>1. cut \in Nat
      BY MadeIs DEF LInv, Sized
    <3> QED BY <2>4, <3>1
  <2>6. Stored(data, i, last[i]) /\ last[i] \in Values
    BY <2>2, <2>5 DEF LInv, Faithful, Typed
  <2> DEFINE shown == {v \in Values : \A k \in 0 .. Width(made, i) - 1 :
                 At(data, Pos(made, i) + k) = [attr |-> i, val |-> v, at |-> k]}
  <2>7. shown = {last[i]}
    <3>1. last[i] \in shown
      BY <2>6 DEF Stored
    <3>2. ASSUME NEW v \in shown PROVE v = last[i]
      <4>1. 0 \in 0 .. Width(made, i) - 1
        BY <2>4
      <4>2. [attr |-> i, val |-> v, at |-> 0] = [attr |-> i, val |-> last[i], at |-> 0]
        BY <3>1, <4>1
      <4> QED BY <4>2
    <3> QED BY <3>1, <3>2
  <2>8. Got(i) = IF made.dataTypes[i] = made.dataTypes[i] /\ shown # {}
                   THEN CHOOSE v \in shown : TRUE ELSE Unset
    BY <2>3 DEF Got
  <2> HIDE DEF shown
  <2> QED BY <2>7, <2>8
<1> QED BY <1>1, Invariance, PTL

\* createRecord (record_mgr.c:638-648), setAttr and getRecord write behind a
\* record only for the schemas whose size getRecordSize (553-562) gets wrong.
THEOREM OverrunCaused == Spec => []OverrunHasCause
<1>1. LInv => OverrunHasCause
  BY DEF LInv, Causes
<1> QED BY <1>1, Invariance, PTL

\* An opened table has a size unless openTable (record_mgr.c:182-203), which
\* reads four bytes too early, takes the end of a long name for a type.
THEOREM CrashCaused == Spec => []CrashHasCause
<1>1. LInv => CrashHasCause
  BY DEF LInv, Causes
<1> QED BY <1>1, Invariance, PTL
=============================================================================
