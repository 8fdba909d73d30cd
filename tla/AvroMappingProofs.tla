--------------------------- MODULE AvroMappingProofs ---------------------------
(***************************************************************************)
(* What AvroMapping shows of a record can be copied and means what was     *)
(* written, for every set of schemas, texts and values, and any bounds.    *)
(*                                                                         *)
(* The functions of the depth come first: each is what its definition says *)
(* at every depth.  Then one level at a time: what is shown is a JSON text,*)
(* what is shown and read again is the same, and what is read means the    *)
(* same when it is shown.  A lemma on a level takes the fact for the level *)
(* below as its assumption; induction on the depth puts them together.     *)
(*                                                                         *)
(* At the end, the expansion of references that comes before: which        *)
(* schemas it gives, and which ones overflow the stack.                    *)
(***************************************************************************)
EXTENDS AvroSchema, WellFoundedInduction, TLAPS

Smaller == {p \in Nat \X Nat : p[1] < p[2]}

LEMMA SmallerWellFounded == IsWellFoundedOn(Smaller, Nat)
BY NatLessThanWellFounded DEF OpToRel, Smaller

\* Induction on the numbers, for a set.
LEMMA AllNumbers ==
    ASSUME NEW T \in SUBSET Nat, 0 \in T, \A n \in T : n + 1 \in T
    PROVE  \A n \in Nat : n \in T
<1>1. SUFFICES ASSUME NEW x \in Nat, x \notin T PROVE FALSE
  OBVIOUS
<1> DEFINE R == Nat \ T
<1>2. PICK n \in R : \A m \in R : <<m, n>> \notin Smaller
  <2>1. R \subseteq Nat /\ R # {}
    BY <1>1
  <2> HIDE DEF R
  <2> QED
    BY <2>1, SmallerWellFounded, WFMin
<1>3. n \in Nat /\ n \notin T /\ n # 0
  BY <1>2
<1>4. n - 1 \in Nat /\ <<n - 1, n>> \in Smaller
  BY <1>3 DEF Smaller
<1>5. n - 1 \in T
  BY <1>2, <1>4
<1> QED
  BY <1>3, <1>5
-----------------------------------------------------------------------------
(* The functions of the depth *)

LEMMA SchemaSetAt ==
    ASSUME NEW n \in Depths
    PROVE  SchemaSet[n] = SchemasOver(IF n = 0 THEN {} ELSE SchemaSet[n - 1])
<1> DEFINE At(m, sub) == SchemasOver(sub)
           Upto(N, f) == f = [m \in 0..N |-> At(m, IF m = 0 THEN {} ELSE f[m - 1])]
           T == {N \in Nat : \E f : Upto(N, f)}
<1>1. 0 \in T
  <2> DEFINE f == [m \in 0..0 |-> At(m, {})]
  <2> HIDE DEF At
  <2>1. Upto(0, f)
    OBVIOUS
  <2> QED
    BY <2>1
<1>2. ASSUME NEW N \in T PROVE N + 1 \in T
  <2>1. PICK f : Upto(N, f)
    OBVIOUS
  <2> DEFINE g == [m \in 0..(N + 1) |-> IF m = N + 1 THEN At(m, f[N]) ELSE f[m]]
  <2> HIDE DEF At
  <2>2. ASSUME NEW m \in 0..(N + 1)
        PROVE  g[m] = At(m, IF m = 0 THEN {} ELSE g[m - 1])
    BY <2>1
  <2>3. Upto(N + 1, g) /\ N + 1 \in Nat
    BY <2>2
  <2>4. \E h : Upto(N + 1, h)
    BY <2>3
  <2> HIDE DEF Upto
  <2> QED
    BY <2>3, <2>4
<1>3. \E f : Upto(MaxDepth, f)
  <2>1. MaxDepth \in Nat
    BY AvroAssumption
  <2> HIDE DEF Upto
  <2>2. T \in SUBSET Nat
    OBVIOUS
  <2>3. \A N \in T : N + 1 \in T
    BY <1>2
  <2> HIDE DEF T
  <2>4. MaxDepth \in T
    BY <1>1, <2>1, <2>2, <2>3, AllNumbers
  <2> QED
    BY <2>4 DEF T
<1>4. Upto(MaxDepth, SchemaSet)
  BY <1>3 DEF SchemaSet, Depths
<1> QED
  BY <1>4 DEF Depths

LEMMA JsonSetAt ==
    ASSUME NEW n \in Depths
    PROVE  JsonSet[n] = JsonOver(IF n = 0 THEN {} ELSE JsonSet[n - 1])
<1> DEFINE At(m, sub) == JsonOver(sub)
           Upto(N, f) == f = [m \in 0..N |-> At(m, IF m = 0 THEN {} ELSE f[m - 1])]
           T == {N \in Nat : \E f : Upto(N, f)}
<1>1. 0 \in T
  <2> DEFINE f == [m \in 0..0 |-> At(m, {})]
  <2> HIDE DEF At
  <2>1. Upto(0, f)
    OBVIOUS
  <2> QED
    BY <2>1
<1>2. ASSUME NEW N \in T PROVE N + 1 \in T
  <2>1. PICK f : Upto(N, f)
    OBVIOUS
  <2> DEFINE g == [m \in 0..(N + 1) |-> IF m = N + 1 THEN At(m, f[N]) ELSE f[m]]
  <2> HIDE DEF At
  <2>2. ASSUME NEW m \in 0..(N + 1)
        PROVE  g[m] = At(m, IF m = 0 THEN {} ELSE g[m - 1])
    BY <2>1
  <2>3. Upto(N + 1, g) /\ N + 1 \in Nat
    BY <2>2
  <2>4. \E h : Upto(N + 1, h)
    BY <2>3
  <2> HIDE DEF Upto
  <2> QED
    BY <2>3, <2>4
<1>3. \E f : Upto(MaxDepth, f)
  <2>1. MaxDepth \in Nat
    BY AvroAssumption
  <2> HIDE DEF Upto
  <2>2. T \in SUBSET Nat
    OBVIOUS
  <2>3. \A N \in T : N + 1 \in T
    BY <1>2
  <2> HIDE DEF T
  <2>4. MaxDepth \in T
    BY <1>1, <2>1, <2>2, <2>3, AllNumbers
  <2> QED
    BY <2>4 DEF T
<1>4. Upto(MaxDepth, JsonSet)
  BY <1>3 DEF JsonSet, Depths
<1> QED
  BY <1>4 DEF Depths

LEMMA ValuesAt ==
    ASSUME NEW n \in Depths
    PROVE  Values[n] = ValuesOver(IF n = 0 THEN {} ELSE Values[n - 1])
<1> DEFINE At(m, sub) == ValuesOver(sub)
           Upto(N, f) == f = [m \in 0..N |-> At(m, IF m = 0 THEN {} ELSE f[m - 1])]
           T == {N \in Nat : \E f : Upto(N, f)}
<1>1. 0 \in T
  <2> DEFINE f == [m \in 0..0 |-> At(m, {})]
  <2> HIDE DEF At
  <2>1. Upto(0, f)
    OBVIOUS
  <2> QED
    BY <2>1
<1>2. ASSUME NEW N \in T PROVE N + 1 \in T
  <2>1. PICK f : Upto(N, f)
    OBVIOUS
  <2> DEFINE g == [m \in 0..(N + 1) |-> IF m = N + 1 THEN At(m, f[N]) ELSE f[m]]
  <2> HIDE DEF At
  <2>2. ASSUME NEW m \in 0..(N + 1)
        PROVE  g[m] = At(m, IF m = 0 THEN {} ELSE g[m - 1])
    BY <2>1
  <2>3. Upto(N + 1, g) /\ N + 1 \in Nat
    BY <2>2
  <2>4. \E h : Upto(N + 1, h)
    BY <2>3
  <2> HIDE DEF Upto
  <2> QED
    BY <2>3, <2>4
<1>3. \E f : Upto(MaxDepth, f)
  <2>1. MaxDepth \in Nat
    BY AvroAssumption
  <2> HIDE DEF Upto
  <2>2. T \in SUBSET Nat
    OBVIOUS
  <2>3. \A N \in T : N + 1 \in T
    BY <1>2
  <2> HIDE DEF T
  <2>4. MaxDepth \in T
    BY <1>1, <2>1, <2>2, <2>3, AllNumbers
  <2> QED
    BY <2>4 DEF T
<1>4. Upto(MaxDepth, Values)
  BY <1>3 DEF Values, Depths
<1> QED
  BY <1>4 DEF Depths

LEMMA ValueSetAt ==
    ASSUME NEW n \in Depths
    PROVE  ValueSet[n] = [s \in SchemaSet[n] |-> {v \in Values[n] : Conforms(v, s, IF n = 0 THEN <<>> ELSE ValueSet[n - 1])}]
<1> DEFINE At(m, sub) == [s \in SchemaSet[m] |-> {v \in Values[m] : Conforms(v, s, sub)}]
           Upto(N, f) == f = [m \in 0..N |-> At(m, IF m = 0 THEN <<>> ELSE f[m - 1])]
           T == {N \in Nat : \E f : Upto(N, f)}
<1>1. 0 \in T
  <2> DEFINE f == [m \in 0..0 |-> At(m, <<>>)]
  <2> HIDE DEF At
  <2>1. Upto(0, f)
    OBVIOUS
  <2> QED
    BY <2>1
<1>2. ASSUME NEW N \in T PROVE N + 1 \in T
  <2>1. PICK f : Upto(N, f)
    OBVIOUS
  <2> DEFINE g == [m \in 0..(N + 1) |-> IF m = N + 1 THEN At(m, f[N]) ELSE f[m]]
  <2> HIDE DEF At
  <2>2. ASSUME NEW m \in 0..(N + 1)
        PROVE  g[m] = At(m, IF m = 0 THEN <<>> ELSE g[m - 1])
    BY <2>1
  <2>3. Upto(N + 1, g) /\ N + 1 \in Nat
    BY <2>2
  <2>4. \E h : Upto(N + 1, h)
    BY <2>3
  <2> HIDE DEF Upto
  <2> QED
    BY <2>3, <2>4
<1>3. \E f : Upto(MaxDepth, f)
  <2>1. MaxDepth \in Nat
    BY AvroAssumption
  <2> HIDE DEF Upto
  <2>2. T \in SUBSET Nat
    OBVIOUS
  <2>3. \A N \in T : N + 1 \in T
    BY <1>2
  <2> HIDE DEF T
  <2>4. MaxDepth \in T
    BY <1>1, <2>1, <2>2, <2>3, AllNumbers
  <2> QED
    BY <2>4 DEF T
<1>4. Upto(MaxDepth, ValueSet)
  BY <1>3 DEF ValueSet, Depths
<1> QED
  BY <1>4 DEF Depths

LEMMA ToAvroAt ==
    ASSUME NEW n \in Depths
    PROVE  ToAvro[n] = [s \in SchemaSet[n] |-> [j \in JsonSet[n] |-> MapToAvro(j, s, IF n = 0 THEN <<>> ELSE ToAvro[n - 1])]]
<1> DEFINE At(m, sub) == [s \in SchemaSet[m] |-> [j \in JsonSet[m] |-> MapToAvro(j, s, sub)]]
           Upto(N, f) == f = [m \in 0..N |-> At(m, IF m = 0 THEN <<>> ELSE f[m - 1])]
           T == {N \in Nat : \E f : Upto(N, f)}
<1>1. 0 \in T
  <2> DEFINE f == [m \in 0..0 |-> At(m, <<>>)]
  <2> HIDE DEF At
  <2>1. Upto(0, f)
    OBVIOUS
  <2> QED
    BY <2>1
<1>2. ASSUME NEW N \in T PROVE N + 1 \in T
  <2>1. PICK f : Upto(N, f)
    OBVIOUS
  <2> DEFINE g == [m \in 0..(N + 1) |-> IF m = N + 1 THEN At(m, f[N]) ELSE f[m]]
  <2> HIDE DEF At
  <2>2. ASSUME NEW m \in 0..(N + 1)
        PROVE  g[m] = At(m, IF m = 0 THEN <<>> ELSE g[m - 1])
    BY <2>1
  <2>3. Upto(N + 1, g) /\ N + 1 \in Nat
    BY <2>2
  <2>4. \E h : Upto(N + 1, h)
    BY <2>3
  <2> HIDE DEF Upto
  <2> QED
    BY <2>3, <2>4
<1>3. \E f : Upto(MaxDepth, f)
  <2>1. MaxDepth \in Nat
    BY AvroAssumption
  <2> HIDE DEF Upto
  <2>2. T \in SUBSET Nat
    OBVIOUS
  <2>3. \A N \in T : N + 1 \in T
    BY <1>2
  <2> HIDE DEF T
  <2>4. MaxDepth \in T
    BY <1>1, <2>1, <2>2, <2>3, AllNumbers
  <2> QED
    BY <2>4 DEF T
<1>4. Upto(MaxDepth, ToAvro)
  BY <1>3 DEF ToAvro, Depths
<1> QED
  BY <1>4 DEF Depths

LEMMA ToJsonAt ==
    ASSUME NEW n \in Depths
    PROVE  ToJson[n] = [s \in SchemaSet[n] |-> [v \in ValueSet[n][s] |-> MapToJson(v, s, IF n = 0 THEN <<>> ELSE ToJson[n - 1])]]
<1> DEFINE At(m, sub) == [s \in SchemaSet[m] |-> [v \in ValueSet[m][s] |-> MapToJson(v, s, sub)]]
           Upto(N, f) == f = [m \in 0..N |-> At(m, IF m = 0 THEN <<>> ELSE f[m - 1])]
           T == {N \in Nat : \E f : Upto(N, f)}
<1>1. 0 \in T
  <2> DEFINE f == [m \in 0..0 |-> At(m, <<>>)]
  <2> HIDE DEF At
  <2>1. Upto(0, f)
    OBVIOUS
  <2> QED
    BY <2>1
<1>2. ASSUME NEW N \in T PROVE N + 1 \in T
  <2>1. PICK f : Upto(N, f)
    OBVIOUS
  <2> DEFINE g == [m \in 0..(N + 1) |-> IF m = N + 1 THEN At(m, f[N]) ELSE f[m]]
  <2> HIDE DEF At
  <2>2. ASSUME NEW m \in 0..(N + 1)
        PROVE  g[m] = At(m, IF m = 0 THEN <<>> ELSE g[m - 1])
    BY <2>1
  <2>3. Upto(N + 1, g) /\ N + 1 \in Nat
    BY <2>2
  <2>4. \E h : Upto(N + 1, h)
    BY <2>3
  <2> HIDE DEF Upto
  <2> QED
    BY <2>3, <2>4
<1>3. \E f : Upto(MaxDepth, f)
  <2>1. MaxDepth \in Nat
    BY AvroAssumption
  <2> HIDE DEF Upto
  <2>2. T \in SUBSET Nat
    OBVIOUS
  <2>3. \A N \in T : N + 1 \in T
    BY <1>2
  <2> HIDE DEF T
  <2>4. MaxDepth \in T
    BY <1>1, <2>1, <2>2, <2>3, AllNumbers
  <2> QED
    BY <2>4 DEF T
<1>4. Upto(MaxDepth, ToJson)
  BY <1>3 DEF ToJson, Depths
<1> QED
  BY <1>4 DEF Depths

LEMMA AmbiguousAt ==
    ASSUME NEW n \in Depths
    PROVE  Ambiguous[n] = [s \in SchemaSet[n] |-> Clash(s, IF n = 0 THEN <<>> ELSE Ambiguous[n - 1])]
<1> DEFINE At(m, sub) == [s \in SchemaSet[m] |-> Clash(s, sub)]
           Upto(N, f) == f = [m \in 0..N |-> At(m, IF m = 0 THEN <<>> ELSE f[m - 1])]
           T == {N \in Nat : \E f : Upto(N, f)}
<1>1. 0 \in T
  <2> DEFINE f == [m \in 0..0 |-> At(m, <<>>)]
  <2> HIDE DEF At
  <2>1. Upto(0, f)
    OBVIOUS
  <2> QED
    BY <2>1
<1>2. ASSUME NEW N \in T PROVE N + 1 \in T
  <2>1. PICK f : Upto(N, f)
    OBVIOUS
  <2> DEFINE g == [m \in 0..(N + 1) |-> IF m = N + 1 THEN At(m, f[N]) ELSE f[m]]
  <2> HIDE DEF At
  <2>2. ASSUME NEW m \in 0..(N + 1)
        PROVE  g[m] = At(m, IF m = 0 THEN <<>> ELSE g[m - 1])
    BY <2>1
  <2>3. Upto(N + 1, g) /\ N + 1 \in Nat
    BY <2>2
  <2>4. \E h : Upto(N + 1, h)
    BY <2>3
  <2> HIDE DEF Upto
  <2> QED
    BY <2>3, <2>4
<1>3. \E f : Upto(MaxDepth, f)
  <2>1. MaxDepth \in Nat
    BY AvroAssumption
  <2> HIDE DEF Upto
  <2>2. T \in SUBSET Nat
    OBVIOUS
  <2>3. \A N \in T : N + 1 \in T
    BY <1>2
  <2> HIDE DEF T
  <2>4. MaxDepth \in T
    BY <1>1, <2>1, <2>2, <2>3, AllNumbers
  <2> QED
    BY <2>4 DEF T
<1>4. Upto(MaxDepth, Ambiguous)
  BY <1>3 DEF Ambiguous, Depths
<1> QED
  BY <1>4 DEF Depths

LEMMA SameMeaningAt ==
    ASSUME NEW n \in Depths
    PROVE  SameMeaning[n] = [s \in SchemaSet[n] |-> [j \in JsonSet[n] |-> [k \in JsonSet[n] |-> Agree(s, j, k, IF n = 0 THEN <<>> ELSE SameMeaning[n - 1])]]]
<1> DEFINE At(m, sub) == [s \in SchemaSet[m] |-> [j \in JsonSet[m] |-> [k \in JsonSet[m] |-> Agree(s, j, k, sub)]]]
           Upto(N, f) == f = [m \in 0..N |-> At(m, IF m = 0 THEN <<>> ELSE f[m - 1])]
           T == {N \in Nat : \E f : Upto(N, f)}
<1>1. 0 \in T
  <2> DEFINE f == [m \in 0..0 |-> At(m, <<>>)]
  <2> HIDE DEF At
  <2>1. Upto(0, f)
    OBVIOUS
  <2> QED
    BY <2>1
<1>2. ASSUME NEW N \in T PROVE N + 1 \in T
  <2>1. PICK f : Upto(N, f)
    OBVIOUS
  <2> DEFINE g == [m \in 0..(N + 1) |-> IF m = N + 1 THEN At(m, f[N]) ELSE f[m]]
  <2> HIDE DEF At
  <2>2. ASSUME NEW m \in 0..(N + 1)
        PROVE  g[m] = At(m, IF m = 0 THEN <<>> ELSE g[m - 1])
    BY <2>1
  <2>3. Upto(N + 1, g) /\ N + 1 \in Nat
    BY <2>2
  <2>4. \E h : Upto(N + 1, h)
    BY <2>3
  <2> HIDE DEF Upto
  <2> QED
    BY <2>3, <2>4
<1>3. \E f : Upto(MaxDepth, f)
  <2>1. MaxDepth \in Nat
    BY AvroAssumption
  <2> HIDE DEF Upto
  <2>2. T \in SUBSET Nat
    OBVIOUS
  <2>3. \A N \in T : N + 1 \in T
    BY <1>2
  <2> HIDE DEF T
  <2>4. MaxDepth \in T
    BY <1>1, <2>1, <2>2, <2>3, AllNumbers
  <2> QED
    BY <2>4 DEF T
<1>4. Upto(MaxDepth, SameMeaning)
  BY <1>3 DEF SameMeaning, Depths
<1> QED
  BY <1>4 DEF Depths

LEMMA TensAt ==
    ASSUME NEW n \in 0..MaxScale
    PROVE  Tens[n] = IF n = 0 THEN 1 ELSE 10 * Tens[n - 1]
<1> DEFINE At(m, sub) == IF m = 0 THEN 1 ELSE 10 * sub
           Upto(N, f) == f = [m \in 0..N |-> At(m, IF m = 0 THEN 1 ELSE f[m - 1])]
           T == {N \in Nat : \E f : Upto(N, f)}
<1>1. 0 \in T
  <2> DEFINE f == [m \in 0..0 |-> At(m, 1)]
  <2> HIDE DEF At
  <2>1. Upto(0, f)
    OBVIOUS
  <2> QED
    BY <2>1
<1>2. ASSUME NEW N \in T PROVE N + 1 \in T
  <2>1. PICK f : Upto(N, f)
    OBVIOUS
  <2> DEFINE g == [m \in 0..(N + 1) |-> IF m = N + 1 THEN At(m, f[N]) ELSE f[m]]
  <2> HIDE DEF At
  <2>2. ASSUME NEW m \in 0..(N + 1)
        PROVE  g[m] = At(m, IF m = 0 THEN 1 ELSE g[m - 1])
    BY <2>1
  <2>3. Upto(N + 1, g) /\ N + 1 \in Nat
    BY <2>2
  <2>4. \E h : Upto(N + 1, h)
    BY <2>3
  <2> HIDE DEF Upto
  <2> QED
    BY <2>3, <2>4
<1>3. \E f : Upto(MaxScale, f)
  <2>1. MaxScale \in Nat
    BY AvroAssumption
  <2> HIDE DEF Upto
  <2>2. T \in SUBSET Nat
    OBVIOUS
  <2>3. \A N \in T : N + 1 \in T
    BY <1>2
  <2> HIDE DEF T
  <2>4. MaxScale \in T
    BY <1>1, <2>1, <2>2, <2>3, AllNumbers
  <2> QED
    BY <2>4 DEF T
<1>4. Upto(MaxScale, Tens)
  BY <1>3 DEF Tens
<1> QED
  BY <1>4
-----------------------------------------------------------------------------
(* What schemas, texts and values are made of *)

\* The parts of a schema over those of B
LEMMA SchemaParts ==
    ASSUME NEW B, NEW s \in SchemasOver(B)
    PROVE  /\ s.type \in {"array", "map"} => s.items \in B
           /\ s.type = "union" => /\ s.of \in Seq(B)
                                  /\ \A i \in DOMAIN s.of : LastSegment(s.of[i]) \in Keys
           /\ s.type = "record" => s.fields \in Objects(B)
           /\ s.type \in {"record", "enum"} => s.name \in Names
           /\ s.type = "enum" => s.symbols \in SUBSET STRING
           /\ s.type = "decimal" => s.scale \in 0..MaxScale
           /\ s.type \in SimpleTypes \cup {"decimal", "fixed", "enum", "array", "map", "union",
                                           "record"}
<1> DEFINE C == {t \in B : LastSegment(t) \in Keys}
<1>1. ASSUME NEW x \in Seq(C)
      PROVE  x \in Seq(B) /\ \A i \in DOMAIN x : LastSegment(x[i]) \in Keys
  OBVIOUS
<1> HIDE DEF C
<1>2. s \in [type : SimpleTypes] \cup [type : {"decimal"}, scale : 0..MaxScale]
            \cup [type : {"fixed"}, name : Names]
            \cup [type : {"enum"}, name : Names, symbols : SUBSET STRING]
            \cup [type : {"array", "map"}, items : B]
            \cup [type : {"union"}, of : Seq(C)]
            \cup [type : {"record"}, name : Names, fields : Objects(B)]
  BY DEF SchemasOver, C
<1>3. CASE s \in [type : SimpleTypes]
  BY <1>3 DEF SimpleTypes, NumberTypes, IntTypes, LongTypes, FloatTypes
<1>4. CASE s \in [type : {"decimal"}, scale : 0..MaxScale]
  BY <1>4
<1>5. CASE s \in [type : {"fixed"}, name : Names]
  BY <1>5
<1>6. CASE s \in [type : {"enum"}, name : Names, symbols : SUBSET STRING]
  BY <1>6
<1>7. CASE s \in [type : {"array", "map"}, items : B]
  BY <1>7
<1>8. CASE s \in [type : {"union"}, of : Seq(C)]
  BY <1>8, <1>1
<1>9. CASE s \in [type : {"record"}, name : Names, fields : Objects(B)]
  BY <1>9
<1> QED
  BY <1>2, <1>3, <1>4, <1>5, <1>6, <1>7, <1>8, <1>9

\* The content of a text over those of B
LEMMA TextParts ==
    ASSUME NEW B, NEW j \in JsonOver(B)
    PROVE  /\ j = [is |-> j.is, val |-> j.val]
           /\ j.is = "null" => j = Null
           /\ j.is = "bool" => j.val \in BOOLEAN
           /\ j.is = "num" => j.val \in Numbers
           /\ j.is = "str" => j.val \in STRING
           /\ j.is = "uuid" => j.val \in [id : STRING, canonical : BOOLEAN]
           /\ j.is = "decimal" => j.val \in [n : (-DecimalMax)..DecimalMax, scale : 0..MaxScale]
           /\ j.is = "arr" => j.val \in Seq([is : {"num"}, val : Numbers]) \cup Seq(B)
           /\ j.is = "obj" => j.val \in Objects(B)
           /\ j.is \in {"null", "bool", "num", "str", "uuid", "decimal", "arr", "obj"}
<1> DEFINE Arrs == Seq([is : {"num"}, val : Numbers]) \cup Seq(B)
<1>1. j \in {Null} \cup [is : {"bool"}, val : BOOLEAN] \cup [is : {"num"}, val : Numbers]
            \cup Strings \cup [is : {"arr"}, val : Arrs] \cup [is : {"obj"}, val : Objects(B)]
  BY DEF JsonOver
<1> HIDE DEF Arrs
<1>2. CASE j \in {Null} \cup [is : {"bool"}, val : BOOLEAN] \cup [is : {"num"}, val : Numbers]
  BY <1>2 DEF Null
<1>3. CASE j \in Strings
  BY <1>3 DEF Strings
<1>4. CASE j \in [is : {"arr"}, val : Arrs] \cup [is : {"obj"}, val : Objects(B)]
  BY <1>4 DEF Arrs
<1> QED
  BY <1>1, <1>2, <1>3, <1>4

\* The content of a value over those of B
LEMMA ValueParts ==
    ASSUME NEW B, NEW v \in ValuesOver(B)
    PROVE  /\ v = [is |-> v.is, val |-> v.val]
           /\ v.is = "null" => v = Null
           /\ v.is = "boolean" => v.val \in BOOLEAN
           /\ v.is \in NumberTypes => v.val \in Numbers
           /\ v.is = "decimal" => v.val \in Int
           /\ v.is = "string" => v.val \in Strings
           /\ v.is \in {"uuid", "enum"} => v.val \in STRING
           /\ v.is \in {"bytes", "fixed"} => v.val \in Seq(0..255)
           /\ v.is = "array" => v.val \in Seq(B)
           /\ v.is = "union" => v.val \in Nat \X B
           /\ v.is \in {"map", "record"} => v.val \in Objects(B)
           /\ v.is # "absent"
<1>1. v \in {Null} \cup [is : {"boolean"}, val : BOOLEAN] \cup [is : NumberTypes, val : Numbers]
            \cup [is : {"nan", "duration"}, val : {0}] \cup [is : {"decimal"}, val : Int]
            \cup [is : {"string"}, val : Strings] \cup [is : {"uuid", "enum"}, val : STRING]
            \cup [is : {"bytes", "fixed"}, val : Seq(0..255)]
            \cup [is : {"array"}, val : Seq(B)] \cup [is : {"union"}, val : Nat \X B]
            \cup [is : {"map", "record"}, val : Objects(B)]
  BY DEF ValuesOver
<1> USE DEF NumberTypes, IntTypes, LongTypes, FloatTypes
<1>2. CASE v \in {Null} \cup [is : {"boolean"}, val : BOOLEAN]
                   \cup [is : {"nan", "duration"}, val : {0}] \cup [is : {"decimal"}, val : Int]
  BY <1>2 DEF Null
<1>3. CASE v \in [is : NumberTypes, val : Numbers]
  BY <1>3
<1>4. CASE v \in [is : {"string"}, val : Strings] \cup [is : {"uuid", "enum"}, val : STRING]
  BY <1>4
<1>5. CASE v \in [is : {"bytes", "fixed"}, val : Seq(0..255)] \cup [is : {"array"}, val : Seq(B)]
  BY <1>5
<1>6. CASE v \in [is : {"union"}, val : Nat \X B] \cup [is : {"map", "record"}, val : Objects(B)]
  BY <1>6
<1> QED
  BY <1>1, <1>2, <1>3, <1>4, <1>5, <1>6

\* What a value is by the type of its schema
LEMMA ValueOfSchema ==
    ASSUME NEW v, NEW s, NEW VS, Conforms(v, s, VS)
    PROVE  /\ s.type = "array" => v.is = "array" /\ \A i \in DOMAIN v.val : v.val[i] \in VS[s.items]
           /\ s.type = "map" =>
                 v.is = "map" /\ \A k \in Keys : v.val[k] # Absent => v.val[k] \in VS[s.items]
           /\ s.type = "union" =>
                 v.is = "union" /\ v.val[1] \in DOMAIN s.of /\ v.val[2] \in VS[s.of[v.val[1]]]
           /\ s.type = "record" =>
                 /\ v.is = "record"
                 /\ \A k \in Keys : /\ s.fields[k] = Absent => v.val[k] = Absent
                                    /\ s.fields[k] # Absent => v.val[k] \in VS[s.fields[k]]
           /\ s.type \in IntTypes => v.is = s.type /\ v.val \in IntRange
           /\ s.type \in LongTypes => v.is = s.type /\ v.val \in LongRange
           /\ s.type \in FloatTypes =>
                 \/ v = NoNumber
                 \/ v.is = s.type /\ InRange(s.type, v.val) /\ v.val = Rounded(s.type, v.val)
           /\ s.type = "enum" => v.is = "enum" /\ v.val \in s.symbols
           /\ s.type \in {"null", "boolean", "string", "uuid", "bytes", "fixed", "decimal",
                          "duration"} => v.is = s.type
<1> USE DEF IntTypes, LongTypes, FloatTypes
<1>1. CASE s.type \in {"array", "map", "union", "record"}
  BY <1>1 DEF Conforms
<1>2. CASE s.type \notin {"array", "map", "union", "record"}
  BY <1>2 DEF Conforms
<1> QED
  BY <1>1, <1>2
-----------------------------------------------------------------------------
(* Results *)

\* If all parts are converted, so is the whole.
LEMMA WholeOk ==
    ASSUME NEW kind, NEW rs, \A i \in DOMAIN rs : rs[i].ok
    PROVE  Whole(kind, rs) = Ok([is |-> kind, val |-> [i \in DOMAIN rs |-> rs[i].val]])
BY DEF Whole

\* If not, it is not, for the reasons that a part was not.
LEMMA WholeErr ==
    ASSUME NEW kind, NEW rs, ~\A i \in DOMAIN rs : rs[i].ok
    PROVE  /\ ~Whole(kind, rs).ok
           /\ \A x : x \in Whole(kind, rs).why <=> \E i \in DOMAIN rs : ~rs[i].ok /\ x \in rs[i].why
<1>1. Whole(kind, rs) = Err(UNION {rs[i].why : i \in {k \in DOMAIN rs : ~rs[k].ok}})
  BY DEF Whole
<1> QED
  BY <1>1 DEF Err

\* A whole that is converted
LEMMA WholeParts ==
    ASSUME NEW kind, NEW rs, Whole(kind, rs).ok
    PROVE  /\ \A i \in DOMAIN rs : rs[i].ok
           /\ Whole(kind, rs) = Ok([is |-> kind, val |-> [i \in DOMAIN rs |-> rs[i].val]])
           /\ Whole(kind, rs).val = [is |-> kind, val |-> [i \in DOMAIN rs |-> rs[i].val]]
<1>1. \A i \in DOMAIN rs : rs[i].ok
  BY WholeErr
<1> QED
  BY <1>1, WholeOk DEF Ok

LEMMA PartOfSequence ==
    ASSUME NEW X, NEW q \in Seq(X), NEW i \in DOMAIN q
    PROVE  q[i] \in X
OBVIOUS

\* The least of some numbers
LEMMA LeastExists ==
    ASSUME NEW T \in SUBSET Nat, T # {}
    PROVE  \E n \in T : \A m \in T : n <= m
<1>1. PICK n \in T : \A m \in T : <<m, n>> \notin Smaller
  BY SmallerWellFounded, WFMin
<1>2. ASSUME NEW m \in T PROVE n <= m
  <2>1. m \in Nat /\ n \in Nat /\ <<m, n>> \notin Smaller
    BY <1>1
  <2> QED
    BY <2>1 DEF Smaller
<1> QED
  BY <1>2
-----------------------------------------------------------------------------
(* One level: the schemas below are S, their texts J, their values VS, a subset of V *)

Below(S, J, V, VS) ==
    /\ Absent \notin J /\ Absent \notin V
    /\ S # {} => [is : {"num"}, val : Numbers] \subseteq J
    /\ \A t \in S : /\ VS[t] \subseteq V
                    /\ \A u \in VS[t] : u.is = "null" <=> t.type = "null"
                    /\ \A u \in VS[t] : u.is = "null" => u = Null
                    /\ t.type = "null" => Null \in VS[t]

\* What is not shown
Unshown(v) == v.is = "duration" \/ (v.is = "decimal" /\ v.val \notin LongRange)

\* A result of avro_to_json: a text of X, or what there is in the value that is not shown
Shown(r, X) ==
    /\ r.ok => r.val \in X /\ r = Ok(r.val)
    /\ ~r.ok => r.why # {} /\ \A v \in r.why : Unshown(v)

\* The arms of map in avro_to_json.rs, one by one
LEMMA ShowArms ==
    ASSUME NEW v, NEW s, NEW R
    PROVE  /\ v.is = "union" =>
                 /\ v.val[2].is = "null" => MapToJson(v, s, R) = Ok(Null)
                 /\ v.val[2].is # "null" =>
                       LET t == s.of[v.val[1]]
                           r == R[t][v.val[2]]
                       IN  MapToJson(v, s, R) =
                             IF r.ok THEN Ok([is |-> "obj", val |-> Only(LastSegment(t), r.val)])
                             ELSE r
           /\ v.is = "record" => MapToJson(v, s, R) =
                 Whole("obj", [k \in Keys |-> IF s.fields[k] = Absent THEN Ok(Absent)
                                              ELSE R[s.fields[k]][v.val[k]]])
           /\ v.is = "map" => MapToJson(v, s, R) =
                 Whole("obj", [k \in Keys |-> IF v.val[k] = Absent THEN Ok(Absent)
                                              ELSE R[s.items][v.val[k]]])
           /\ v.is = "array" => MapToJson(v, s, R) =
                 Whole("arr", [i \in DOMAIN v.val |-> R[s.items][v.val[i]]])
<1> USE DEF NumberTypes, IntTypes, LongTypes, FloatTypes
<1>1. CASE v.is = "union"
  BY <1>1 DEF MapToJson
<1>2. CASE v.is \in {"record", "map", "array"}
  BY <1>2 DEF MapToJson
<1> QED
  BY <1>1, <1>2

LEMMA ShowSimpleArms ==
    ASSUME NEW v, NEW s, NEW R
    PROVE  /\ v.is = "decimal" => MapToJson(v, s, R) =
                 IF v.val \in LongRange
                    THEN Ok([is |-> "decimal", val |-> [n |-> v.val, scale |-> s.scale]])
                    ELSE Err({v})
           /\ v.is \in {"null", "nan"} => MapToJson(v, s, R) = Ok(Null)
           /\ v.is = "uuid" => MapToJson(v, s, R) =
                 Ok([is |-> "uuid", val |-> [id |-> v.val, canonical |-> TRUE]])
           /\ v.is = "boolean" => MapToJson(v, s, R) = Ok([is |-> "bool", val |-> v.val])
           /\ v.is = "string" => MapToJson(v, s, R) = Ok(v.val)
           /\ v.is = "enum" => MapToJson(v, s, R) = Ok([is |-> "str", val |-> v.val])
           /\ v.is \in {"bytes", "fixed"} => MapToJson(v, s, R) =
                 Ok([is |-> "arr", val |-> [i \in DOMAIN v.val |-> Num(v.val[i])]])
           /\ v.is \in NumberTypes => MapToJson(v, s, R) = Ok(Num(v.val))
           /\ v.is = "duration" => MapToJson(v, s, R) = Err({v})
<1> USE DEF NumberTypes, IntTypes, LongTypes, FloatTypes
<1>3. CASE v.is \in {"decimal", "duration"}
  BY <1>3 DEF MapToJson
<1>4. CASE v.is \in {"null", "nan", "uuid", "boolean", "string", "enum"}
  BY <1>4 DEF MapToJson
<1>5. CASE v.is \in {"bytes", "fixed"}
  BY <1>5 DEF MapToJson
<1>6. CASE v.is \in NumberTypes
  BY <1>6 DEF MapToJson
<1> QED
  BY <1>3, <1>4, <1>5, <1>6

\* A UUID is shown in its canonical form.
LEMMA ShowUuid ==
    ASSUME NEW v, NEW s, NEW R, v.is = "uuid"
    PROVE  MapToJson(v, s, R) = Ok([is |-> "uuid", val |-> [id |-> v.val, canonical |-> TRUE]])
BY ShowSimpleArms

\* A value of the kinds that are shown by themselves
LEMMA ShowsSimple ==
    ASSUME NEW J, NEW V, NEW s, NEW R, NEW v \in ValuesOver(V),
           v.is \in {"null", "nan", "uuid", "boolean", "string", "enum", "bytes", "fixed",
                     "decimal", "duration"} \cup NumberTypes,
           v.is = "decimal" => s.scale \in 0..MaxScale
    PROVE  Shown(MapToJson(v, s, R), JsonOver(J))
<1> DEFINE Nums == Seq([is : {"num"}, val : Numbers])
           Texts == {Null} \cup [is : {"bool"}, val : BOOLEAN] \cup [is : {"num"}, val : Numbers]
                      \cup Strings \cup [is : {"arr"}, val : Nums]
<1>1. Texts \subseteq JsonOver(J)
  BY DEF JsonOver
<1>2. ASSUME NEW j \in Texts, MapToJson(v, s, R) = Ok(j)
      PROVE  Shown(MapToJson(v, s, R), JsonOver(J))
  <2> HIDE DEF Texts
  <2> QED
    BY <1>1, <1>2 DEF Shown, Ok
<1>3. CASE v.is \in {"null", "nan"}
  BY <1>2, <1>3, ShowSimpleArms
<1>4. CASE v.is = "uuid"
  <2> DEFINE j == [is |-> "uuid", val |-> [id |-> v.val, canonical |-> TRUE]]
  <2>1. j \in Strings
    BY <1>4, ValueParts DEF Strings
  <2>2. MapToJson(v, s, R) = Ok(j)
    BY <1>4, ShowSimpleArms
  <2> HIDE DEF j
  <2> QED
    BY <1>2, <2>1, <2>2
<1>5. CASE v.is = "boolean"
  <2>1. [is |-> "bool", val |-> v.val] \in Texts
    BY <1>5, ValueParts
  <2> QED
    BY <1>2, <1>5, <2>1, ShowSimpleArms
<1>6. CASE v.is = "string"
  <2>1. v.val \in Strings
    BY <1>6, ValueParts
  <2> QED
    BY <1>2, <1>6, <2>1, ShowSimpleArms
<1>7. CASE v.is = "enum"
  <2>1. [is |-> "str", val |-> v.val] \in Strings
    BY <1>7, ValueParts DEF Strings
  <2> QED
    BY <1>2, <1>7, <2>1, ShowSimpleArms
<1>8. CASE v.is \in {"bytes", "fixed"}
  <2>1. v.val \in Seq(0..255)
    BY <1>8, ValueParts
  <2>2. [i \in DOMAIN v.val |-> Num(v.val[i])] \in Nums
    <3>1. ASSUME NEW i \in DOMAIN v.val PROVE Num(v.val[i]) \in [is : {"num"}, val : Numbers]
      <4>1. v.val[i] \in 0..255
        BY <2>1, PartOfSequence
      <4>2. v.val[i] \in Numbers
        BY <4>1, AvroAssumption
      <4> QED
        BY <4>2 DEF Num
    <3>2. DOMAIN v.val = 1..Len(v.val) /\ Len(v.val) \in Nat
      BY <2>1
    <3> QED
      BY <3>1, <3>2
  <2>3. [is |-> "arr", val |-> [i \in DOMAIN v.val |-> Num(v.val[i])]] \in Texts
    BY <2>2
  <2>4. MapToJson(v, s, R) = Ok([is |-> "arr", val |-> [i \in DOMAIN v.val |-> Num(v.val[i])]])
    BY <1>8 DEF MapToJson, NumberTypes, IntTypes, LongTypes, FloatTypes
  <2> HIDE DEF Texts
  <2> QED
    BY <1>2, <2>3, <2>4
<1>9. CASE v.is \in NumberTypes
  <2>1. Num(v.val) \in Texts
    BY <1>9, ValueParts DEF Num
  <2> QED
    BY <1>2, <1>9, <2>1, ShowSimpleArms
<1>10. CASE v.is = "decimal" /\ v.val \in LongRange
  <2>1. v.val \in (-DecimalMax)..DecimalMax
    BY <1>10, AvroAssumption DEF LongRange
  <2>2. [is |-> "decimal", val |-> [n |-> v.val, scale |-> s.scale]] \in Strings
    BY <1>10, <2>1 DEF Strings
  <2>3. MapToJson(v, s, R) = Ok([is |-> "decimal", val |-> [n |-> v.val, scale |-> s.scale]])
    BY <1>10 DEF MapToJson, NumberTypes, IntTypes, LongTypes, FloatTypes
  <2> HIDE DEF Texts
  <2>4. Strings \subseteq Texts
    BY DEF Texts
  <2> QED
    BY <1>2, <2>2, <2>3, <2>4
<1>11. CASE v.is = "duration" \/ (v.is = "decimal" /\ v.val \notin LongRange)
  <2>1. MapToJson(v, s, R) = Err({v})
    <3>1. CASE v.is = "duration"
      BY <3>1 DEF MapToJson, NumberTypes, IntTypes, LongTypes, FloatTypes
    <3>2. CASE v.is = "decimal" /\ v.val \notin LongRange
      BY <3>2 DEF MapToJson, NumberTypes, IntTypes, LongTypes, FloatTypes
    <3> QED
      BY <1>11, <3>1, <3>2
  <2> QED
    BY <1>11, <2>1 DEF Shown, Err, Unshown
<1> QED
  BY <1>3, <1>4, <1>5, <1>6, <1>7, <1>8, <1>9, <1>10, <1>11

\* A value of parts, all of them results of the level below
LEMMA ShowsLevel ==
    ASSUME NEW S, NEW J, NEW V, NEW VS, Below(S, J, V, VS),
           NEW R, \A t \in S : \A u \in VS[t] : Shown(R[t][u], J),
           NEW s \in SchemasOver(S), NEW v \in ValuesOver(V), Conforms(v, s, VS)
    PROVE  Shown(MapToJson(v, s, R), JsonOver(J))
<1>1. ASSUME NEW kind \in {"obj", "arr"}, NEW rs, MapToJson(v, s, R) = Whole(kind, rs),
             kind = "obj" => DOMAIN rs = Keys,
             kind = "arr" => \E len \in Nat : DOMAIN rs = 1..len,
             \A i \in DOMAIN rs : (rs[i] = Ok(Absent) /\ kind = "obj") \/ Shown(rs[i], J)
      PROVE  Shown(MapToJson(v, s, R), JsonOver(J))
  <2>1. CASE \A i \in DOMAIN rs : rs[i].ok
    <3> DEFINE parts == [i \in DOMAIN rs |-> rs[i].val]
    <3>1. MapToJson(v, s, R) = Ok([is |-> kind, val |-> parts])
      BY <1>1, <2>1, WholeOk
    <3>2. \A i \in DOMAIN rs : rs[i].val \in J \/ (rs[i].val = Absent /\ kind = "obj")
      BY <1>1, <2>1 DEF Shown, Ok
    <3>3. CASE kind = "obj"
      <4>1. parts \in Objects(J)
        BY <1>1, <3>2, <3>3 DEF Objects
      <4> QED
        BY <3>1, <3>3, <4>1 DEF Shown, Ok, JsonOver
    <3>4. CASE kind = "arr"
      <4>1. parts \in Seq(J)
        BY <1>1, <3>2, <3>4
      <4> QED
        BY <3>1, <3>4, <4>1 DEF Shown, Ok, JsonOver
    <3> QED
      BY <3>3, <3>4
  <2>2. CASE ~\A i \in DOMAIN rs : rs[i].ok
    <3> DEFINE w == Whole(kind, rs)
    <3>1. ~w.ok /\ \A x : x \in w.why <=> \E i \in DOMAIN rs : ~rs[i].ok /\ x \in rs[i].why
      BY <2>2, WholeErr
    <3>2. \A i \in DOMAIN rs : ~rs[i].ok => rs[i].why # {} /\ \A x \in rs[i].why : Unshown(x)
      BY <1>1 DEF Shown, Ok
    <3> HIDE DEF w
    <3>3. w.why # {} /\ \A x \in w.why : Unshown(x)
      BY <2>2, <3>1, <3>2
    <3> QED
      BY <1>1, <3>1, <3>3 DEF Shown, w
  <2> QED
    BY <2>1, <2>2
<1>2. CASE s.type = "array"
  <2>1. v.is = "array" /\ s.items \in S /\ v.val \in Seq(V)
        /\ \A i \in DOMAIN v.val : v.val[i] \in VS[s.items]
    BY <1>2, SchemaParts, ValueParts, ValueOfSchema
  <2>2. MapToJson(v, s, R) = Whole("arr", [i \in DOMAIN v.val |-> R[s.items][v.val[i]]])
    BY <2>1, ShowArms
  <2> QED
    BY <1>1, <2>1, <2>2
<1>3. CASE s.type = "map"
  <2>1. v.is = "map" /\ s.items \in S
        /\ \A k \in Keys : v.val[k] # Absent => v.val[k] \in VS[s.items]
    BY <1>3, SchemaParts, ValueOfSchema
  <2> DEFINE rs == [k \in Keys |-> IF v.val[k] = Absent THEN Ok(Absent)
                                   ELSE R[s.items][v.val[k]]]
  <2>2. MapToJson(v, s, R) = Whole("obj", rs)
    BY <2>1, ShowArms
  <2>3. \A k \in Keys : rs[k] = Ok(Absent) \/ Shown(rs[k], J)
    BY <2>1
  <2> QED
    BY <1>1, <2>2, <2>3
<1>4. CASE s.type = "record"
  <2>1. v.is = "record" /\ s.fields \in Objects(S)
        /\ \A k \in Keys : /\ s.fields[k] = Absent => v.val[k] = Absent
                           /\ s.fields[k] # Absent => v.val[k] \in VS[s.fields[k]]
    BY <1>4, SchemaParts, ValueOfSchema
  <2> DEFINE rs == [k \in Keys |-> IF s.fields[k] = Absent THEN Ok(Absent)
                                   ELSE R[s.fields[k]][v.val[k]]]
  <2>2. MapToJson(v, s, R) = Whole("obj", rs)
    BY <2>1, ShowArms
  <2>3. \A k \in Keys : s.fields[k] # Absent => s.fields[k] \in S
    BY <2>1 DEF Objects
  <2>4. \A k \in Keys : rs[k] = Ok(Absent) \/ Shown(rs[k], J)
    BY <2>1, <2>3
  <2> QED
    BY <1>1, <2>2, <2>4
<1>5. CASE s.type = "union"
  <2> DEFINE t == s.of[v.val[1]]
             r == R[t][v.val[2]]
  <2>1. v.is = "union" /\ t \in S /\ v.val[2] \in VS[t]
    BY <1>5, SchemaParts, ValueOfSchema
  <2>2. CASE v.val[2].is = "null"
    <3>1. MapToJson(v, s, R) = Ok(Null)
      BY <2>1, <2>2, ShowArms
    <3> QED
      BY <3>1 DEF Shown, Ok, JsonOver
  <2>3. CASE v.val[2].is # "null"
    <3>1. MapToJson(v, s, R) =
            IF r.ok THEN Ok([is |-> "obj", val |-> Only(LastSegment(t), r.val)]) ELSE r
      BY <2>1, <2>3, ShowArms
    <3>2. Shown(r, J)
      BY <2>1
    <3> HIDE DEF r, t
    <3>3. r.ok => Only(LastSegment(t), r.val) \in Objects(J)
      BY <3>2 DEF Only, Objects, Shown
    <3>4. CASE r.ok
      <4>1. [is |-> "obj", val |-> Only(LastSegment(t), r.val)] \in JsonOver(J)
        BY <3>3, <3>4 DEF JsonOver
      <4> QED
        BY <3>1, <3>4, <4>1 DEF Shown, Ok
    <3>5. CASE ~r.ok
      BY <3>1, <3>2, <3>5 DEF Shown
    <3> QED
      BY <3>4, <3>5
  <2> QED
    BY <2>2, <2>3
<1>6. CASE s.type \notin {"array", "map", "record", "union"}
  <2> USE DEF NumberTypes, IntTypes, LongTypes, FloatTypes
  <2>1. s.type \in SimpleTypes \cup {"decimal", "fixed", "enum"}
    BY <1>6, SchemaParts
  <2>2. v.is = s.type \/ v.is = "nan"
    BY <2>1, ValueOfSchema DEF SimpleTypes, NoNumber
  <2>3. v.is = "decimal" => s.scale \in 0..MaxScale
    BY <2>2, SchemaParts
  <2> QED
    BY <2>1, <2>2, <2>3, ShowsSimple DEF SimpleTypes
<1> QED
  BY <1>2, <1>3, <1>4, <1>5, <1>6
-----------------------------------------------------------------------------
(* What is shown and read again *)

\* A result of json_to_avro for what v is shown as: v, or refused for what is only shown
Copied(q, v) == q = Ok(v) \/ (~q.ok /\ q.why \subseteq ShownOnly)

\* No more digits are needed than there are.
LEMMA RescaledSame ==
    ASSUME NEW n \in (-DecimalMax)..DecimalMax
    PROVE  Rescaled(n, 0) = n
<1>1. 0 \in 0..MaxScale /\ DecimalMax \in Nat
  BY AvroAssumption
<1>2. Tens[0] = 1
  BY <1>1, TensAt
<1>3. HasRoom(n, 0) /\ n * Tens[0] = n
  BY <1>1, <1>2 DEF HasRoom
<1>4. (CHOOSE i \in 0..0 : HasRoom(n, i) /\ (i < 0 => ~HasRoom(n, i + 1))) = 0
  BY <1>3
<1> QED
  BY <1>3, <1>4 DEF Rescaled

LEMMA CopiesSimple ==
    ASSUME NEW S, NEW V, NEW VS, NEW R, NEW Q,
           NEW s \in SchemasOver(S), NEW v \in ValuesOver(V), Conforms(v, s, VS),
           s.type \notin {"array", "map", "union", "record"}, MapToJson(v, s, R).ok
    PROVE  Copied(MapToAvro(MapToJson(v, s, R).val, s, Q), v)
<1> DEFINE q == MapToAvro(MapToJson(v, s, R).val, s, Q)
<1> USE DEF NumberTypes, IntTypes, LongTypes, FloatTypes
<1>1. ASSUME NEW j, MapToJson(v, s, R) = Ok(j) PROVE q = MapToAvro(j, s, Q)
  BY <1>1 DEF Ok
<1> HIDE DEF q
<1>2. v = [is |-> v.is, val |-> v.val]
  BY ValueParts
<1>3. CASE s.type = "null"
  <2>1. v = Null
    BY <1>3, ValueOfSchema, ValueParts
  <2>2. MapToJson(v, s, R) = Ok(Null) /\ MapToAvro(Null, s, Q) = Ok(Null)
    BY <1>3, <2>1 DEF MapToJson, MapToAvro, Null
  <2> QED
    BY <1>1, <2>1, <2>2 DEF Copied, q
<1>4. CASE s.type = "boolean"
  <2> DEFINE j == [is |-> "bool", val |-> v.val]
  <2>1. v.is = "boolean"
    BY <1>4, ValueOfSchema
  <2>2. MapToJson(v, s, R) = Ok(j)
    BY <2>1 DEF MapToJson
  <2>3. MapToAvro(j, s, Q) = Ok(v)
    BY <1>2, <1>4, <2>1 DEF MapToAvro
  <2> QED
    BY <1>1, <2>2, <2>3 DEF Copied, q
<1>5. CASE s.type = "string"
  <2>1. v.is = "string" /\ v.val \in Strings
    BY <1>5, ValueOfSchema, ValueParts
  <2>2. MapToJson(v, s, R) = Ok(v.val)
    BY <2>1 DEF MapToJson
  <2>3. MapToAvro(v.val, s, Q) = Ok(v)
    BY <1>2, <1>5, <2>1 DEF MapToAvro
  <2> QED
    BY <1>1, <2>2, <2>3 DEF Copied, q
<1>6. CASE s.type = "uuid"
  <2>1. v.is = "uuid"
    BY <1>6, ValueOfSchema
  <2> DEFINE j == [is |-> "uuid", val |-> [id |-> v.val, canonical |-> TRUE]]
  <2>2. MapToJson(v, s, R) = Ok(j)
    BY <2>1, ShowSimpleArms
  <2>3. MapToAvro(j, s, Q) = Ok(v)
    BY <1>2, <1>6, <2>1 DEF MapToAvro
  <2> QED
    BY <1>1, <2>2, <2>3 DEF Copied, q
<1>7. CASE s.type = "enum"
  <2> DEFINE j == [is |-> "str", val |-> v.val]
  <2>1. v.is = "enum" /\ v.val \in s.symbols
    BY <1>7, ValueOfSchema
  <2>2. MapToJson(v, s, R) = Ok(j)
    BY <2>1 DEF MapToJson
  <2>3. MapToAvro(j, s, Q) = Ok(v)
    BY <1>2, <1>7, <2>1 DEF MapToAvro
  <2> QED
    BY <1>1, <2>2, <2>3 DEF Copied, q
<1>8. CASE s.type \in IntTypes \cup LongTypes
  <2>1. v.is = s.type /\ (s.type \in IntTypes => v.val \in IntRange)
        /\ (s.type \in LongTypes => v.val \in LongRange)
    BY <1>8, ValueOfSchema
  <2>2. MapToJson(v, s, R) = Ok(Num(v.val))
    BY <1>8, <2>1 DEF MapToJson
  <2>3. MapToAvro(Num(v.val), s, Q) = NumberToAvro(v.val, s)
    BY <1>8 DEF MapToAvro, Num
  <2>4. NumberToAvro(v.val, s) = Ok(v)
    BY <1>2, <1>8, <2>1 DEF NumberToAvro
  <2> QED
    BY <1>1, <2>2, <2>3, <2>4 DEF Copied, q
<1>9. CASE s.type \in FloatTypes /\ v.is = "nan"
  <2>1. MapToJson(v, s, R) = Ok(Null)
    BY <1>9 DEF MapToJson
  <2>2. MapToAvro(Null, s, Q) = Err({<<s.type, "null">>})
    BY <1>9 DEF MapToAvro, Null
  <2>3. <<s.type, "null">> \in ShownOnly
    BY <1>9 DEF ShownOnly
  <2> QED
    BY <1>1, <2>1, <2>2, <2>3 DEF Copied, q, Err
<1>10. CASE s.type \in FloatTypes /\ v.is # "nan"
  <2>1. v.is = s.type /\ InRange(s.type, v.val) /\ v.val = Rounded(s.type, v.val)
    BY <1>10, ValueOfSchema DEF NoNumber
  <2>2. MapToJson(v, s, R) = Ok(Num(v.val))
    BY <1>10, <2>1 DEF MapToJson
  <2>3. MapToAvro(Num(v.val), s, Q) = NumberToAvro(v.val, s)
    BY <1>10 DEF MapToAvro, Num
  <2>4. NumberToAvro(v.val, s) = Ok([is |-> s.type, val |-> Rounded(s.type, v.val)])
    BY <1>10, <2>1 DEF NumberToAvro
  <2>5. NumberToAvro(v.val, s) = Ok(v)
    BY <1>2, <2>1, <2>4
  <2> QED
    BY <1>1, <2>2, <2>3, <2>5 DEF Copied, q
<1>11. CASE s.type \in {"bytes", "fixed"}
  <2> DEFINE j == [is |-> "arr", val |-> [i \in DOMAIN v.val |-> Num(v.val[i])]]
  <2>1. v.is = s.type
    BY <1>11, ValueOfSchema
  <2>2. MapToJson(v, s, R) = Ok(j)
    BY <1>11, <2>1 DEF MapToJson
  <2>3. MapToAvro(j, s, Q) = Err({<<s.type, "arr">>})
    <3>1. j.is = "arr" /\ j \notin Strings
      BY DEF Strings
    <3> HIDE DEF j
    <3> QED
      BY <1>11, <3>1 DEF MapToAvro
  <2>4. <<s.type, "arr">> \in ShownOnly
    BY <1>11 DEF ShownOnly
  <2> QED
    BY <1>1, <2>2, <2>3, <2>4 DEF Copied, q, Err
<1>12. CASE s.type = "decimal"
  <2> DEFINE d == [n |-> v.val, scale |-> s.scale]
             j == [is |-> "decimal", val |-> d]
  <2>1. v.is = "decimal" /\ s.scale \in 0..MaxScale
    BY <1>12, ValueOfSchema, SchemaParts
  <2>2. v.val \in LongRange
    <3> SUFFICES ASSUME v.val \notin LongRange PROVE FALSE
      OBVIOUS
    <3>1. MapToJson(v, s, R) = Err({v})
      BY <2>1 DEF MapToJson
    <3> QED
      BY <3>1 DEF Err
  <2>3. MapToJson(v, s, R) = Ok(j)
    BY <2>1, <2>2 DEF MapToJson
  <2>4. MapToAvro(j, s, Q) = DecimalOf(d, s.scale)
    BY <1>12 DEF MapToAvro
  <2>5. v.val \in (-DecimalMax)..DecimalMax
    BY <2>2, AvroAssumption DEF LongRange
  <2>6. DecimalOf(d, s.scale) = Ok([is |-> "decimal", val |-> Rescaled(v.val, 0)])
    <3>1. ~(s.scale > s.scale) /\ s.scale - s.scale = 0
      BY <2>1
    <3> QED
      BY <3>1 DEF DecimalOf
  <2>7. DecimalOf(d, s.scale) = Ok(v)
    BY <1>2, <2>1, <2>5, <2>6, RescaledSame
  <2> QED
    BY <1>1, <2>3, <2>4, <2>7 DEF Copied, q
<1>13. s.type # "duration"
  <2> SUFFICES ASSUME s.type = "duration" PROVE FALSE
    OBVIOUS
  <2>1. v.is = "duration"
    BY ValueOfSchema
  <2>2. MapToJson(v, s, R) = Err({v})
    BY <2>1 DEF MapToJson
  <2> QED
    BY <2>2 DEF Err
<1>14. s.type \in SimpleTypes \cup {"decimal", "fixed", "enum"}
  BY SchemaParts
<1> QED
  BY <1>3, <1>4, <1>5, <1>6, <1>7, <1>8, <1>9, <1>10, <1>11, <1>12, <1>13, <1>14
     DEF SimpleTypes, q
\* Arms of json_to_avro_map: the schemas with parts
LEMMA ReadArms ==
    ASSUME NEW j, NEW s, NEW Q
    PROVE  /\ s.type = "record" /\ j.is = "obj" => MapToAvro(j, s, Q) = RecordToAvro(j.val, s, Q)
           /\ s.type = "array" /\ j.is = "arr" =>
                 MapToAvro(j, s, Q) = Whole("array", [i \in DOMAIN j.val |-> Q[s.items][j.val[i]]])
           /\ s.type = "union" /\ j.is = "obj" => MapToAvro(j, s, Q) = UnionToAvro(j.val, s, Q)
           /\ s.type = "map" /\ j.is = "obj" => MapToAvro(j, s, Q) =
                 Whole("map", [k \in Keys |-> IF j.val[k] = Absent THEN Ok(Absent)
                                              ELSE Q[s.items][j.val[k]]])
           /\ s.type \in {"record", "map"} /\ j.is # "obj" => ~MapToAvro(j, s, Q).ok
           /\ s.type = "array" /\ j.is # "arr" => ~MapToAvro(j, s, Q).ok
           /\ s.type = "union" /\ j.is \notin {"null", "obj"} => ~MapToAvro(j, s, Q).ok
<1> USE DEF NumberTypes, IntTypes, LongTypes, FloatTypes
<1>1. CASE s.type = "record"
  BY <1>1 DEF MapToAvro, Err
<1>2. CASE s.type = "array"
  BY <1>2 DEF MapToAvro, Err
<1>3. CASE s.type = "union"
  BY <1>3 DEF MapToAvro, Err
<1>4. CASE s.type = "map"
  BY <1>4 DEF MapToAvro, Err
<1> QED
  BY <1>1, <1>2, <1>3, <1>4

\* Parts that are copied make a whole that is.
LEMMA CopiesWhole ==
    ASSUME NEW kind, NEW D, NEW rs, NEW parts, DOMAIN rs = D,
           parts = [i \in D |-> parts[i]],
           \A i \in D : Copied(rs[i], parts[i])
    PROVE  Copied(Whole(kind, rs), [is |-> kind, val |-> parts])
<1>1. CASE \A i \in D : rs[i].ok
  <2>1. \A i \in D : rs[i] = Ok(parts[i])
    BY <1>1 DEF Copied
  <2>2. \A i \in D : rs[i].val = parts[i]
    BY <2>1 DEF Ok
  <2>3. [i \in D |-> rs[i].val] = parts
    BY <2>2
  <2>4. Whole(kind, rs) = Ok([is |-> kind, val |-> [i \in DOMAIN rs |-> rs[i].val]])
    BY <1>1, WholeOk
  <2> QED
    BY <2>3, <2>4 DEF Copied
<1>2. CASE ~\A i \in D : rs[i].ok
  <2> DEFINE w == Whole(kind, rs)
  <2>1. ~w.ok /\ \A x : x \in w.why <=> \E i \in D : ~rs[i].ok /\ x \in rs[i].why
    BY <1>2, WholeErr
  <2>2. \A i \in D : ~rs[i].ok => rs[i].why \subseteq ShownOnly
    BY DEF Copied, Ok
  <2> HIDE DEF w
  <2>3. w.why \subseteq ShownOnly
    BY <2>1, <2>2
  <2> QED
    BY <2>1, <2>3 DEF Copied, w
<1> QED
  BY <1>1, <1>2

\* The key of an object that has one
LEMMA OnlyKey ==
    ASSUME NEW key \in Keys, NEW x, x # Absent
    PROVE  /\ Only(key, x)[key] = x
           /\ \A k \in Keys : Only(key, x)[k] # Absent => k = key
<1>1. \A k \in Keys : Only(key, x)[k] = IF k = key THEN x ELSE Absent
  BY DEF Only
<1> QED
  BY <1>1

\* What is read of an object with the one key of a branch
LEMMA UnionArm ==
    ASSUME NEW obj, NEW s, NEW Q, NEW key \in Keys,
           obj[key] # Absent, obj = Only(key, obj[key]), Named(s, key) # {}
    PROVE  \E i \in Named(s, key) : UnionToAvro(obj, s, Q) = OfBranch(i, Q[s.of[i]][obj[key]])
<1> DEFINE first == CHOOSE k \in Keys : obj[k] # Absent
           i == CHOOSE k \in Named(s, first) : TRUE
<1>1. UnionToAvro(obj, s, Q) = OfBranch(i, Q[s.of[i]][obj[first]])
  BY Zenon DEF UnionToAvro
<1>2. first = key
  <2>1. \A k \in Keys : obj[k] # Absent => k = key
    BY DEF Only
  <2> QED
    BY <2>1
<1>3. i \in Named(s, key)
  BY <1>2
<1> HIDE DEF first, i
<1> QED
  BY <1>1, <1>2, <1>3

\* Only one branch of an unambiguous union fits the last part of a name.
LEMMA OneBranch ==
    ASSUME NEW S, NEW s \in SchemasOver(S), s.type = "union",
           \A i, k \in DOMAIN s.of : LastSegment(s.of[i]) = LastSegment(s.of[k]) => i = k,
           \A t \in S : t.type \in {"record", "enum"} => t.name \in Names,
           NEW i \in DOMAIN s.of
    PROVE  Named(s, LastSegment(s.of[i])) = {i}
<1> DEFINE key == LastSegment(s.of[i])
           Fits(m) == key \in {Fqn(s.of[m]), LastSegment(s.of[m])}
<1>1. s.of \in Seq(S)
  BY SchemaParts
<1>2. ASSUME NEW m \in DOMAIN s.of, Fits(m) PROVE m = i
  <2>1. s.of[m] \in S
    BY <1>1
  <2>2. Fqn(s.of[m]) = key => Fqn(s.of[m]) = LastSegment(s.of[m])
    <3>1. key.ns = ""
      BY DEF LastSegment, Simple
    <3>2. CASE s.of[m].type \in {"record", "enum"}
      <4>1. s.of[m].name \in Names
        BY <2>1, <3>2
      <4>2. s.of[m].name.ns = "" => s.of[m].name = Simple(s.of[m].name.name)
        BY <4>1 DEF Names, Simple
      <4> QED
        BY <3>1, <3>2, <4>2 DEF Fqn, LastSegment
    <3>3. CASE s.of[m].type \notin {"record", "enum"}
      BY <3>3 DEF Fqn, LastSegment
    <3> QED
      BY <3>2, <3>3
  <2>3. LastSegment(s.of[m]) = key
    BY <1>2, <2>2
  <2> QED
    BY <2>3
<1>3. Fits(i) /\ DOMAIN s.of = 1..Len(s.of) /\ Len(s.of) \in Nat
  BY <1>1
<1>4. \A k \in 1..(i - 1) : ~Fits(k)
  BY <1>2, <1>3
<1> HIDE DEF Fits
<1>5. {m \in DOMAIN s.of : Fits(m) /\ \A k \in 1..(m - 1) : ~Fits(k)} = {i}
  BY <1>2, <1>3, <1>4
<1> QED
  BY <1>5 DEF Named, Fits

LEMMA CopiesUnion ==
    ASSUME NEW S, NEW J, NEW V, NEW VS, NEW R, NEW Q, NEW A, Below(S, J, V, VS),
           \A t \in S : t.type \in {"record", "enum"} => t.name \in Names,
           \A t \in S : \A u \in VS[t] : Shown(R[t][u], J),
           \A t \in S : ~A[t] => \A u \in VS[t] : R[t][u].ok => Copied(Q[t][R[t][u].val], u),
           NEW s \in SchemasOver(S), NEW v \in ValuesOver(V), Conforms(v, s, VS),
           s.type = "union", MapToJson(v, s, R).ok, ~Clash(s, A)
    PROVE  Copied(MapToAvro(MapToJson(v, s, R).val, s, Q), v)
<1> DEFINE i == v.val[1]
           u == v.val[2]
           t == s.of[i]
           r == R[t][u]
           key == LastSegment(t)
<1>1. v.is = "union" /\ i \in DOMAIN s.of /\ u \in VS[t] /\ s.of \in Seq(S)
      /\ \A k \in DOMAIN s.of : LastSegment(s.of[k]) \in Keys
  BY SchemaParts, ValueOfSchema
<1>2. t \in S /\ DOMAIN s.of = 1..Len(s.of) /\ Len(s.of) \in Nat
  BY <1>1
<1>3. v = [is |-> "union", val |-> <<i, u>>]
  BY <1>1, ValueParts
<1>4. ~A[t] /\ \A m, k \in DOMAIN s.of : LastSegment(s.of[m]) = LastSegment(s.of[k]) => m = k
  BY <1>1 DEF Clash
<1>5. (u.is = "null" <=> t.type = "null") /\ (u.is = "null" => u = Null)
  BY <1>1, <1>2 DEF Below
<1>6. CASE u.is = "null"
  <2>1. MapToJson(v, s, R) = Ok(Null)
    BY <1>1, <1>6, ShowArms
  <2> DEFINE T == {k \in DOMAIN s.of : s.of[k].type = "null"}
  <2>2. i \in T
    BY <1>1, <1>5, <1>6
  <2>3. \A k \in T : k = i
    <3>1. \A k \in T : LastSegment(s.of[k]) = LastSegment(s.of[i])
      BY <2>2 DEF LastSegment
    <3> QED
      BY <1>4, <2>2, <3>1
  <2>4. NullBranch(s) = {i}
    <3>1. \A k \in 1..(i - 1) : k \in DOMAIN s.of /\ k # i
      BY <1>1, <1>2
    <3>2. NullBranch(s) = {k \in T : \A m \in 1..(k - 1) : s.of[m].type # "null"}
      BY DEF NullBranch
    <3> QED
      BY <2>2, <2>3, <3>1, <3>2
  <2>5. MapToAvro(Null, s, Q) =
          Ok([is |-> "union", val |-> <<CHOOSE k \in NullBranch(s) : TRUE, Null>>])
    BY <2>4 DEF MapToAvro, Null, NumberTypes, IntTypes, LongTypes, FloatTypes
  <2>6. MapToAvro(Null, s, Q) = Ok(v)
    BY <1>3, <1>5, <1>6, <2>4, <2>5
  <2> QED
    BY <2>1, <2>6 DEF Copied, Ok
<1>7. CASE u.is # "null"
  <2> DEFINE obj == Only(key, r.val)
             j == [is |-> "obj", val |-> obj]
             p == Q[t][r.val]
  <2>1. MapToJson(v, s, R) = IF r.ok THEN Ok(j) ELSE r
    BY <1>1, <1>7, ShowArms
  <2>2. r.ok
    BY <2>1
  <2>3. r.val \in J /\ r.val # Absent /\ key \in Keys
    <3>1. Shown(r, J) /\ key \in Keys
      BY <1>1, <1>2
    <3> HIDE DEF r
    <3> QED
      BY <2>2, <3>1 DEF Shown, Below
  <2>4. MapToAvro(j, s, Q) = UnionToAvro(obj, s, Q)
    <3>1. j.is = "obj" /\ j.val = obj
      OBVIOUS
    <3> HIDE DEF j, obj
    <3> QED
      BY <3>1, ReadArms
  <2>5. Named(s, key) = {i}
    BY <1>1, <1>4, OneBranch
  <2>6. obj[key] = r.val
    <3> HIDE DEF key, r
    <3> QED
      BY <2>3, OnlyKey
  <2>7. obj = Only(key, obj[key])
    BY <2>6
  <2> HIDE DEF t, u, i, r, key, obj
  <2>8. \E k \in Named(s, key) : UnionToAvro(obj, s, Q) = OfBranch(k, Q[s.of[k]][obj[key]])
    BY <2>3, <2>5, <2>6, <2>7, UnionArm
  <2>9. UnionToAvro(obj, s, Q) = OfBranch(i, p)
    BY <2>5, <2>6, <2>8 DEF t
  <2>10. Copied(p, u)
    BY <1>1, <1>2, <1>4, <2>2 DEF r
  <2>11. Copied(UnionToAvro(obj, s, Q), v)
    <3>1. CASE p = Ok(u)
      <4>1. p.ok /\ p.val = u
        BY <3>1 DEF Ok
      <4> QED
        BY <1>3, <2>9, <4>1 DEF Copied, OfBranch, u, i
    <3>2. CASE ~p.ok /\ p.why \subseteq ShownOnly
      BY <2>9, <3>2 DEF Copied, OfBranch
    <3> QED
      BY <2>10, <3>1, <3>2 DEF Copied
  <2> QED
    BY <2>1, <2>2, <2>4, <2>11 DEF Ok
<1> QED
  BY <1>6, <1>7

LEMMA CopiesLevel ==
    ASSUME NEW S, NEW J, NEW V, NEW VS, NEW R, NEW Q, NEW A, Below(S, J, V, VS),
           \A t \in S : t.type \in {"record", "enum"} => t.name \in Names,
           \A t \in S : \A u \in VS[t] : Shown(R[t][u], J),
           \A t \in S : ~A[t] => \A u \in VS[t] : R[t][u].ok => Copied(Q[t][R[t][u].val], u),
           NEW s \in SchemasOver(S), NEW v \in ValuesOver(V), Conforms(v, s, VS),
           MapToJson(v, s, R).ok, ~Clash(s, A)
    PROVE  Copied(MapToAvro(MapToJson(v, s, R).val, s, Q), v)
<1>0. v = [is |-> v.is, val |-> v.val]
  BY ValueParts
<1>1. ASSUME NEW kind, NEW rs, MapToJson(v, s, R) = Whole(kind, rs)
      PROVE  /\ \A i \in DOMAIN rs : rs[i].ok
             /\ MapToJson(v, s, R).val = [is |-> kind, val |-> [i \in DOMAIN rs |-> rs[i].val]]
  BY <1>1, WholeParts
<1>2. CASE s.type = "array"
  <2>1. v.is = "array" /\ s.items \in S /\ v.val \in Seq(V) /\ ~A[s.items]
        /\ \A i \in DOMAIN v.val : v.val[i] \in VS[s.items]
    BY <1>2, SchemaParts, ValueParts, ValueOfSchema DEF Clash
  <2> DEFINE rs == [i \in DOMAIN v.val |-> R[s.items][v.val[i]]]
             x == [i \in DOMAIN v.val |-> rs[i].val]
             qs == [i \in DOMAIN v.val |-> Q[s.items][x[i]]]
  <2>2. MapToJson(v, s, R) = Whole("arr", rs)
    BY <2>1, ShowArms
  <2>3. (\A i \in DOMAIN v.val : rs[i].ok) /\ MapToJson(v, s, R).val = [is |-> "arr", val |-> x]
    <3>1. /\ \A i \in DOMAIN rs : rs[i].ok
          /\ MapToJson(v, s, R).val = [is |-> "arr", val |-> [i \in DOMAIN rs |-> rs[i].val]]
      <4> HIDE DEF rs
      <4> QED
        BY <1>1, <2>2
    <3> QED
      BY <3>1
  <2>4. MapToAvro([is |-> "arr", val |-> x], s, Q) = Whole("array", qs)
    <3> DEFINE j == [is |-> "arr", val |-> x]
    <3>1. j.is = "arr" /\ j.val = x /\ DOMAIN x = DOMAIN v.val
      OBVIOUS
    <3> HIDE DEF j, x
    <3>2. MapToAvro(j, s, Q) =
             Whole("array", [i \in DOMAIN j.val |-> Q[s.items][j.val[i]]])
      BY <1>2, <3>1, ReadArms
    <3>3. qs = [i \in DOMAIN j.val |-> Q[s.items][j.val[i]]]
      BY <3>1
    <3> QED
      BY <3>2, <3>3 DEF j
  <2>5. \A i \in DOMAIN v.val : Copied(qs[i], v.val[i])
    BY <2>1, <2>3
  <2>6. v.val = [i \in DOMAIN v.val |-> v.val[i]] /\ DOMAIN qs = DOMAIN v.val
    BY <2>1
  <2>7. Copied(Whole("array", qs), [is |-> "array", val |-> v.val])
    <3> HIDE DEF qs
    <3> QED
      BY <2>5, <2>6, CopiesWhole
  <2> QED
    BY <1>0, <2>1, <2>3, <2>4, <2>7
<1>3. CASE s.type = "map"
  <2>1. v.is = "map" /\ s.items \in S /\ v.val \in Objects(V) /\ ~A[s.items]
        /\ \A k \in Keys : v.val[k] # Absent => v.val[k] \in VS[s.items]
    BY <1>3, SchemaParts, ValueParts, ValueOfSchema DEF Clash
  <2> DEFINE rs == [k \in Keys |-> IF v.val[k] = Absent THEN Ok(Absent) ELSE R[s.items][v.val[k]]]
             x == [k \in Keys |-> rs[k].val]
             qs == [k \in Keys |-> IF x[k] = Absent THEN Ok(Absent) ELSE Q[s.items][x[k]]]
  <2>2. MapToJson(v, s, R) = Whole("obj", rs)
    BY <2>1, ShowArms
  <2>3. (\A k \in Keys : rs[k].ok) /\ MapToJson(v, s, R).val = [is |-> "obj", val |-> x]
    <3>1. /\ \A k \in DOMAIN rs : rs[k].ok
          /\ MapToJson(v, s, R).val = [is |-> "obj", val |-> [k \in DOMAIN rs |-> rs[k].val]]
      <4> HIDE DEF rs
      <4> QED
        BY <1>1, <2>2
    <3> QED
      BY <3>1
  <2>4. MapToAvro([is |-> "obj", val |-> x], s, Q) = Whole("map", qs)
    <3> DEFINE j == [is |-> "obj", val |-> x]
    <3>1. j.is = "obj" /\ j.val = x
      OBVIOUS
    <3> HIDE DEF j, x
    <3>2. MapToAvro(j, s, Q) = Whole("map", qs)
      BY <1>3, <3>1, ReadArms
    <3> QED
      BY <3>2 DEF j
  <2>5. ASSUME NEW k \in Keys PROVE Copied(qs[k], v.val[k])
    <3>1. CASE v.val[k] = Absent
      BY <3>1 DEF Ok, Copied
    <3>2. CASE v.val[k] # Absent
      <4>1. v.val[k] \in VS[s.items] /\ rs[k] = R[s.items][v.val[k]]
        BY <2>1, <3>2
      <4>2. Shown(rs[k], J) /\ rs[k].ok
        BY <2>1, <2>3, <4>1
      <4>3. rs[k].val # Absent
        BY <4>2 DEF Shown, Below
      <4>4. qs[k] = Q[s.items][rs[k].val]
        BY <4>3
      <4> QED
        BY <2>1, <4>1, <4>2, <4>4
    <3> QED
      BY <3>1, <3>2
  <2>6. v.val = [k \in Keys |-> v.val[k]] /\ DOMAIN qs = Keys
    BY <2>1 DEF Objects
  <2>7. Copied(Whole("map", qs), [is |-> "map", val |-> v.val])
    <3> HIDE DEF qs
    <3> QED
      BY <2>5, <2>6, CopiesWhole
  <2> QED
    BY <1>0, <2>1, <2>3, <2>4, <2>7
<1>4. CASE s.type = "record"
  <2>1. v.is = "record" /\ s.fields \in Objects(S) /\ v.val \in Objects(V)
        /\ \A k \in Keys : /\ s.fields[k] = Absent => v.val[k] = Absent
                           /\ s.fields[k] # Absent => v.val[k] \in VS[s.fields[k]]
    BY <1>4, SchemaParts, ValueParts, ValueOfSchema
  <2>2. \A k \in Keys : s.fields[k] # Absent => s.fields[k] \in S /\ ~A[s.fields[k]]
    BY <1>4, <2>1 DEF Objects, Clash
  <2> DEFINE rs == [k \in Keys |-> IF s.fields[k] = Absent THEN Ok(Absent)
                                   ELSE R[s.fields[k]][v.val[k]]]
             x == [k \in Keys |-> rs[k].val]
             qs == [k \in Keys |-> IF s.fields[k] = Absent THEN Ok(Absent)
                                   ELSE Q[s.fields[k]][x[k]]]
  <2>3. MapToJson(v, s, R) = Whole("obj", rs)
    BY <2>1, ShowArms
  <2>4. (\A k \in Keys : rs[k].ok) /\ MapToJson(v, s, R).val = [is |-> "obj", val |-> x]
    <3>1. /\ \A k \in DOMAIN rs : rs[k].ok
          /\ MapToJson(v, s, R).val = [is |-> "obj", val |-> [k \in DOMAIN rs |-> rs[k].val]]
      <4> HIDE DEF rs
      <4> QED
        BY <1>1, <2>3
    <3> QED
      BY <3>1
  <2>5. MapToAvro([is |-> "obj", val |-> x], s, Q) = RecordToAvro(x, s, Q)
    <3> DEFINE j == [is |-> "obj", val |-> x]
    <3>1. j.is = "obj" /\ j.val = x
      OBVIOUS
    <3> HIDE DEF j, x
    <3>2. MapToAvro(j, s, Q) = RecordToAvro(x, s, Q)
      BY <1>4, <3>1, ReadArms
    <3> QED
      BY <3>2 DEF j
  <2>6. ASSUME NEW k \in Keys, s.fields[k] # Absent
        PROVE  x[k] # Absent /\ Copied(Q[s.fields[k]][x[k]], v.val[k])
    <3>1. rs[k] = R[s.fields[k]][v.val[k]] /\ rs[k].ok /\ x[k] = rs[k].val
      BY <2>4, <2>6
    <3>2. Shown(rs[k], J)
      BY <2>1, <2>2, <2>6, <3>1
    <3>3. rs[k].val # Absent
      BY <3>1, <3>2 DEF Shown, Below
    <3> QED
      BY <2>1, <2>2, <2>6, <3>1, <3>3
  <2>7. RecordToAvro(x, s, Q) = Whole("record", qs)
    <3> HIDE DEF x
    <3> QED
      BY <2>6 DEF RecordToAvro
  <2>8. \A k \in Keys : Copied(qs[k], v.val[k])
    <3>1. \A k \in Keys : s.fields[k] = Absent => Copied(qs[k], v.val[k])
      BY <2>1 DEF Copied
    <3> QED
      BY <2>6, <3>1
  <2>9. v.val = [k \in Keys |-> v.val[k]] /\ DOMAIN qs = Keys
    BY <2>1 DEF Objects
  <2>10. Copied(Whole("record", qs), [is |-> "record", val |-> v.val])
    <3> HIDE DEF qs
    <3> QED
      BY <2>8, <2>9, CopiesWhole
  <2> QED
    BY <1>0, <2>1, <2>4, <2>5, <2>7, <2>10
<1>5. CASE s.type = "union"
  BY <1>5, CopiesUnion
<1>6. CASE s.type \notin {"array", "map", "union", "record"}
  BY <1>6, CopiesSimple
<1> QED
  BY <1>2, <1>3, <1>4, <1>5, <1>6
-----------------------------------------------------------------------------
(* What is read and shown *)

LEMMA TensAreNumbers == \A k \in 0..MaxScale : Tens[k] \in Nat
<1> DEFINE T == {k \in Nat : k <= MaxScale => Tens[k] \in Nat}
<1>1. MaxScale \in Nat
  BY AvroAssumption
<1>2. 0 \in T
  BY <1>1, TensAt
<1>3. ASSUME NEW k \in T PROVE k + 1 \in T
  <2>1. CASE k + 1 <= MaxScale
    <3>1. k + 1 \in 0..MaxScale /\ k + 1 # 0 /\ k \in Nat /\ (k + 1) - 1 = k
      BY <1>1, <2>1
    <3>2. Tens[k + 1] = 10 * Tens[k]
      BY <3>1, TensAt
    <3>3. Tens[k] \in Nat
      BY <1>1, <2>1, <3>1
    <3> QED
      BY <3>1, <3>2, <3>3
  <2>2. CASE ~(k + 1 <= MaxScale)
    BY <2>2
  <2> QED
    BY <2>1, <2>2
<1>4. \A k \in Nat : k \in T
  <2>1. T \in SUBSET Nat
    OBVIOUS
  <2> HIDE DEF T
  <2> QED
    BY <1>2, <1>3, <2>1, AllNumbers
<1> QED
  BY <1>1, <1>4

\* A decimal that is shown has all the digits of the schema; where there was no room for
\* them it is larger than a long, and not shown.
LEMMA RescaledFits ==
    ASSUME NEW n \in (-DecimalMax)..DecimalMax, NEW k \in 0..MaxScale
    PROVE  /\ Rescaled(n, k) \in Int
           /\ Rescaled(n, k) \in LongRange => Rescaled(n, k) = n * Tens[k]
<1> DEFINE Last(i) == HasRoom(n, i) /\ (i < k => ~HasRoom(n, i + 1))
           T == {k - i : i \in {m \in 0..k : HasRoom(n, m)}}
<1>0. MaxScale \in Nat /\ DecimalMax \in Nat /\ LongMax \in Nat /\ LongMax < DecimalMax \div 10
  BY AvroAssumption
<1>1. Tens[0] = 1
  BY <1>0, TensAt
<1>2. HasRoom(n, 0)
  BY <1>0, <1>1 DEF HasRoom
<1>3. \E i \in 0..k : Last(i)
  <2>1. T \in SUBSET Nat /\ T # {}
    BY <1>0, <1>2
  <2>2. PICK d \in T : \A m \in T : d <= m
    <3> HIDE DEF T
    <3> QED
      BY <2>1, LeastExists
  <2>3. PICK i \in 0..k : HasRoom(n, i) /\ d = k - i
    OBVIOUS
  <2>4. ASSUME i < k PROVE ~HasRoom(n, i + 1)
    <3> SUFFICES ASSUME HasRoom(n, i + 1) PROVE FALSE
      OBVIOUS
    <3>1. i + 1 \in 0..k
      BY <1>0, <2>3, <2>4
    <3>2. k - (i + 1) \in T
      BY <3>1
    <3>3. d <= k - (i + 1)
      BY <2>2, <3>2
    <3> QED
      BY <1>0, <2>3, <3>3
  <2> QED
    BY <2>3, <2>4
<1> DEFINE i == CHOOSE m \in 0..k : Last(m)
<1>4. i \in 0..k /\ Last(i)
  <2> HIDE DEF Last
  <2> QED
    BY <1>3
<1>5. Rescaled(n, k) = n * Tens[i]
  BY DEF Rescaled
<1> HIDE DEF i
<1>6. Tens[i] \in Nat /\ n \in Int /\ i \in Nat /\ k \in Nat
  BY <1>0, <1>4, TensAreNumbers
<1> DEFINE x == n * Tens[i]
<1>7. x \in Int
  BY <1>6
<1>8. CASE i = k
  BY <1>5, <1>7, <1>8
<1>9. CASE i < k
  <2>1. i + 1 \in 0..MaxScale /\ i + 1 # 0 /\ (i + 1) - 1 = i
    BY <1>0, <1>4, <1>9
  <2>2. Tens[i + 1] = 10 * Tens[i]
    BY <2>1, TensAt
  <2>3. n * Tens[i + 1] = 10 * x
    BY <1>6, <2>2
  <2>4. n * Tens[i + 1] \notin (-DecimalMax)..DecimalMax
    BY <1>4, <1>9 DEF HasRoom
  <2> HIDE DEF x
  <2>5. 10 * x \notin (-DecimalMax)..DecimalMax
    BY <2>3, <2>4
  <2>6. 10 * (LongMax + 1) <= DecimalMax
    BY <1>0
  <2>7. x \notin LongRange
    BY <1>0, <1>7, <2>5, <2>6 DEF LongRange
  <2> QED
    BY <1>5, <1>7, <2>7 DEF x
<1> QED
  BY <1>4, <1>6, <1>8, <1>9

\* A value that is read is one of the schema, and if it is shown it says the same.
Meant(q, s, j, V, VS, R, M) ==
    q.ok => /\ q.val \in ValuesOver(V)
            /\ Conforms(q.val, s, VS)
            /\ MapToJson(q.val, s, R).ok => Agree(s, j, MapToJson(q.val, s, R).val, M)

LEMMA ReadsSimple ==
    ASSUME NEW S, NEW J, NEW V, NEW VS, NEW R, NEW Q, NEW M,
           NEW s \in SchemasOver(S), NEW j \in JsonOver(J),
           s.type \notin {"array", "map", "union", "record"}
    PROVE  Meant(MapToAvro(j, s, Q), s, j, V, VS, R, M)
<1> DEFINE q == MapToAvro(j, s, Q)
<1> USE DEF NumberTypes, IntTypes, LongTypes, FloatTypes
<1>1. ASSUME NEW v, NEW k, q = Ok(v), v \in ValuesOver(V), Conforms(v, s, VS),
             MapToJson(v, s, R) = Ok(k), Agree(s, j, k, M)
      PROVE  Meant(q, s, j, V, VS, R, M)
  <2> HIDE DEF q
  <2>1. q.val = v /\ MapToJson(v, s, R).val = k
    BY <1>1 DEF Ok
  <2> QED
    BY <1>1, <2>1 DEF Meant
<1>2. ASSUME ~q.ok PROVE Meant(q, s, j, V, VS, R, M)
  BY <1>2 DEF Meant
<1>3. j = [is |-> j.is, val |-> j.val]
  BY TextParts
<1> HIDE DEF q
<1> SUFFICES Meant(q, s, j, V, VS, R, M)
  BY DEF q
<1>4. CASE s.type = "null"
  <2>1. CASE j.is = "null"
    <3>1. j = Null
      BY <2>1, TextParts
    <3>2. q = Ok(Null)
      BY <1>4, <3>1 DEF q, MapToAvro, Null
    <3>3. Null \in ValuesOver(V) /\ Conforms(Null, s, VS)
      BY <1>4 DEF ValuesOver, Conforms, Null
    <3>4. MapToJson(Null, s, R) = Ok(Null) /\ Agree(s, j, Null, M)
      BY <1>4, <3>1 DEF MapToJson, Agree, Null
    <3> QED
      BY <1>1, <3>2, <3>3, <3>4
  <2>2. CASE j.is # "null"
    <3>1. ~q.ok
      BY <1>4, <2>2 DEF q, MapToAvro, Err
    <3> QED
      BY <1>2, <3>1
  <2> QED
    BY <2>1, <2>2
<1>5. CASE s.type = "boolean"
  <2>1. CASE j.is = "bool"
    <3> DEFINE v == [is |-> "boolean", val |-> j.val]
    <3>1. q = Ok(v) /\ j.val \in BOOLEAN
      BY <1>5, <2>1, TextParts DEF q, MapToAvro
    <3>2. v \in ValuesOver(V) /\ Conforms(v, s, VS)
      BY <1>5, <3>1 DEF ValuesOver, Conforms
    <3>3. MapToJson(v, s, R) = Ok([is |-> "bool", val |-> j.val])
      BY DEF MapToJson
    <3>4. MapToJson(v, s, R) = Ok(j) /\ Agree(s, j, j, M)
      BY <1>3, <1>5, <2>1, <3>3 DEF Agree
    <3> QED
      BY <1>1, <3>1, <3>2, <3>4
  <2>2. CASE j.is # "bool"
    <3>1. ~q.ok
      BY <1>5, <2>2 DEF q, MapToAvro, Err
    <3> QED
      BY <1>2, <3>1
  <2> QED
    BY <2>1, <2>2
<1>6. CASE s.type = "string"
  <2>1. CASE j \in Strings
    <3> DEFINE v == [is |-> "string", val |-> j]
    <3>1. q = Ok(v)
      BY <1>6, <2>1 DEF q, MapToAvro
    <3>2. v \in ValuesOver(V) /\ Conforms(v, s, VS)
      BY <1>6, <2>1 DEF ValuesOver, Conforms
    <3>3. MapToJson(v, s, R) = Ok(j) /\ Agree(s, j, j, M)
      BY <1>6 DEF MapToJson, Agree
    <3> QED
      BY <1>1, <3>1, <3>2, <3>3
  <2>2. CASE j \notin Strings
    <3>1. ~q.ok
      BY <1>6, <2>2 DEF q, MapToAvro, Err
    <3> QED
      BY <1>2, <3>1
  <2> QED
    BY <2>1, <2>2
<1>7. CASE s.type = "uuid"
  <2>1. CASE j.is = "uuid"
    <3> DEFINE v == [is |-> "uuid", val |-> j.val.id]
               k == [is |-> "uuid", val |-> [id |-> j.val.id, canonical |-> TRUE]]
    <3>1. q = Ok(v) /\ j.val.id \in STRING
      BY <1>7, <2>1, TextParts DEF q, MapToAvro
    <3>2. v \in [is : {"uuid", "enum"}, val : STRING]
      BY <3>1
    <3>3. v \in ValuesOver(V) /\ Conforms(v, s, VS)
      BY <1>7, <3>2 DEF ValuesOver, Conforms
    <3>4. MapToJson(v, s, R) = Ok(k)
      <4>1. v.is = "uuid" /\ v.val = j.val.id
        OBVIOUS
      <4> HIDE DEF v
      <4>2. MapToJson(v, s, R) = Ok([is |-> "uuid", val |-> [id |-> v.val, canonical |-> TRUE]])
        BY <4>1, ShowUuid
      <4> QED
        BY <4>1, <4>2
    <3>5. Agree(s, j, k, M)
      BY <1>7, <2>1 DEF Agree
    <3> QED
      BY <1>1, <3>1, <3>3, <3>4, <3>5
  <2>2. CASE j.is # "uuid"
    <3>1. ~q.ok
      BY <1>7, <2>2 DEF q, MapToAvro, Err
    <3> QED
      BY <1>2, <3>1
  <2> QED
    BY <2>1, <2>2
<1>8. CASE s.type = "enum"
  <2>1. CASE j.is = "str" /\ j.val \in s.symbols
    <3> DEFINE v == [is |-> "enum", val |-> j.val]
    <3>1. q = Ok(v) /\ j.val \in STRING
      BY <1>8, <2>1, TextParts DEF q, MapToAvro
    <3>2. v \in ValuesOver(V) /\ Conforms(v, s, VS)
      BY <1>8, <2>1, <3>1 DEF ValuesOver, Conforms
    <3>3. MapToJson(v, s, R) = Ok([is |-> "str", val |-> j.val])
      BY DEF MapToJson
    <3>4. MapToJson(v, s, R) = Ok(j) /\ Agree(s, j, j, M)
      BY <1>3, <1>8, <2>1, <3>3 DEF Agree
    <3> QED
      BY <1>1, <3>1, <3>2, <3>4
  <2>2. CASE ~(j.is = "str" /\ j.val \in s.symbols)
    <3>1. ~q.ok
      BY <1>8, <2>2 DEF q, MapToAvro, Err
    <3> QED
      BY <1>2, <3>1
  <2> QED
    BY <2>1, <2>2
<1>9. CASE s.type \in NumberTypes /\ j.is = "num"
  <2>1. q = NumberToAvro(j.val, s) /\ j.val \in Numbers /\ j = Num(j.val)
    BY <1>3, <1>9, TextParts DEF q, MapToAvro, Num
  <2>2. CASE \/ s.type \in IntTypes /\ j.val \in IntRange
             \/ s.type \in LongTypes /\ j.val \in LongRange
    <3> DEFINE v == [is |-> s.type, val |-> j.val]
    <3>1. q = Ok(v)
      BY <2>1, <2>2 DEF NumberToAvro
    <3>2. v \in ValuesOver(V) /\ Conforms(v, s, VS)
      BY <1>9, <2>1, <2>2 DEF ValuesOver, Conforms
    <3>3. MapToJson(v, s, R) = Ok(Num(j.val))
      BY <1>9 DEF MapToJson
    <3>4. Agree(s, j, j, M)
      BY <2>2 DEF Agree
    <3> QED
      BY <1>1, <2>1, <3>1, <3>2, <3>3, <3>4
  <2>3. CASE s.type \in FloatTypes /\ InRange(s.type, j.val)
    <3> DEFINE x == Rounded(s.type, j.val)
               v == [is |-> s.type, val |-> x]
    <3>1. q = Ok(v)
      BY <2>1, <2>3 DEF NumberToAvro
    <3>2. x \in Numbers /\ x = Rounded(s.type, x) /\ InRange(s.type, x)
      BY <2>1, <2>3, AvroAssumption
    <3>3. Agree(s, j, Num(x), M)
      BY <1>9, <2>3 DEF Agree
    <3> HIDE DEF x
    <3>4. v \in ValuesOver(V) /\ Conforms(v, s, VS)
      BY <1>9, <2>3, <3>2 DEF ValuesOver, Conforms
    <3>5. MapToJson(v, s, R) = Ok(Num(x))
      BY <1>9 DEF MapToJson
    <3> QED
      BY <1>1, <3>1, <3>3, <3>4, <3>5
  <2>4. CASE s.type = "float" /\ InRange("double", j.val) /\ ~InRange("float", j.val)
    <3>1. q = Ok(NoNumber)
      BY <2>1, <2>4 DEF NumberToAvro
    <3>2. NoNumber \in ValuesOver(V) /\ Conforms(NoNumber, s, VS)
      BY <2>4 DEF NoNumber, ValuesOver, Conforms
    <3>3. MapToJson(NoNumber, s, R) = Ok(Null)
      BY DEF NoNumber, MapToJson
    <3>4. Agree(s, j, Null, M)
      BY <1>9, <2>4 DEF Agree
    <3> QED
      BY <1>1, <3>1, <3>2, <3>3, <3>4
  <2>5. CASE /\ ~(s.type \in IntTypes /\ j.val \in IntRange)
             /\ ~(s.type \in LongTypes /\ j.val \in LongRange)
             /\ ~(s.type \in FloatTypes /\ InRange(s.type, j.val))
             /\ ~(s.type = "float" /\ InRange("double", j.val) /\ ~InRange("float", j.val))
    <3>1. ~q.ok
      BY <2>1, <2>5 DEF NumberToAvro, Err
    <3> QED
      BY <1>2, <3>1
  <2> QED
    BY <2>2, <2>3, <2>4, <2>5
<1>10. CASE s.type \in NumberTypes /\ j.is # "num"
  <2>1. ~q.ok
    BY <1>10 DEF q, MapToAvro, Err
  <2> QED
    BY <1>2, <2>1
<1>11. CASE s.type = "decimal"
  <2>1. CASE j.is = "decimal"
    <3> DEFINE d == j.val
               k == s.scale - d.scale
               x == Rescaled(d.n, k)
               v == [is |-> "decimal", val |-> x]
               dec == [is |-> "decimal", val |-> [n |-> x, scale |-> s.scale]]
    <3>1. q = DecimalOf(d, s.scale)
      BY <1>11, <2>1 DEF q, MapToAvro
    <3>2. d.n \in (-DecimalMax)..DecimalMax /\ d.scale \in 0..MaxScale /\ s.scale \in 0..MaxScale
      BY <1>11, <2>1, TextParts, SchemaParts
    <3>3. CASE d.scale > s.scale
      <4>1. ~q.ok
        BY <3>1, <3>3 DEF DecimalOf, Err
      <4> QED
        BY <1>2, <4>1
    <3>4. CASE ~(d.scale > s.scale)
      <4>1. q = Ok(v)
        BY <3>1, <3>4 DEF DecimalOf
      <4>2. k \in 0..MaxScale /\ MaxScale \in Nat
        BY <3>2, <3>4, AvroAssumption
      <4>3. x \in Int /\ (x \in LongRange => x = d.n * Tens[k])
        BY <3>2, <4>2, RescaledFits
      <4> HIDE DEF x
      <4>4. v \in ValuesOver(V) /\ Conforms(v, s, VS)
        BY <1>11, <4>3 DEF ValuesOver, Conforms
      <4>5. CASE x \in LongRange
        <5>1. MapToJson(v, s, R) = Ok(dec)
          BY <4>5 DEF MapToJson
        <5>2. d.scale <= s.scale
          BY <3>2, <3>4
        <5>3. Agree(s, j, dec, M)
          BY <1>11, <2>1, <4>3, <4>5, <5>2 DEF Agree
        <5> QED
          BY <1>1, <4>1, <4>4, <5>1, <5>3
      <4>6. CASE x \notin LongRange
        <5>1. MapToJson(v, s, R) = Err({v})
          BY <4>6 DEF MapToJson
        <5>2. ~MapToJson(v, s, R).ok /\ q.val = v
          BY <4>1, <5>1 DEF Err, Ok
        <5> HIDE DEF v
        <5> QED
          BY <4>4, <5>2 DEF Meant
      <4> QED
        BY <4>5, <4>6
    <3> QED
      BY <3>3, <3>4
  <2>2. CASE j.is # "decimal"
    <3>1. ~q.ok
      BY <1>11, <2>2 DEF q, MapToAvro, Err
    <3> QED
      BY <1>2, <3>1
  <2> QED
    BY <2>1, <2>2
<1>12. CASE s.type \in {"bytes", "fixed", "duration"}
  <2>1. ~q.ok
    BY <1>12 DEF q, MapToAvro, Err
  <2> QED
    BY <1>2, <2>1
<1>13. s.type \in SimpleTypes \cup {"decimal", "fixed", "enum"}
  BY SchemaParts
<1> QED
  BY <1>4, <1>5, <1>6, <1>7, <1>8, <1>9, <1>10, <1>11, <1>12, <1>13 DEF SimpleTypes

\* What holds of the parts when a level is read
PartsMeant(S, J, VS, R, Q, M) ==
    \A t \in S : \A x \in J : Q[t][x].ok =>
        /\ Q[t][x].val \in VS[t]
        /\ R[t][Q[t][x].val].ok => M[t][x][R[t][Q[t][x].val].val]
        /\ t.type = "null" => x = Null

LEMMA ReadsArray ==
    ASSUME NEW S, NEW J, NEW V, NEW VS, NEW R, NEW Q, NEW M, Below(S, J, V, VS),
           \A t \in S : \A u \in VS[t] : Shown(R[t][u], J),
           PartsMeant(S, J, VS, R, Q, M),
           NEW s \in SchemasOver(S), NEW j \in JsonOver(J), s.type = "array"
    PROVE  Meant(MapToAvro(j, s, Q), s, j, V, VS, R, M)
<1> DEFINE t == s.items
           qs == [i \in DOMAIN j.val |-> Q[t][j.val[i]]]
           x == [i \in DOMAIN j.val |-> qs[i].val]
           v == [is |-> "array", val |-> x]
           rs == [i \in DOMAIN x |-> R[t][x[i]]]
           y == [i \in DOMAIN x |-> rs[i].val]
<1> SUFFICES ASSUME MapToAvro(j, s, Q).ok PROVE Meant(MapToAvro(j, s, Q), s, j, V, VS, R, M)
  BY DEF Meant
<1>1. j.is = "arr" /\ MapToAvro(j, s, Q) = Whole("array", qs)
  BY ReadArms
<1>2. (\A i \in DOMAIN j.val : qs[i].ok) /\ MapToAvro(j, s, Q).val = v
  <2>1. (\A i \in DOMAIN qs : qs[i].ok) /\ Whole("array", qs).val =
            [is |-> "array", val |-> [i \in DOMAIN qs |-> qs[i].val]]
    <3> HIDE DEF qs
    <3> QED
      BY <1>1, WholeParts
  <2> QED
    BY <1>1, <2>1
<1>3. t \in S /\ j.val \in Seq(J)
  <2>1. t \in S /\ j.val \in Seq([is : {"num"}, val : Numbers]) \cup Seq(J)
    BY <1>1, SchemaParts, TextParts
  <2>2. [is : {"num"}, val : Numbers] \subseteq J
    BY <2>1 DEF Below
  <2> DEFINE Nums == [is : {"num"}, val : Numbers]
  <2>3. Seq(Nums) \subseteq Seq(J)
    <3> HIDE DEF Nums
    <3>1. Nums \subseteq J
      BY <2>2 DEF Nums
    <3> QED
      BY <3>1
  <2> QED
    BY <2>1, <2>3
<1>4. ASSUME NEW i \in DOMAIN j.val
      PROVE  /\ j.val[i] \in J /\ x[i] \in VS[t] /\ x[i] \in V
             /\ R[t][x[i]].ok => M[t][j.val[i]][R[t][x[i]].val]
  <2>1. j.val[i] \in J
    BY <1>3, PartOfSequence
  <2>2. Q[t][j.val[i]].ok /\ x[i] = Q[t][j.val[i]].val
    BY <1>2
  <2>3. x[i] \in VS[t] /\ (R[t][x[i]].ok => M[t][j.val[i]][R[t][x[i]].val])
    BY <1>3, <2>1, <2>2 DEF PartsMeant
  <2> QED
    BY <1>3, <2>1, <2>3 DEF Below
<1>5. Len(j.val) \in Nat /\ DOMAIN j.val = 1..Len(j.val) /\ DOMAIN x = DOMAIN j.val
  BY <1>3
<1>6. x \in Seq(V)
  <2>1. \A i \in DOMAIN j.val : x[i] \in V
    BY <1>4
  <2>2. x = [i \in 1..Len(j.val) |-> x[i]]
    BY <1>5
  <2> HIDE DEF x
  <2> QED
    BY <1>5, <2>1, <2>2
<1>7. v \in ValuesOver(V) /\ Conforms(v, s, VS)
  <2> HIDE DEF x
  <2>1. v \in [is : {"array"}, val : Seq(V)]
    BY <1>6
  <2> QED
    <3>1. v \in ValuesOver(V) /\ v.is = "array" /\ v.val = x
      BY <2>1 DEF ValuesOver
    <3> HIDE DEF v
    <3> QED
      BY <1>4, <1>5, <3>1 DEF Conforms, IntTypes, LongTypes, FloatTypes
<1>8. MapToJson(v, s, R) = Whole("arr", rs)
  <2> HIDE DEF x
  <2>1. v.is = "array" /\ v.val = x
    OBVIOUS
  <2> HIDE DEF v
  <2> QED
    BY <2>1, ShowArms
<1>9. ASSUME MapToJson(v, s, R).ok PROVE Agree(s, j, MapToJson(v, s, R).val, M)
  <2> HIDE DEF x
  <2>1. (\A i \in DOMAIN rs : rs[i].ok) /\ Whole("arr", rs).val =
            [is |-> "arr", val |-> [i \in DOMAIN rs |-> rs[i].val]]
    <3> HIDE DEF rs
    <3> QED
      BY <1>8, <1>9, WholeParts
  <2>2. \A i \in DOMAIN x : rs[i].ok
    BY <2>1
  <2>3. MapToJson(v, s, R).val = [is |-> "arr", val |-> y]
    BY <1>8, <2>1
  <2>4. ASSUME NEW i \in DOMAIN j.val
        PROVE  j.val[i] # Absent /\ y[i] # Absent /\ M[t][j.val[i]][y[i]]
    <3>1. R[t][x[i]].ok /\ y[i] = R[t][x[i]].val
      BY <1>5, <2>2
    <3>2. Shown(R[t][x[i]], J)
      BY <1>3, <1>4
    <3>3. y[i] \in J
      BY <3>1, <3>2 DEF Shown
    <3> QED
      BY <1>4, <3>1, <3>3 DEF Below
  <2>5. Len(y) = Len(j.val)
    BY <1>5
  <2> HIDE DEF y
  <2> DEFINE k == [is |-> "arr", val |-> y]
  <2>6. k.is = "arr" /\ k.val = y
    OBVIOUS
  <2> HIDE DEF k
  <2>7. Agree(s, j, k, M)
    BY <1>1, <1>5, <2>4, <2>5, <2>6 DEF Agree, FloatTypes
  <2> QED
    BY <2>3, <2>7 DEF k
<1> HIDE DEF v
<1> QED
  BY <1>2, <1>7, <1>9 DEF Meant

LEMMA ReadsMap ==
    ASSUME NEW S, NEW J, NEW V, NEW VS, NEW R, NEW Q, NEW M, Below(S, J, V, VS),
           \A t \in S : \A u \in VS[t] : Shown(R[t][u], J),
           PartsMeant(S, J, VS, R, Q, M),
           NEW s \in SchemasOver(S), NEW j \in JsonOver(J), s.type = "map"
    PROVE  Meant(MapToAvro(j, s, Q), s, j, V, VS, R, M)
<1> DEFINE t == s.items
           qs == [k \in Keys |-> IF j.val[k] = Absent THEN Ok(Absent) ELSE Q[t][j.val[k]]]
           x == [k \in Keys |-> qs[k].val]
           v == [is |-> "map", val |-> x]
           rs == [k \in Keys |-> IF x[k] = Absent THEN Ok(Absent) ELSE R[t][x[k]]]
           y == [k \in Keys |-> rs[k].val]
<1> SUFFICES ASSUME MapToAvro(j, s, Q).ok PROVE Meant(MapToAvro(j, s, Q), s, j, V, VS, R, M)
  BY DEF Meant
<1>1. j.is = "obj" /\ MapToAvro(j, s, Q) = Whole("map", qs)
  BY ReadArms
<1>2. (\A k \in Keys : qs[k].ok) /\ MapToAvro(j, s, Q).val = v
  <2>1. (\A k \in DOMAIN qs : qs[k].ok) /\ Whole("map", qs).val =
            [is |-> "map", val |-> [k \in DOMAIN qs |-> qs[k].val]]
    <3> HIDE DEF qs
    <3> QED
      BY <1>1, WholeParts
  <2> QED
    BY <1>1, <2>1
<1>3. t \in S /\ j.val \in Objects(J)
  BY <1>1, SchemaParts, TextParts
<1>4. ASSUME NEW k \in Keys
      PROVE  \/ j.val[k] = Absent /\ x[k] = Absent
             \/ /\ j.val[k] \in J /\ x[k] \in VS[t] /\ x[k] \in V /\ x[k] # Absent
                /\ R[t][x[k]].ok => M[t][j.val[k]][R[t][x[k]].val]
  <2>1. CASE j.val[k] = Absent
    BY <2>1 DEF Ok
  <2>2. CASE j.val[k] # Absent
    <3>1. j.val[k] \in J
      BY <1>3, <2>2 DEF Objects
    <3>2. Q[t][j.val[k]].ok /\ x[k] = Q[t][j.val[k]].val
      BY <1>2, <2>2
    <3>3. x[k] \in VS[t] /\ (R[t][x[k]].ok => M[t][j.val[k]][R[t][x[k]].val])
      BY <1>3, <3>1, <3>2 DEF PartsMeant
    <3>4. x[k] \in V
      BY <1>3, <3>3 DEF Below
    <3> QED
      BY <3>1, <3>3, <3>4 DEF Below
  <2> QED
    BY <2>1, <2>2
<1>5. x \in Objects(V)
  BY <1>4 DEF Objects
<1>6. v \in ValuesOver(V) /\ Conforms(v, s, VS)
  <2> HIDE DEF x
  <2>1. v \in [is : {"map", "record"}, val : Objects(V)]
    BY <1>5
  <2> QED
    <3>1. v \in ValuesOver(V) /\ v.is = "map" /\ v.val = x
      BY <2>1 DEF ValuesOver
    <3> HIDE DEF v
    <3> QED
      BY <1>4, <3>1 DEF Conforms, IntTypes, LongTypes, FloatTypes
<1>7. MapToJson(v, s, R) = Whole("obj", rs)
  <2> HIDE DEF x
  <2>1. v.is = "map" /\ v.val = x
    OBVIOUS
  <2> HIDE DEF v
  <2> QED
    BY <2>1, ShowArms
<1>8. ASSUME MapToJson(v, s, R).ok PROVE Agree(s, j, MapToJson(v, s, R).val, M)
  <2> HIDE DEF x
  <2>1. (\A k \in DOMAIN rs : rs[k].ok) /\ Whole("obj", rs).val =
            [is |-> "obj", val |-> [k \in DOMAIN rs |-> rs[k].val]]
    <3> HIDE DEF rs
    <3> QED
      BY <1>7, <1>8, WholeParts
  <2>2. \A k \in Keys : rs[k].ok
    BY <2>1
  <2>3. MapToJson(v, s, R).val = [is |-> "obj", val |-> y]
    BY <1>7, <2>1
  <2>4. ASSUME NEW k \in Keys
        PROVE  \/ j.val[k] = Absent /\ y[k] = Absent
               \/ j.val[k] # Absent /\ y[k] # Absent /\ M[t][j.val[k]][y[k]]
    <3>1. CASE x[k] = Absent
      <4>1. j.val[k] = Absent
        BY <1>4, <3>1
      <4> QED
        BY <3>1, <4>1 DEF Ok
    <3>2. CASE x[k] # Absent
      <4>1. R[t][x[k]].ok /\ y[k] = R[t][x[k]].val
        BY <2>2, <3>2
      <4>2. j.val[k] \in J /\ x[k] \in VS[t] /\ M[t][j.val[k]][y[k]]
        BY <1>4, <3>2, <4>1
      <4>3. Shown(R[t][x[k]], J)
        BY <1>3, <4>2
      <4>4. y[k] \in J
        BY <4>1, <4>3 DEF Shown
      <4> QED
        BY <4>2, <4>4 DEF Below
    <3> QED
      BY <3>1, <3>2
  <2> HIDE DEF y
  <2> DEFINE k == [is |-> "obj", val |-> y]
  <2>6. k.is = "obj" /\ k.val = y
    OBVIOUS
  <2> HIDE DEF k
  <2>7. Agree(s, j, k, M)
    BY <1>1, <2>4, <2>6 DEF Agree, FloatTypes
  <2> QED
    BY <2>3, <2>7 DEF k
<1> HIDE DEF v
<1> QED
  BY <1>2, <1>6, <1>8 DEF Meant

LEMMA ReadsRecord ==
    ASSUME NEW S, NEW J, NEW V, NEW VS, NEW R, NEW Q, NEW M, Below(S, J, V, VS),
           \A t \in S : \A u \in VS[t] : Shown(R[t][u], J),
           PartsMeant(S, J, VS, R, Q, M),
           NEW s \in SchemasOver(S), NEW j \in JsonOver(J), s.type = "record"
    PROVE  Meant(MapToAvro(j, s, Q), s, j, V, VS, R, M)
<1> DEFINE t(k) == s.fields[k]
           qs == [k \in Keys |-> IF t(k) = Absent THEN Ok(Absent) ELSE Q[t(k)][j.val[k]]]
           x == [k \in Keys |-> qs[k].val]
           v == [is |-> "record", val |-> x]
           rs == [k \in Keys |-> IF t(k) = Absent THEN Ok(Absent) ELSE R[t(k)][x[k]]]
           y == [k \in Keys |-> rs[k].val]
<1> SUFFICES ASSUME MapToAvro(j, s, Q).ok PROVE Meant(MapToAvro(j, s, Q), s, j, V, VS, R, M)
  BY DEF Meant
<1>1. j.is = "obj" /\ MapToAvro(j, s, Q) = RecordToAvro(j.val, s, Q)
  BY ReadArms
<1>2. /\ \A k \in Keys : t(k) # Absent => j.val[k] # Absent
      /\ MapToAvro(j, s, Q) = Whole("record", qs)
  <2>1. CASE \E k \in Keys : t(k) # Absent /\ j.val[k] = Absent
    <3>1. RecordToAvro(j.val, s, Q) = Err({<<"record", "obj">>})
      BY <2>1 DEF RecordToAvro
    <3> QED
      BY <1>1, <3>1 DEF Err
  <2>2. CASE ~\E k \in Keys : t(k) # Absent /\ j.val[k] = Absent
    BY <1>1, <2>2 DEF RecordToAvro
  <2> QED
    BY <2>1, <2>2
<1>3. (\A k \in Keys : qs[k].ok) /\ MapToAvro(j, s, Q).val = v
  <2>1. (\A k \in DOMAIN qs : qs[k].ok) /\ Whole("record", qs).val =
            [is |-> "record", val |-> [k \in DOMAIN qs |-> qs[k].val]]
    <3> HIDE DEF qs
    <3> QED
      BY <1>2, WholeParts
  <2> QED
    BY <1>2, <2>1
<1>4. j.val \in Objects(J) /\ \A k \in Keys : t(k) # Absent => t(k) \in S
  BY <1>1, SchemaParts, TextParts DEF Objects
<1>5. ASSUME NEW k \in Keys
      PROVE  \/ t(k) = Absent /\ x[k] = Absent
             \/ /\ t(k) \in S /\ j.val[k] \in J /\ x[k] \in VS[t(k)] /\ x[k] \in V
                /\ R[t(k)][x[k]].ok => M[t(k)][j.val[k]][R[t(k)][x[k]].val]
  <2>1. CASE t(k) = Absent
    BY <2>1 DEF Ok
  <2>2. CASE t(k) # Absent
    <3>1. t(k) \in S /\ j.val[k] \in J
      BY <1>2, <1>4, <2>2 DEF Objects
    <3>2. Q[t(k)][j.val[k]].ok /\ x[k] = Q[t(k)][j.val[k]].val
      BY <1>3, <2>2
    <3>3. x[k] \in VS[t(k)] /\ (R[t(k)][x[k]].ok => M[t(k)][j.val[k]][R[t(k)][x[k]].val])
      BY <3>1, <3>2 DEF PartsMeant
    <3>4. x[k] \in V
      BY <3>1, <3>3 DEF Below
    <3> QED
      BY <3>1, <3>3, <3>4
  <2> QED
    BY <2>1, <2>2
<1>6. x \in Objects(V)
  BY <1>5 DEF Objects
<1>7. \A k \in Keys : IF t(k) = Absent THEN x[k] = Absent ELSE x[k] \in VS[t(k)]
  <2> TAKE k \in Keys
  <2>1. CASE t(k) = Absent
    BY <1>5, <2>1 DEF Ok
  <2>2. CASE t(k) # Absent
    BY <1>5, <2>2
  <2> QED
    BY <2>1, <2>2
<1>8. v \in ValuesOver(V) /\ Conforms(v, s, VS)
  <2> HIDE DEF x
  <2>1. v \in [is : {"map", "record"}, val : Objects(V)]
    BY <1>6
  <2>2. v.is = "record" /\ v.val = x
    OBVIOUS
  <2>3. \A k \in Keys : IF t(k) = Absent THEN x[k] = Absent ELSE x[k] \in VS[t(k)]
    BY <1>7
  <2> HIDE DEF v
  <2>4. v \in ValuesOver(V)
    BY <2>1 DEF ValuesOver
  <2> QED
    BY <2>2, <2>3, <2>4 DEF Conforms, IntTypes, LongTypes, FloatTypes
<1>9. MapToJson(v, s, R) = Whole("obj", rs)
  <2> HIDE DEF x
  <2>1. v.is = "record" /\ v.val = x
    OBVIOUS
  <2> HIDE DEF v
  <2> QED
    BY <2>1, ShowArms
<1>10. ASSUME MapToJson(v, s, R).ok PROVE Agree(s, j, MapToJson(v, s, R).val, M)
  <2> HIDE DEF x
  <2>1. (\A k \in DOMAIN rs : rs[k].ok) /\ Whole("obj", rs).val =
            [is |-> "obj", val |-> [k \in DOMAIN rs |-> rs[k].val]]
    <3> HIDE DEF rs
    <3> QED
      BY <1>9, <1>10, WholeParts
  <2>2. \A k \in Keys : rs[k].ok
    BY <2>1
  <2>3. MapToJson(v, s, R).val = [is |-> "obj", val |-> y]
    BY <1>9, <2>1
  <2>4. ASSUME NEW k \in Keys
        PROVE  IF t(k) = Absent THEN y[k] = Absent
               ELSE j.val[k] # Absent /\ y[k] # Absent /\ M[t(k)][j.val[k]][y[k]]
    <3>1. CASE t(k) = Absent
      BY <3>1 DEF Ok
    <3>2. CASE t(k) # Absent
      <4>1. R[t(k)][x[k]].ok /\ y[k] = R[t(k)][x[k]].val
        BY <2>2, <3>2
      <4>2. t(k) \in S /\ j.val[k] \in J /\ x[k] \in VS[t(k)] /\ M[t(k)][j.val[k]][y[k]]
        BY <1>5, <3>2, <4>1
      <4>3. Shown(R[t(k)][x[k]], J)
        BY <4>2
      <4>4. y[k] \in J
        BY <4>1, <4>3 DEF Shown
      <4> QED
        BY <3>2, <4>2, <4>4 DEF Below
    <3> QED
      BY <3>1, <3>2
  <2> HIDE DEF y
  <2> DEFINE k == [is |-> "obj", val |-> y]
  <2>5. k.is = "obj" /\ k.val = y
    OBVIOUS
  <2> HIDE DEF k
  <2>6. Agree(s, j, k, M)
    BY <1>1, <2>4, <2>5 DEF Agree, FloatTypes
  <2> QED
    BY <2>3, <2>6 DEF k
<1> HIDE DEF v
<1> QED
  BY <1>3, <1>8, <1>10 DEF Meant

\* A branch that is null
LEMMA ReadsNull ==
    ASSUME NEW S, NEW J, NEW V, NEW VS, NEW R, NEW M, Below(S, J, V, VS),
           NEW s \in SchemasOver(S), s.type = "union", NEW i \in DOMAIN s.of,
           s.of[i].type = "null", NEW j,
           j = Null \/ j = [is |-> "obj", val |-> Only(Simple("null"), Null)]
    PROVE  Meant(Ok([is |-> "union", val |-> <<i, Null>>]), s, j, V, VS, R, M)
<1> DEFINE v == [is |-> "union", val |-> <<i, Null>>]
<1>1. s.of \in Seq(S)
  BY SchemaParts
<1>2. i \in Nat /\ s.of[i] \in S
  BY <1>1
<1>3. Null \in VS[s.of[i]] /\ Null \in V
  BY <1>2 DEF Below
<1>4. v.is = "union" /\ v.val[1] = i /\ v.val[2] = Null
  OBVIOUS
<1>5. v \in [is : {"union"}, val : Nat \X V]
  BY <1>2, <1>3
<1> HIDE DEF v
<1>6. v \in ValuesOver(V) /\ Conforms(v, s, VS)
  BY <1>3, <1>4, <1>5 DEF ValuesOver, Conforms, IntTypes, LongTypes, FloatTypes
<1>7. MapToJson(v, s, R) = Ok(Null)
  <2>1. v.is = "union" /\ v.val[2].is = "null"
    BY <1>4 DEF Null
  <2> QED
    BY <2>1, ShowArms
<1>8. Agree(s, j, Null, M)
  BY DEF Agree, FloatTypes
<1> QED
  BY <1>6, <1>7, <1>8 DEF Meant, Ok, v

LEMMA ReadsUnion ==
    ASSUME NEW S, NEW J, NEW V, NEW VS, NEW R, NEW Q, NEW M, Below(S, J, V, VS),
           \A t \in S : \A u \in VS[t] : Shown(R[t][u], J),
           PartsMeant(S, J, VS, R, Q, M),
           NEW s \in SchemasOver(S), NEW j \in JsonOver(J), s.type = "union"
    PROVE  Meant(MapToAvro(j, s, Q), s, j, V, VS, R, M)
<1> DEFINE q == MapToAvro(j, s, Q)
<1> SUFFICES ASSUME q.ok PROVE Meant(q, s, j, V, VS, R, M)
  BY DEF Meant
<1>1. s.of \in Seq(S) /\ \A i \in DOMAIN s.of : LastSegment(s.of[i]) \in Keys
  BY SchemaParts
<1>2. j = [is |-> j.is, val |-> j.val]
  BY TextParts
<1>3. CASE j.is = "null"
  <2>1. j = Null
    BY <1>3, TextParts
  <2>2. NullBranch(s) # {}
    <3> SUFFICES ASSUME NullBranch(s) = {} PROVE FALSE
      OBVIOUS
    <3>1. q = Err({<<s.type, j.is>>})
      BY <1>3 DEF MapToAvro, NumberTypes, IntTypes, LongTypes, FloatTypes
    <3> HIDE DEF q
    <3> QED
      BY <3>1 DEF Err
  <2> DEFINE i == CHOOSE k \in NullBranch(s) : TRUE
  <2>3. i \in DOMAIN s.of /\ s.of[i].type = "null"
    <3>1. i \in NullBranch(s)
      BY <2>2
    <3> HIDE DEF i
    <3> QED
      BY <3>1 DEF NullBranch
  <2>4. q = Ok([is |-> "union", val |-> <<i, Null>>])
    BY <1>3, <2>2 DEF MapToAvro, NumberTypes, IntTypes, LongTypes, FloatTypes
  <2> HIDE DEF i, q
  <2> QED
    BY <2>1, <2>3, <2>4, ReadsNull
<1>4. CASE j.is = "obj"
  <2> DEFINE obj == j.val
  <2>1. q = UnionToAvro(obj, s, Q) /\ obj \in Objects(J)
    BY <1>4, ReadArms, TextParts
  <2>2. \E k \in Keys : obj[k] # Absent /\ obj = Only(k, obj[k]) /\ Named(s, k) # {}
    <3> SUFFICES ASSUME ~\E k \in Keys : obj[k] # Absent /\ obj = Only(k, obj[k]) /\ Named(s, k) # {}
                 PROVE  FALSE
      OBVIOUS
    <3>1. UnionToAvro(obj, s, Q) = Err({<<"union", "obj">>})
      BY DEF UnionToAvro
    <3> HIDE DEF q
    <3> QED
      BY <2>1, <3>1 DEF Err
  <2>3. PICK key \in Keys : obj[key] # Absent /\ obj = Only(key, obj[key]) /\ Named(s, key) # {}
    BY <2>2
  <2>4. PICK i \in Named(s, key) : UnionToAvro(obj, s, Q) = OfBranch(i, Q[s.of[i]][obj[key]])
    <3>1. obj[key] # Absent /\ obj = Only(key, obj[key]) /\ Named(s, key) # {}
      BY <2>3
    <3> HIDE DEF obj
    <3> QED
      BY <3>1, UnionArm
  <2> DEFINE t == s.of[i]
             x == obj[key]
             p == Q[t][x]
             u == p.val
             v == [is |-> "union", val |-> <<i, u>>]
             r == R[t][u]
             last == LastSegment(t)
             k == [is |-> "obj", val |-> Only(last, r.val)]
  <2>5. i \in DOMAIN s.of /\ key \in {Fqn(t), last}
    BY DEF Named
  <2>6. i \in Nat /\ t \in S /\ last \in Keys
    BY <1>1, <2>5
  <2>7. x \in J
    BY <2>1, <2>3 DEF Objects
  <2>8. p.ok /\ q = Ok(v)
    <3>1. q = OfBranch(i, p)
      BY <2>1, <2>4
    <3> HIDE DEF q, p
    <3> QED
      BY <3>1 DEF OfBranch
  <2>9. u \in VS[t] /\ u \in V /\ (r.ok => M[t][x][r.val]) /\ (t.type = "null" => x = Null)
    <3>1. u \in VS[t] /\ (r.ok => M[t][x][r.val]) /\ (t.type = "null" => x = Null)
      BY <2>6, <2>7, <2>8 DEF PartsMeant
    <3> QED
      BY <2>6, <3>1 DEF Below
  <2>10. CASE u.is = "null"
    <3>1. u = Null /\ t.type = "null"
      BY <2>6, <2>9, <2>10 DEF Below
    <3>2. key = Simple("null") /\ x = Null
      BY <2>5, <2>9, <3>1 DEF Fqn, LastSegment
    <3>3. j = [is |-> "obj", val |-> Only(Simple("null"), Null)]
      BY <1>2, <1>4, <2>3, <3>2
    <3> HIDE DEF q
    <3> QED
      BY <2>5, <2>8, <3>1, <3>3, ReadsNull
  <2>11. CASE u.is # "null"
    <3> HIDE DEF q, p, u
    <3>1. v.is = "union" /\ v.val[1] = i /\ v.val[2] = u
      OBVIOUS
    <3>2. v \in [is : {"union"}, val : Nat \X V]
      BY <2>6, <2>9
    <3> HIDE DEF v
    <3>3. v \in ValuesOver(V) /\ Conforms(v, s, VS)
      BY <2>5, <2>9, <3>1, <3>2 DEF ValuesOver, Conforms, IntTypes, LongTypes, FloatTypes
    <3>4. MapToJson(v, s, R) = IF r.ok THEN Ok(k) ELSE r
      BY <2>11, <3>1, ShowArms
    <3>5. ASSUME r.ok PROVE MapToJson(v, s, R).val = k /\ Agree(s, j, k, M)
      <4>1. Shown(r, J)
        BY <2>6, <2>9
      <4> HIDE DEF r
      <4>2. r.val \in J /\ r.val # Absent /\ x # Absent
        BY <2>3, <3>5, <4>1 DEF Shown, Below
      <4>3. k.is = "obj" /\ k.val = Only(last, r.val)
        OBVIOUS
      <4>4. k.val[last] = r.val
        BY <2>6, <4>3 DEF Only
      <4>5. k.val = Only(last, k.val[last])
        BY <4>3, <4>4
      <4>6. MapToJson(v, s, R).val = k
        BY <3>4, <3>5 DEF Ok
      <4> HIDE DEF k, x, last
      <4>7. j.is = "obj" /\ j.val = Only(key, j.val[key]) /\ j.val[key] = x
        BY <1>4, <2>3 DEF x
      <4>8. M[t][j.val[key]][k.val[last]] /\ j.val[key] # Absent /\ k.val[last] # Absent
        BY <2>9, <3>5, <4>2, <4>4, <4>7
      <4>9. Agree(s, j, k, M)
        BY <2>5, <4>3, <4>5, <4>7, <4>8 DEF Agree, FloatTypes, last
      <4> QED
        BY <4>6, <4>9
    <3>6. MapToJson(v, s, R).ok => r.ok
      BY <3>4
    <3> HIDE DEF r, k
    <3> QED
      BY <2>8, <3>3, <3>5, <3>6 DEF Meant, Ok
  <2> QED
    BY <2>10, <2>11
<1>5. CASE j.is \notin {"null", "obj"}
  BY <1>5, ReadArms
<1> QED
  BY <1>3, <1>4, <1>5

LEMMA ReadsLevel ==
    ASSUME NEW S, NEW J, NEW V, NEW VS, NEW R, NEW Q, NEW M, Below(S, J, V, VS),
           \A t \in S : \A u \in VS[t] : Shown(R[t][u], J),
           PartsMeant(S, J, VS, R, Q, M),
           NEW s \in SchemasOver(S), NEW j \in JsonOver(J)
    PROVE  Meant(MapToAvro(j, s, Q), s, j, V, VS, R, M)
<1>1. CASE s.type = "array"
  BY <1>1, ReadsArray
<1>2. CASE s.type = "map"
  BY <1>2, ReadsMap
<1>3. CASE s.type = "record"
  BY <1>3, ReadsRecord
<1>4. CASE s.type = "union"
  BY <1>4, ReadsUnion
<1>5. CASE s.type \notin {"array", "map", "union", "record"}
  BY <1>5, ReadsSimple
<1> QED
  BY <1>1, <1>2, <1>3, <1>4, <1>5
-----------------------------------------------------------------------------
(* All levels *)

\* Only null is a value of null, and of nothing else.
LEMMA NullOnly ==
    ASSUME NEW S, NEW V, NEW VS, NEW s \in SchemasOver(S),
           NEW v \in ValuesOver(V), Conforms(v, s, VS)
    PROVE  (v.is = "null" <=> s.type = "null") /\ (v.is = "null" => v = Null)
<1> USE DEF NumberTypes, IntTypes, LongTypes, FloatTypes
<1>1. v.is = "null" => v = Null
  BY ValueParts
<1>2. s.type = "null" => v.is = "null"
  BY ValueOfSchema
<1>3. ASSUME s.type # "null" PROVE v.is # "null"
  <2>1. s.type \in SimpleTypes \cup {"decimal", "fixed", "enum", "array", "map", "union", "record"}
    BY SchemaParts
  <2>2. CASE s.type \in {"array", "map", "union", "record", "enum"}
    BY <2>2, ValueOfSchema
  <2>3. CASE s.type \in {"boolean", "string", "uuid", "bytes", "fixed", "decimal", "duration"}
    BY <2>3, ValueOfSchema
  <2>4. CASE s.type \in NumberTypes
    BY <2>4, ValueOfSchema DEF NoNumber
  <2> QED
    BY <1>3, <2>1, <2>2, <2>3, <2>4 DEF SimpleTypes
<1> QED
  BY <1>1, <1>2, <1>3

\* The level below a depth, if there is one
LEMMA BelowDepth ==
    ASSUME NEW n \in Depths
    PROVE  Below(IF n = 0 THEN {} ELSE SchemaSet[n - 1], IF n = 0 THEN {} ELSE JsonSet[n - 1],
                 IF n = 0 THEN {} ELSE Values[n - 1], IF n = 0 THEN <<>> ELSE ValueSet[n - 1])
<1>1. CASE n = 0
  BY <1>1 DEF Below
<1>2. CASE n # 0
  <2> DEFINE m == n - 1
             S == IF m = 0 THEN {} ELSE SchemaSet[m - 1]
             J == IF m = 0 THEN {} ELSE JsonSet[m - 1]
             V == IF m = 0 THEN {} ELSE Values[m - 1]
             VS == IF m = 0 THEN <<>> ELSE ValueSet[m - 1]
  <2>1. m \in Depths
    BY <1>2, AvroAssumption DEF Depths
  <2> HIDE DEF m
  <2>2. SchemaSet[m] = SchemasOver(S) /\ JsonSet[m] = JsonOver(J) /\ Values[m] = ValuesOver(V)
    BY <2>1, SchemaSetAt, JsonSetAt, ValuesAt
  <2>3. \A t \in SchemaSet[m] : ValueSet[m][t] = {v \in Values[m] : Conforms(v, t, VS)}
    BY <2>1, ValueSetAt
  <2> HIDE DEF S, J, V, VS
  <2>4. Absent \notin JsonSet[m] /\ Absent \notin Values[m]
    BY <2>2, TextParts, ValueParts DEF Absent
  <2>5. [is : {"num"}, val : Numbers] \subseteq JsonSet[m]
    BY <2>2 DEF JsonOver
  <2>6. ASSUME NEW t \in SchemaSet[m]
        PROVE  /\ ValueSet[m][t] \subseteq Values[m]
               /\ \A u \in ValueSet[m][t] : u.is = "null" <=> t.type = "null"
               /\ \A u \in ValueSet[m][t] : u.is = "null" => u = Null
               /\ t.type = "null" => Null \in ValueSet[m][t]
    <3>1. \A u \in ValueSet[m][t] :
             (u.is = "null" <=> t.type = "null") /\ (u.is = "null" => u = Null)
      BY <2>2, <2>3, NullOnly
    <3>2. t.type = "null" => Null \in Values[m] /\ Conforms(Null, t, VS)
      BY <2>2 DEF ValuesOver, Conforms, Null, IntTypes, LongTypes, FloatTypes
    <3> QED
      BY <2>3, <3>1, <3>2
  <2>7. Below(SchemaSet[m], JsonSet[m], Values[m], ValueSet[m])
    BY <2>4, <2>5, <2>6 DEF Below
  <2> QED
    BY <1>2, <2>7 DEF m
<1> QED
  BY <1>1, <1>2

\* Schemas whose values are shown as texts that can be copied, and mean what was written
Faithful(S, J, VS, R, Q, A, M) ==
    /\ \A t \in S : t.type \in {"record", "enum"} => t.name \in Names
    /\ \A t \in S : \A u \in VS[t] : Shown(R[t][u], J)
    /\ \A t \in S : ~A[t] => \A u \in VS[t] : R[t][u].ok => Copied(Q[t][R[t][u].val], u)
    /\ PartsMeant(S, J, VS, R, Q, M)

FaithfulAt(n) == Faithful(SchemaSet[n], JsonSet[n], ValueSet[n], ToJson[n], ToAvro[n],
                          Ambiguous[n], SameMeaning[n])

LEMMA FaithfulLevel ==
    ASSUME NEW n \in Depths, n # 0 => FaithfulAt(n - 1)
    PROVE  FaithfulAt(n)
<1> DEFINE S == IF n = 0 THEN {} ELSE SchemaSet[n - 1]
           J == IF n = 0 THEN {} ELSE JsonSet[n - 1]
           V == IF n = 0 THEN {} ELSE Values[n - 1]
           VS == IF n = 0 THEN <<>> ELSE ValueSet[n - 1]
           R == IF n = 0 THEN <<>> ELSE ToJson[n - 1]
           Q == IF n = 0 THEN <<>> ELSE ToAvro[n - 1]
           A == IF n = 0 THEN <<>> ELSE Ambiguous[n - 1]
           M == IF n = 0 THEN <<>> ELSE SameMeaning[n - 1]
           S1 == SchemaSet[n]
           J1 == JsonSet[n]
           V1 == Values[n]
           VS1 == ValueSet[n]
           R1 == ToJson[n]
           Q1 == ToAvro[n]
           A1 == Ambiguous[n]
           M1 == SameMeaning[n]
<1>1. Below(S, J, V, VS)
  BY BelowDepth
<1>2. Faithful(S, J, VS, R, Q, A, M)
  <2>1. CASE n = 0
    BY <2>1 DEF Faithful, PartsMeant
  <2>2. CASE n # 0
    BY <2>2 DEF FaithfulAt
  <2> QED
    BY <2>1, <2>2
<1>3. S1 = SchemasOver(S) /\ J1 = JsonOver(J) /\ V1 = ValuesOver(V)
  BY SchemaSetAt, JsonSetAt, ValuesAt
<1>4. VS1 = [s \in S1 |-> {v \in V1 : Conforms(v, s, VS)}]
  BY ValueSetAt
<1>5. R1 = [s \in S1 |-> [v \in VS1[s] |-> MapToJson(v, s, R)]]
  BY ToJsonAt
<1>6. Q1 = [s \in S1 |-> [j \in J1 |-> MapToAvro(j, s, Q)]]
  BY ToAvroAt
<1>7. A1 = [s \in S1 |-> Clash(s, A)]
  BY AmbiguousAt
<1>8. M1 = [s \in S1 |-> [j \in J1 |-> [k \in J1 |-> Agree(s, j, k, M)]]]
  BY SameMeaningAt
<1> HIDE DEF S, J, V, VS, R, Q, A, M, S1, J1, V1, VS1, R1, Q1, A1, M1
<1>9. ASSUME NEW s \in S1, s.type \in {"record", "enum"} PROVE s.name \in Names
  BY <1>3, <1>9, SchemaParts
<1>10. ASSUME NEW s \in S1, NEW v \in VS1[s]
      PROVE  /\ v \in ValuesOver(V) /\ Conforms(v, s, VS) /\ R1[s][v] = MapToJson(v, s, R)
             /\ Shown(R1[s][v], J1)
  <2>1. v \in ValuesOver(V) /\ Conforms(v, s, VS) /\ R1[s][v] = MapToJson(v, s, R)
    BY <1>3, <1>4, <1>5
  <2>2. Shown(MapToJson(v, s, R), JsonOver(J))
    BY <1>1, <1>2, <1>3, <2>1, ShowsLevel DEF Faithful
  <2> QED
    BY <1>3, <2>1, <2>2
<1>11. ASSUME NEW s \in S1, ~A1[s], NEW v \in VS1[s], R1[s][v].ok
      PROVE  Copied(Q1[s][R1[s][v].val], v)
  <2>1. ~Clash(s, A)
    BY <1>7, <1>11
  <2>2. Copied(MapToAvro(MapToJson(v, s, R).val, s, Q), v)
    <3>1. /\ \A t \in S : t.type \in {"record", "enum"} => t.name \in Names
          /\ \A t \in S : \A u \in VS[t] : Shown(R[t][u], J)
          /\ \A t \in S : ~A[t] => \A u \in VS[t] : R[t][u].ok => Copied(Q[t][R[t][u].val], u)
      BY <1>2 DEF Faithful
    <3>2. /\ s \in SchemasOver(S) /\ v \in ValuesOver(V) /\ Conforms(v, s, VS)
          /\ MapToJson(v, s, R).ok
      BY <1>3, <1>10, <1>11
    <3> QED
      BY <1>1, <2>1, <3>1, <3>2, CopiesLevel
  <2>3. R1[s][v].val \in J1
    BY <1>10, <1>11 DEF Shown
  <2>4. Q1[s][R1[s][v].val] = MapToAvro(R1[s][v].val, s, Q)
    BY <1>6, <2>3
  <2> QED
    BY <1>10, <2>2, <2>4
<1>12. ASSUME NEW s \in S1, NEW j \in J1, Q1[s][j].ok
      PROVE  /\ Q1[s][j].val \in VS1[s]
             /\ R1[s][Q1[s][j].val].ok => M1[s][j][R1[s][Q1[s][j].val].val]
             /\ s.type = "null" => j = Null
  <2> DEFINE v == Q1[s][j].val
  <2>1. Q1[s][j] = MapToAvro(j, s, Q)
    BY <1>6
  <2>2. Meant(MapToAvro(j, s, Q), s, j, V, VS, R, M)
    BY <1>1, <1>2, <1>3, ReadsLevel DEF Faithful
  <2>3. /\ v \in ValuesOver(V) /\ Conforms(v, s, VS)
        /\ MapToJson(v, s, R).ok => Agree(s, j, MapToJson(v, s, R).val, M)
    BY <1>12, <2>1, <2>2 DEF Meant
  <2> HIDE DEF v
  <2>4. v \in VS1[s] /\ R1[s][v] = MapToJson(v, s, R)
    BY <1>3, <1>4, <1>5, <2>3
  <2>5. ASSUME R1[s][v].ok PROVE M1[s][j][R1[s][v].val]
    <3>1. R1[s][v].val \in J1
      BY <1>10, <2>4, <2>5 DEF Shown
    <3>2. Agree(s, j, R1[s][v].val, M)
      BY <2>3, <2>4, <2>5
    <3> QED
      BY <1>8, <3>1, <3>2
  <2>6. ASSUME s.type = "null" PROVE j = Null
    <3>1. j.is = "null"
      BY <1>12, <2>1, <2>6 DEF MapToAvro, Err, NumberTypes, IntTypes, LongTypes, FloatTypes
    <3> QED
      BY <1>3, <3>1, TextParts
  <2> QED
    BY <2>4, <2>5, <2>6 DEF v
<1>13. Faithful(S1, J1, VS1, R1, Q1, A1, M1)
  BY <1>9, <1>10, <1>11, <1>12 DEF Faithful, PartsMeant
<1> QED
  BY <1>13 DEF FaithfulAt, S1, J1, VS1, R1, Q1, A1, M1

LEMMA FaithfulDepths == \A n \in Depths : FaithfulAt(n)
<1> DEFINE T == {n \in Nat : n \in Depths => FaithfulAt(n)}
<1>1. 0 \in T
  BY FaithfulLevel
<1>2. ASSUME NEW n \in T PROVE n + 1 \in T
  <2>1. ASSUME n + 1 \in Depths PROVE FaithfulAt(n + 1)
    <3>1. n \in Depths /\ (n + 1) - 1 = n
      BY <2>1, AvroAssumption DEF Depths
    <3>2. FaithfulAt(n)
      BY <3>1
    <3> QED
      BY <2>1, <3>1, <3>2, FaithfulLevel
  <2> QED
    BY <2>1
<1>3. \A n \in Nat : n \in T
  <2>1. T \in SUBSET Nat
    OBVIOUS
  <2> HIDE DEF T
  <2> QED
    BY <1>1, <1>2, <2>1, AllNumbers
<1> QED
  BY <1>3 DEF Depths
-----------------------------------------------------------------------------
(* The record on its way *)

\* Where a record comes from and what has become of it
RecordInv ==
    /\ schema \in Schemas
    /\ step = "start" => doc = <<>>
    /\ step \in {"made", "shown", "copied"} =>
          /\ ~Overflows(schema)
          /\ \E v \in ValueSet[MaxDepth][schema] :
                /\ record = <<v>>
                /\ \/ doc = <<>>
                   \/ \E j \in JsonSet[MaxDepth] :
                         LET r == ToAvro[MaxDepth][schema][j]
                         IN  doc = <<j>> /\ r.ok /\ r.val = v
    /\ step \in {"shown", "copied"} => shown = <<Display(record[1], schema)>>
    /\ step = "copied" => shown[1] # Text /\ copy = <<ToAvro[MaxDepth][schema][shown[1]]>>

LEMMA FaithfulNow ==
    ASSUME NEW s \in Schemas, ~Overflows(s)
    PROVE  s \in SchemaSet[MaxDepth] /\ FaithfulAt(MaxDepth)
<1>1. MaxDepth \in Depths
  BY AvroAssumption DEF Depths
<1> QED
  BY <1>1, FaithfulDepths DEF Overflows

LEMMA RecordInit == Init => RecordInv
BY DEF Init, RecordInv

LEMMA RecordStep == RecordInv /\ [Next]_vars => RecordInv'
<1> SUFFICES ASSUME RecordInv, [Next]_vars PROVE RecordInv'
  OBVIOUS
<1>1. CASE Crashes
  BY <1>1 DEF Crashes, RecordInv
<1>2. CASE Produces
  <2>1. PICK j \in DocsOf(schema) :
          /\ doc' = <<j>>
          /\ LET r == ToAvro[MaxDepth][schema][j]
             IN IF r.ok THEN step' = "made" /\ record' = <<r.val>>
                        ELSE step' = "refused" /\ UNCHANGED record
    BY <1>2 DEF Produces
  <2>2. schema \in Schemas /\ ~Overflows(schema) /\ schema' = schema
    BY <1>2 DEF Produces, RecordInv
  <2>3. j \in JsonSet[MaxDepth] /\ schema \in SchemaSet[MaxDepth]
    BY <2>1, <2>2, AvroAssumption DEF Overflows
  <2>4. CASE ToAvro[MaxDepth][schema][j].ok
    <3>1. step' = "made" /\ record' = <<ToAvro[MaxDepth][schema][j].val>>
      BY <2>1, <2>4
    <3>2. ToAvro[MaxDepth][schema][j].val \in ValueSet[MaxDepth][schema]
      BY <2>2, <2>3, <2>4, FaithfulNow DEF FaithfulAt, Faithful, PartsMeant
    <3> QED
      BY <2>1, <2>2, <2>3, <2>4, <3>1, <3>2 DEF RecordInv
  <2>5. CASE ~ToAvro[MaxDepth][schema][j].ok
    BY <2>1, <2>2, <2>5 DEF RecordInv
  <2> QED
    BY <2>4, <2>5
<1>3. CASE Arrives
  <2>1. PICK v \in RecordsOf(schema) : record' = <<v>>
    BY <1>3 DEF Arrives
  <2>2. schema \in Schemas /\ ~Overflows(schema) /\ schema' = schema /\ step' = "made" /\ doc' = <<>>
    BY <1>3 DEF Arrives, RecordInv
  <2>3. v \in ValueSet[MaxDepth][schema]
    BY <2>1, <2>2, AvroAssumption
  <2> QED
    BY <2>1, <2>2, <2>3 DEF RecordInv
<1>4. CASE Shows
  BY <1>4 DEF Shows, RecordInv
<1>5. CASE Copies
  BY <1>5 DEF Copies, RecordInv
<1>6. CASE UNCHANGED vars
  BY <1>6 DEF vars, RecordInv
<1> QED
  BY <1>1, <1>2, <1>3, <1>4, <1>5, <1>6 DEF Next

\* Every record that is made is a value of the schema, of the text it was made from if
\* there is one; what is shown and copied is what the conversions give.
THEOREM RecordTheorem == Spec => []RecordInv
<1> QED
  BY RecordInit, RecordStep, PTL DEF Spec

LEMMA RecordCopies == RecordInv => CopyIsSame
<1> SUFFICES ASSUME RecordInv, step = "copied", ~Ambiguous[MaxDepth][schema]
             PROVE  copy[1] = Ok(record[1]) \/ (~copy[1].ok /\ copy[1].why \subseteq ShownOnly)
  BY DEF CopyIsSame
<1>1. schema \in Schemas /\ ~Overflows(schema)
  BY DEF RecordInv
<1>2. PICK v \in ValueSet[MaxDepth][schema] : record = <<v>>
  BY DEF RecordInv
<1> DEFINE r == ToJson[MaxDepth][schema][v]
<1>3. shown = <<Display(v, schema)>> /\ Display(v, schema) # Text
      /\ copy = <<ToAvro[MaxDepth][schema][Display(v, schema)]>>
  BY <1>2 DEF RecordInv
<1>4. r.ok /\ Display(v, schema) = r.val
  BY <1>3 DEF Display
<1>5. Copied(ToAvro[MaxDepth][schema][r.val], v)
  BY <1>1, <1>4, FaithfulNow DEF FaithfulAt, Faithful
<1> QED
  BY <1>2, <1>3, <1>4, <1>5 DEF Copied

\* A record that is shown can be copied: the value is the same again, or refused for what
\* can only be shown, unless the branches of a union share a name.
THEOREM CopyTheorem == Spec => []CopyIsSame
<1> QED
  BY RecordTheorem, RecordCopies, PTL

LEMMA RecordShows == RecordInv => ShownAsWritten
<1> SUFFICES ASSUME RecordInv, step \in {"shown", "copied"}
             PROVE  IF shown[1] # Text
                       THEN doc # <<>> => SameMeaning[MaxDepth][schema][doc[1]][shown[1]]
                       ELSE \/ NoBytes[MaxDepth][schema][record[1]]
                            \/ LET r == ToJson[MaxDepth][schema][record[1]]
                               IN /\ ~r.ok /\ r.why # {}
                                  /\ \A v \in r.why : \/ v.is = "duration"
                                                      \/ v.is = "decimal" /\ v.val \notin LongRange
  BY DEF ShownAsWritten
<1>1. schema \in Schemas /\ ~Overflows(schema)
  BY DEF RecordInv
<1>2. PICK v \in ValueSet[MaxDepth][schema] :
        /\ record = <<v>>
        /\ \/ doc = <<>>
           \/ \E j \in JsonSet[MaxDepth] :
                 LET r == ToAvro[MaxDepth][schema][j]
                 IN  doc = <<j>> /\ r.ok /\ r.val = v
  BY DEF RecordInv
<1> DEFINE r == ToJson[MaxDepth][schema][v]
<1>3. shown[1] = Display(v, schema)
  BY <1>2 DEF RecordInv
<1>4. schema \in SchemaSet[MaxDepth] /\ Shown(r, JsonSet[MaxDepth])
  BY <1>1, FaithfulNow DEF FaithfulAt, Faithful
<1>5. CASE shown[1] # Text
  <2>1. r.ok /\ shown[1] = r.val
    BY <1>3, <1>5 DEF Display
  <2>2. ASSUME NEW j \in JsonSet[MaxDepth], doc = <<j>>, ToAvro[MaxDepth][schema][j].ok,
               ToAvro[MaxDepth][schema][j].val = v
        PROVE  SameMeaning[MaxDepth][schema][j][r.val]
    BY <1>1, <1>4, <2>1, <2>2, FaithfulNow DEF FaithfulAt, Faithful, PartsMeant
  <2>3. ASSUME doc # <<>>
        PROVE  SameMeaning[MaxDepth][schema][doc[1]][shown[1]]
    <3>1. PICK j \in JsonSet[MaxDepth] : /\ doc = <<j>>
                                         /\ ToAvro[MaxDepth][schema][j].ok
                                         /\ ToAvro[MaxDepth][schema][j].val = v
      BY <1>2, <2>3
    <3>2. doc[1] = j
      BY <3>1
    <3>3. SameMeaning[MaxDepth][schema][j][r.val]
      BY <2>2, <3>1
    <3> QED
      BY <2>1, <3>2, <3>3
  <2> QED
    BY <1>5, <2>3
<1>6. CASE shown[1] = Text
  <2>1. CASE r.ok
    <3>1. r.val \in JsonSet[MaxDepth]
      BY <1>4, <2>1 DEF Shown
    <3>2. r.val # Text
      <4>1. MaxDepth \in Depths
        BY AvroAssumption DEF Depths
      <4>2. JsonSet[MaxDepth] = JsonOver(IF MaxDepth = 0 THEN {} ELSE JsonSet[MaxDepth - 1])
        BY <4>1, JsonSetAt
      <4>3. r.val.is # "text"
        BY <3>1, <4>2, TextParts
      <4> QED
        BY <4>3 DEF Text
    <3>3. NoBytes[MaxDepth][schema][v]
      BY <1>3, <1>6, <2>1, <3>2 DEF Display
    <3> QED
      BY <1>2, <1>6, <3>3
  <2>2. CASE ~r.ok
    <3>1. r.why # {} /\ \A x \in r.why : Unshown(x)
      BY <1>4, <2>2 DEF Shown
    <3> QED
      BY <1>2, <1>6, <2>2, <3>1 DEF Unshown
  <2> QED
    BY <2>1, <2>2
<1> QED
  BY <1>5, <1>6

\* A record that was produced here is shown with the meaning of its text; a record is shown
\* as text only where nothing is encoded of it or a value in it is not supported.
THEOREM ShownTheorem == Spec => []ShownAsWritten
<1> QED
  BY RecordTheorem, RecordShows, PTL
-----------------------------------------------------------------------------
(* The expansion of references *)

\* The first call of map, and the calls that a call makes
FirstCall(root) == <<root, "">>

CallsIn(s, ns, names) ==
    CASE s.type \in {"array", "map"} -> {<<s.items, ns>>}
      [] s.type = "union" -> {<<s.of[i], ns>> : i \in DOMAIN s.of}
      [] s.type = "record" ->
            {<<s.fields[k], Inner(s, ns)>> : k \in {k \in Keys : s.fields[k] # Absent}}
      [] s.type = "ref" ->
            LET name == Qualified(s.name, ns)
            IN  IF name \in DOMAIN names THEN {<<names[name], name.ns>>} ELSE {}
      [] OTHER -> {}

LEMMA ResolveAt ==
    ASSUME NEW n \in 0..MaxCalls
    PROVE  Resolve[n] = [root \in Parsed |-> [s \in Parsed |-> [ns \in STRING |->
              IF n = 0 THEN Overflow
              ELSE MapSchema(s, ns, NamesOf(root), (IF n = 0 THEN <<>> ELSE Resolve[n - 1])[root])]]]
<1> DEFINE At(m, sub) == [root \in Parsed |-> [s \in Parsed |-> [ns \in STRING |->
                IF m = 0 THEN Overflow ELSE MapSchema(s, ns, NamesOf(root), sub[root])]]]
           Upto(N, f) == f = [m \in 0..N |-> At(m, IF m = 0 THEN <<>> ELSE f[m - 1])]
           T == {N \in Nat : \E f : Upto(N, f)}
<1>1. 0 \in T
  <2> DEFINE f == [m \in 0..0 |-> At(m, <<>>)]
  <2> HIDE DEF At
  <2>1. Upto(0, f)
    OBVIOUS
  <2> QED
    BY <2>1
<1>2. ASSUME NEW N \in T PROVE N + 1 \in T
  <2>1. PICK f : Upto(N, f)
    OBVIOUS
  <2> DEFINE g == [m \in 0..(N + 1) |-> IF m = N + 1 THEN At(m, f[N]) ELSE f[m]]
  <2> HIDE DEF At
  <2>2. ASSUME NEW m \in 0..(N + 1)
        PROVE  g[m] = At(m, IF m = 0 THEN <<>> ELSE g[m - 1])
    BY <2>1
  <2>3. Upto(N + 1, g) /\ N + 1 \in Nat
    BY <2>2
  <2>4. \E h : Upto(N + 1, h)
    BY <2>3
  <2> HIDE DEF Upto
  <2> QED
    BY <2>3, <2>4
<1>3. \E f : Upto(MaxCalls, f)
  <2>1. MaxCalls \in Nat
    BY SchemaAssumption
  <2> HIDE DEF Upto
  <2>2. T \in SUBSET Nat
    OBVIOUS
  <2>3. \A N \in T : N + 1 \in T
    BY <1>2
  <2> HIDE DEF T
  <2>4. MaxCalls \in T
    BY <1>1, <2>1, <2>2, <2>3, AllNumbers
  <2> QED
    BY <2>4 DEF T
<1>4. Upto(MaxCalls, Resolve)
  BY <1>3 DEF Resolve
<1> QED
  BY <1>4

LEMMA ResolveCall ==
    ASSUME NEW n \in 0..MaxCalls, NEW root \in Parsed, NEW s \in Parsed, NEW ns \in STRING
    PROVE  Resolve[n][root][s][ns] =
              IF n = 0 THEN Overflow ELSE MapSchema(s, ns, NamesOf(root), Resolve[n - 1][root])
<1> DEFINE X(r, t, m) == IF n = 0 THEN Overflow
                         ELSE MapSchema(t, m, NamesOf(r), (IF n = 0 THEN <<>> ELSE Resolve[n - 1])[r])
<1>1. Resolve[n] = [r \in Parsed |-> [t \in Parsed |-> [m \in STRING |-> X(r, t, m)]]]
  BY ResolveAt
<1>2. X(root, s, ns) = IF n = 0 THEN Overflow
                       ELSE MapSchema(s, ns, NamesOf(root), Resolve[n - 1][root])
  OBVIOUS
<1> HIDE DEF X
<1>3. Resolve[n][root][s][ns] = X(root, s, ns)
  BY <1>1
<1> QED
  BY <1>2, <1>3

\* The parts of a schema as it is parsed
LEMMA ParsedParts ==
    ASSUME NEW s \in Parsed
    PROVE  /\ s.type = "ref" <=> s \in Reference
           /\ s.type = "ref" => s.name \in Names
           /\ s.type \in {"array", "map"} =>
                 s.items \in Parsed /\ s = [type |-> s.type, items |-> s.items]
           /\ s.type = "union" =>
                 /\ s.of \in Seq(Parsed) /\ s = [type |-> "union", of |-> s.of]
                 /\ \A i \in DOMAIN s.of : s.of[i] \in Reference \/ LastSegment(s.of[i]) \in Keys
           /\ s.type = "record" =>
                 /\ s = [type |-> "record", name |-> s.name, fields |-> s.fields]
                 /\ s.name \in Names /\ s.fields \in Objects(Parsed)
           /\ s.type \notin {"array", "map", "union", "record", "ref"} =>
                 \A B : s \in SchemasOver(B)
<1> DEFINE C == {t \in Parsed : t \in Reference \/ LastSegment(t) \in Keys}
<1>1. ASSUME NEW x \in Seq(C)
      PROVE  x \in Seq(Parsed) /\ \A i \in DOMAIN x : x[i] \in Reference \/ LastSegment(x[i]) \in Keys
  OBVIOUS
<1>2. Seq({t \in Parsed : LastSegment(t) \in Keys}) \subseteq Seq(C)
  OBVIOUS
<1> HIDE DEF C
<1>3. s \in Reference \cup [type : SimpleTypes] \cup [type : {"decimal"}, scale : 0..MaxScale]
            \cup [type : {"fixed"}, name : Names]
            \cup [type : {"enum"}, name : Names, symbols : SUBSET STRING]
            \cup [type : {"array", "map"}, items : Parsed]
            \cup [type : {"union"}, of : Seq(C)]
            \cup [type : {"record"}, name : Names, fields : Objects(Parsed)]
  <2>1. s \in ParsedOver(Parsed)
    BY SchemaAssumption
  <2>2. s \in SchemasOver(Parsed) \cup Reference \cup [type : {"union"}, of : Seq(C)]
    BY <2>1 DEF ParsedOver, C
  <2> QED
    BY <2>2, <1>2 DEF SchemasOver
<1> USE DEF Reference
<1>4. CASE s \in Reference
  BY <1>4
<1>5. CASE s \in [type : SimpleTypes]
  <2>1. \A B : s \in SchemasOver(B)
    BY <1>5 DEF SchemasOver
  <2> QED
    BY <1>5, <2>1 DEF SimpleTypes, NumberTypes, IntTypes, LongTypes, FloatTypes
<1>6. CASE s \in [type : {"decimal"}, scale : 0..MaxScale]
  <2>1. \A B : s \in SchemasOver(B)
    BY <1>6 DEF SchemasOver
  <2> QED
    BY <1>6, <2>1
<1>7. CASE s \in [type : {"fixed"}, name : Names]
  <2>1. \A B : s \in SchemasOver(B)
    BY <1>7 DEF SchemasOver
  <2> QED
    BY <1>7, <2>1
<1>8. CASE s \in [type : {"enum"}, name : Names, symbols : SUBSET STRING]
  <2>1. \A B : s \in SchemasOver(B)
    BY <1>8 DEF SchemasOver
  <2> QED
    BY <1>8, <2>1
<1>9. CASE s \in [type : {"array", "map"}, items : Parsed]
  BY <1>9
<1>10. CASE s \in [type : {"union"}, of : Seq(C)]
  BY <1>10, <1>1
<1>11. CASE s \in [type : {"record"}, name : Names, fields : Objects(Parsed)]
  BY <1>11
<1> QED
  BY <1>3, <1>4, <1>5, <1>6, <1>7, <1>8, <1>9, <1>10, <1>11

\* What map does with each kind of schema
LEMMA MapArms ==
    ASSUME NEW s \in Parsed, NEW ns, NEW names, NEW Sub
    PROVE  LET m == MapSchema(s, ns, names, Sub)
           IN  /\ s.type \in {"array", "map"} => m = [type |-> s.type, items |-> Sub[s.items][ns]]
               /\ s.type = "union" =>
                     m = [type |-> "union", of |-> [i \in DOMAIN s.of |-> Sub[s.of[i]][ns]]]
               /\ s.type = "record" =>
                     m = [type |-> "record", name |-> s.name,
                          fields |-> [k \in Keys |-> IF s.fields[k] = Absent THEN Absent
                                                     ELSE Sub[s.fields[k]][Inner(s, ns)]]]
               /\ s.type = "ref" =>
                     LET name == Qualified(s.name, ns)
                     IN  m = IF name \in DOMAIN names THEN Sub[names[name]][name.ns] ELSE Unresolved
               /\ s.type \notin {"array", "map", "union", "record", "ref"} => m = s
<1>1. CASE s.type \in {"array", "map"}
  <2>1. s = [type |-> s.type, items |-> s.items]
    BY <1>1, ParsedParts
  <2>2. MapSchema(s, ns, names, Sub) = [s EXCEPT !.items = Sub[s.items][ns]]
    BY <1>1 DEF MapSchema
  <2>3. [s EXCEPT !.items = Sub[s.items][ns]] = [type |-> s.type, items |-> Sub[s.items][ns]]
    BY <2>1
  <2> QED
    BY <1>1, <2>2, <2>3
<1>2. CASE s.type = "union"
  <2> DEFINE of == [i \in DOMAIN s.of |-> Sub[s.of[i]][ns]]
  <2>1. s = [type |-> "union", of |-> s.of]
    BY <1>2, ParsedParts
  <2>2. MapSchema(s, ns, names, Sub) = [s EXCEPT !.of = of]
    BY <1>2 DEF MapSchema
  <2> HIDE DEF of
  <2>3. [s EXCEPT !.of = of] = [type |-> "union", of |-> of]
    BY <2>1
  <2> QED
    BY <1>2, <2>2, <2>3 DEF of
<1>3. CASE s.type = "record"
  <2> DEFINE fs == [k \in Keys |-> IF s.fields[k] = Absent THEN Absent
                                   ELSE Sub[s.fields[k]][Inner(s, ns)]]
  <2>1. s = [type |-> "record", name |-> s.name, fields |-> s.fields]
    BY <1>3, ParsedParts
  <2>2. MapSchema(s, ns, names, Sub) = [s EXCEPT !.fields = fs]
    BY <1>3 DEF MapSchema
  <2> HIDE DEF fs
  <2>3. [s EXCEPT !.fields = fs] = [type |-> "record", name |-> s.name, fields |-> fs]
    BY <2>1
  <2> QED
    BY <1>3, <2>2, <2>3 DEF fs
<1>4. CASE s.type = "ref"
  BY <1>4 DEF MapSchema
<1>5. CASE s.type \notin {"array", "map", "union", "record", "ref"}
  BY <1>5 DEF MapSchema
<1> QED
  BY <1>1, <1>2, <1>3, <1>4, <1>5

\* Calls that go on for ever: each makes one that is of them as well.
Endless(P, root) ==
    /\ P \subseteq Parsed \X STRING
    /\ \A p \in P : \E q \in P : q \in CallsIn(p[1], p[2], NamesOf(root))

LEMMA EndlessLevel ==
    ASSUME NEW root \in Parsed, NEW P, Endless(P, root), NEW n \in 0..MaxCalls, n > 0, NEW S,
           NEW p \in P, \A q \in P : Resolve[n - 1][root][q[1]][q[2]] \notin S \cup SchemasOver(S)
                                       \cup {Absent}
    PROVE  Resolve[n][root][p[1]][p[2]] \notin SchemasOver(S) \cup {Absent}
<1> DEFINE Sub == Resolve[n - 1][root]
           s == p[1]
           ns == p[2]
           m == MapSchema(s, ns, NamesOf(root), Sub)
<1>1. s \in Parsed /\ ns \in STRING
  BY DEF Endless
<1>2. PICK q \in P : q \in CallsIn(s, ns, NamesOf(root))
  BY DEF Endless
<1>3. Resolve[n][root][s][ns] = m
  <2>1. \A t \in Parsed : \A x \in STRING :
           Resolve[n][root][t][x] = MapSchema(t, x, NamesOf(root), Sub)
    <3>1. n # 0
      OBVIOUS
    <3> QED
      BY <3>1, ResolveCall
  <2> QED
    BY <1>1, <2>1
<1>4. Sub[q[1]][q[2]] \notin S \cup SchemasOver(S) \cup {Absent}
  OBVIOUS
<1> HIDE DEF Sub, s, ns
<1> SUFFICES m \notin SchemasOver(S) \cup {Absent}
  BY <1>3 DEF s, ns
<1>5. CASE s.type \in {"array", "map"}
  <2>1. m = [type |-> s.type, items |-> Sub[s.items][ns]]
    BY <1>1, <1>5, MapArms
  <2>2. q = <<s.items, ns>>
    BY <1>2, <1>5 DEF CallsIn
  <2>3. m.items \notin S /\ m.type \in {"array", "map"}
    BY <1>4, <1>5, <2>1, <2>2
  <2>4. m # Absent
    BY <2>1 DEF Absent
  <2> HIDE DEF m
  <2> QED
    BY <2>3, <2>4, SchemaParts
<1>6. CASE s.type = "union"
  <2>1. m = [type |-> "union", of |-> [i \in DOMAIN s.of |-> Sub[s.of[i]][ns]]]
    BY <1>1, <1>6, MapArms
  <2>2. PICK i \in DOMAIN s.of : q = <<s.of[i], ns>>
    BY <1>2, <1>6 DEF CallsIn
  <2>3. s.of \in Seq(Parsed)
    BY <1>1, <1>6, ParsedParts
  <2>4. DOMAIN m.of = DOMAIN s.of /\ m.of[i] = Sub[s.of[i]][ns] /\ m.type = "union"
    BY <2>1
  <2>5. m.of[i] \notin S
    BY <1>4, <2>2, <2>4
  <2>6. m # Absent
    <3> DEFINE of == [j \in DOMAIN s.of |-> Sub[s.of[j]][ns]]
    <3>1. m = [type |-> "union", of |-> of]
      BY <2>1
    <3> HIDE DEF of, m
    <3> QED
      BY <3>1 DEF Absent
  <2> HIDE DEF m
  <2>7. m.of \notin Seq(S)
    BY <2>2, <2>4, <2>5
  <2> QED
    BY <2>4, <2>6, <2>7, SchemaParts
<1>7. CASE s.type = "record"
  <2> DEFINE fs == [k \in Keys |-> IF s.fields[k] = Absent THEN Absent
                                   ELSE Sub[s.fields[k]][Inner(s, ns)]]
  <2>1. m = [type |-> "record", name |-> s.name, fields |-> fs]
    BY <1>1, <1>7, MapArms
  <2>2. PICK k \in Keys : s.fields[k] # Absent /\ q = <<s.fields[k], Inner(s, ns)>>
    BY <1>2, <1>7 DEF CallsIn
  <2>3. fs[k] = Sub[q[1]][q[2]]
    BY <2>2
  <2>4. fs[k] \notin S \cup {Absent}
    BY <1>4, <2>3
  <2> HIDE DEF fs, m
  <2>5. m # Absent
    BY <2>1 DEF Absent
  <2>6. m.type = "record" /\ m.fields = fs
    BY <2>1
  <2>7. m.fields \notin Objects(S)
    BY <2>2, <2>4, <2>6 DEF Objects
  <2> QED
    BY <2>5, <2>6, <2>7, SchemaParts
<1>8. CASE s.type = "ref"
  <2> DEFINE name == Qualified(s.name, ns)
             names == NamesOf(root)
  <2>1. m = IF name \in DOMAIN names THEN Sub[names[name]][name.ns] ELSE Unresolved
    BY <1>1, <1>8, MapArms
  <2>2. name \in DOMAIN names /\ q = <<names[name], name.ns>>
    BY <1>2, <1>8 DEF CallsIn
  <2> HIDE DEF name, names
  <2>3. m = Sub[q[1]][q[2]]
    BY <2>1, <2>2
  <2> QED
    BY <1>4, <2>3
<1>9. CASE s.type \notin {"array", "map", "union", "record", "ref"}
  BY <1>2, <1>9 DEF CallsIn
<1> QED
  BY <1>5, <1>6, <1>7, <1>8, <1>9

\* A schema that refers to itself, in whatever way, overflows the stack however large that is
\* (ResolvedAvroSchema::from): no number of calls gives a schema, of any depth.
THEOREM EndlessCrashes ==
    ASSUME NEW root \in Parsed, NEW P, Endless(P, root), FirstCall(root) \in P
    PROVE  Overflows(Resolved(root))
<1> DEFINE Gives(n, p) == Resolve[n][root][p[1]][p[2]]
           Never(n) == \A p \in P : \A d \in Depths : Gives(n, p) \notin SchemaSet[d] \cup {Absent}
           T == {n \in Nat : n <= MaxCalls => Never(n)}
<1>1. MaxCalls \in Nat /\ MaxDepth \in Nat
  BY SchemaAssumption, AvroAssumption
<1>2. Never(0)
  <2> SUFFICES ASSUME NEW p \in P, NEW d \in Depths PROVE Gives(0, p) \notin SchemaSet[d] \cup {Absent}
    OBVIOUS
  <2>1. p[1] \in Parsed /\ p[2] \in STRING
    BY DEF Endless
  <2>2. \A t \in Parsed : \A x \in STRING : Resolve[0][root][t][x] = Overflow
    <3>1. 0 \in 0..MaxCalls
      BY <1>1
    <3> QED
      BY <3>1, ResolveCall
  <2>3. Gives(0, p) = Overflow
    BY <2>1, <2>2
  <2>4. Overflow.type = "overflow" /\ Overflow # Absent
    BY DEF Overflow, Absent
  <2>5. \A B : Overflow \notin SchemasOver(B)
    BY <2>4, SchemaParts DEF SimpleTypes, NumberTypes, IntTypes, LongTypes, FloatTypes
  <2> QED
    BY <2>3, <2>4, <2>5, SchemaSetAt
<1>3. ASSUME NEW n \in Nat, n + 1 <= MaxCalls, Never(n) PROVE Never(n + 1)
  <2> SUFFICES ASSUME NEW p \in P, NEW d \in Depths
               PROVE  Gives(n + 1, p) \notin SchemaSet[d] \cup {Absent}
    OBVIOUS
  <2> DEFINE S == IF d = 0 THEN {} ELSE SchemaSet[d - 1]
  <2>1. n + 1 \in 0..MaxCalls /\ n + 1 > 0 /\ (n + 1) - 1 = n
    BY <1>1, <1>3
  <2>2. SchemaSet[d] = SchemasOver(S)
    BY SchemaSetAt
  <2>3. \A q \in P : Gives(n, q) \notin SchemaSet[d] \cup {Absent}
    BY <1>3
  <2>4. \A q \in P : Gives(n, q) \notin S
    <3>1. CASE d = 0
      BY <3>1
    <3>2. CASE d # 0
      <4>1. d - 1 \in Depths
        BY <1>1, <3>2 DEF Depths
      <4>2. \A q \in P : Gives(n, q) \notin SchemaSet[d - 1]
        BY <1>3, <4>1
      <4> QED
        BY <3>2, <4>2
    <3> QED
      BY <3>1, <3>2
  <2> HIDE DEF S
  <2>5. \A q \in P : Resolve[(n + 1) - 1][root][q[1]][q[2]] \notin S \cup SchemasOver(S) \cup {Absent}
    BY <2>1, <2>2, <2>3, <2>4
  <2>6. Resolve[n + 1][root][p[1]][p[2]] \notin SchemasOver(S) \cup {Absent}
    BY <2>1, <2>5, EndlessLevel
  <2> QED
    BY <2>2, <2>6
<1> HIDE DEF Never
<1>4. 0 \in T /\ T \in SUBSET Nat
  BY <1>2
<1>5. \A n \in T : n + 1 \in T
  <2> SUFFICES ASSUME NEW n \in Nat, n <= MaxCalls => Never(n), n + 1 <= MaxCalls
               PROVE  Never(n + 1)
    OBVIOUS
  <2> QED
    BY <1>1, <1>3
<1> HIDE DEF T
<1>6. MaxCalls \in T
  BY <1>1, <1>4, <1>5, AllNumbers
<1>7. Never(MaxCalls)
  BY <1>1, <1>6 DEF T
<1>8. MaxDepth \in Depths
  BY <1>1 DEF Depths
<1>9. Gives(MaxCalls, FirstCall(root)) \notin SchemaSet[MaxDepth]
  BY <1>7, <1>8 DEF Never
<1>10. Resolved(root) = Gives(MaxCalls, FirstCall(root))
  BY Zenon DEF Resolved, FirstCall
<1> QED
  BY <1>9, <1>10 DEF Overflows

\* Calls that end: each has a rank, and those that it makes are of them and have a smaller one.
\* A reference among them is to a name there is.
Ending(P, rank, root) ==
    /\ P \subseteq Parsed \X STRING
    /\ rank \in [P -> Nat]
    /\ \A p \in P : /\ p[1].type = "ref" => Qualified(p[1].name, p[2]) \in DOMAIN NamesOf(root)
                    /\ \A q \in CallsIn(p[1], p[2], NamesOf(root)) : q \in P /\ rank[q] < rank[p]

\* What becomes of a call: a schema over S, one that may be a branch where the one parsed may be.
Expands(s, x, S) == x \in S /\ (s \in Reference \/ LastSegment(s) \in Keys => LastSegment(x) \in Keys)

LEMMA SchemasOverMore ==
    ASSUME NEW A, NEW B, A \subseteq B
    PROVE  SchemasOver(A) \subseteq SchemasOver(B)
<1>1. Seq({t \in A : LastSegment(t) \in Keys}) \subseteq Seq({t \in B : LastSegment(t) \in Keys})
  <2> DEFINE C == {t \in A : LastSegment(t) \in Keys}
             D == {t \in B : LastSegment(t) \in Keys}
  <2>1. C \subseteq D
    OBVIOUS
  <2> HIDE DEF C, D
  <2>2. Seq(C) \subseteq Seq(D)
    BY <2>1
  <2> QED
    BY <2>2 DEF C, D
<1>2. Objects(A) \subseteq Objects(B)
  BY DEF Objects
<1> QED
  BY <1>1, <1>2 DEF SchemasOver

\* A schema of some depth is also one of a greater depth.
LEMMA SchemaSetGrows ==
    ASSUME NEW n \in Depths, n + 1 \in Depths
    PROVE  SchemaSet[n] \subseteq SchemaSet[n + 1]
<1> DEFINE Grows(m) == SchemaSet[m] \subseteq SchemaSet[m + 1]
           T == {m \in Nat : m + 1 <= MaxDepth => Grows(m)}
<1>1. MaxDepth \in Nat
  BY AvroAssumption
<1>2. ASSUME NEW m \in Nat, m + 1 <= MaxDepth PROVE SchemaSet[m + 1] = SchemasOver(SchemaSet[m])
  <2>1. m + 1 \in Depths /\ m + 1 # 0 /\ (m + 1) - 1 = m
    BY <1>1, <1>2 DEF Depths
  <2> QED
    BY <2>1, SchemaSetAt
<1>3. 0 \in T
  <2> SUFFICES ASSUME 0 + 1 <= MaxDepth PROVE SchemaSet[0] \subseteq SchemaSet[0 + 1]
    OBVIOUS
  <2>1. 0 \in Depths
    BY <1>1 DEF Depths
  <2>2. SchemaSet[0] = SchemasOver({}) /\ SchemaSet[0 + 1] = SchemasOver(SchemaSet[0])
    BY <1>2, <2>1, SchemaSetAt
  <2> QED
    BY <2>2, SchemasOverMore
<1>4. ASSUME NEW m \in Nat, m + 1 <= MaxDepth => Grows(m), (m + 1) + 1 <= MaxDepth
      PROVE  Grows(m + 1)
  <2>1. m + 1 \in Nat /\ m + 1 <= MaxDepth
    BY <1>1, <1>4
  <2>2. /\ SchemaSet[m + 1] = SchemasOver(SchemaSet[m])
        /\ SchemaSet[(m + 1) + 1] = SchemasOver(SchemaSet[m + 1])
    BY <1>2, <1>4, <2>1
  <2> QED
    BY <1>4, <2>1, <2>2, SchemasOverMore
<1> HIDE DEF Grows
<1>5. T \in SUBSET Nat /\ \A m \in T : m + 1 \in T
  BY <1>4
<1> HIDE DEF T
<1>6. \A m \in Nat : m \in T
  BY <1>3, <1>5, AllNumbers
<1>7. n \in Nat /\ n + 1 <= MaxDepth
  BY <1>1 DEF Depths
<1> QED
  BY <1>6, <1>7 DEF T, Grows

LEMMA EndingLevel ==
    ASSUME NEW root \in Parsed, NEW P, NEW rank, Ending(P, rank, root),
           NEW n \in 0..MaxCalls, n > 0, NEW S, NEW p \in P,
           \A q \in CallsIn(p[1], p[2], NamesOf(root)) :
              LET x == Resolve[n - 1][root][q[1]][q[2]]
              IN  Expands(q[1], x, S) /\ Expands(q[1], x, SchemasOver(S))
    PROVE  Expands(p[1], Resolve[n][root][p[1]][p[2]], SchemasOver(S))
<1> DEFINE Sub == Resolve[n - 1][root]
           s == p[1]
           ns == p[2]
           m == MapSchema(s, ns, NamesOf(root), Sub)
<1>1. s \in Parsed /\ ns \in STRING
  BY DEF Ending
<1>2. \A q \in CallsIn(s, ns, NamesOf(root)) :
         /\ Sub[q[1]][q[2]] \in S /\ Expands(q[1], Sub[q[1]][q[2]], SchemasOver(S))
         /\ q[1] \in Reference \/ LastSegment(q[1]) \in Keys => LastSegment(Sub[q[1]][q[2]]) \in Keys
  BY DEF Expands
<1>3. Resolve[n][root][s][ns] = m
  <2>1. \A t \in Parsed : \A x \in STRING :
           Resolve[n][root][t][x] = MapSchema(t, x, NamesOf(root), Sub)
    <3>1. n # 0
      OBVIOUS
    <3> QED
      BY <3>1, ResolveCall
  <2> QED
    BY <1>1, <2>1
<1>4. s.type = "ref" => Qualified(s.name, ns) \in DOMAIN NamesOf(root)
  BY DEF Ending
<1> HIDE DEF Sub, s, ns
<1> SUFFICES m \in SchemasOver(S) /\ (s \in Reference \/ LastSegment(s) \in Keys => LastSegment(m) \in Keys)
  BY <1>3 DEF s, ns, Expands
<1>5. CASE s.type \in {"array", "map"}
  <2>1. m = [type |-> s.type, items |-> Sub[s.items][ns]]
    BY <1>1, <1>5, MapArms
  <2>2. <<s.items, ns>> \in CallsIn(s, ns, NamesOf(root))
    BY <1>5 DEF CallsIn
  <2>3. Sub[s.items][ns] \in S
    BY <1>2, <2>2
  <2>4. m \in SchemasOver(S)
    BY <1>5, <2>1, <2>3 DEF SchemasOver
  <2>5. s \notin Reference
    BY <1>5 DEF Reference
  <2>6. LastSegment(m) = LastSegment(s)
    BY <1>5, <2>1 DEF LastSegment
  <2> QED
    BY <2>4, <2>5, <2>6
<1>6. CASE s.type = "union"
  <2> DEFINE of == [i \in DOMAIN s.of |-> Sub[s.of[i]][ns]]
             C == {t \in S : LastSegment(t) \in Keys}
  <2>1. m = [type |-> "union", of |-> of]
    BY <1>1, <1>6, MapArms
  <2>2. /\ s.of \in Seq(Parsed)
        /\ \A i \in DOMAIN s.of : s.of[i] \in Reference \/ LastSegment(s.of[i]) \in Keys
    BY <1>1, <1>6, ParsedParts
  <2>3. ASSUME NEW i \in DOMAIN s.of PROVE Sub[s.of[i]][ns] \in C
    <3>1. <<s.of[i], ns>> \in CallsIn(s, ns, NamesOf(root))
      BY <1>6 DEF CallsIn
    <3> QED
      BY <1>2, <2>2, <3>1
  <2> HIDE DEF C
  <2>4. of \in Seq(C)
    BY <2>2, <2>3
  <2> HIDE DEF of
  <2>5. m \in [type : {"union"}, of : Seq(C)]
    BY <2>1, <2>4
  <2>6. m \in SchemasOver(S)
    BY <2>5 DEF SchemasOver, C
  <2>7. s \notin Reference
    BY <1>6 DEF Reference
  <2>8. LastSegment(m) = LastSegment(s)
    BY <1>6, <2>1 DEF LastSegment
  <2> QED
    BY <2>6, <2>7, <2>8
<1>7. CASE s.type = "record"
  <2> DEFINE fs == [k \in Keys |-> IF s.fields[k] = Absent THEN Absent
                                   ELSE Sub[s.fields[k]][Inner(s, ns)]]
  <2>1. m = [type |-> "record", name |-> s.name, fields |-> fs]
    BY <1>1, <1>7, MapArms
  <2>2. ASSUME NEW k \in Keys, s.fields[k] # Absent
        PROVE  Sub[s.fields[k]][Inner(s, ns)] \in S
    <3>1. <<s.fields[k], Inner(s, ns)>> \in CallsIn(s, ns, NamesOf(root))
      BY <1>7, <2>2 DEF CallsIn
    <3> QED
      BY <1>2, <3>1
  <2>3. fs \in Objects(S)
    BY <2>2 DEF Objects
  <2>4. s.name \in Names
    BY <1>1, <1>7, ParsedParts
  <2> HIDE DEF fs
  <2>5. m \in SchemasOver(S)
    BY <2>1, <2>3, <2>4 DEF SchemasOver
  <2>6. s \notin Reference
    BY <1>7 DEF Reference
  <2>7. LastSegment(m) = LastSegment(s)
    BY <1>7, <2>1 DEF LastSegment
  <2> QED
    BY <2>5, <2>6, <2>7
<1>8. CASE s.type = "ref"
  <2> DEFINE name == Qualified(s.name, ns)
             names == NamesOf(root)
  <2>1. m = IF name \in DOMAIN names THEN Sub[names[name]][name.ns] ELSE Unresolved
    BY <1>1, <1>8, MapArms
  <2>2. name \in DOMAIN names
    BY <1>4, <1>8
  <2>3. <<names[name], name.ns>> \in CallsIn(s, ns, names)
    BY <1>8, <2>2 DEF CallsIn
  <2> HIDE DEF name
  <2>4. LastSegment(names[name]) \in Keys
    BY <2>2, SchemaAssumption
  <2> HIDE DEF names
  <2>5. m = Sub[names[name]][name.ns]
    BY <2>1, <2>2
  <2>6. Expands(names[name], m, SchemasOver(S))
    BY <1>2, <2>3, <2>5 DEF names
  <2> QED
    BY <2>4, <2>6 DEF Expands
<1>9. CASE s.type \notin {"array", "map", "union", "record", "ref"}
  <2>1. m = s
    BY <1>1, <1>9, MapArms
  <2>2. s \in SchemasOver(S)
    BY <1>1, <1>9, ParsedParts
  <2>3. s \notin Reference
    BY <1>9 DEF Reference
  <2> QED
    BY <2>1, <2>2, <2>3
<1> QED
  BY <1>5, <1>6, <1>7, <1>8, <1>9

\* A schema whose calls of map end is expanded when the stack has room for them
\* (ResolvedAvroSchema::from): what comes out is a schema without references, all of it.
THEOREM EndingIsExpanded ==
    ASSUME NEW root \in Parsed, NEW P, NEW rank, Ending(P, rank, root), FirstCall(root) \in P,
           rank[FirstCall(root)] <= MaxDepth, rank[FirstCall(root)] < MaxCalls
    PROVE  ~Overflows(Resolved(root))
<1> DEFINE Gives(n, p) == Resolve[n][root][p[1]][p[2]]
           Done(d) == \A p \in P : \A n \in 0..MaxCalls :
                         rank[p] <= d /\ rank[p] < n => Expands(p[1], Gives(n, p), SchemaSet[d])
           T == {d \in Nat : d <= MaxDepth => Done(d)}
<1>1. MaxCalls \in Nat /\ MaxDepth \in Nat
  BY SchemaAssumption, AvroAssumption
<1>2. rank \in [P -> Nat]
  BY DEF Ending
<1>3. Done(0)
  <2> SUFFICES ASSUME NEW p \in P, NEW n \in 0..MaxCalls, rank[p] <= 0, rank[p] < n
               PROVE  Expands(p[1], Gives(n, p), SchemaSet[0])
    OBVIOUS
  <2>1. \A q \in CallsIn(p[1], p[2], NamesOf(root)) : q \in P /\ rank[q] < rank[p]
    BY DEF Ending
  <2>2. \A q \in CallsIn(p[1], p[2], NamesOf(root)) : FALSE
    BY <1>2, <2>1
  <2>3. n > 0 /\ 0 \in Depths
    BY <1>1, <1>2 DEF Depths
  <2>4. Expands(p[1], Gives(n, p), SchemasOver({}))
    BY <2>2, <2>3, EndingLevel
  <2> QED
    BY <2>3, <2>4, SchemaSetAt
<1>4. ASSUME NEW d \in Nat, d + 1 <= MaxDepth, Done(d) PROVE Done(d + 1)
  <2> SUFFICES ASSUME NEW p \in P, NEW n \in 0..MaxCalls, rank[p] <= d + 1, rank[p] < n
               PROVE  Expands(p[1], Gives(n, p), SchemaSet[d + 1])
    OBVIOUS
  <2>1. n > 0 /\ n - 1 \in 0..MaxCalls /\ d \in Depths /\ d + 1 \in Depths
    BY <1>1, <1>2, <1>4 DEF Depths
  <2>2. SchemaSet[d + 1] = SchemasOver(SchemaSet[d])
    <3>1. d + 1 # 0 /\ (d + 1) - 1 = d
      BY <1>4
    <3> QED
      BY <2>1, <3>1, SchemaSetAt
  <2>3. ASSUME NEW q \in CallsIn(p[1], p[2], NamesOf(root))
        PROVE  /\ Expands(q[1], Gives(n - 1, q), SchemaSet[d])
               /\ Expands(q[1], Gives(n - 1, q), SchemasOver(SchemaSet[d]))
    <3>1. q \in P /\ rank[q] < rank[p]
      BY DEF Ending
    <3>2. rank[q] <= d /\ rank[q] < n - 1
      BY <1>2, <3>1
    <3>3. Expands(q[1], Gives(n - 1, q), SchemaSet[d])
      BY <1>4, <2>1, <3>1, <3>2
    <3>4. SchemaSet[d] \subseteq SchemasOver(SchemaSet[d])
      BY <2>1, <2>2, SchemaSetGrows
    <3> QED
      BY <3>3, <3>4 DEF Expands
  <2>4. Expands(p[1], Gives(n, p), SchemasOver(SchemaSet[d]))
    BY <2>1, <2>3, EndingLevel
  <2> QED
    BY <2>2, <2>4
<1> HIDE DEF Done
<1>5. 0 \in T /\ T \in SUBSET Nat
  BY <1>3
<1>6. \A d \in T : d + 1 \in T
  <2> SUFFICES ASSUME NEW d \in Nat, d <= MaxDepth => Done(d), d + 1 <= MaxDepth
               PROVE  Done(d + 1)
    OBVIOUS
  <2> QED
    BY <1>1, <1>4
<1> HIDE DEF T
<1>7. MaxDepth \in T
  BY <1>1, <1>5, <1>6, AllNumbers
<1>8. Done(MaxDepth)
  BY <1>1, <1>7 DEF T
<1>9. MaxCalls \in 0..MaxCalls
  BY <1>1
<1>10. Expands(FirstCall(root)[1], Gives(MaxCalls, FirstCall(root)), SchemaSet[MaxDepth])
  BY <1>8, <1>9 DEF Done
<1>11. Resolved(root) = Gives(MaxCalls, FirstCall(root))
  BY Zenon DEF Resolved, FirstCall
<1> QED
  BY <1>10, <1>11 DEF Overflows, Expands
=============================================================================
