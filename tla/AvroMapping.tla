------------------------------ MODULE AvroMapping ------------------------------
(***************************************************************************)
(* Records in Avro, as this program shows and makes them: the value of a   *)
(* record as a JSON text (avro_to_json.rs), a JSON text as a value         *)
(* (json_to_avro.rs), and the parser that falls back to text               *)
(* (parser/mod.rs, record_store/record_parser.rs).  AvroSchema has the     *)
(* expansion of references that comes before.                              *)
(*                                                                         *)
(* A text or a value is a record that says what it is, with its content.   *)
(* Both are as deep as their schema.  What the code does by calling itself *)
(* on the parts is here a function of the depth: it takes the parts to the *)
(* function of the depth below, Sub.  The binary encoding is that of       *)
(* apache_avro and loses nothing; only whether there is any matters here.  *)
(***************************************************************************)
EXTENDS Integers, Sequences

CONSTANTS
    Schemas,         \* the schemas of topics, their references expanded
    Keys,            \* the names that occur: of fields, branches and entries of maps
    DocsOf(_),       \* the texts that are tried for a schema
    RecordsOf(_),    \* the values that others produce with it
    Numbers,         \* the numbers that occur
    InRange(_, _),   \* a float or a double is large enough for a number
    Rounded(_, _),   \* the nearest number that it has, if it is
    IntMax,          \* the largest i32
    LongMax,         \* the largest i64
    DecimalMax,      \* the largest coefficient of a rust_decimal (96 bits)
    MaxScale,        \* the most digits it has after the point
    MaxDepth         \* the levels of a schema the stack has room for

VARIABLES
    step,    \* what has been done with the record
    schema,  \* the schema of its topic
    doc,     \* the text it was produced from: none or one
    record,  \* its value: none or one
    shown,   \* what is shown of it: none, or one JSON value or text
    copy     \* what becomes of the shown text when it is produced again

vars == <<step, schema, doc, record, shown, copy>>

Depths == 0..MaxDepth
-----------------------------------------------------------------------------
(* Schemas *)

IntTypes == {"int", "date", "time-millis"}
LongTypes == {"long", "time-micros", "timestamp-millis", "timestamp-micros"}
FloatTypes == {"float", "double"}
NumberTypes == IntTypes \cup LongTypes \cup FloatTypes

\* "duration" stands for what is supported neither way: that, big-decimal, and the local
\* and nanosecond timestamps.
SimpleTypes == {"null", "boolean", "string", "uuid", "bytes", "duration"} \cup NumberTypes

\* A name is what comes before its last dot, and what comes behind it.
Names == [ns : STRING, name : STRING]
Simple(name) == [ns |-> "", name |-> name]

\* fqn(): the name of a record or an enum, the type of everything else
Fqn(s) == IF s.type \in {"record", "enum"} THEN s.name ELSE Simple(s.type)

\* fqn().split('.').last()
LastSegment(s) == Simple(IF s.type \in {"record", "enum"} THEN s.name.name ELSE s.type)

\* An object of any kind gives a part to some of the keys, and this to the others.
Absent == [is |-> "absent", val |-> 0]
Objects(X) == [Keys -> X \cup {Absent}]
Only(key, x) == [k \in Keys |-> IF k = key THEN x ELSE Absent]

\* AvroSchema, as deep as the stack allows
SchemasOver(Below) ==
    [type : SimpleTypes]
      \cup [type : {"decimal"}, scale : 0..MaxScale]
      \cup [type : {"fixed"}, name : Names]
      \cup [type : {"enum"}, name : Names, symbols : SUBSET STRING]
      \cup [type : {"array", "map"}, items : Below]
      \cup [type : {"union"}, of : Seq({t \in Below : LastSegment(t) \in Keys})]
      \cup [type : {"record"}, name : Names, fields : Objects(Below)]

SchemaSet[n \in Depths] == SchemasOver(IF n = 0 THEN {} ELSE SchemaSet[n - 1])
-----------------------------------------------------------------------------
(* Texts and values *)

IntRange == (-IntMax - 1)..IntMax
LongRange == (-LongMax - 1)..LongMax
Null == [is |-> "null", val |-> 0]
Num(i) == [is |-> "num", val |-> i]

\* A JSON string is a UUID, in lower case with hyphens or in another form, a decimal with
\* n / 10^scale as its value, or something else.
Strings == [is : {"str"}, val : STRING]
             \cup [is : {"uuid"}, val : [id : STRING, canonical : BOOLEAN]]
             \cup [is : {"decimal"}, val : [n : (-DecimalMax)..DecimalMax, scale : 0..MaxScale]]

\* JSON texts.  An array of numbers may be what bytes are shown as.
JsonOver(Below) ==
    {Null} \cup [is : {"bool"}, val : BOOLEAN] \cup [is : {"num"}, val : Numbers] \cup Strings
      \cup [is : {"arr"}, val : Seq([is : {"num"}, val : Numbers])]
      \cup [is : {"arr"}, val : Seq(Below)] \cup [is : {"obj"}, val : Objects(Below)]

JsonSet[n \in Depths] == JsonOver(IF n = 0 THEN {} ELSE JsonSet[n - 1])

\* A float or a double that JSON has no number for: NaN, or an infinity
NoNumber == [is |-> "nan", val |-> 0]

\* The values of apache_avro
ValuesOver(Below) ==
    {Null} \cup [is : {"boolean"}, val : BOOLEAN] \cup [is : NumberTypes, val : Numbers]
      \cup [is : {"nan", "duration"}, val : {0}] \cup [is : {"decimal"}, val : Int]
      \cup [is : {"string"}, val : Strings] \cup [is : {"uuid", "enum"}, val : STRING]
      \cup [is : {"bytes", "fixed"}, val : Seq(0..255)]
      \cup [is : {"array"}, val : Seq(Below)] \cup [is : {"union"}, val : Nat \X Below]
      \cup [is : {"map", "record"}, val : Objects(Below)]

Values[n \in Depths] == ValuesOver(IF n = 0 THEN {} ELSE Values[n - 1])

\* v is a value of the schema s; Sub has those of the schemas below.
Conforms(v, s, Sub) ==
    CASE s.type = "array" -> v.is = "array" /\ \A i \in DOMAIN v.val : v.val[i] \in Sub[s.items]
      [] s.type = "map" ->
            v.is = "map" /\ \A k \in Keys : v.val[k] # Absent => v.val[k] \in Sub[s.items]
      [] s.type = "union" ->
            v.is = "union" /\ v.val[1] \in DOMAIN s.of /\ v.val[2] \in Sub[s.of[v.val[1]]]
      [] s.type = "record" ->
            v.is = "record" /\ \A k \in Keys : IF s.fields[k] = Absent THEN v.val[k] = Absent
                                              ELSE v.val[k] \in Sub[s.fields[k]]
      [] s.type \in IntTypes -> v.is = s.type /\ v.val \in IntRange
      [] s.type \in LongTypes -> v.is = s.type /\ v.val \in LongRange
      [] s.type \in FloatTypes ->
            \/ v = NoNumber
            \/ v.is = s.type /\ InRange(s.type, v.val) /\ v.val = Rounded(s.type, v.val)
      [] s.type = "enum" -> v.is = "enum" /\ v.val \in s.symbols
      [] OTHER -> v.is = s.type

ValueSet[n \in Depths] ==
    LET Sub == IF n = 0 THEN <<>> ELSE ValueSet[n - 1]
    IN  [s \in SchemaSet[n] |-> {v \in Values[n] : Conforms(v, s, Sub)}]

Overflows(s) == s \notin SchemaSet[MaxDepth]

ASSUME AvroAssumption ==
    /\ IntMax \in Nat /\ LongMax \in Nat /\ DecimalMax \in Nat
    /\ IntMax < LongMax /\ LongMax < DecimalMax \div 10
    /\ MaxScale \in Nat /\ MaxDepth \in Nat
    /\ Keys \subseteq Names
    /\ LongRange \cup 0..255 \subseteq Numbers
    /\ \A n \in Numbers, t \in FloatTypes :
          InRange(t, n) => /\ InRange("double", n)
                           /\ Rounded(t, n) \in Numbers /\ InRange(t, Rounded(t, n))
                           /\ Rounded(t, Rounded(t, n)) = Rounded(t, n)
    /\ \A s \in Schemas : ~Overflows(s) => /\ DocsOf(s) \subseteq JsonSet[MaxDepth]
                                           /\ RecordsOf(s) \subseteq ValueSet[MaxDepth][s]
-----------------------------------------------------------------------------
(* Results: a value, or what could not be converted (all of it, where the code stops at *)
(* the first) *)

Ok(v) == [ok |-> TRUE, val |-> v]
Err(why) == [ok |-> FALSE, why |-> why]

\* Results of the parts, as the result of the whole: the `?' of the code.
Whole(kind, rs) ==
    IF \A i \in DOMAIN rs : rs[i].ok
       THEN Ok([is |-> kind, val |-> [i \in DOMAIN rs |-> rs[i].val]])
       ELSE Err(UNION {rs[i].why : i \in {k \in DOMAIN rs : ~rs[k].ok}})
-----------------------------------------------------------------------------
(* json_to_avro *)

\* The powers of ten
Tens[k \in 0..MaxScale] == IF k = 0 THEN 1 ELSE 10 * Tens[k - 1]

HasRoom(n, k) == n * Tens[k] \in (-DecimalMax)..DecimalMax

\* rescale of rust_decimal: as many more digits as there is room for
Rescaled(n, k) ==
    n * Tens[CHOOSE i \in 0..k : HasRoom(n, i) /\ (i < k => ~HasRoom(n, i + 1))]

\* mutant of DecimalOf: the scale of the text is taken for that of the schema
DecimalOfUnscaled(d, scale) ==
    IF d.scale > scale THEN Err({<<"decimal", "decimal">>}) ELSE Ok([is |-> "decimal", val |-> d.n])

\* parse_decimal: more digits than the schema has are refused.
DecimalOf(d, scale) ==
    IF d.scale > scale THEN Err({<<"decimal", "decimal">>})
    ELSE Ok([is |-> "decimal", val |-> Rescaled(d.n, scale - d.scale)])

\* The branch for null: the first that is.
NullBranch(s) == {i \in DOMAIN s.of : /\ s.of[i].type = "null"
                                      /\ \A k \in 1..(i - 1) : s.of[k].type # "null"}

\* mutant of Named: a branch is known by its full name only
NamedInFull(s, key) == {i \in DOMAIN s.of : key = Fqn(s.of[i])}

\* The branch for a key: the first that has it as its name, or as the last part of it.
Named(s, key) == LET Fits(i) == key \in {Fqn(s.of[i]), LastSegment(s.of[i])}
                 IN {i \in DOMAIN s.of : Fits(i) /\ \A k \in 1..(i - 1) : ~Fits(k)}

\* The result for a branch of a union, as one for the union
OfBranch(i, r) == IF r.ok THEN Ok([is |-> "union", val |-> <<i, r.val>>]) ELSE r

\* map_union
UnionToAvro(obj, s, Sub) ==
    IF \E key \in Keys : obj[key] # Absent /\ obj = Only(key, obj[key]) /\ Named(s, key) # {}
       THEN LET key == CHOOSE k \in Keys : obj[k] # Absent
                i == CHOOSE k \in Named(s, key) : TRUE
            IN OfBranch(i, Sub[s.of[i]][obj[key]])
       ELSE Err({<<"union", "obj">>})

\* map_json_fields_to_record: fields the schema does not have are ignored.
RecordToAvro(obj, s, Sub) ==
    IF \E k \in Keys : s.fields[k] # Absent /\ obj[k] = Absent THEN Err({<<"record", "obj">>})
    ELSE Whole("record", [k \in Keys |-> IF s.fields[k] = Absent THEN Ok(Absent)
                                         ELSE Sub[s.fields[k]][obj[k]]])

\* Of what a double has no room for nothing is made, and an infinity of what a float has
\* no room for.
NumberToAvro(n, s) ==
    CASE s.type \in IntTypes /\ n \in IntRange -> Ok([is |-> s.type, val |-> n])
      [] s.type \in LongTypes /\ n \in LongRange -> Ok([is |-> s.type, val |-> n])
      [] s.type \in FloatTypes /\ InRange(s.type, n) ->
            Ok([is |-> s.type, val |-> Rounded(s.type, n)])
      [] s.type = "float" /\ InRange("double", n) /\ ~InRange("float", n) -> Ok(NoNumber)
      [] OTHER -> Err({<<s.type, "num">>})

\* json_to_avro_map
MapToAvro(j, s, Sub) ==
    CASE s.type = "record" /\ j.is = "obj" -> RecordToAvro(j.val, s, Sub)
      [] s.type = "array" /\ j.is = "arr" ->
            Whole("array", [i \in DOMAIN j.val |-> Sub[s.items][j.val[i]]])
      [] s.type = "union" /\ j.is = "null" /\ NullBranch(s) # {} ->
            Ok([is |-> "union", val |-> <<CHOOSE i \in NullBranch(s) : TRUE, Null>>])
      [] s.type = "union" /\ j.is = "obj" -> UnionToAvro(j.val, s, Sub)
      [] s.type = "map" /\ j.is = "obj" ->
            Whole("map", [k \in Keys |-> IF j.val[k] = Absent THEN Ok(Absent)
                                         ELSE Sub[s.items][j.val[k]]])
      [] s.type = "null" /\ j.is = "null" -> Ok(j)
      [] s.type = "boolean" /\ j.is = "bool" -> Ok([is |-> "boolean", val |-> j.val])
      [] s.type = "string" /\ j \in Strings -> Ok([is |-> "string", val |-> j])
      [] s.type = "enum" /\ j.is = "str" /\ j.val \in s.symbols -> Ok([is |-> "enum", val |-> j.val])
      [] s.type \in NumberTypes /\ j.is = "num" -> NumberToAvro(j.val, s)
      [] s.type = "decimal" /\ j.is = "decimal" -> DecimalOf(j.val, s.scale)
      [] s.type = "uuid" /\ j.is = "uuid" -> Ok([is |-> "uuid", val |-> j.val.id])
      [] OTHER -> Err({<<s.type, j.is>>})

ToAvro[n \in Depths] ==
    LET Sub == IF n = 0 THEN <<>> ELSE ToAvro[n - 1]
    IN  [s \in SchemaSet[n] |-> [j \in JsonSet[n] |-> MapToAvro(j, s, Sub)]]
-----------------------------------------------------------------------------
(* avro_to_json *)

\* map of avro_to_json.rs
MapToJson(v, s, Sub) ==
    CASE v.is = "union" ->
            IF v.val[2].is = "null" THEN Ok(Null)
            ELSE LET t == s.of[v.val[1]]
                     r == Sub[t][v.val[2]]
                 IN IF r.ok THEN Ok([is |-> "obj", val |-> Only(LastSegment(t), r.val)]) ELSE r
      [] v.is = "record" ->
            Whole("obj", [k \in Keys |-> IF s.fields[k] = Absent THEN Ok(Absent)
                                         ELSE Sub[s.fields[k]][v.val[k]]])
      [] v.is = "map" ->
            Whole("obj", [k \in Keys |-> IF v.val[k] = Absent THEN Ok(Absent)
                                         ELSE Sub[s.items][v.val[k]]])
      [] v.is = "array" -> Whole("arr", [i \in DOMAIN v.val |-> Sub[s.items][v.val[i]]])
      [] v.is = "decimal" /\ v.val \in LongRange ->
            Ok([is |-> "decimal", val |-> [n |-> v.val, scale |-> s.scale]])
      [] v.is \in {"null", "nan"} -> Ok(Null)
      [] v.is = "uuid" -> Ok([is |-> "uuid", val |-> [id |-> v.val, canonical |-> TRUE]])
      [] v.is = "boolean" -> Ok([is |-> "bool", val |-> v.val])
      [] v.is = "string" -> Ok(v.val)
      [] v.is = "enum" -> Ok([is |-> "str", val |-> v.val])
      [] v.is \in {"bytes", "fixed"} ->
            Ok([is |-> "arr", val |-> [i \in DOMAIN v.val |-> Num(v.val[i])]])
      [] v.is \in NumberTypes -> Ok(Num(v.val))
      [] OTHER -> Err({v})

ToJson[n \in Depths] ==
    LET Sub == IF n = 0 THEN <<>> ELSE ToJson[n - 1]
    IN  [s \in SchemaSet[n] |-> [v \in ValueSet[n][s] |-> MapToJson(v, s, Sub)]]

\* Nothing is encoded for null, for a fixed of no bytes, and for a record of such fields.
NoBytes[n \in Depths] ==
    LET Sub == IF n = 0 THEN <<>> ELSE NoBytes[n - 1]
    IN  [s \in SchemaSet[n] |-> [v \in ValueSet[n][s] |->
            \/ v.is = "null" \/ (v.is = "fixed" /\ v.val = <<>>)
            \/ v.is = "record" /\ \A k \in Keys :
                  s.fields[k] # Absent => Sub[s.fields[k]][v.val[k]]]]

Text == [is |-> "text", val |-> 0]

\* parse_kafka_record: as Avro, if there is more than the header (length over 5), or
\* else as text.
Display(v, s) ==
    LET r == ToJson[MaxDepth][s][v]
    IN  IF r.ok /\ ~NoBytes[MaxDepth][s][v] THEN r.val ELSE Text
-----------------------------------------------------------------------------
(* A record from the one who makes it to the one who copies it *)

Init ==
    /\ step = "start"
    /\ schema \in Schemas
    /\ doc = <<>> /\ record = <<>> /\ shown = <<>> /\ copy = <<>>

\* The schema is fetched when it is first used, for a record of either kind.
Crashes ==
    /\ step = "start"
    /\ Overflows(schema)
    /\ step' = "crashed"
    /\ UNCHANGED <<schema, doc, record, shown, copy>>

\* produce_record in the mode Avro
Produces ==
    /\ step = "start"
    /\ ~Overflows(schema)
    /\ \E j \in DocsOf(schema) :
          /\ doc' = <<j>>
          /\ LET r == ToAvro[MaxDepth][schema][j]
             IN IF r.ok THEN step' = "made" /\ record' = <<r.val>>
                        ELSE step' = "refused" /\ UNCHANGED record
    /\ UNCHANGED <<schema, shown, copy>>

\* A record somebody else has produced is consumed.
Arrives ==
    /\ step = "start"
    /\ ~Overflows(schema)
    /\ \E v \in RecordsOf(schema) : record' = <<v>>
    /\ step' = "made"
    /\ UNCHANGED <<schema, doc, shown, copy>>

Shows ==
    /\ step = "made"
    /\ step' = "shown"
    /\ shown' = <<Display(record[1], schema)>>
    /\ UNCHANGED <<schema, doc, record, copy>>

\* The text of a record is the start of another one.
Copies ==
    /\ step = "shown"
    /\ shown[1] # Text
    /\ step' = "copied"
    /\ copy' = <<ToAvro[MaxDepth][schema][shown[1]]>>
    /\ UNCHANGED <<schema, doc, record, shown>>

Next == Crashes \/ Produces \/ Arrives \/ Shows \/ Copies

Spec == Init /\ [][Next]_vars
-----------------------------------------------------------------------------
(* Properties *)

\* Two branches of a union in s, or of one further down, have names with the same last part.
Clash(s, Sub) ==
    CASE s.type \in {"array", "map"} -> Sub[s.items]
      [] s.type = "union" ->
            \/ \E i, k \in DOMAIN s.of : i # k /\ LastSegment(s.of[i]) = LastSegment(s.of[k])
            \/ \E i \in DOMAIN s.of : Sub[s.of[i]]
      [] s.type = "record" -> \E k \in Keys : s.fields[k] # Absent /\ Sub[s.fields[k]]
      [] OTHER -> FALSE

Ambiguous[n \in Depths] ==
    LET Sub == IF n = 0 THEN <<>> ELSE Ambiguous[n - 1]
    IN  [s \in SchemaSet[n] |-> Clash(s, Sub)]

\* What is shown and cannot be written: bytes, and a number that is none.
ShownOnly == ({"bytes", "fixed"} \X {"arr"}) \cup (FloatTypes \X {"null"})

\* A record that is shown can be copied: what is produced from its text is the same
\* value, or it is refused for what can only be shown; only where the branches of a union
\* share a name can it be another one.
CopyIsSame ==
    step = "copied" =>
       \/ copy[1] = Ok(record[1])
       \/ ~copy[1].ok /\ copy[1].why \subseteq ShownOnly
       \/ Ambiguous[MaxDepth][schema]

\* What a text j says and what is shown of it, k, agree, up to the name of a branch, the
\* zeros of a decimal, the form of a UUID, the digits a float has no room for, and fields
\* that the schema does not have.  A number that a float has no room for at all is null.
Agree(s, j, k, Sub) ==
    LET Same(t, x, y) == x # Absent /\ y # Absent /\ Sub[t][x][y]
    IN CASE s.type = "record" ->
              /\ j.is = "obj" /\ k.is = "obj"
              /\ \A key \in Keys : IF s.fields[key] = Absent THEN k.val[key] = Absent
                                    ELSE Same(s.fields[key], j.val[key], k.val[key])
         [] s.type = "map" ->
              /\ j.is = "obj" /\ k.is = "obj"
              /\ \A key \in Keys : \/ j.val[key] = Absent /\ k.val[key] = Absent
                                   \/ Same(s.items, j.val[key], k.val[key])
         [] s.type = "array" ->
              /\ j.is = "arr" /\ k.is = "arr" /\ Len(j.val) = Len(k.val)
              /\ \A i \in 1..Len(j.val) : Same(s.items, j.val[i], k.val[i])
         [] s.type = "union" ->
              \/ k = Null /\ (j = Null \/ j = [is |-> "obj", val |-> Only(Simple("null"), Null)])
              \/ \E i \in DOMAIN s.of : \E key \in {Fqn(s.of[i]), LastSegment(s.of[i])} :
                    LET last == LastSegment(s.of[i])
                    IN /\ j.is = "obj" /\ j.val = Only(key, j.val[key])
                       /\ k.is = "obj" /\ k.val = Only(last, k.val[last])
                       /\ Same(s.of[i], j.val[key], k.val[last])
         [] s.type = "decimal" ->
              /\ j.is = "decimal" /\ k.is = "decimal" /\ j.val.scale <= k.val.scale
              /\ k.val.n = j.val.n * Tens[k.val.scale - j.val.scale]
         [] s.type = "uuid" ->
              /\ j.is = "uuid"
              /\ k = [is |-> "uuid", val |-> [id |-> j.val.id, canonical |-> TRUE]]
         [] s.type \in FloatTypes ->
              /\ j.is = "num"
              /\ IF InRange(s.type, j.val) THEN k = Num(Rounded(s.type, j.val))
                 ELSE s.type = "float" /\ InRange("double", j.val) /\ k = Null
         [] OTHER -> k = j

SameMeaning[n \in Depths] ==
    LET Sub == IF n = 0 THEN <<>> ELSE SameMeaning[n - 1]
    IN  [s \in SchemaSet[n] |-> [j \in JsonSet[n] |-> [k \in JsonSet[n] |-> Agree(s, j, k, Sub)]]]

\* A record is shown as what was written, if it was produced here, and as text only if
\* nothing is encoded of it, or because of values that are not supported or decimals
\* larger than a long.
ShownAsWritten ==
    step \in {"shown", "copied"} =>
       IF shown[1] # Text
          THEN doc # <<>> => SameMeaning[MaxDepth][schema][doc[1]][shown[1]]
          ELSE \/ NoBytes[MaxDepth][schema][record[1]]
               \/ LET r == ToJson[MaxDepth][schema][record[1]]
                  IN /\ ~r.ok /\ r.why # {}
                     /\ \A v \in r.why : \/ v.is = "duration"
                                         \/ v.is = "decimal" /\ v.val \notin LongRange
=============================================================================
