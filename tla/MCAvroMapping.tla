----------------------------- MODULE MCAvroMapping -----------------------------
(* Schemas, texts and values for TLC. *)
EXTENDS AvroSchema, TLC

\* A function that is written as the pairs <<key, part>>, as an object
Object(pairs) == [k \in Keys |-> IF \E p \in pairs : p[1] = k.name
                                    THEN (CHOOSE p \in pairs : p[1] = k.name)[2] ELSE Absent]

P(type) == [type |-> type]
Name(ns, name) == [ns |-> ns, name |-> name]
Rec(ns, name, fields) == [type |-> "record", name |-> Name(ns, name), fields |-> Object(fields)]
Enum(ns, name, symbols) == [type |-> "enum", name |-> Name(ns, name), symbols |-> symbols]
Union(of) == [type |-> "union", of |-> of]
Items(type, items) == [type |-> type, items |-> items]
Ref(ns, name) == [type |-> "ref", name |-> Name(ns, name)]

MCKeys == {Simple(x) : x \in {"a", "b", "k", "other", "next", "Empty", "Two", "Cards", "Suit",
                              "Outer", "Inner", "X", "List", "null", "string", "date", "boolean",
                              "fixed", "bytes", "float"}}
            \cup {Name("n", "Suit"), Name("a", "X"), Name("b", "X"), Name("n", "string")}

Suit(ns) == Enum(ns, "Suit", {"hearts", "spades"})

\* Each has what the ones before it do not have.
RawSchemas == {
    P("null"), P("long"), P("uuid"), P("timestamp-millis"), P("duration"), P("double"),
    [type |-> "fixed", name |-> Name("n", "F")],
    [type |-> "decimal", scale |-> 2],
    Rec("n", "Empty", {}),
    Rec("n", "Two", {<<"a", P("int")>>, <<"b", Union(<<P("string"), P("null")>>)>>}),
    \* an enum that is defined once and referred to from another namespace
    Rec("n", "Cards", {<<"a", Suit("n")>>, <<"b", Union(<<P("null"), Ref("n", "Suit")>>)>>}),
    Rec("n", "Outer", {<<"a", Rec("m", "Inner", {<<"a", Suit("m")>>})>>, <<"b", Ref("m", "Suit")>>}),
    Items("map", Items("array", Union(<<P("date"), P("boolean")>>))),
    Union(<<P("null"), [type |-> "fixed", name |-> Name("n", "F")], P("bytes"), P("float")>>),
    \* branches that share the last part of their names
    Union(<<Rec("a", "X", {<<"a", P("int")>>}), Rec("b", "X", {<<"a", P("int")>>})>>),
    Union(<<P("string"), Enum("n", "string", {"x"})>>),
    \* a schema that refers to itself
    Rec("n", "List", {<<"next", Union(<<P("null"), Ref("n", "List")>>)>>})}

Fields(s) == {k \in Keys : s.fields[k] # Absent}

\* A schema and its parts
RECURSIVE Parts(_)
Parts(s) ==
    {s} \cup CASE s.type \in {"array", "map"} -> Parts(s.items)
               [] s.type = "union" -> UNION {Parts(s.of[i]) : i \in DOMAIN s.of}
               [] s.type = "record" -> UNION {Parts(s.fields[k]) : k \in Fields(s)}
               [] OTHER -> {}

MCParsed == UNION {Parts(s) : s \in RawSchemas}

\* The schemas inside s that have a name, each with it
RECURSIVE NamedIn(_, _)
NamedIn(s, ns) ==
    CASE s.type \in {"array", "map"} -> NamedIn(s.items, ns)
      [] s.type = "union" -> UNION {NamedIn(s.of[i], ns) : i \in DOMAIN s.of}
      [] s.type = "record" ->
            {<<Qualified(s.name, ns), s>>}
               \cup UNION {NamedIn(s.fields[k], Inner(s, ns)) : k \in Fields(s)}
      [] s.type \in {"enum", "fixed"} -> {<<Qualified(s.name, ns), s>>}
      [] OTHER -> {}

MCNamesOf(s) ==
    [name \in {n[1] : n \in NamedIn(s, "")} |-> (CHOOSE n \in NamedIn(s, "") : n[1] = name)[2]]

MCSchemas == {Resolved(s) : s \in RawSchemas}

MCNumbers == (-2 * LongMax)..255
MCInRange(type, n) == n <= IF type = "float" THEN 100 ELSE 200
MCRounded(type, n) == IF type = "float" THEN 2 * (n \div 2) ELSE n

\* The objects that have one of the parts that Of gives for each key in D
RECURSIVE Combined(_, _)
Combined(D, Of) ==
    IF D = {} THEN {[k \in Keys |-> Absent]}
    ELSE LET key == CHOOSE k \in D : TRUE
         IN  {[f EXCEPT ![key] = x] : f \in Combined(D \ {key}, Of), x \in Of[key]}

\* The values of a schema: the limits of the numbers, at most one item.
RECURSIVE MCRecordsOf(_)
MCRecordsOf(s) ==
    CASE s.type \in IntTypes -> [is : {s.type}, val : {-IntMax - 1, IntMax}]
      [] s.type \in LongTypes -> [is : {s.type}, val : {-LongMax - 1, LongMax}]
      [] s.type \in FloatTypes -> [is : {s.type}, val : {0, 2}] \cup {NoNumber}
      [] s.type = "string" -> {[is |-> "string", val |-> [is |-> "str", val |-> "x"]],
            [is |-> "string", val |-> [is |-> "decimal", val |-> [n |-> 1, scale |-> 0]]]}
      [] s.type = "uuid" -> [is : {"uuid"}, val : {"u"}]
      [] s.type \in {"bytes", "fixed"} -> [is : {s.type}, val : {<<>>, <<0, 255>>}]
      [] s.type = "decimal" -> [is : {"decimal"}, val : {-LongMax - 1, 0, LongMax, LongMax + 1}]
      [] s.type = "array" -> [is : {"array"}, val : {<<>>} \cup {<<v>> : v \in MCRecordsOf(s.items)}]
      [] s.type = "map" -> [is : {"map"}, val : {Only(Simple("k"), v) : v \in
                                                   MCRecordsOf(s.items) \cup {Absent}}]
      [] s.type = "union" -> UNION {[is : {"union"}, val : {i} \X MCRecordsOf(s.of[i])] :
                                      i \in DOMAIN s.of}
      [] s.type = "record" -> [is : {"record"}, val :
            Combined(Fields(s), [k \in Fields(s) |-> MCRecordsOf(s.fields[k])])]
      [] s.type = "enum" -> [is : {"enum"}, val : s.symbols]
      [] s.type = "boolean" -> [is : {"boolean"}, val : {TRUE}]
      [] OTHER -> [is : {s.type}, val : {0}]

Atoms == {Null} \cup [is : {"bool"}, val : {TRUE}] \cup [is : {"str"}, val : {"x"}]
           \cup [is : {"uuid"}, val : [id : {"u"}, canonical : BOOLEAN]]
           \cup {Num(n) : n \in {-LongMax - 2, -LongMax - 1, -IntMax - 2, -IntMax - 1, 0,
                                 IntMax, IntMax + 1, LongMax, LongMax + 1, 150, 250}}
           \cup [is : {"decimal"}, val : [n : {0, 1, -LongMax, DecimalMax}, scale : 0..MaxScale]]

\* The texts a user may try: right, wrong in one place, with a field too many or too few,
\* a branch by its full name or by its last part.
RECURSIVE MCDocsOf(_)
MCDocsOf(s) ==
    LET Obj(fs) == [is : {"obj"}, val : fs]
    IN CASE s.type = "array" ->
               Atoms \cup [is : {"arr"}, val : {<<>>} \cup {<<j>> : j \in MCDocsOf(s.items)}]
         [] s.type = "map" -> Obj({Only(Simple("k"), j) : j \in MCDocsOf(s.items) \cup {Absent}})
         [] s.type = "union" ->
               {Null} \cup [is : {"str"}, val : {"x"}]
                 \cup Obj({Only(Simple("k"), Absent), Only(Simple("other"), Null)})
                 \cup Obj(UNION {{Only(key, j) : key \in {Fqn(s.of[i]), LastSegment(s.of[i])},
                                                 j \in MCDocsOf(s.of[i])} : i \in DOMAIN s.of})
         [] s.type = "record" ->
               LET Full == Combined(Fields(s), [k \in Fields(s) |-> MCDocsOf(s.fields[k])])
               IN Obj(Full \cup {[f EXCEPT ![Simple("other")] = Null] : f \in Full}
                           \cup {[f EXCEPT ![k] = Absent] : f \in Full, k \in Fields(s)})
         [] s.type = "enum" -> Atoms \cup [is : {"str"}, val : s.symbols]
         [] OTHER -> Atoms
=============================================================================
