------------------------------ MODULE AvroSchema ------------------------------
(***************************************************************************)
(* The schema of a topic with its references expanded (avro_schema.rs):    *)
(* what apache_avro has parsed may have a reference wherever AvroMapping   *)
(* has a schema.                                                           *)
(***************************************************************************)
EXTENDS AvroMapping

CONSTANTS
    Parsed,       \* the schemas as they are parsed, and their parts
    NamesOf(_),   \* get_names: what the names in a schema stand for
    MaxCalls      \* the calls of map that the stack has room for

Reference == [type : {"ref"}, name : Names]

\* apache_avro::Schema
ParsedOver(Below) ==
    SchemasOver(Below) \cup Reference
      \cup [type : {"union"}, of : Seq({t \in Below : t \in Reference \/ LastSegment(t) \in Keys})]

ASSUME SchemaAssumption ==
    /\ MaxCalls \in Nat
    /\ Parsed \subseteq ParsedOver(Parsed)
    /\ \A s \in Parsed : \A name \in DOMAIN NamesOf(s) :
          LET t == NamesOf(s)[name]
          IN  name.ns \in STRING /\ t \in Parsed \ Reference /\ LastSegment(t) \in Keys

\* Name::fully_qualified_name, and the namespace for what is inside
Qualified(name, ns) == IF name.ns = "" THEN [name EXCEPT !.ns = ns] ELSE name
Inner(s, ns) == IF s.name.ns = "" THEN ns ELSE s.name.ns

\* The process ends with the stack, the command with a name that is not found.
Overflow == [type |-> "overflow"]
Unresolved == [type |-> "unresolved"]

\* One call of map in ResolvedAvroSchema::from: references are expanded where they occur.
\* Sub is what the calls in it give.
MapSchema(s, ns, names, Sub) ==
    CASE s.type \in {"array", "map"} -> [s EXCEPT !.items = Sub[s.items][ns]]
      [] s.type = "union" -> [s EXCEPT !.of = [i \in DOMAIN s.of |-> Sub[s.of[i]][ns]]]
      [] s.type = "record" ->
            [s EXCEPT !.fields = [k \in Keys |-> IF s.fields[k] = Absent THEN Absent
                                                 ELSE Sub[s.fields[k]][Inner(s, ns)]]]
      [] s.type = "ref" ->
            LET name == Qualified(s.name, ns)
            IN  IF name \in DOMAIN names THEN Sub[names[name]][name.ns] ELSE Unresolved
      [] OTHER -> s

\* What map gives for each part of a schema, with room for n calls
Resolve[n \in 0..MaxCalls] ==
    LET Sub == IF n = 0 THEN <<>> ELSE Resolve[n - 1]
    IN  [root \in Parsed |-> [s \in Parsed |-> [ns \in STRING |->
            IF n = 0 THEN Overflow ELSE MapSchema(s, ns, NamesOf(root), Sub[root])]]]

Resolved(root) == Resolve[MaxCalls][root][root][""]
=============================================================================
