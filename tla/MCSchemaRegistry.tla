--------------------------- MODULE MCSchemaRegistry ---------------------------
(* An instance of SchemaRegistry for TLC. *)
EXTENDS SchemaRegistry, TLC

CallSymmetry == Permutations(Calls)
=============================================================================
