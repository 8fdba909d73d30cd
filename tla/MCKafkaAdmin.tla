----------------------------- MODULE MCKafkaAdmin -----------------------------
(* An instance of KafkaAdmin for TLC. *)
EXTENDS KafkaAdmin, TLC

CallSymmetry == Permutations(Calls)
=============================================================================
