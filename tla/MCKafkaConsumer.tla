--------------------------- MODULE MCKafkaConsumer ---------------------------
(* Instances of KafkaConsumer for TLC. *)
EXTENDS KafkaConsumer, TLC

\* Two records with the same key.
MCLog == <<[key |-> "k", ts |-> 1], [key |-> "k", ts |-> 2]>>

\* One record, for the runs whose question is not about the data.
MCShortLog == SubSeq(MCLog, 1, 1)
ShortConfig == {[from |-> 0, stop |-> 3, compactify |-> FALSE]}

AllConfig == [from |-> 0, stop |-> 3, compactify |-> FALSE]
OneConfig == {AllConfig}

\* Repeated and missing keys, timestamps out of order.
MCMixedLog == <<[key |-> "a", ts |-> 1], [key |-> "b", ts |-> 3],
                [key |-> NoKey, ts |-> 2], [key |-> "a", ts |-> 2],
                [key |-> NoKey, ts |-> 1], [key |-> "b", ts |-> 4]>>
MixedConfigs == [from : {0, 1, 6}, stop : {2, 3, 5}, compactify : BOOLEAN]

CallSymmetry == Permutations(Starts) \cup Permutations(Stops) \cup Permutations(Reads)
=============================================================================
