---------------------------- MODULE MCRecordQueries ----------------------------
(* An instance of RecordQueries for TLC. *)
EXTENDS RecordQueries, TLC

\* Three records, two of them with the same key.  The second page of a browser that has
\* found two rows is the same as its first one when the third record comes in between.
MCLog == <<[key |-> "k", ts |-> 1], [key |-> NoKey, ts |-> 2], [key |-> "k", ts |-> 3]>>
MCColumns == <<"key", "offset", "partition", "payload", "timestamp">>
ConnSymmetry == Permutations(Conns)
=============================================================================
