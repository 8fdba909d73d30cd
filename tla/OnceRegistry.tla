---------------------------- MODULE OnceRegistry ----------------------------
(***************************************************************************)
(* What get_cluster and get_consumer promise together: the first use of a  *)
(* topic of a cluster creates its consumer, and from then on every use     *)
(* gets that one, unless two calls were about to create it at once.        *)
(***************************************************************************)
CONSTANTS
    Uses,       \* a topic of a cluster
    Consumers,  \* the consumers there may be
    None        \* not used yet

VARIABLES
    entry,      \* the consumer of each topic
    raced       \* the uses that two calls were about to create at once

OnceInit == entry = [u \in Uses |-> None] /\ raced = {}

FirstUse(u, k) ==
    /\ entry[u] = None
    /\ \A v \in Uses : entry[v] # k
    /\ entry' = [entry EXCEPT ![u] = k]

\* A call replaces what another one has created meanwhile.
Replace == \A u \in Uses \ raced' : entry'[u] = entry[u]

\* A race is never forgotten.
OnceNext ==
    /\ raced \subseteq raced'
    /\ entry' \in [Uses -> Consumers \cup {None}]
    /\ Replace \/ \E u \in Uses, k \in Consumers : FirstUse(u, k)

OnceSpec == OnceInit /\ [][OnceNext]_<<entry, raced>>
=============================================================================
