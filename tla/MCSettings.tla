------------------------------ MODULE MCSettings ------------------------------
(* An instance of Settings for TLC: a first start with nothing, with a file of an
   older version or with one of Insulator 1. *)
EXTENDS Settings, TLC

OldStore == [clusters |-> ("i1" :> [name |-> "a", endpoint |-> "host",
                                    authentication |-> "Sasl", registry |-> "none",
                                    favorites |-> {}]),
             theme |-> "Dark", kafka |-> 0]

MCFiles == {[kind |-> "absent"], [kind |-> "store", store |-> OldStore]}

Cluster(guid, endpoint, sasl, ssl, registry) ==
    [guid |-> guid, name |-> "a", endpoint |-> endpoint, sasl |-> sasl, ssl |-> ssl,
     registry |-> registry]

MCLegacies ==
    {<<>>,
     <<[clusters |-> <<Cluster("i1", "host", "incomplete", "complete", "url"),
                       Cluster("i2", "host", "absent", "complete", "none")>>,
        theme |-> "Light"]>>,
     <<[clusters |-> <<Cluster("i1", "http://", "absent", "absent", "none")>>,
        theme |-> "Dark"]>>,
     <<[clusters |-> <<Cluster("i1", "host", "absent", "absent", "")>>, theme |-> "Dark"]>>}

WindowSymmetry == Permutations(Windows)
=============================================================================
