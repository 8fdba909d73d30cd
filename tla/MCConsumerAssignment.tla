------------------------- MODULE MCConsumerAssignment -------------------------
(* An instance of ConsumerAssignment for TLC. *)
EXTENDS ConsumerAssignment, TLC

C(op, mode, start, stop) == [op |-> op, mode |-> mode, start |-> start, stop |-> stop]

\* 9 is later than every record.
MCConfigs ==
    {C("consume", "Beginning", 0, 9), C("consume", "End", 0, 9), C("consume", "Custom", 1, 2),
     C("group", "Custom", 1, 9)}
=============================================================================
