-------------------------- MODULE MCClusterRegistry --------------------------
(* Instances of ClusterRegistry for TLC. *)
EXTENDS ClusterRegistry, TLC

CONSTANTS i1, t1, t2

\* Every topic has a table of its own.
OwnTables == Topics
OwnTableName == [t \in Topics |-> t]

\* Starts and stops of one topic, and uses of another one.
Races == {[id |-> i1, topic |-> t1, op |-> "start"], [id |-> i1, topic |-> t1, op |-> "stop"],
          [id |-> i1, topic |-> t2, op |-> "view"]}

\* Once the first uses of t1 have met, nothing more is promised about its loops, and
\* no other topic has one: RegistryRaces goes no further there.
StillPromised == <<i1, t1>> \notin contested

\* Uses of one topic, or of its cluster only.
FirstUses == [id : Ids, topic : Topics, op : {"stop", "view", "admin"}]

RegistrySymmetry == Permutations(Calls)
=============================================================================
