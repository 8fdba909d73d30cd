-------------------------- MODULE ClusterRegistry --------------------------
(***************************************************************************)
(* How the commands of the backend find the consumer they work on:         *)
(* AppState.get_cluster (api/state.rs) and Cluster.get_consumer            *)
(* (api/cluster.rs), each a map behind an RwLock that creates what it does *)
(* not find.  Each looks the entry up under the read lock, creates outside *)
(* any lock, and inserts under the write lock, whatever is there by then.  *)
(*                                                                         *)
(* A call is one invocation of start_consumer, of stop_consumer, of a      *)
(* command that reads what a topic's consumer has ("view") or of one that  *)
(* needs the cluster only ("admin").  The cluster and the consumer a call  *)
(* creates carry its name; a cluster owns its own database, so tables too  *)
(* belong to the call that built the cluster.                              *)
(*                                                                         *)
(* The consumer behind a call is KafkaConsumer without its data: a start   *)
(* and a stop have two critical sections each, here one step each, with    *)
(* other tasks in between, and an aborted loop goes on until it waits.     *)
(* The loop a start spawns carries the name of the start, and recreates    *)
(* the topic's table, as the creation of a consumer does.                  *)
(***************************************************************************)
EXTENDS FiniteSets

CONSTANTS
    Calls,    \* the invocations
    Requests, \* what they may be asked to do
    Faults,   \* which failures occur
    Ids,      \* the ids of the clusters
    Topics,   \* the topics of each cluster
    Tables,   \* the names of tables in a database, as SQLite compares them
    TableName,\* the name of each topic's table
    None      \* no entry, no table, no loop, no request

Uses == Ids \X Topics

ASSUME RegistryAssumption ==
    /\ None \notin Calls
    /\ Ids # {} /\ Topics # {}
    /\ Requests \subseteq [id : Ids, topic : Topics, op : {"start", "stop", "view", "admin"}]
    /\ Faults \subseteq {"build", "table", "assign", "setup", "end", "stream"}
    /\ TableName \in [Topics -> Tables]

VARIABLES
    clusters,   \* AppState.clusters
    consumers,  \* Cluster.active_kafka_consumers of each cluster
    table,      \* by whom each table was created last
    handle,     \* loop_handle of each consumer: the loop it refers to, or None
    loop,       \* where the loop of each start is
    aborted,    \* the loops whose JoinHandle was aborted
    call,       \* where each call is
    request,    \* what it was asked to do
    cluster,    \* the Arc<Cluster> it works with
    consumer,   \* the Arc<KafkaConsumer> it works with
    \* not in the code and read by no guard:
    contested,  \* see Contested
    mingled,    \* see Mingled
    crossed     \* see Crosses

registryVars == <<clusters, consumers>>
loopVars == <<handle, loop, aborted>>
callVars == <<call, request, cluster, consumer>>
raceVars == <<contested, mingled, crossed>>
vars == <<registryVars, table, loopVars, callVars, raceVars>>

CallStates == {"ready", "build_cluster", "find_consumer", "drop", "create", "publish_consumer",
               "operate", "starting", "storing", "clearing", "done", "failed"}

LoopStates == {"none", "spawned", "drop", "create", "consume", "clearing", "dead"}

\* What the registry holds for a topic of a cluster.
Entry(id, t) == IF clusters[id] = None THEN None ELSE consumers[clusters[id]][t]

\* The name of the table that call c works with, and what it holds.
Name(c) == TableName[request[c].topic]
TableOf(c) == table[cluster[c]][Name(c)]

TypeOK ==
    /\ clusters \in [Ids -> Calls \cup {None}]
    /\ consumers \in [Calls -> [Topics -> Calls \cup {None}]]
    /\ table \in [Calls -> [Tables -> Calls \cup {None}]]
    /\ handle \in [Calls -> Calls \cup {None}]
    /\ loop \in [Calls -> LoopStates]
    /\ aborted \in SUBSET Calls
    /\ call \in [Calls -> CallStates]
    /\ request \in [Calls -> Requests \cup {None}]
    /\ \A c \in Calls : call[c] # "ready" => request[c] \in Requests
    /\ cluster \in [Calls -> Calls \cup {None}]
    /\ consumer \in [Calls -> Calls \cup {None}]
    \* a call that looks for a consumer has a cluster to look in
    /\ \A c \in Calls :
          call[c] \in {"find_consumer", "drop", "create", "publish_consumer"} =>
             cluster[c] # None
    /\ \A c \in Calls :
          call[c] \in {"operate", "starting", "storing", "clearing"} => consumer[c] # None
    /\ \A l \in Calls : loop[l] # "none" => cluster[l] # None /\ consumer[l] # None
    /\ contested \in SUBSET Uses
    /\ mingled \in SUBSET Calls
    /\ crossed \in SUBSET Calls

Init ==
    /\ clusters = [id \in Ids |-> None]
    /\ consumers = [c \in Calls |-> [t \in Topics |-> None]]
    /\ table = [c \in Calls |-> [n \in Tables |-> None]]
    /\ handle = [k \in Calls |-> None]
    /\ loop = [l \in Calls |-> "none"]
    /\ aborted = {}
    /\ call = [c \in Calls |-> "ready"]
    /\ request = [c \in Calls |-> None]
    /\ cluster = [c \in Calls |-> None]
    /\ consumer = [c \in Calls |-> None]
    /\ contested = {} /\ mingled = {} /\ crossed = {}
-----------------------------------------------------------------------------
(* What may become stale between two steps of one call                      *)

\* The topic of the cluster that call c works with.
Use(c) == <<request[c].id, request[c].topic>>

\* Call c has not found the use u, or its cluster, and is about to create it.
Creates(c, u) ==
    \/ call[c] = "build_cluster" /\ request[c].id = u[1]
    \/ call[c] \in {"drop", "create", "publish_consumer"} /\ Use(c) = u

\* The uses that two calls were about to create at the same time, at any time.
Contested == contested \cup
    {u \in Uses : \E c, d \in Calls : c # d /\ Creates(c, u) /\ Creates(d, u)}

\* A start has seen no handle and has not stored its own; a stop, or the error arm
\* of a loop, has aborted what the handle referred to and has not cleared it.
Between(c) == call[c] \in {"starting", "storing", "clearing"}
LoopBetween(l) == loop[l] = "clearing"

\* Somebody else than start l (and its loop) is in between, with the same consumer.
Disturbed(l) == \E c \in Calls \ {l} :
    consumer[c] = consumer[l] /\ (Between(c) \/ LoopBetween(c))

\* The starts that were in between together with another task, at any time.
Mingled == mingled \cup {l \in Calls : Between(l) /\ Disturbed(l)}

Remember == contested' = Contested /\ mingled' = Mingled

CallGoes(c, from, to) ==
    /\ call[c] = from
    /\ call' = [call EXCEPT ![c] = to]
    /\ Remember
-----------------------------------------------------------------------------
(* AppState::get_cluster *)

\* Where a call goes that has its cluster.
WithCluster(op) == IF op = "admin" THEN "done" ELSE "find_consumer"

\* mutant of FindCluster: what is found is not returned
FindClusterInVain(c) ==
    /\ CallGoes(c, "ready", "build_cluster")
    /\ \E r \in Requests : request' = [request EXCEPT ![c] = r]
    /\ UNCHANGED <<registryVars, table, loopVars, cluster, consumer, crossed>>

\* A call begins, with any request, and looks for the cluster.
FindCluster(c) ==
    /\ \E r \in Requests :
          LET found == clusters[r.id] IN
          /\ CallGoes(c, "ready", IF found = None THEN "build_cluster" ELSE WithCluster(r.op))
          /\ request' = [request EXCEPT ![c] = r]
          /\ cluster' = [cluster EXCEPT ![c] = found]
    /\ UNCHANGED <<registryVars, table, loopVars, consumer, crossed>>

\* The configuration cannot be read or has no such cluster, or a client cannot
\* be created from it: an error or a panic, and nothing was published.
BuildFails(c) ==
    /\ "build" \in Faults
    /\ CallGoes(c, "build_cluster", "failed")
    /\ UNCHANGED <<registryVars, table, loopVars, request, cluster, consumer, crossed>>

\* mutant of PublishCluster: the cluster is not handed to the caller
PublishClusterOnly(c) ==
    /\ CallGoes(c, "build_cluster", WithCluster(request[c].op))
    /\ clusters' = [clusters EXCEPT ![request[c].id] = c]
    /\ UNCHANGED <<consumers, table, loopVars, request, cluster, consumer, crossed>>

\* Cluster::new, with a database of its own.  The insert replaces a cluster that
\* another call has published meanwhile.
PublishCluster(c) ==
    /\ CallGoes(c, "build_cluster", WithCluster(request[c].op))
    /\ clusters' = [clusters EXCEPT ![request[c].id] = c]
    /\ cluster' = [cluster EXCEPT ![c] = c]
    /\ UNCHANGED <<consumers, table, loopVars, request, consumer, crossed>>
-----------------------------------------------------------------------------
(* Cluster::get_consumer *)

\* mutant of FindConsumer: only a start looks for an existing consumer
FindConsumerToStart(c) ==
    LET found == consumers[cluster[c]][request[c].topic] IN
    /\ CallGoes(c, "find_consumer",
                IF request[c].op = "start" /\ found # None THEN "operate" ELSE "drop")
    /\ consumer' = [consumer EXCEPT ![c] = found]
    /\ UNCHANGED <<registryVars, table, loopVars, request, cluster, crossed>>

FindConsumer(c) ==
    LET found == consumers[cluster[c]][request[c].topic] IN
    /\ CallGoes(c, "find_consumer", IF found = None THEN "drop" ELSE "operate")
    /\ consumer' = [consumer EXCEPT ![c] = found]
    /\ UNCHANGED <<registryVars, table, loopVars, request, cluster, crossed>>

\* mutant of DropTable: the tables of all topics go
DropAllTables(c) ==
    /\ CallGoes(c, "drop", "create")
    /\ table' = [table EXCEPT ![cluster[c]] = [n \in Tables |-> None]]
    /\ UNCHANGED <<registryVars, loopVars, request, cluster, consumer, crossed>>

\* TopicStore::from_record_store: DROP, then CREATE, of the topic's table.
DropTable(c) ==
    /\ CallGoes(c, "drop", "create")
    /\ table' = [table EXCEPT ![cluster[c]][Name(c)] = None]
    /\ UNCHANGED <<registryVars, loopVars, request, cluster, consumer, crossed>>

CreateTable(c) ==
    /\ CallGoes(c, "create", "publish_consumer")
    /\ TableOf(c) = None
    /\ table' = [table EXCEPT ![cluster[c]][Name(c)] = c]
    /\ UNCHANGED <<registryVars, loopVars, request, cluster, consumer, crossed>>

\* The DROP is refused while a query runs, the CREATE when the table is there
\* again: both panic.
TableFails(c) ==
    /\ \/ CallGoes(c, "create", "failed") /\ TableOf(c) # None
       \/ "table" \in Faults /\ (CallGoes(c, "drop", "failed") \/ CallGoes(c, "create", "failed"))
    /\ UNCHANGED <<registryVars, table, loopVars, request, cluster, consumer, crossed>>

\* mutant of PublishConsumer: the consumer is never inserted
PublishNothing(c) ==
    /\ CallGoes(c, "publish_consumer", "operate")
    /\ consumer' = [consumer EXCEPT ![c] = c]
    /\ UNCHANGED <<registryVars, table, loopVars, request, cluster, crossed>>

PublishConsumer(c) ==
    /\ CallGoes(c, "publish_consumer", "operate")
    /\ consumers' = [consumers EXCEPT ![cluster[c]][request[c].topic] = c]
    /\ consumer' = [consumer EXCEPT ![c] = c]
    /\ UNCHANGED <<clusters, table, loopVars, request, cluster, crossed>>
-----------------------------------------------------------------------------
(* The command itself, on the consumer it got *)

\* start: refused when there is a handle
StartRefused(c) ==
    /\ CallGoes(c, "operate", "done")
    /\ request[c].op = "start"
    /\ handle[consumer[c]] # None
    /\ UNCHANGED <<registryVars, table, loopVars, request, cluster, consumer, crossed>>

StartAccepted(c) ==
    /\ CallGoes(c, "operate", "starting")
    /\ request[c].op = "start"
    /\ handle[consumer[c]] = None
    /\ UNCHANGED <<registryVars, table, loopVars, request, cluster, consumer, crossed>>

\* The assignment fails: a panic, and no loop.
StartPanics(c) ==
    /\ "assign" \in Faults
    /\ CallGoes(c, "starting", "failed")
    /\ UNCHANGED <<registryVars, table, loopVars, request, cluster, consumer, crossed>>

\* Loop l has begun its setup, or will: it still replaces the table.
Settling(l) == loop[l] \in {"drop", "create"} \/ (loop[l] = "spawned" /\ l \notin aborted)

\* A loop that is spawned while another one of its consumer is about to replace the
\* table: one that was stopped in its setup, or has lost its handle.
Crosses(c) == \E l \in Calls \ {c} : consumer[l] = consumer[c] /\ Settling(l)

StartSpawns(c) ==
    /\ CallGoes(c, "starting", "storing")
    /\ loop' = [loop EXCEPT ![c] = "spawned"]
    /\ crossed' = IF Crosses(c) THEN crossed \cup {c} ELSE crossed
    /\ UNCHANGED <<registryVars, table, handle, aborted, request, cluster, consumer>>

\* The JoinHandle that was there, if any, is dropped: its task is detached.
StoreHandle(c) ==
    /\ CallGoes(c, "storing", "done")
    /\ handle' = [handle EXCEPT ![consumer[c]] = c]
    /\ UNCHANGED <<registryVars, table, loop, aborted, request, cluster, consumer, crossed>>

\* `_stop': abort what the handle of consumer k refers to, then clear it
Aborts(k) == aborted' = aborted \cup ({handle[k]} \ {None})

StopAbort(c) ==
    /\ CallGoes(c, "operate", "clearing")
    /\ request[c].op = "stop"
    /\ Aborts(consumer[c])
    /\ UNCHANGED <<registryVars, table, handle, loop, request, cluster, consumer, crossed>>

StopClear(c) ==
    /\ CallGoes(c, "clearing", "done")
    /\ handle' = [handle EXCEPT ![consumer[c]] = None]
    /\ UNCHANGED <<registryVars, table, loop, aborted, request, cluster, consumer, crossed>>

\* get_consumer_state, get_records_page, export_records: what they read of the
\* consumer is not the registry's
View(c) ==
    /\ CallGoes(c, "operate", "done")
    /\ request[c].op = "view"
    /\ UNCHANGED <<registryVars, table, loopVars, request, cluster, consumer, crossed>>
-----------------------------------------------------------------------------
(* Loop l: TopicStore::setup, then records until it ends *)

LoopGoes(l, from, to) ==
    /\ loop[l] = from
    /\ loop' = [loop EXCEPT ![l] = to]
    /\ Remember
    /\ UNCHANGED <<registryVars, callVars, crossed>>

\* The first poll; an aborted task is not polled again.
LoopBegins(l) ==
    /\ l \notin aborted
    /\ LoopGoes(l, "spawned", "drop")
    /\ UNCHANGED <<table, handle, aborted>>

\* The setup has no await: an aborted loop completes it.
LoopDrops(l) ==
    /\ LoopGoes(l, "drop", "create")
    /\ table' = [table EXCEPT ![cluster[l]][Name(l)] = None]
    /\ UNCHANGED <<handle, aborted>>

LoopCreates(l) ==
    /\ LoopGoes(l, "create", "consume")
    /\ TableOf(l) = None
    /\ table' = [table EXCEPT ![cluster[l]][Name(l)] = l]
    /\ UNCHANGED <<handle, aborted>>

\* The setup panics, or the stream ends by itself: the handle stays.
LoopDies(l) ==
    /\ \/ LoopGoes(l, "create", "dead") /\ TableOf(l) # None
       \/ "setup" \in Faults /\ (LoopGoes(l, "drop", "dead") \/ LoopGoes(l, "create", "dead"))
       \/ "end" \in Faults /\ LoopGoes(l, "consume", "dead")
    /\ UNCHANGED <<table, handle, aborted>>

\* The stream fails: the loop runs _stop on the handle, whatever it refers to.
ErrorAbort(l) ==
    /\ "stream" \in Faults
    /\ LoopGoes(l, "consume", "clearing")
    /\ Aborts(consumer[l])
    /\ UNCHANGED <<table, handle>>

ErrorClear(l) ==
    /\ LoopGoes(l, "clearing", "dead")
    /\ handle' = [handle EXCEPT ![consumer[l]] = None]
    /\ UNCHANGED <<table, aborted>>

\* tokio drops an aborted task where it waits: before its first poll, for a record,
\* or for the mutex.
Cancelled(l) ==
    /\ l \in aborted
    /\ \/ LoopGoes(l, "spawned", "dead") \/ LoopGoes(l, "consume", "dead")
       \/ LoopGoes(l, "clearing", "dead")
    /\ UNCHANGED <<table, handle, aborted>>
-----------------------------------------------------------------------------
GetCluster(c) == FindCluster(c) \/ BuildFails(c) \/ PublishCluster(c)

GetConsumer(c) == FindConsumer(c) \/ DropTable(c) \/ CreateTable(c) \/ TableFails(c)
                  \/ PublishConsumer(c)

Start(c) == StartRefused(c) \/ StartAccepted(c) \/ StartPanics(c) \/ StartSpawns(c)
            \/ StoreHandle(c)

Stop(c) == StopAbort(c) \/ StopClear(c)

LoopRuns(l) == LoopBegins(l) \/ LoopDrops(l) \/ LoopCreates(l) \/ LoopDies(l)
               \/ ErrorAbort(l) \/ ErrorClear(l) \/ Cancelled(l)

Next == \E c \in Calls :
    \/ GetCluster(c) \/ GetConsumer(c)
    \/ Start(c) \/ Stop(c) \/ View(c)
    \/ LoopRuns(c)

Spec == Init /\ [][Next]_vars
-----------------------------------------------------------------------------
(* Properties *)

\* The consumer of a topic is created once, unless its first uses met: the registry
\* as seen through its two maps is the one of OnceRegistry, so that a call made after
\* another one works on the same consumer.
Once == INSTANCE OnceRegistry WITH
    Consumers <- Calls,
    entry <- [u \in Uses |-> Entry(u[1], u[2])],
    raced <- Contested

ImplementsOnce == Once!OnceSpec

Active(l) == loop[l] \notin {"none", "dead"} /\ l \notin aborted

\* Every loop can be stopped: its consumer is the one the registry gives to the
\* next stop_consumer of the topic (api/consumer.rs:31-34), and the handle in there
\* refers to it or is about to.  Only two first uses of the topic at the same time,
\* or a start that races with another command on its consumer, can lose a loop.
LoopsAreReachable ==
    \A l \in Calls \ Mingled : Active(l) /\ Use(l) \notin Contested =>
        /\ Entry(request[l].id, request[l].topic) = consumer[l]
        /\ handle[consumer[l]] = l \/ call[l] = "storing"

\* No other topic has the table of topic t.
OwnTable(t) == \A u \in Topics : TableName[u] = TableName[t] => u = t

\* The records a loop stores stay where queries find them: while it consumes,
\* nobody drops or replaces the table it created, be it a call that works on any
\* topic of any cluster, or a loop that was stopped before.
TableIsKept ==
    \A l \in Calls \ (Mingled \cup crossed) :
        Active(l) /\ loop[l] = "consume" /\ Use(l) \notin Contested /\ OwnTable(request[l].topic)
            => TableOf(l) = l

\* Nobody is about to create a cluster id, or a consumer of topic t in it.
Quiet(id, t) == \A c \in Calls : ~Creates(c, <<id, t>>)

\* Whatever first uses overlap: once a topic has a consumer and none of them is
\* under way any more, it keeps that consumer for good.
SettledForGood ==
    \A id \in Ids, t \in Topics, k \in Calls :
        []((Quiet(id, t) /\ Entry(id, t) = k) => [](Entry(id, t) = k))
=============================================================================
