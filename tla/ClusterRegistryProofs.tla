----------------------- MODULE ClusterRegistryProofs -----------------------
(***************************************************************************)
(* Proofs about ClusterRegistry, for any calls, clusters, topics and       *)
(* tables, and for every interleaving of commands and loops: who shares a  *)
(* consumer, which loops can be stopped, and who touches a table.          *)
(***************************************************************************)
EXTENDS ClusterRegistry, TLAPS

-----------------------------------------------------------------------------
(* Type correctness *)

\* Where a call may be that has a consumer.
Served == {"operate", "starting", "storing", "clearing", "done", "failed"}

\* A consumer was created by a call that is past its search.
Created(k) == call[k] \in Served /\ cluster[k] # None

Published ==
    /\ \A c \in Calls : consumer[c] # None => Created(c) /\ Created(consumer[c])
    /\ \A c, k \in Calls, t \in Topics : consumers[c][t] = k => Created(k)

TypeInv == TypeOK /\ Published

LEMMA RequestTyped ==
    ASSUME TypeOK, NEW c \in Calls, call[c] # "ready"
    PROVE  request[c] \in Requests /\ request[c].id \in Ids /\ request[c].topic \in Topics
           /\ Use(c) \in Uses /\ Name(c) \in Tables
BY RegistryAssumption DEF TypeOK, Use, Uses, Name

LEMMA TypeInit == Init => TypeInv
BY RegistryAssumption DEF Init, TypeInv, TypeOK, Published, LoopStates, CallStates

\* The races that are remembered are of the right type, and none is forgotten.
LEMMA RememberTyped ==
    ASSUME TypeOK, Remember
    PROVE  contested' \in SUBSET Uses /\ mingled' \in SUBSET Calls
BY DEF TypeOK, Remember, Contested, Mingled

LEMMA RacesStay == Remember => Contested \subseteq Contested' /\ Mingled \subseteq Mingled'
BY DEF Remember, Contested, Mingled

LEMMA StepRemembers == Next => Remember
BY DEF Next, GetCluster, FindCluster, BuildFails, PublishCluster, GetConsumer, FindConsumer,
   DropTable, CreateTable, TableFails, PublishConsumer, Start, StartRefused, StartAccepted,
   StartPanics, StartSpawns, StoreHandle, Stop, StopAbort, StopClear, View, LoopRuns, LoopBegins,
   LoopDrops, LoopCreates, LoopDies, ErrorAbort, ErrorClear, Cancelled, CallGoes, LoopGoes

LEMMA TypeCluster ==
    ASSUME TypeInv, NEW c \in Calls, GetCluster(c)
    PROVE  TypeInv'
<1> USE RegistryAssumption DEF TypeInv, TypeOK, Published, Created, Served, CallGoes, CallStates,
        LoopStates, registryVars, loopVars
<1>1. CASE FindCluster(c)
  <2>1. PICK r \in Requests :
          /\ CallGoes(c, "ready",
                      IF clusters[r.id] = None THEN "build_cluster" ELSE WithCluster(r.op))
          /\ request' = [request EXCEPT ![c] = r]
          /\ cluster' = [cluster EXCEPT ![c] = clusters[r.id]]
    BY <1>1 DEF FindCluster
  <2>2. Remember /\ UNCHANGED <<registryVars, table, loopVars, consumer, crossed>>
        /\ call[c] = "ready" /\ consumer[c] = None /\ loop[c] = "none"
    BY <1>1 DEF FindCluster
  <2>3. contested' \in SUBSET Uses /\ mingled' \in SUBSET Calls
    BY <2>2, RememberTyped
  <2>4. r.id \in Ids
    BY <2>1
  <2> QED
    BY <2>1, <2>2, <2>3, <2>4 DEF WithCluster
<1>2. CASE BuildFails(c)
  BY <1>2, RememberTyped DEF BuildFails
<1>3. CASE PublishCluster(c)
  <2>1. request[c].id \in Ids /\ call[c] = "build_cluster" /\ Remember
    BY <1>3, RequestTyped DEF PublishCluster
  <2>2. contested' \in SUBSET Uses /\ mingled' \in SUBSET Calls
    BY <2>1, RememberTyped
  <2> QED
    BY <1>3, <2>1, <2>2 DEF PublishCluster, WithCluster
<1> QED
  BY <1>1, <1>2, <1>3 DEF GetCluster

LEMMA TypeConsumer ==
    ASSUME TypeInv, NEW c \in Calls, GetConsumer(c)
    PROVE  TypeInv'
<1> USE RegistryAssumption DEF TypeInv, TypeOK, Published, Created, Served, CallGoes, CallStates,
        LoopStates, registryVars, loopVars
<1>1. Remember /\ call[c] \in {"find_consumer", "drop", "create", "publish_consumer"}
      /\ consumer[c] = None /\ loop[c] = "none" /\ cluster[c] \in Calls
  BY DEF GetConsumer, FindConsumer, DropTable, CreateTable, TableFails, PublishConsumer
<1>2. contested' \in SUBSET Uses /\ mingled' \in SUBSET Calls
  BY <1>1, RememberTyped
<1>3. request[c].topic \in Topics /\ Name(c) \in Tables
  BY <1>1, RequestTyped
<1>4. CASE FindConsumer(c)
  <2> DEFINE found == consumers[cluster[c]][request[c].topic]
  <2>1. /\ call' = [call EXCEPT ![c] = IF found = None THEN "drop" ELSE "operate"]
        /\ consumer' = [consumer EXCEPT ![c] = found]
        /\ UNCHANGED <<registryVars, table, loopVars, request, cluster, crossed>>
    BY <1>4 DEF FindConsumer
  <2>2. found \in Calls \cup {None} /\ (found # None => Created(found))
    BY <1>1, <1>3
  <2> HIDE DEF found
  <2> QED
    BY <1>1, <1>2, <2>1, <2>2
<1>5. CASE DropTable(c)
  BY <1>1, <1>2, <1>3, <1>5 DEF DropTable
<1>6. CASE CreateTable(c)
  BY <1>1, <1>2, <1>3, <1>6 DEF CreateTable
<1>7. CASE TableFails(c)
  <2>1. call' = [call EXCEPT ![c] = "failed"]
        /\ UNCHANGED <<registryVars, table, loopVars, request, cluster, consumer, crossed>>
    BY <1>7 DEF TableFails
  <2> QED
    BY <1>1, <1>2, <2>1
<1>8. CASE PublishConsumer(c)
  BY <1>1, <1>2, <1>3, <1>8 DEF PublishConsumer
<1> QED
  BY <1>4, <1>5, <1>6, <1>7, <1>8 DEF GetConsumer

\* A start, a stop or a view works on the consumer it got.
LEMMA CommandStep ==
    ASSUME TypeInv, NEW c \in Calls, Start(c) \/ Stop(c) \/ View(c)
    PROVE  /\ call[c] \in {"operate", "starting", "storing", "clearing"}
           /\ \E to \in {"starting", "storing", "clearing", "done", "failed"} :
                 call' = [call EXCEPT ![c] = to]
           /\ consumer[c] \in Calls /\ cluster[c] \in Calls
           /\ UNCHANGED <<registryVars, table, request, cluster, consumer>> /\ Remember
<1>1. /\ call[c] \in {"operate", "starting", "storing", "clearing"}
      /\ \E to \in {"starting", "storing", "clearing", "done", "failed"} :
            call' = [call EXCEPT ![c] = to]
      /\ UNCHANGED <<registryVars, table, request, cluster, consumer>> /\ Remember
  BY DEF Start, StartRefused, StartAccepted, StartPanics, StartSpawns, StoreHandle, Stop,
     StopAbort, StopClear, View, CallGoes
<1>2. consumer[c] \in Calls /\ cluster[c] \in Calls
  BY <1>1 DEF TypeInv, TypeOK, Published, Created
<1> QED
  BY <1>1, <1>2

\* A loop changes where it is, its handle and its table.
LEMMA LoopStep ==
    ASSUME TypeInv, NEW l \in Calls, LoopRuns(l)
    PROVE  /\ loop[l] \notin {"none", "dead"}
           /\ \E to \in {"drop", "create", "consume", "clearing", "dead"} :
                 loop' = [loop EXCEPT ![l] = to]
           /\ consumer[l] \in Calls /\ cluster[l] \in Calls /\ call[l] # "ready"
           /\ UNCHANGED <<registryVars, callVars, crossed>> /\ Remember
<1>1. /\ loop[l] \notin {"none", "dead"}
      /\ \E to \in {"drop", "create", "consume", "clearing", "dead"} :
            loop' = [loop EXCEPT ![l] = to]
      /\ UNCHANGED <<registryVars, callVars, crossed>> /\ Remember
  BY DEF LoopRuns, LoopBegins, LoopDrops, LoopCreates, LoopDies, ErrorAbort, ErrorClear,
     Cancelled, LoopGoes
<1>2. consumer[l] \in Calls /\ cluster[l] \in Calls
  BY <1>1 DEF TypeInv, TypeOK
<1>3. call[l] # "ready"
  BY <1>2, RegistryAssumption DEF TypeInv, Published, Created, Served
<1> QED
  BY <1>1, <1>2, <1>3

LEMMA TypeCommand ==
    ASSUME TypeInv, NEW c \in Calls, Start(c) \/ Stop(c) \/ View(c)
    PROVE  TypeInv'
<1>1. /\ call[c] \in {"operate", "starting", "storing", "clearing"}
      /\ consumer[c] \in Calls /\ cluster[c] \in Calls
      /\ UNCHANGED <<registryVars, table, request, cluster, consumer>> /\ Remember
  BY CommandStep
<1>2. PICK to \in {"starting", "storing", "clearing", "done", "failed"} :
        call' = [call EXCEPT ![c] = to]
  BY CommandStep
<1>3. contested' \in SUBSET Uses /\ mingled' \in SUBSET Calls
  BY <1>1, RememberTyped DEF TypeInv
<1>4. /\ loop' = loop \/ loop' = [loop EXCEPT ![c] = "spawned"]
      /\ handle' \in [Calls -> Calls \cup {None}]
      /\ aborted' \in SUBSET Calls /\ crossed' \in SUBSET Calls
  <2> USE <1>1 DEF TypeInv, TypeOK, loopVars
  <2>1. CASE Start(c)
    <3>1. CASE StartRefused(c) \/ StartAccepted(c) \/ StartPanics(c)
      BY <3>1 DEF StartRefused, StartAccepted, StartPanics
    <3>2. CASE StartSpawns(c)
      BY <3>2 DEF StartSpawns
    <3>3. CASE StoreHandle(c)
      BY <3>3 DEF StoreHandle
    <3> QED
      BY <2>1, <3>1, <3>2, <3>3 DEF Start
  <2>2. CASE Stop(c)
    BY <2>2 DEF Stop, StopAbort, StopClear, Aborts
  <2>3. CASE View(c)
    BY <2>3 DEF View
  <2> QED
    BY <2>1, <2>2, <2>3
<1>5. TypeOK'
  <2> USE DEF TypeInv, TypeOK
  <2>1. /\ call' \in [Calls -> CallStates] /\ loop' \in [Calls -> LoopStates]
        /\ \A d \in Calls : call'[d] # "ready" => call[d] # "ready"
        /\ \A d \in Calls :
              call'[d] \in {"find_consumer", "drop", "create", "publish_consumer"}
                 => call'[d] = call[d]
    BY <1>1, <1>2, <1>4 DEF CallStates, LoopStates
  <2>2. \A d \in Calls :
           call'[d] \in {"operate", "starting", "storing", "clearing"} => consumer[d] # None
    BY <1>1, <1>2, RegistryAssumption
  <2>3. \A l \in Calls : loop'[l] # "none" => cluster[l] # None /\ consumer[l] # None
    BY <1>1, <1>4, RegistryAssumption
  <2> QED
    BY <1>1, <1>3, <1>4, <2>1, <2>2, <2>3 DEF registryVars
<1>6. Published'
  BY <1>1, <1>2 DEF TypeInv, Published, TypeOK, Created, Served, registryVars
<1> QED
  BY <1>5, <1>6 DEF TypeInv

LEMMA TypeLoop ==
    ASSUME TypeInv, NEW l \in Calls, LoopRuns(l)
    PROVE  TypeInv'
<1>1. /\ loop[l] \notin {"none", "dead"}
      /\ consumer[l] \in Calls /\ cluster[l] \in Calls /\ call[l] # "ready"
      /\ UNCHANGED <<registryVars, callVars, crossed>> /\ Remember
  BY LoopStep
<1>2. PICK to \in {"drop", "create", "consume", "clearing", "dead"} :
        loop' = [loop EXCEPT ![l] = to]
  BY LoopStep
<1>3. contested' \in SUBSET Uses /\ mingled' \in SUBSET Calls
  BY <1>1, RememberTyped DEF TypeInv
<1>4. Name(l) \in Tables
  BY <1>1, RequestTyped DEF TypeInv
<1>5. /\ handle' \in [Calls -> Calls \cup {None}]
      /\ aborted' \in SUBSET Calls
      /\ table' \in [Calls -> [Tables -> Calls \cup {None}]]
  <2> USE DEF TypeInv, TypeOK
  <2>1. CASE LoopDrops(l)
    BY <1>1, <1>4, <2>1 DEF LoopDrops
  <2>2. CASE LoopCreates(l)
    BY <1>1, <1>4, <2>2 DEF LoopCreates
  <2>3. CASE LoopBegins(l) \/ LoopDies(l) \/ Cancelled(l)
    BY <2>3 DEF LoopBegins, LoopDies, Cancelled
  <2>4. CASE ErrorAbort(l) \/ ErrorClear(l)
    BY <1>1, <2>4 DEF ErrorAbort, ErrorClear, Aborts
  <2> QED
    BY <2>1, <2>2, <2>3, <2>4 DEF LoopRuns
<1>6. TypeOK'
  BY <1>1, <1>2, <1>3, <1>5 DEF TypeInv, TypeOK, CallStates, LoopStates, registryVars, callVars
<1>7. Published'
  BY <1>1 DEF TypeInv, Published, Created, registryVars, callVars
<1> QED
  BY <1>6, <1>7 DEF TypeInv

LEMMA TypeStep == TypeInv /\ [Next]_vars => TypeInv'
<1> SUFFICES ASSUME TypeInv, [Next]_vars PROVE TypeInv'
  OBVIOUS
<1>1. CASE UNCHANGED vars
  BY <1>1 DEF vars, callVars, registryVars, loopVars, raceVars, TypeInv, TypeOK, Published, Created
<1> QED
  BY <1>1, TypeCluster, TypeConsumer, TypeCommand, TypeLoop DEF Next

\* Every variable keeps its type, a call that looks for a consumer has a cluster
\* to look in and one that operates has a consumer: no step follows a reference
\* that is not there.
THEOREM TypeCorrect == Spec => []TypeOK
<1>1. TypeInv => TypeOK
  BY DEF TypeInv
<1> QED
  BY <1>1, TypeInit, TypeStep, PTL DEF Spec
-----------------------------------------------------------------------------
(* Who gets which consumer *)

\* Call c is past the search for its cluster.
Late(c) == call[c] \notin {"ready", "build_cluster"}

\* Each cluster is that of one id, and each consumer that of one topic in one cluster,
\* whatever races.
ClusterInv ==
    /\ \A id \in Ids, k \in Calls : clusters[id] = k => request[k].id = id /\ Late(k)
    /\ \A c, k \in Calls : cluster[c] = k =>
          request[k].id = request[c].id /\ Late(k) /\ call[c] # "ready"
    /\ \A d, k \in Calls, t \in Topics : consumers[d][t] = k =>
          cluster[k] = d /\ request[k].topic = t
    /\ \A c, k \in Calls : consumer[c] = k =>
          cluster[c] = cluster[k] /\ request[c].topic = request[k].topic

EntryOf(c) == Entry(request[c].id, request[c].topic)

Creating(c) == call[c] \in {"drop", "create", "publish_consumer"}

\* What a call knows about the two maps, unless two calls were about to create what it
\* uses at the same time.
UseInv ==
    /\ \A c \in Calls, t \in Topics :
          call[c] = "build_cluster" /\ <<request[c].id, t>> \notin Contested
             => clusters[request[c].id] = None
    /\ \A c \in Calls : Use(c) \notin Contested =>
          /\ Creating(c) => EntryOf(c) = None
          /\ cluster[c] # None => clusters[request[c].id] = cluster[c]
          /\ consumer[c] # None => EntryOf(c) = consumer[c]

MapInv == TypeInv /\ ClusterInv /\ UseInv

LEMMA MapInit == Init => ClusterInv /\ UseInv
BY RegistryAssumption DEF Init, ClusterInv, UseInv, Creating

\* A step that leaves the maps alone leaves every entry alone.
LEMMA EntryKept ==
    ASSUME UNCHANGED registryVars
    PROVE  \A id, t : Entry(id, t)' = Entry(id, t)
BY DEF Entry, registryVars

\* Two calls that create the same use contest it.
LEMMA BothContest ==
    ASSUME NEW c \in Calls, NEW d \in Calls, c # d, NEW u \in Uses, Creates(c, u), Creates(d, u)
    PROVE  u \in Contested
BY DEF Contested

LEMMA MapFrame ==
    ASSUME MapInv, UNCHANGED <<registryVars, request, cluster, consumer>>,
           Contested \subseteq Contested',
           \A c \in Calls :
              /\ call[c] # "ready" => call'[c] # "ready"
              /\ Late(c) => Late(c)'
              /\ call'[c] = "build_cluster" => call[c] = "build_cluster"
              /\ Creating(c)' => Creating(c)
    PROVE  ClusterInv' /\ UseInv'
<1>1. ClusterInv'
  BY DEF MapInv, ClusterInv, registryVars
<1>2. \A c \in Calls : EntryOf(c)' = EntryOf(c) /\ Use(c)' = Use(c)
  BY EntryKept DEF EntryOf, Use
<1>3. UseInv'
  BY <1>2 DEF MapInv, UseInv, registryVars
<1> QED
  BY <1>1, <1>3

LEMMA MapFindCluster ==
    ASSUME MapInv, NEW c \in Calls, FindCluster(c)
    PROVE  ClusterInv' /\ UseInv'
<1> USE DEF MapInv, TypeInv, TypeOK
<1>1. PICK r \in Requests :
        /\ call' = [call EXCEPT ![c] =
                      IF clusters[r.id] = None THEN "build_cluster" ELSE WithCluster(r.op)]
        /\ request' = [request EXCEPT ![c] = r]
        /\ cluster' = [cluster EXCEPT ![c] = clusters[r.id]]
  BY DEF FindCluster, CallGoes
<1>2. call[c] = "ready" /\ UNCHANGED <<registryVars, consumer>> /\ Contested \subseteq Contested'
  BY RacesStay DEF FindCluster, CallGoes
<1>3. r.id \in Ids /\ r.topic \in Topics
  BY RegistryAssumption
<1>4. ~Created(c) /\ ~Late(c) /\ consumer[c] = None
  BY <1>2 DEF Created, Served, Late, Published
<1>5. request'[c] = r /\ cluster'[c] = clusters[r.id] /\ call'[c] # "ready" /\ consumer'[c] = None
      /\ ~Creating(c)' /\ (call'[c] = "build_cluster" <=> clusters[r.id] = None)
  BY <1>1, <1>2, <1>4 DEF WithCluster, Creating
<1>6. \A d \in Calls : d # c =>
        request'[d] = request[d] /\ cluster'[d] = cluster[d] /\ call'[d] = call[d]
  BY <1>1
<1>7. \A d \in Calls : (\E id \in Ids : clusters[id] = d) => d # c
  BY <1>4 DEF ClusterInv
<1>8. \A d \in Calls : (\E b \in Calls : cluster[b] = d) => d # c
  BY <1>4 DEF ClusterInv
<1>9. \A d \in Calls : ((\E b \in Calls : consumer[b] = d)
                        \/ (\E b \in Calls, t \in Topics : consumers[b][t] = d)) => d # c
  BY <1>4, RegistryAssumption DEF Published
<1>10. ClusterInv'
  <2>1. \A id \in Ids, k \in Calls : clusters'[id] = k => request'[k].id = id /\ Late(k)'
    BY <1>2, <1>6, <1>7 DEF ClusterInv, Late, registryVars
  <2>2. \A b, k \in Calls : cluster'[b] = k =>
           request'[k].id = request'[b].id /\ Late(k)' /\ call'[b] # "ready"
    <3> TAKE b, k \in Calls
    <3>1. ASSUME b = c, cluster'[b] = k
          PROVE  request'[k].id = request'[b].id /\ Late(k)' /\ call'[b] # "ready"
      <4>1. clusters[r.id] = k
        BY <1>5, <3>1
      <4>2. k # c /\ request[k].id = r.id /\ Late(k)
        BY <1>3, <1>7, <4>1 DEF ClusterInv
      <4> QED
        BY <1>5, <1>6, <3>1, <4>2 DEF Late
    <3>2. CASE b # c
      BY <1>6, <1>8, <3>2 DEF ClusterInv, Late
    <3> QED
      BY <3>1, <3>2
  <2>3. \A d, k \in Calls, t \in Topics : consumers'[d][t] = k =>
           cluster'[k] = d /\ request'[k].topic = t
    BY <1>2, <1>6, <1>9 DEF ClusterInv, registryVars
  <2>4. \A b, k \in Calls : consumer'[b] = k =>
           cluster'[b] = cluster'[k] /\ request'[b].topic = request'[k].topic
    BY <1>2, <1>4, <1>6, <1>9, RegistryAssumption DEF ClusterInv
  <2> QED
    BY <2>1, <2>2, <2>3, <2>4 DEF ClusterInv
<1>11. UseInv'
  <2>1. ASSUME NEW d \in Calls, d # c
        PROVE  /\ Use(d)' = Use(d) /\ EntryOf(d)' = EntryOf(d) /\ Creating(d)' = Creating(d)
    BY <1>2, <1>6, <2>1, EntryKept DEF Use, EntryOf, Creating
  <2>2. clusters' = clusters
    BY <1>2 DEF registryVars
  <2>3. \A t \in Topics : call'[c] = "build_cluster" => clusters'[request'[c].id] = None
    BY <1>5, <2>2
  <2>4. /\ ~Creating(c)' /\ consumer'[c] = None
        /\ clusters'[request'[c].id] = cluster'[c]
    BY <1>5, <2>2
  <2>5. \A d \in Calls, t \in Topics :
           call'[d] = "build_cluster" /\ <<request'[d].id, t>> \notin Contested'
              => clusters'[request'[d].id] = None
    BY <1>2, <1>6, <2>2, <2>3 DEF UseInv
  <2>6. ASSUME NEW d \in Calls, Use(d)' \notin Contested'
        PROVE  /\ Creating(d)' => EntryOf(d)' = None
               /\ cluster'[d] # None => clusters'[request'[d].id] = cluster'[d]
               /\ consumer'[d] # None => EntryOf(d)' = consumer'[d]
    <3>1. CASE d = c
      BY <2>4, <3>1
    <3>2. CASE d # c
      BY <1>2, <1>6, <2>1, <2>2, <2>6, <3>2 DEF UseInv
    <3> QED
      BY <3>1, <3>2
  <2> QED
    BY <2>5, <2>6 DEF UseInv
<1> QED
  BY <1>10, <1>11

\* What a cluster that is published holds: nothing yet.
LEMMA NewClusterIsEmpty ==
    ASSUME MapInv, NEW c \in Calls, call[c] = "build_cluster"
    PROVE  \A t \in Topics : consumers[c][t] = None
<1> USE DEF MapInv, TypeInv, TypeOK
<1>1. ASSUME NEW t \in Topics, NEW k \in Calls, consumers[c][t] = k PROVE FALSE
  BY <1>1 DEF ClusterInv, Late
<1> QED
  BY <1>1

LEMMA MapPublishCluster ==
    ASSUME MapInv, NEW c \in Calls, PublishCluster(c)
    PROVE  ClusterInv' /\ UseInv'
<1> USE DEF MapInv, TypeInv, TypeOK
<1> DEFINE id == request[c].id
<1>1. /\ call[c] = "build_cluster" /\ call' = [call EXCEPT ![c] = WithCluster(request[c].op)]
      /\ clusters' = [clusters EXCEPT ![id] = c] /\ cluster' = [cluster EXCEPT ![c] = c]
      /\ UNCHANGED <<consumers, request, consumer>> /\ Contested \subseteq Contested'
  BY RacesStay DEF PublishCluster, CallGoes
<1>2. id \in Ids /\ Use(c) \in Uses
  BY <1>1, RequestTyped
<1>3. ~Created(c) /\ ~Late(c) /\ Late(c)' /\ consumer[c] = None /\ ~Creating(c)'
  BY <1>1 DEF Created, Served, Late, WithCluster, Published, Creating
<1>4. call'[c] \notin {"ready", "build_cluster"} /\ cluster'[c] = c /\ clusters'[id] = c
  BY <1>1, <1>2 DEF WithCluster
<1>5. \A d \in Calls : d # c => cluster'[d] = cluster[d] /\ call'[d] = call[d]
  BY <1>1
<1>6. \A i \in Ids : i # id => clusters'[i] = clusters[i]
  BY <1>1, <1>2
<1>7. \A d \in Calls : Late(d) => Late(d)'
  BY <1>3, <1>5 DEF Late
<1>8. \A d \in Calls : ((\E b \in Calls : consumer[b] = d)
                        \/ (\E b \in Calls, t \in Topics : consumers[b][t] = d)) => d # c
  BY <1>3, RegistryAssumption DEF Published
<1>9. ClusterInv'
  <2>1. \A i \in Ids, k \in Calls : clusters'[i] = k => request'[k].id = i /\ Late(k)'
    BY <1>1, <1>3, <1>4, <1>6, <1>7 DEF ClusterInv
  <2>2. \A b, k \in Calls : cluster'[b] = k =>
           request'[k].id = request'[b].id /\ Late(k)' /\ call'[b] # "ready"
    BY <1>1, <1>3, <1>4, <1>5, <1>7 DEF ClusterInv
  <2>3. \A d, k \in Calls, t \in Topics : consumers'[d][t] = k =>
           cluster'[k] = d /\ request'[k].topic = t
    BY <1>1, <1>5, <1>8 DEF ClusterInv
  <2>4. \A b, k \in Calls : consumer'[b] = k =>
           cluster'[b] = cluster'[k] /\ request'[b].topic = request'[k].topic
    BY <1>1, <1>3, <1>5, <1>8, RegistryAssumption DEF ClusterInv
  <2> QED
    BY <2>1, <2>2, <2>3, <2>4 DEF ClusterInv
\* whoever builds or has the same cluster contests its uses
<1>10. ASSUME NEW d \in Calls, NEW t \in Topics, d # c, request[d].id = id,
              <<id, t>> \notin Contested'
       PROVE  call[d] # "build_cluster" /\ (t = request[d].topic => cluster[d] = None)
  <2>1. <<id, t>> \notin Contested /\ <<id, t>> \in Uses
    BY <1>1, <1>2, <1>10 DEF Uses
  <2>2. Creates(c, <<id, t>>)
    BY <1>1 DEF Creates
  <2>3. call[d] # "build_cluster"
    BY <1>10, <2>1, <2>2, BothContest DEF Creates
  <2>4. clusters[id] = None
    BY <1>1, <2>1 DEF UseInv
  <2>5. t = request[d].topic => Use(d) \notin Contested
    BY <1>10, <2>1 DEF Use
  <2> QED
    BY <1>10, <2>3, <2>4, <2>5 DEF UseInv
<1>11. UseInv'
  <2>1. ASSUME NEW d \in Calls, NEW t \in Topics, call'[d] = "build_cluster",
               <<request'[d].id, t>> \notin Contested'
        PROVE  clusters'[request'[d].id] = None
    <3>1. d # c /\ request'[d].id = request[d].id /\ call[d] = "build_cluster"
      BY <1>1, <1>4, <1>5, <2>1
    <3>2. request[d].id # id
      BY <1>10, <2>1, <3>1
    <3>3. request[d].id \in Ids
      BY <3>1, RequestTyped
    <3>4. clusters[request[d].id] = None
      BY <1>1, <2>1, <3>1 DEF UseInv
    <3> QED
      BY <1>6, <3>1, <3>2, <3>3, <3>4
  <2>2. ASSUME NEW d \in Calls, Use(d)' \notin Contested'
        PROVE  /\ Creating(d)' => EntryOf(d)' = None
               /\ cluster'[d] # None => clusters'[request'[d].id] = cluster'[d]
               /\ consumer'[d] # None => EntryOf(d)' = consumer'[d]
    <3>1. Use(d)' = Use(d) /\ Use(d) \notin Contested /\ request'[d] = request[d]
      BY <1>1, <2>2 DEF Use
    <3>2. CASE d = c
      BY <1>1, <1>3, <1>4, <3>2
    <3>3. CASE d # c /\ call[d] = "ready"
      <4>1. ~Created(d) /\ ~Late(d) /\ call'[d] = "ready"
        BY <1>5, <3>3 DEF Created, Served, Late
      <4>2. cluster[d] = None /\ consumer[d] = None
        BY <3>3, <4>1 DEF ClusterInv, Published
      <4> QED
        BY <1>1, <1>5, <3>3, <4>1, <4>2 DEF Creating
    <3>4. CASE d # c /\ call[d] # "ready" /\ request[d].id = id
      <4>1. request[d].topic \in Topics /\ Use(d) = <<id, request[d].topic>>
        BY <3>4, RequestTyped DEF Use
      <4>2. call[d] # "build_cluster" /\ cluster[d] = None
        BY <1>10, <2>2, <3>1, <3>4, <4>1
      <4>3. ~Creating(d) /\ consumer[d] = None
        BY <4>2 DEF Creating, Published, Created
      <4> QED
        BY <1>1, <1>5, <3>4, <4>2, <4>3 DEF Creating
    <3>5. CASE d # c /\ call[d] # "ready" /\ request[d].id # id
      <4>1. request[d].id \in Ids
        BY <3>5, RequestTyped
      <4>2. clusters'[request[d].id] = clusters[request[d].id]
        BY <1>6, <3>5, <4>1
      <4>3. EntryOf(d)' = EntryOf(d)
        BY <1>1, <3>1, <4>2 DEF EntryOf, Entry
      <4> QED
        BY <1>1, <1>5, <3>1, <3>5, <4>2, <4>3 DEF Creating, UseInv
    <3> QED
      BY <3>2, <3>3, <3>4, <3>5
  <2> HIDE DEF id
  <2> QED
    BY <2>1, <2>2 DEF UseInv
<1> QED
  BY <1>9, <1>11

LEMMA MapFindConsumer ==
    ASSUME MapInv, NEW c \in Calls, FindConsumer(c)
    PROVE  ClusterInv' /\ UseInv'
<1> USE DEF MapInv, TypeInv, TypeOK
<1> DEFINE found == consumers[cluster[c]][request[c].topic]
<1>1. /\ call[c] = "find_consumer"
      /\ call' = [call EXCEPT ![c] = IF found = None THEN "drop" ELSE "operate"]
      /\ consumer' = [consumer EXCEPT ![c] = found]
      /\ UNCHANGED <<registryVars, request, cluster>> /\ Contested \subseteq Contested'
  BY RacesStay DEF FindConsumer, CallGoes
<1>2. cluster[c] \in Calls /\ request[c].topic \in Topics
  BY <1>1, RequestTyped
<1>3. found \in Calls \cup {None}
  BY <1>2
<1>4. \A k \in Calls : found = k => cluster[k] = cluster[c] /\ request[k].topic = request[c].topic
  BY <1>2 DEF ClusterInv
<1>5. ASSUME Use(c) \notin Contested PROVE EntryOf(c) = found
  <2>1. cluster[c] # None
    BY <1>2, RegistryAssumption
  <2>2. clusters[request[c].id] = cluster[c]
    BY <1>5, <2>1 DEF UseInv
  <2> QED
    BY <2>1, <2>2 DEF EntryOf, Entry
<1> HIDE DEF found
<1>6. ClusterInv'
  <2>1. \A d \in Calls : (Late(d) => Late(d)') /\ (call[d] # "ready" => call'[d] # "ready")
    BY <1>1 DEF Late
  <2>2. \A b, k \in Calls : consumer'[b] = k =>
           cluster'[b] = cluster'[k] /\ request'[b].topic = request'[k].topic
    BY <1>1, <1>4 DEF ClusterInv
  <2> QED
    BY <1>1, <2>1, <2>2 DEF ClusterInv, registryVars
<1>7. UseInv'
  <2>1. \A d \in Calls : Use(d)' = Use(d) /\ EntryOf(d)' = EntryOf(d)
    BY <1>1, EntryKept DEF Use, EntryOf
  <2>2. clusters' = clusters
    BY <1>1 DEF registryVars
  <2>3. ASSUME NEW d \in Calls, Use(d) \notin Contested
        PROVE  /\ Creating(d)' => EntryOf(d) = None
               /\ consumer'[d] # None => EntryOf(d) = consumer'[d]
    <3>1. CASE d = c
      BY <1>1, <1>3, <1>5, <2>3, <3>1 DEF Creating
    <3>2. CASE d # c
      BY <1>1, <2>3, <3>2 DEF Creating, UseInv
    <3> QED
      BY <3>1, <3>2
  <2>4. \A d \in Calls : call'[d] = "build_cluster" => call[d] = "build_cluster"
    BY <1>1
  <2> QED
    BY <1>1, <2>1, <2>2, <2>3, <2>4 DEF UseInv
<1> QED
  BY <1>6, <1>7

\* A consumer that is published is entered for one use.
LEMMA OtherEntries ==
    ASSUME MapInv, NEW c \in Calls, PublishConsumer(c), NEW id \in Ids, NEW t \in Topics,
           <<id, t>> # Use(c)
    PROVE  Entry(id, t)' = Entry(id, t)
<1> USE DEF MapInv, TypeInv, TypeOK
<1>1. /\ consumers' = [consumers EXCEPT ![cluster[c]][request[c].topic] = c]
      /\ cluster[c] \in Calls /\ clusters' = clusters
  BY DEF PublishConsumer, CallGoes
<1>2. CASE clusters[id] = None
  BY <1>1, <1>2 DEF Entry
<1>3. CASE clusters[id] \in Calls
  <2>1. clusters[id] = cluster[c] => request[c].id = id
    BY <1>1, <1>3 DEF ClusterInv
  <2>2. ~(clusters[id] = cluster[c] /\ t = request[c].topic)
    BY <2>1 DEF Use
  <2>3. consumers'[clusters[id]][t] = consumers[clusters[id]][t]
    BY <1>1, <1>3, <2>2
  <2> QED
    BY <1>1, <2>3 DEF Entry
<1> QED
  BY <1>2, <1>3

LEMMA OwnEntry ==
    ASSUME MapInv, NEW c \in Calls, PublishConsumer(c), Use(c) \notin Contested
    PROVE  EntryOf(c)' = c
<1> USE DEF MapInv, TypeInv, TypeOK
<1>1. /\ consumers' = [consumers EXCEPT ![cluster[c]][request[c].topic] = c]
      /\ cluster[c] \in Calls /\ clusters' = clusters /\ request' = request
      /\ request[c].topic \in Topics
  BY RequestTyped DEF PublishConsumer, CallGoes
<1>2. clusters[request[c].id] = cluster[c]
  BY <1>1, RegistryAssumption DEF UseInv
<1> QED
  BY <1>1, <1>2, RegistryAssumption DEF EntryOf, Entry

LEMMA MapPublishConsumer ==
    ASSUME MapInv, NEW c \in Calls, PublishConsumer(c)
    PROVE  ClusterInv' /\ UseInv'
<1> USE DEF MapInv, TypeInv, TypeOK
<1>1. /\ call[c] = "publish_consumer" /\ call' = [call EXCEPT ![c] = "operate"]
      /\ consumers' = [consumers EXCEPT ![cluster[c]][request[c].topic] = c]
      /\ consumer' = [consumer EXCEPT ![c] = c]
      /\ UNCHANGED <<clusters, request, cluster>> /\ Contested \subseteq Contested'
  BY RacesStay DEF PublishConsumer, CallGoes
<1>2. cluster[c] \in Calls /\ request[c].topic \in Topics /\ Use(c) \in Uses
  BY <1>1, RequestTyped
<1>3. ClusterInv'
  <2>1. \A d \in Calls : (Late(d) => Late(d)') /\ (call[d] # "ready" => call'[d] # "ready")
    BY <1>1 DEF Late
  <2>2. \A b, k \in Calls : consumer'[b] = k =>
           cluster'[b] = cluster'[k] /\ request'[b].topic = request'[k].topic
    BY <1>1 DEF ClusterInv
  <2>3. \A d, k \in Calls, t \in Topics : consumers'[d][t] = k =>
           cluster'[k] = d /\ request'[k].topic = t
    BY <1>1, <1>2 DEF ClusterInv
  <2> QED
    BY <1>1, <2>1, <2>2, <2>3 DEF ClusterInv
<1>4. UseInv'
  <2>1. \A d \in Calls : call'[d] = "build_cluster" => call[d] = "build_cluster"
    BY <1>1
  <2>2. ASSUME NEW d \in Calls, Use(d)' \notin Contested'
        PROVE  /\ Creating(d)' => EntryOf(d)' = None
               /\ cluster'[d] # None => clusters'[request'[d].id] = cluster'[d]
               /\ consumer'[d] # None => EntryOf(d)' = consumer'[d]
    <3>1. Use(d)' = Use(d) /\ Use(d) \notin Contested
      BY <1>1, <2>2 DEF Use
    <3>2. cluster'[d] # None => clusters'[request'[d].id] = cluster'[d]
      BY <1>1, <3>1 DEF UseInv
    <3>3. CASE d = c
      BY <1>1, <3>1, <3>2, <3>3, OwnEntry DEF Creating
    <3>4. CASE d # c /\ call[d] = "ready"
      BY <1>1, <3>2, <3>4 DEF Creating, Published, Created, Served
    <3>5. CASE d # c /\ call[d] # "ready" /\ Use(d) = Use(c)
      <4>1. EntryOf(c) = None
        BY <1>1, <3>1, <3>5 DEF UseInv, Creating
      <4>2. EntryOf(d) = None
        BY <3>5, <4>1 DEF EntryOf, Use
      <4>3. consumer[d] = None
        BY <3>1, <4>2 DEF UseInv
      <4>4. ~Creating(d)
        <5>1. Creates(c, Use(c))
          BY <1>1 DEF Creates
        <5> QED
          BY <1>2, <3>1, <3>5, <5>1, BothContest DEF Creating, Creates
      <4> QED
        BY <1>1, <3>2, <3>5, <4>3, <4>4 DEF Creating
    <3>6. CASE d # c /\ call[d] # "ready" /\ Use(d) # Use(c)
      <4>1. request[d].id \in Ids /\ request[d].topic \in Topics
        BY <3>6, RequestTyped
      <4>2. EntryOf(d)' = EntryOf(d)
        BY <1>1, <3>6, <4>1, OtherEntries DEF EntryOf, Use
      <4> QED
        BY <1>1, <3>1, <3>2, <3>6, <4>2 DEF Creating, UseInv
    <3> QED
      BY <3>3, <3>4, <3>5, <3>6
  <2> QED
    BY <1>1, <2>1, <2>2 DEF UseInv
<1> QED
  BY <1>3, <1>4

LEMMA MapStep == MapInv /\ [Next]_vars => MapInv'
<1> SUFFICES ASSUME MapInv, [Next]_vars PROVE ClusterInv' /\ UseInv'
  BY TypeStep DEF MapInv
<1>1. ASSUME NEW c \in Calls, GetCluster(c) PROVE ClusterInv' /\ UseInv'
  <2>1. CASE BuildFails(c)
    <3>1. /\ call[c] = "build_cluster" /\ call' = [call EXCEPT ![c] = "failed"]
          /\ UNCHANGED <<registryVars, request, cluster, consumer>>
          /\ Contested \subseteq Contested'
      BY <2>1, RacesStay DEF BuildFails, CallGoes
    <3> QED
      BY <3>1, MapFrame DEF MapInv, TypeInv, TypeOK, Late, Creating
  <2> QED
    BY <1>1, <2>1, MapFindCluster, MapPublishCluster DEF GetCluster
<1>2. ASSUME NEW c \in Calls, GetConsumer(c) PROVE ClusterInv' /\ UseInv'
  <2>1. CASE DropTable(c) \/ CreateTable(c) \/ TableFails(c)
    <3>1. /\ Creating(c)
          /\ \E to \in {"create", "publish_consumer", "failed"} : call' = [call EXCEPT ![c] = to]
          /\ UNCHANGED <<registryVars, request, cluster, consumer>>
          /\ Contested \subseteq Contested'
      BY <2>1, RacesStay DEF DropTable, CreateTable, TableFails, CallGoes, Creating
    <3> QED
      BY <3>1, MapFrame DEF MapInv, TypeInv, TypeOK, Late, Creating
  <2> QED
    BY <1>2, <2>1, MapFindConsumer, MapPublishConsumer DEF GetConsumer
<1>3. ASSUME NEW c \in Calls, Start(c) \/ Stop(c) \/ View(c) PROVE ClusterInv' /\ UseInv'
  <2>1. /\ call[c] \in {"operate", "starting", "storing", "clearing"}
        /\ \E to \in {"starting", "storing", "clearing", "done", "failed"} :
              call' = [call EXCEPT ![c] = to]
        /\ UNCHANGED <<registryVars, request, cluster, consumer>> /\ Contested \subseteq Contested'
    BY <1>3, CommandStep, RacesStay DEF MapInv
  <2> QED
    BY <2>1, MapFrame DEF MapInv, TypeInv, TypeOK, Late, Creating
<1>4. ASSUME NEW l \in Calls, LoopRuns(l) PROVE ClusterInv' /\ UseInv'
  <2>1. UNCHANGED <<registryVars, callVars>> /\ Contested \subseteq Contested'
    BY <1>4, LoopStep, RacesStay DEF MapInv
  <2> QED
    BY <2>1, MapFrame DEF callVars, Late, Creating
<1>5. CASE UNCHANGED vars
  <2>1. UNCHANGED <<registryVars, callVars>> /\ Contested \subseteq Contested'
    BY <1>5 DEF vars, callVars, raceVars, Contested, Creates, Use
  <2> QED
    BY <2>1, MapFrame DEF callVars, Late, Creating
<1> QED
  BY <1>1, <1>2, <1>3, <1>4, <1>5 DEF Next

LEMMA MapInvariant == Spec => []MapInv
<1>1. Init => MapInv
  BY TypeInit, MapInit DEF MapInv
<1> QED
  BY <1>1, MapStep, PTL DEF Spec

\* The registry as the two maps show it.
EntryMap == [u \in Uses |-> Entry(u[1], u[2])]

\* The two maps are a registry that gives every topic one consumer, for good, unless
\* first uses of it overlap: whatever else the calls and the loops do meanwhile.
THEOREM OnceImplemented == Spec => ImplementsOnce
<1>1. Init => Once!OnceInit
  <2> SUFFICES ASSUME Init PROVE EntryMap = [u \in Uses |-> None] /\ Contested = {}
    BY DEF Once!OnceInit, EntryMap
  <2>1. \A u \in Uses : Entry(u[1], u[2]) = None
    BY DEF Init, Uses, Entry
  <2>2. \A c \in Calls, u \in Uses : ~Creates(c, u)
    BY DEF Init, Creates
  <2> QED
    BY <2>1, <2>2 DEF Init, Contested, EntryMap
<1>2. ASSUME MapInv, MapInv', [Next]_vars
      PROVE  [Once!OnceNext]_<<EntryMap, Contested>>
  <2>1. CASE UNCHANGED vars
    <3>1. \A u \in Uses : Entry(u[1], u[2])' = Entry(u[1], u[2])
      BY <2>1, EntryKept DEF vars
    <3>2. EntryMap' = EntryMap
      BY <3>1 DEF EntryMap
    <3>3. \A c \in Calls, u \in Uses : Creates(c, u)' = Creates(c, u)
      BY <2>1 DEF vars, callVars, Creates, Use
    <3>4. Contested' = Contested
      BY <2>1, <3>3 DEF vars, raceVars, Contested
    <3> QED
      BY <3>2, <3>4
  <2>2. CASE Next
    <3>1. Contested \subseteq Contested'
      BY <2>2, StepRemembers, RacesStay
    <3>2. EntryMap' \in [Uses -> Calls \cup {None}]
      <4>1. \A u \in Uses : Entry(u[1], u[2])' \in Calls \cup {None}
        BY <1>2 DEF MapInv, TypeInv, TypeOK, Uses, Entry
      <4> QED
        BY <4>1 DEF EntryMap
    <3>3. ASSUME \A u \in Uses : u \notin Contested' => Entry(u[1], u[2])' = Entry(u[1], u[2])
          PROVE  Once!OnceNext
      <4>1. Once!Replace
        BY <3>3 DEF Once!Replace, EntryMap
      <4> QED
        BY <3>1, <3>2, <4>1 DEF Once!OnceNext, EntryMap
    <3>4. ASSUME UNCHANGED registryVars PROVE Once!OnceNext
      BY <3>3, <3>4, EntryKept
    <3>5. ASSUME NEW c \in Calls, GetCluster(c) PROVE Once!OnceNext
      <4>1. CASE PublishCluster(c)
        <5> USE DEF MapInv, TypeInv, TypeOK
        <5>1. /\ call[c] = "build_cluster" /\ clusters' = [clusters EXCEPT ![request[c].id] = c]
              /\ consumers' = consumers
          BY <4>1 DEF PublishCluster, CallGoes
        <5>2. request[c].id \in Ids
          BY <1>2, <5>1, RequestTyped
        <5>3. ASSUME NEW i \in Ids, NEW t \in Topics, <<i, t>> \notin Contested'
              PROVE  Entry(i, t)' = Entry(i, t)
          <6>1. CASE i = request[c].id
            <7>1. clusters[i] = None /\ consumers[c][t] = None /\ clusters'[i] = c
              BY <1>2, <3>1, <5>1, <5>2, <5>3, <6>1, NewClusterIsEmpty DEF UseInv
            <7> QED
              BY <5>1, <7>1 DEF Entry
          <6>2. CASE i # request[c].id
            <7>1. clusters'[i] = clusters[i]
              BY <1>2, <5>1, <5>2, <6>2
            <7> QED
              BY <5>1, <7>1 DEF Entry
          <6> QED
            BY <6>1, <6>2
        <5> QED
          BY <3>3, <5>3 DEF Uses
      <4>2. CASE FindCluster(c) \/ BuildFails(c)
        BY <3>4, <4>2 DEF FindCluster, BuildFails
      <4> QED
        BY <3>5, <4>1, <4>2 DEF GetCluster
    <3>6. ASSUME NEW c \in Calls, GetConsumer(c) PROVE Once!OnceNext
      <4>1. CASE PublishConsumer(c)
        <5>1. /\ call[c] = "publish_consumer" /\ request' = request
              /\ Use(c) \in Uses /\ Use(c) = <<request[c].id, request[c].topic>>
          BY <1>2, <4>1, RequestTyped DEF PublishConsumer, CallGoes, MapInv, TypeInv, Use
        <5>2. \A u \in Uses : u # Use(c) => Entry(u[1], u[2])' = Entry(u[1], u[2])
          BY <1>2, <4>1, OtherEntries DEF Uses
        <5>3. CASE Use(c) \in Contested'
          BY <3>3, <5>2, <5>3
        <5>4. CASE Use(c) \notin Contested'
          <6>1. Use(c) \notin Contested /\ EntryOf(c) = None
            BY <1>2, <3>1, <5>1, <5>4 DEF MapInv, UseInv, Creating
          <6>2. EntryOf(c)' = c
            BY <1>2, <4>1, <6>1, OwnEntry
          <6>3. EntryMap[Use(c)] = None /\ EntryMap'[Use(c)] = c
            BY <5>1, <6>1, <6>2 DEF EntryOf, Use, EntryMap
          <6>4. \A v \in Uses : EntryMap[v] # c
            <7>1. ~Created(c)
              BY <5>1 DEF Created, Served
            <7>2. \A d \in Calls, t \in Topics : consumers[d][t] # c
              BY <1>2, <7>1 DEF MapInv, TypeInv, Published
            <7>3. \A i \in Ids, t \in Topics : Entry(i, t) # c
              BY <1>2, <7>2, RegistryAssumption DEF Entry, MapInv, TypeInv, TypeOK
            <7> QED
              BY <7>3 DEF Uses, EntryMap
          <6>5. EntryMap' = [EntryMap EXCEPT ![Use(c)] = c]
            BY <5>1, <5>2, <6>3 DEF EntryMap
          <6>6. Once!FirstUse(Use(c), c)
            BY <6>3, <6>4, <6>5 DEF Once!FirstUse, EntryMap
          <6> QED
            BY <3>1, <3>2, <5>1, <6>6 DEF Once!OnceNext, EntryMap
        <5> QED
          BY <5>3, <5>4
      <4>2. CASE FindConsumer(c) \/ DropTable(c) \/ CreateTable(c) \/ TableFails(c)
        BY <3>4, <4>2 DEF FindConsumer, DropTable, CreateTable, TableFails
      <4> QED
        BY <3>6, <4>1, <4>2 DEF GetConsumer
    <3>7. ASSUME NEW c \in Calls, Start(c) \/ Stop(c) \/ View(c) PROVE Once!OnceNext
      BY <1>2, <3>4, <3>7, CommandStep DEF MapInv
    <3>8. ASSUME NEW c \in Calls, LoopRuns(c) PROVE Once!OnceNext
      BY <1>2, <3>4, <3>8, LoopStep DEF MapInv
    <3> QED
      BY <2>2, <3>5, <3>6, <3>7, <3>8 DEF Next
  <2> QED
    BY <1>2, <2>1, <2>2
<1> QED
  BY <1>1, <1>2, MapInvariant, PTL DEF Spec, ImplementsOnce, Once!OnceSpec, EntryMap
-----------------------------------------------------------------------------
(* Which loops can be stopped *)

\* The handle of a consumer refers to a loop of its own that a start has stored, and
\* only such loops are aborted.
HandleInv ==
    /\ \A l \in Calls : loop[l] # "none" => call[l] \in {"storing", "done"}
    /\ \A l \in Calls : call[l] = "storing" => loop[l] # "none"
    /\ \A k, h \in Calls : handle[k] = h => call[h] = "done" /\ loop[h] # "none" /\ consumer[h] = k
    /\ \A l \in aborted : call[l] = "done" /\ loop[l] # "none"

\* A start that met nobody finds no handle, its loop is the one the handle refers to, and
\* nobody else is about to change the handle or the table.
OwnerInv ==
    /\ \A l \in Calls \ Mingled : call[l] \in {"starting", "storing"} => handle[consumer[l]] = None
    /\ \A l \in Calls \ Mingled : Active(l) /\ call[l] = "done" =>
          handle[consumer[l]] = l /\ ~Disturbed(l)
    /\ \A l \in Calls \ (Mingled \cup crossed) : Active(l) => ~Crosses(l)

ControlInv == TypeInv /\ HandleInv /\ OwnerInv

LEMMA ControlInit == Init => HandleInv /\ OwnerInv
BY RegistryAssumption DEF Init, HandleInv, OwnerInv, Active

\* Steps of calls that have no consumer yet, or are refused, or only look at it.
LEMMA ControlFrame ==
    ASSUME ControlInv, Remember, UNCHANGED <<handle, loop, aborted, crossed>>,
           \A d \in Calls :
              \/ call'[d] = call[d] /\ consumer'[d] = consumer[d]
              \/ /\ call[d] \notin {"starting", "storing", "clearing", "done"}
                 /\ call'[d] \notin {"starting", "storing", "clearing"}
    PROVE  HandleInv' /\ OwnerInv'
<1> USE DEF ControlInv
<1>1. \A d \in Calls : call[d] \in {"starting", "storing", "clearing", "done"}
         => call'[d] = call[d] /\ consumer'[d] = consumer[d]
  OBVIOUS
<1>2. \A d \in Calls : call'[d] \in {"starting", "storing", "clearing"}
         => call'[d] = call[d] /\ consumer'[d] = consumer[d]
  OBVIOUS
<1>3. \A d \in Calls : loop[d] # "none" => call'[d] = call[d] /\ consumer'[d] = consumer[d]
  BY <1>1 DEF HandleInv
<1>4. HandleInv'
  <2>1. \A l \in aborted : l \in Calls
    BY DEF TypeInv, TypeOK
  <2> QED
    BY <1>1, <1>2, <1>3, <2>1 DEF HandleInv
<1>5. Mingled \subseteq Mingled'
  BY RacesStay
<1>6. ASSUME NEW l \in Calls, call[l] \in {"starting", "storing", "clearing", "done"}, Disturbed(l)'
      PROVE  Disturbed(l)
  <2>1. consumer'[l] = consumer[l]
    BY <1>1, <1>6
  <2>2. PICK d \in Calls \ {l} : consumer'[d] = consumer'[l] /\ (Between(d)' \/ LoopBetween(d)')
    BY <1>6 DEF Disturbed
  <2>3. Between(d)' => Between(d) /\ consumer'[d] = consumer[d]
    BY <1>2 DEF Between
  <2>4. LoopBetween(d)' => LoopBetween(d) /\ consumer'[d] = consumer[d]
    BY <1>3 DEF LoopBetween
  <2> QED
    BY <2>1, <2>2, <2>3, <2>4 DEF Disturbed
<1>7. ASSUME NEW l \in Calls, loop[l] # "none", Crosses(l)' PROVE Crosses(l)
  <2>1. PICK m \in Calls \ {l} : consumer'[m] = consumer'[l] /\ Settling(m)'
    BY <1>7 DEF Crosses
  <2>2. Settling(m) /\ loop[m] # "none"
    BY <2>1 DEF Settling
  <2> QED
    BY <1>3, <1>7, <2>1, <2>2 DEF Crosses
<1>8. \A l \in Calls : Active(l)' = Active(l) /\ (Active(l) => loop[l] # "none")
  BY DEF Active
<1>9. OwnerInv'
  <2>1. ASSUME NEW l \in Calls \ Mingled', call'[l] \in {"starting", "storing"}
        PROVE  handle'[consumer'[l]] = None
    BY <1>2, <1>5, <2>1 DEF OwnerInv
  <2>2. ASSUME NEW l \in Calls \ Mingled', Active(l)', call'[l] = "done"
        PROVE  handle'[consumer'[l]] = l /\ ~Disturbed(l)'
    <3>1. Active(l) /\ call[l] = "done" /\ consumer'[l] = consumer[l]
      BY <1>3, <1>8, <2>2
    <3> QED
      BY <1>5, <1>6, <3>1 DEF OwnerInv
  <2>3. ASSUME NEW l \in Calls \ (Mingled' \cup crossed'), Active(l)' PROVE ~Crosses(l)'
    BY <1>5, <1>7, <1>8, <2>3 DEF OwnerInv
  <2> QED
    BY <2>1, <2>2, <2>3 DEF OwnerInv
<1> QED
  BY <1>4, <1>9

\* The invariant after a step, from what is to be shown of each loop.
LEMMA OwnerStep ==
    ASSUME ControlInv, Remember, UNCHANGED consumer,
           \A l \in Calls \ Mingled' : call'[l] \in {"starting", "storing"}
              => handle'[consumer[l]] = None,
           \A l \in Calls \ Mingled' : Active(l)' /\ call'[l] = "done"
              => handle'[consumer[l]] = l /\ ~Disturbed(l)',
           \A l \in Calls \ (Mingled' \cup crossed') : Active(l)' => ~Crosses(l)'
    PROVE  OwnerInv'
BY DEF OwnerInv

\* Somebody in between spoils it only for starts that are in between as well.
LEMMA Meeting ==
    ASSUME ControlInv, NEW l \in Calls \ Mingled, NEW c \in Calls \ {l},
           consumer[c] = consumer[l], Between(c) \/ LoopBetween(c)
    PROVE  ~Between(l) /\ ~(Active(l) /\ call[l] = "done")
BY DEF ControlInv, OwnerInv, Mingled, Disturbed

\* What is not spawned by the step was about to replace the table before.
LEMMA CrossesBefore ==
    ASSUME UNCHANGED consumer, aborted \subseteq aborted', NEW l \in Calls,
           \A m \in Calls \ {l} :
              loop'[m] = loop[m] \/ loop'[m] \notin {"spawned", "drop", "create"}
              \/ (loop[m] = "spawned" /\ m \notin aborted) \/ loop[m] = "drop",
           Crosses(l)'
    PROVE  Crosses(l)
BY DEF Crosses, Settling

LEMMA ControlAccepted ==
    ASSUME ControlInv, NEW c \in Calls, StartAccepted(c)
    PROVE  HandleInv' /\ OwnerInv'
<1> USE DEF ControlInv, TypeInv, TypeOK
<1>1. /\ call[c] = "operate" /\ call' = [call EXCEPT ![c] = "starting"] /\ Remember
      /\ handle[consumer[c]] = None /\ UNCHANGED <<loopVars, consumer, crossed>>
  BY DEF StartAccepted, CallGoes
<1>2. Mingled \subseteq Mingled'
  BY <1>1, RacesStay
<1>3. HandleInv'
  BY <1>1 DEF HandleInv, loopVars
<1>4. ASSUME NEW l \in Calls \ Mingled', call'[l] \in {"starting", "storing"}
      PROVE  handle'[consumer[l]] = None
  BY <1>1, <1>2, <1>4 DEF OwnerInv, loopVars
<1>5. ASSUME NEW l \in Calls \ Mingled', Active(l)', call'[l] = "done"
      PROVE  handle'[consumer[l]] = l /\ ~Disturbed(l)'
  <2>1. l # c /\ Active(l) /\ call[l] = "done"
    BY <1>1, <1>5 DEF Active, loopVars
  <2>2. handle[consumer[l]] = l /\ ~Disturbed(l)
    BY <1>2, <2>1 DEF OwnerInv
  <2>3. consumer[c] # consumer[l]
    BY <1>1, <2>2, RegistryAssumption
  <2> QED
    BY <1>1, <2>2, <2>3 DEF Disturbed, Between, LoopBetween, loopVars
<1>6. ASSUME NEW l \in Calls \ (Mingled' \cup crossed'), Active(l)' PROVE ~Crosses(l)'
  BY <1>1, <1>2, <1>6 DEF OwnerInv, Active, Crosses, Settling, loopVars
<1> QED
  BY <1>1, <1>3, <1>4, <1>5, <1>6, OwnerStep

LEMMA ControlSpawns ==
    ASSUME ControlInv, NEW c \in Calls, StartSpawns(c)
    PROVE  HandleInv' /\ OwnerInv'
<1> USE DEF ControlInv, TypeInv, TypeOK
<1>1. /\ call[c] = "starting" /\ call' = [call EXCEPT ![c] = "storing"] /\ Remember
      /\ loop' = [loop EXCEPT ![c] = "spawned"]
      /\ crossed' = (IF Crosses(c) THEN crossed \cup {c} ELSE crossed)
      /\ UNCHANGED <<handle, aborted, consumer>>
  BY DEF StartSpawns, CallGoes
<1>2. Mingled \subseteq Mingled'
  BY <1>1, RacesStay
<1>3. loop[c] = "none" /\ c \notin aborted
  BY <1>1 DEF HandleInv
<1>4. HandleInv'
  BY <1>1, <1>3 DEF HandleInv
<1>5. ASSUME NEW l \in Calls \ Mingled', call'[l] \in {"starting", "storing"}
      PROVE  handle'[consumer[l]] = None
  BY <1>1, <1>2, <1>5 DEF OwnerInv
<1>6. ASSUME NEW l \in Calls \ Mingled', Active(l)', call'[l] = "done"
      PROVE  handle'[consumer[l]] = l /\ ~Disturbed(l)'
  <2>1. l # c /\ Active(l) /\ call[l] = "done"
    BY <1>1, <1>6 DEF Active
  <2>2. handle[consumer[l]] = l /\ ~Disturbed(l)
    BY <1>2, <2>1 DEF OwnerInv
  <2> QED
    BY <1>1, <2>2 DEF Disturbed, Between, LoopBetween
<1>7. ASSUME NEW l \in Calls \ (Mingled' \cup crossed'), Active(l)' PROVE ~Crosses(l)'
  <2>1. CASE l = c
    <3>1. ~Crosses(c)
      BY <1>1, <1>7, <2>1
    <3> QED
      BY <1>1, <2>1, <3>1 DEF Crosses, Settling
  <2>2. CASE l # c
    <3>1. Active(l) /\ l \notin Mingled \cup crossed /\ loop[l] # "none"
      BY <1>1, <1>2, <1>7, <2>2 DEF Active
    <3>2. call[l] \in {"storing", "done"}
      BY <3>1 DEF HandleInv
    <3>3. Between(c)
      BY <1>1 DEF Between
    <3>4. consumer[c] # consumer[l]
      BY <2>2, <3>1, <3>2, <3>3, Meeting DEF Between
    <3>5. ~Crosses(l)
      BY <3>1 DEF OwnerInv
    <3> QED
      BY <1>1, <3>4, <3>5 DEF Crosses, Settling
  <2> QED
    BY <2>1, <2>2
<1> QED
  BY <1>1, <1>4, <1>5, <1>6, <1>7, OwnerStep

LEMMA ControlPanics ==
    ASSUME ControlInv, NEW c \in Calls, StartPanics(c)
    PROVE  HandleInv' /\ OwnerInv'
<1> USE DEF ControlInv, TypeInv, TypeOK
<1>1. /\ call[c] = "starting" /\ call' = [call EXCEPT ![c] = "failed"] /\ Remember
      /\ UNCHANGED <<loopVars, consumer, crossed>>
  BY DEF StartPanics, CallGoes
<1>2. Mingled \subseteq Mingled'
  BY <1>1, RacesStay
<1>3. HandleInv'
  BY <1>1 DEF HandleInv, loopVars
<1>4. ASSUME NEW l \in Calls \ Mingled', call'[l] \in {"starting", "storing"}
      PROVE  handle'[consumer[l]] = None
  BY <1>1, <1>2, <1>4 DEF OwnerInv, loopVars
<1>5. ASSUME NEW l \in Calls \ Mingled', Active(l)', call'[l] = "done"
      PROVE  handle'[consumer[l]] = l /\ ~Disturbed(l)'
  <2>1. Active(l) /\ call[l] = "done"
    BY <1>1, <1>5 DEF Active, loopVars
  <2>2. handle[consumer[l]] = l /\ ~Disturbed(l)
    BY <1>2, <2>1 DEF OwnerInv
  <2> QED
    BY <1>1, <2>2 DEF Disturbed, Between, LoopBetween, loopVars
<1>6. ASSUME NEW l \in Calls \ (Mingled' \cup crossed'), Active(l)' PROVE ~Crosses(l)'
  BY <1>1, <1>2, <1>6 DEF OwnerInv, Active, Crosses, Settling, loopVars
<1> QED
  BY <1>1, <1>3, <1>4, <1>5, <1>6, OwnerStep

LEMMA ControlStores ==
    ASSUME ControlInv, NEW c \in Calls, StoreHandle(c)
    PROVE  HandleInv' /\ OwnerInv'
<1> USE DEF ControlInv, TypeInv, TypeOK
<1>1. /\ call[c] = "storing" /\ call' = [call EXCEPT ![c] = "done"] /\ Remember
      /\ handle' = [handle EXCEPT ![consumer[c]] = c]
      /\ UNCHANGED <<loop, aborted, consumer, crossed>>
  BY DEF StoreHandle, CallGoes
<1>2. Mingled \subseteq Mingled'
  BY <1>1, RacesStay
<1>3. consumer[c] \in Calls /\ loop[c] # "none" /\ Between(c)
  BY <1>1 DEF HandleInv, Between
<1>4. HandleInv'
  BY <1>1, <1>3, RegistryAssumption DEF HandleInv
<1>5. ASSUME NEW l \in Calls \ Mingled', call'[l] \in {"starting", "storing"}
      PROVE  handle'[consumer[l]] = None
  <2>1. l # c /\ l \notin Mingled /\ call[l] \in {"starting", "storing"}
    BY <1>1, <1>2, <1>5
  <2>2. consumer[c] # consumer[l]
    BY <1>3, <2>1, Meeting DEF Between
  <2> QED
    BY <1>1, <2>1, <2>2 DEF OwnerInv
<1>6. ASSUME NEW l \in Calls \ Mingled', Active(l)', call'[l] = "done"
      PROVE  handle'[consumer[l]] = l /\ ~Disturbed(l)'
  <2>1. Active(l) /\ l \notin Mingled
    BY <1>1, <1>2, <1>6 DEF Active
  <2>2. CASE l = c
    <3>1. ~Disturbed(c)
      BY <1>3, <2>1, <2>2 DEF Mingled
    <3>2. handle'[consumer[c]] = c
      BY <1>1, <1>3
    <3> QED
      BY <1>1, <2>2, <3>1, <3>2 DEF Disturbed, Between, LoopBetween
  <2>3. CASE l # c
    <3>1. call[l] = "done"
      BY <1>1, <1>6, <2>3
    <3>2. handle[consumer[l]] = l /\ ~Disturbed(l)
      BY <2>1, <3>1 DEF OwnerInv
    <3>3. consumer[c] # consumer[l]
      BY <1>3, <2>1, <2>3, <3>1, Meeting
    <3> QED
      BY <1>1, <3>2, <3>3 DEF Disturbed, Between, LoopBetween
  <2> QED
    BY <2>2, <2>3
<1>7. ASSUME NEW l \in Calls \ (Mingled' \cup crossed'), Active(l)' PROVE ~Crosses(l)'
  BY <1>1, <1>2, <1>7 DEF OwnerInv, Active, Crosses, Settling
<1> QED
  BY <1>1, <1>4, <1>5, <1>6, <1>7, OwnerStep

\* A stop aborts the loop that its consumer has, and thereby every active one.
LEMMA ControlStopAborts ==
    ASSUME ControlInv, NEW c \in Calls, StopAbort(c)
    PROVE  HandleInv' /\ OwnerInv'
<1> USE DEF ControlInv, TypeInv, TypeOK
<1>1. /\ call[c] = "operate" /\ call' = [call EXCEPT ![c] = "clearing"] /\ Remember
      /\ aborted' = aborted \cup ({handle[consumer[c]]} \ {None})
      /\ UNCHANGED <<handle, loop, consumer, crossed>>
  BY DEF StopAbort, CallGoes, Aborts
<1>2. Mingled \subseteq Mingled'
  BY <1>1, RacesStay
<1>3. consumer[c] \in Calls
  BY <1>1
<1>4. HandleInv'
  <2>1. \A l \in aborted' : call'[l] = "done" /\ loop'[l] # "none"
    BY <1>1, <1>3 DEF HandleInv
  <2> QED
    BY <1>1, <2>1 DEF HandleInv
<1>5. ASSUME NEW l \in Calls \ Mingled', call'[l] \in {"starting", "storing"}
      PROVE  handle'[consumer[l]] = None
  BY <1>1, <1>2, <1>5 DEF OwnerInv
<1>6. ASSUME NEW l \in Calls \ Mingled', Active(l)', call'[l] = "done"
      PROVE  handle'[consumer[l]] = l /\ ~Disturbed(l)'
  <2>1. l # c /\ Active(l) /\ call[l] = "done" /\ l # handle[consumer[c]]
    BY <1>1, <1>6, RegistryAssumption DEF Active
  <2>2. handle[consumer[l]] = l /\ ~Disturbed(l)
    BY <1>2, <2>1 DEF OwnerInv
  <2>3. consumer[c] # consumer[l]
    BY <2>1, <2>2
  <2> QED
    BY <1>1, <2>2, <2>3 DEF Disturbed, Between, LoopBetween
<1>7. ASSUME NEW l \in Calls \ (Mingled' \cup crossed'), Active(l)' PROVE ~Crosses(l)'
  BY <1>1, <1>2, <1>7 DEF OwnerInv, Active, Crosses, Settling
<1> QED
  BY <1>1, <1>4, <1>5, <1>6, <1>7, OwnerStep

LEMMA ControlStopClears ==
    ASSUME ControlInv, NEW c \in Calls, StopClear(c)
    PROVE  HandleInv' /\ OwnerInv'
<1> USE DEF ControlInv, TypeInv, TypeOK
<1>1. /\ call[c] = "clearing" /\ call' = [call EXCEPT ![c] = "done"] /\ Remember
      /\ handle' = [handle EXCEPT ![consumer[c]] = None]
      /\ UNCHANGED <<loop, aborted, consumer, crossed>>
  BY DEF StopClear, CallGoes
<1>2. Mingled \subseteq Mingled'
  BY <1>1, RacesStay
<1>3. consumer[c] \in Calls /\ Between(c)
  BY <1>1 DEF Between
<1>4. HandleInv'
  BY <1>1, <1>3, RegistryAssumption DEF HandleInv
<1>5. ASSUME NEW l \in Calls \ Mingled', call'[l] \in {"starting", "storing"}
      PROVE  handle'[consumer[l]] = None
  BY <1>1, <1>2, <1>5 DEF OwnerInv
<1>6. ASSUME NEW l \in Calls \ Mingled', Active(l)', call'[l] = "done"
      PROVE  handle'[consumer[l]] = l /\ ~Disturbed(l)'
  <2>1. l # c /\ Active(l) /\ l \notin Mingled /\ call[l] = "done"
    <3>1. Active(l) /\ l \notin Mingled /\ loop[l] # "none"
      BY <1>1, <1>2, <1>6 DEF Active
    <3>2. l # c
      BY <1>1, <3>1 DEF HandleInv
    <3> QED
      BY <1>1, <1>6, <3>1, <3>2
  <2>2. handle[consumer[l]] = l /\ ~Disturbed(l)
    BY <2>1 DEF OwnerInv
  <2>3. consumer[c] # consumer[l]
    BY <1>3, <2>1, Meeting
  <2> QED
    BY <1>1, <2>2, <2>3 DEF Disturbed, Between, LoopBetween
<1>7. ASSUME NEW l \in Calls \ (Mingled' \cup crossed'), Active(l)' PROVE ~Crosses(l)'
  BY <1>1, <1>2, <1>7 DEF OwnerInv, Active, Crosses, Settling
<1> QED
  BY <1>1, <1>4, <1>5, <1>6, <1>7, OwnerStep

\* A loop that begins, sets up, consumes, dies or is cancelled leaves the handle alone.
LEMMA ControlLoop ==
    ASSUME ControlInv, NEW m \in Calls,
           LoopBegins(m) \/ LoopDrops(m) \/ LoopCreates(m) \/ LoopDies(m) \/ Cancelled(m)
    PROVE  HandleInv' /\ OwnerInv'
<1> USE DEF ControlInv, TypeInv, TypeOK
<1>1. /\ UNCHANGED <<callVars, handle, aborted, crossed>> /\ Remember
      /\ \/ loop[m] = "spawned" /\ m \notin aborted /\ loop' = [loop EXCEPT ![m] = "drop"]
         \/ loop[m] = "drop" /\ loop' = [loop EXCEPT ![m] = "create"]
         \/ loop[m] # "none" /\ \E to \in {"consume", "dead"} : loop' = [loop EXCEPT ![m] = to]
  BY DEF LoopBegins, LoopDrops, LoopCreates, LoopDies, Cancelled, LoopGoes
<1>2. Mingled \subseteq Mingled' /\ call' = call /\ consumer' = consumer
  BY <1>1, RacesStay DEF callVars
<1>3. /\ \A l \in Calls : loop'[l] # "none" <=> loop[l] # "none"
      /\ \A l \in Calls : LoopBetween(l)' => LoopBetween(l)
      /\ \A l \in Calls : loop'[l] # "dead" => loop[l] # "dead" \/ l = m
  BY <1>1 DEF LoopBetween
<1>4. \A l \in Calls : Settling(l)' => Settling(l)
  BY <1>1 DEF Settling
<1>5. loop[m] # "dead"
  BY DEF LoopBegins, LoopDrops, LoopCreates, LoopDies, Cancelled, LoopGoes
<1>6. \A l \in Calls : Active(l)' => Active(l)
  BY <1>1, <1>3, <1>5 DEF Active
<1>7. HandleInv'
  BY <1>1, <1>2, <1>3 DEF HandleInv
<1>8. \A l \in Calls : (Disturbed(l)' => Disturbed(l)) /\ (Crosses(l)' => Crosses(l))
  BY <1>2, <1>3, <1>4 DEF Disturbed, Between, Crosses
<1> QED
  BY <1>1, <1>2, <1>6, <1>7, <1>8, OwnerStep DEF OwnerInv

\* The error arm of a loop aborts what the handle refers to by now.
LEMMA ControlErrorAborts ==
    ASSUME ControlInv, NEW m \in Calls, ErrorAbort(m)
    PROVE  HandleInv' /\ OwnerInv'
<1> USE DEF ControlInv, TypeInv, TypeOK
<1>1. /\ loop[m] = "consume" /\ loop' = [loop EXCEPT ![m] = "clearing"] /\ Remember
      /\ aborted' = aborted \cup ({handle[consumer[m]]} \ {None})
      /\ UNCHANGED <<call, consumer, handle, crossed>>
  BY DEF ErrorAbort, LoopGoes, Aborts, callVars
<1>2. Mingled \subseteq Mingled'
  BY <1>1, RacesStay
<1>3. consumer[m] \in Calls
  BY <1>1
<1>4. HandleInv'
  <2>1. \A l \in aborted' : call'[l] = "done" /\ loop'[l] # "none"
    BY <1>1, <1>3 DEF HandleInv
  <2> QED
    BY <1>1, <2>1 DEF HandleInv
<1>5. ASSUME NEW l \in Calls \ Mingled', Active(l)', call'[l] = "done"
      PROVE  handle'[consumer[l]] = l /\ ~Disturbed(l)'
  <2>1. Active(l) /\ call[l] = "done" /\ l # handle[consumer[m]]
    BY <1>1, <1>5, RegistryAssumption DEF Active
  <2>2. handle[consumer[l]] = l /\ ~Disturbed(l)
    BY <1>2, <2>1 DEF OwnerInv
  <2>3. consumer[m] # consumer[l]
    BY <2>1, <2>2
  <2> QED
    BY <1>1, <2>2, <2>3 DEF Disturbed, Between, LoopBetween
<1>6. ASSUME NEW l \in Calls \ (Mingled' \cup crossed'), Active(l)' PROVE ~Crosses(l)'
  <2>1. Active(l)
    BY <1>1, <1>6 DEF Active
  <2> QED
    BY <1>1, <1>2, <1>6, <2>1 DEF OwnerInv, Crosses, Settling
<1> QED
  BY <1>1, <1>2, <1>4, <1>5, <1>6, OwnerStep DEF OwnerInv

LEMMA ControlErrorClears ==
    ASSUME ControlInv, NEW m \in Calls, ErrorClear(m)
    PROVE  HandleInv' /\ OwnerInv'
<1> USE DEF ControlInv, TypeInv, TypeOK
<1>1. /\ loop[m] = "clearing" /\ loop' = [loop EXCEPT ![m] = "dead"] /\ Remember
      /\ handle' = [handle EXCEPT ![consumer[m]] = None]
      /\ UNCHANGED <<call, consumer, aborted, crossed>>
  BY DEF ErrorClear, LoopGoes, callVars
<1>2. Mingled \subseteq Mingled'
  BY <1>1, RacesStay
<1>3. consumer[m] \in Calls /\ LoopBetween(m)
  BY <1>1 DEF LoopBetween
<1>4. HandleInv'
  BY <1>1, <1>3, RegistryAssumption DEF HandleInv
<1>5. ASSUME NEW l \in Calls \ Mingled', call'[l] \in {"starting", "storing"}
      PROVE  handle'[consumer[l]] = None
  BY <1>1, <1>2, <1>5 DEF OwnerInv
<1>6. ASSUME NEW l \in Calls \ Mingled', Active(l)', call'[l] = "done"
      PROVE  handle'[consumer[l]] = l /\ ~Disturbed(l)'
  <2>1. l # m /\ Active(l) /\ l \notin Mingled /\ call[l] = "done"
    BY <1>1, <1>2, <1>6 DEF Active
  <2>2. handle[consumer[l]] = l /\ ~Disturbed(l)
    BY <2>1 DEF OwnerInv
  <2>3. consumer[m] # consumer[l]
    BY <1>3, <2>1, Meeting
  <2> QED
    BY <1>1, <2>2, <2>3 DEF Disturbed, Between, LoopBetween
<1>7. ASSUME NEW l \in Calls \ (Mingled' \cup crossed'), Active(l)' PROVE ~Crosses(l)'
  BY <1>1, <1>2, <1>7 DEF OwnerInv, Active, Crosses, Settling
<1> QED
  BY <1>1, <1>4, <1>5, <1>6, <1>7, OwnerStep

LEMMA ControlStep == ControlInv /\ [Next]_vars => ControlInv'
<1> SUFFICES ASSUME ControlInv, [Next]_vars PROVE HandleInv' /\ OwnerInv'
  BY TypeStep DEF ControlInv
<1>1. ASSUME NEW c \in Calls, GetCluster(c) \/ GetConsumer(c) PROVE HandleInv' /\ OwnerInv'
  <2>1. /\ Remember /\ UNCHANGED <<handle, loop, aborted, crossed>>
        /\ call[c] \in {"ready", "build_cluster", "find_consumer", "drop", "create",
                        "publish_consumer"}
        /\ \E to \in {"build_cluster", "find_consumer", "drop", "create", "publish_consumer",
                      "operate", "done", "failed"} : call' = [call EXCEPT ![c] = to]
        /\ \A d \in Calls \ {c} : consumer'[d] = consumer[d]
    BY <1>1
    DEF GetCluster, FindCluster, BuildFails, PublishCluster, GetConsumer, FindConsumer, DropTable,
        CreateTable, TableFails, PublishConsumer, CallGoes, WithCluster, loopVars, ControlInv,
        TypeInv, TypeOK
  <2> QED
    BY <2>1, ControlFrame DEF ControlInv, TypeInv, TypeOK
<1>2. ASSUME NEW c \in Calls, StartRefused(c) \/ View(c) PROVE HandleInv' /\ OwnerInv'
  <2>1. /\ Remember /\ UNCHANGED <<handle, loop, aborted, crossed, consumer>>
        /\ call[c] = "operate" /\ call' = [call EXCEPT ![c] = "done"]
    BY <1>2 DEF StartRefused, View, CallGoes, loopVars
  <2> QED
    BY <2>1, ControlFrame DEF ControlInv, TypeInv, TypeOK
<1>3. ASSUME NEW c \in Calls, Start(c) PROVE HandleInv' /\ OwnerInv'
  BY <1>2, <1>3, ControlAccepted, ControlPanics, ControlSpawns, ControlStores DEF Start
<1>4. ASSUME NEW c \in Calls, Stop(c) PROVE HandleInv' /\ OwnerInv'
  BY <1>4, ControlStopAborts, ControlStopClears DEF Stop
<1>5. ASSUME NEW l \in Calls, LoopRuns(l) PROVE HandleInv' /\ OwnerInv'
  BY <1>5, ControlLoop, ControlErrorAborts, ControlErrorClears DEF LoopRuns
<1>6. CASE UNCHANGED vars
  BY <1>6
  DEF vars, registryVars, loopVars, callVars, raceVars, ControlInv, HandleInv, OwnerInv, Mingled,
      Between, LoopBetween, Disturbed, Active, Crosses, Settling
<1> QED
  BY <1>1, <1>2, <1>3, <1>4, <1>5, <1>6 DEF Next

LEMMA ControlInvariant == Spec => []ControlInv
<1>1. Init => ControlInv
  BY TypeInit, ControlInit DEF ControlInv
<1> QED
  BY <1>1, ControlStep, PTL DEF Spec

\* Every loop that runs can be stopped, however the commands and the failures interleave:
\* the next stop_consumer of its topic gets the consumer whose handle refers to it.  Two
\* first uses of the topic at the same time, or a start that was in between together with
\* another command or with a failing loop of its consumer, are the only ways to lose one.
THEOREM EveryLoopIsReachable == Spec => []LoopsAreReachable
<1>1. MapInv /\ ControlInv => LoopsAreReachable
  <2> SUFFICES ASSUME MapInv, ControlInv, NEW l \in Calls \ Mingled, Active(l),
                      Use(l) \notin Contested
               PROVE  /\ EntryOf(l) = consumer[l]
                      /\ handle[consumer[l]] = l \/ call[l] = "storing"
    BY DEF LoopsAreReachable, EntryOf
  <2>1. loop[l] # "none" /\ consumer[l] # None
    BY DEF Active, MapInv, TypeInv, TypeOK
  <2> QED
    BY <2>1 DEF MapInv, UseInv, ControlInv, HandleInv, OwnerInv
<1> QED
  BY <1>1, MapInvariant, ControlInvariant, PTL
-----------------------------------------------------------------------------
(* Who touches a table *)

\* Two calls that work on the same table, which is that of one topic only.
LEMMA SameTable ==
    ASSUME MapInv, NEW l \in Calls, NEW d \in Calls, call[l] # "ready", call[d] # "ready",
           OwnTable(request[l].topic), cluster[l] \in Calls, cluster[d] = cluster[l],
           Name(d) = Name(l)
    PROVE  Use(d) = Use(l)
<1>1. request[d].topic \in Topics /\ request[l].topic \in Topics
  BY RequestTyped DEF MapInv, TypeInv
<1>2. request[d].topic = request[l].topic
  BY <1>1 DEF OwnTable, Name
<1>3. request[d].id = request[l].id
  BY DEF MapInv, ClusterInv
<1> QED
  BY <1>2, <1>3 DEF Use

\* A call that creates the consumer of a topic, or another loop that sets up, works on
\* another table.
LEMMA OtherTable ==
    ASSUME MapInv, ControlInv, NEW l \in Calls \ (Mingled \cup crossed), Active(l),
           Use(l) \notin Contested, OwnTable(request[l].topic),
           NEW d \in Calls, Creating(d) \/ (d # l /\ Settling(d))
    PROVE  ~(cluster[d] = cluster[l] /\ Name(d) = Name(l))
<1> SUFFICES ASSUME cluster[d] = cluster[l], Name(d) = Name(l) PROVE FALSE
  OBVIOUS
<1>1. loop[l] # "none" /\ consumer[l] # None /\ cluster[l] \in Calls
  BY DEF Active, MapInv, TypeInv, TypeOK
<1>2. call[l] # "ready"
  BY <1>1 DEF ControlInv, HandleInv
<1>3. EntryOf(l) = consumer[l]
  BY <1>1 DEF MapInv, UseInv
<1>4. CASE Creating(d)
  <2>1. call[d] # "ready"
    BY <1>4 DEF Creating
  <2>2. Use(d) = Use(l)
    BY <1>1, <1>2, <2>1, SameTable
  <2>3. EntryOf(d) = None /\ EntryOf(d) = EntryOf(l)
    BY <1>4, <2>2 DEF MapInv, UseInv, EntryOf, Use
  <2> QED
    BY <1>1, <1>3, <2>3
<1>5. CASE d # l /\ Settling(d)
  <2>1. loop[d] # "none" /\ consumer[d] # None
    BY <1>5 DEF Settling, MapInv, TypeInv, TypeOK
  <2>2. call[d] # "ready"
    BY <2>1 DEF ControlInv, HandleInv
  <2>3. Use(d) = Use(l)
    BY <1>1, <1>2, <2>2, SameTable
  <2>4. EntryOf(d) = consumer[d] /\ EntryOf(d) = EntryOf(l)
    BY <2>1, <2>3 DEF MapInv, UseInv, EntryOf, Use
  <2>5. Crosses(l)
    BY <1>3, <1>5, <2>4 DEF Crosses
  <2> QED
    BY <2>5 DEF ControlInv, OwnerInv
<1> QED
  BY <1>4, <1>5

\* What a loop that consumes was before a step of somebody else.
LEMMA KeptLoop ==
    ASSUME ControlInv, NEW l \in Calls, loop[l] # "none",
           aborted \subseteq aborted', crossed \subseteq crossed',
           Contested \subseteq Contested', Mingled \subseteq Mingled',
           request'[l] = request[l], cluster'[l] = cluster[l],
           l \notin Mingled' \cup crossed', Active(l)', Use(l)' \notin Contested', loop[l] # "dead"
    PROVE  /\ l \notin Mingled \cup crossed /\ Active(l) /\ Use(l) \notin Contested
           /\ Name(l)' = Name(l)
BY DEF Active, Use, Name

\* What only grows, in every step.
LEMMA Grows ==
    ASSUME ControlInv, Next
    PROVE  /\ aborted \subseteq aborted' /\ crossed \subseteq crossed'
           /\ Contested \subseteq Contested' /\ Mingled \subseteq Mingled'
           /\ \A l \in Calls : loop[l] # "none" =>
                 request'[l] = request[l] /\ cluster'[l] = cluster[l]
<1> USE DEF ControlInv, TypeInv, TypeOK
<1>1. Contested \subseteq Contested' /\ Mingled \subseteq Mingled'
  BY StepRemembers, RacesStay
<1>2. \A l \in Calls : loop[l] # "none" => call[l] \in {"storing", "done"}
  BY DEF HandleInv
<1>3. ASSUME NEW c \in Calls, GetCluster(c) \/ GetConsumer(c)
      PROVE  /\ aborted' = aborted /\ crossed' = crossed /\ call[c] \notin {"storing", "done"}
             /\ \A l \in Calls \ {c} : request'[l] = request[l] /\ cluster'[l] = cluster[l]
  BY <1>3
  DEF GetCluster, FindCluster, BuildFails, PublishCluster, GetConsumer, FindConsumer, DropTable,
      CreateTable, TableFails, PublishConsumer, CallGoes, loopVars
<1>4. ASSUME NEW c \in Calls, Start(c) \/ Stop(c) \/ View(c)
      PROVE  aborted \subseteq aborted' /\ crossed \subseteq crossed'
             /\ UNCHANGED <<request, cluster>>
  BY <1>4
  DEF Start, StartRefused, StartAccepted, StartPanics, StartSpawns, StoreHandle, Stop, StopAbort,
      StopClear, View, Aborts, loopVars
<1>5. ASSUME NEW l \in Calls, LoopRuns(l)
      PROVE  aborted \subseteq aborted' /\ crossed \subseteq crossed'
             /\ UNCHANGED <<request, cluster>>
  BY <1>5
  DEF LoopRuns, LoopBegins, LoopDrops, LoopCreates, LoopDies, ErrorAbort, ErrorClear, Cancelled,
      LoopGoes, Aborts, callVars
<1> QED
  BY <1>1, <1>2, <1>3, <1>4, <1>5 DEF Next

LEMMA TableStep ==
    ASSUME MapInv, ControlInv, TableIsKept, Next
    PROVE  TableIsKept'
<1> USE DEF TypeOK
<1>0. TypeOK
  BY DEF MapInv, TypeInv
<1> SUFFICES ASSUME NEW l \in Calls, l \notin Mingled' \cup crossed', Active(l)',
                    loop'[l] = "consume", Use(l)' \notin Contested', OwnTable(request'[l].topic)
             PROVE  TableOf(l)' = l
  BY DEF TableIsKept, OwnTable
\* the loop was there before, unless it creates its table now
<1>1. CASE LoopCreates(l)
  <2>1. /\ table' = [table EXCEPT ![cluster[l]][Name(l)] = l]
        /\ UNCHANGED <<request, cluster>> /\ loop[l] = "create"
    BY <1>1 DEF LoopCreates, LoopGoes, callVars
  <2>2. cluster[l] \in Calls
    BY <1>0, <2>1
  <2>3. Name(l) \in Tables
    <3>1. call[l] # "ready"
      BY <2>1 DEF ControlInv, HandleInv
    <3> QED
      BY <1>0, <3>1, RequestTyped
  <2> QED
    BY <1>0, <2>1, <2>2, <2>3 DEF TableOf, Name
<1>2. ASSUME loop[l] = "consume",
             \/ table' = table
             \/ \E d \in Calls, x \in Calls \cup {None} :
                   /\ table' = [table EXCEPT ![cluster[d]][Name(d)] = x]
                   /\ Creating(d) \/ (d # l /\ Settling(d))
      PROVE  TableOf(l)' = l
  <2>1. /\ l \notin Mingled \cup crossed /\ Active(l) /\ Use(l) \notin Contested
        /\ Name(l)' = Name(l) /\ request'[l] = request[l] /\ cluster'[l] = cluster[l]
    BY <1>2, Grows, KeptLoop
  <2>2. TableOf(l) = l
    BY <1>2, <2>1 DEF TableIsKept
  <2>3. CASE table' = table
    BY <2>1, <2>2, <2>3 DEF TableOf
  <2>4. ASSUME NEW d \in Calls, NEW x \in Calls \cup {None},
               table' = [table EXCEPT ![cluster[d]][Name(d)] = x],
               Creating(d) \/ (d # l /\ Settling(d))
        PROVE  TableOf(l)' = l
    <3>1. ~(cluster[d] = cluster[l] /\ Name(d) = Name(l))
      BY <2>1, <2>4, OtherTable
    <3>2. table'[cluster[l]][Name(l)] = table[cluster[l]][Name(l)]
      <4>1. cluster[l] \in Calls
        BY <1>0, <1>2
      <4>2. Name(l) \in Tables
        <5>1. call[l] # "ready"
          BY <1>2 DEF ControlInv, HandleInv
        <5> QED
          BY <1>0, <5>1, RequestTyped
      <4> QED
        BY <1>0, <2>4, <3>1, <4>1, <4>2
    <3> QED
      BY <2>1, <2>2, <3>2 DEF TableOf
  <2> QED
    BY <1>2, <2>3, <2>4
<1>3. ASSUME NEW c \in Calls, GetCluster(c) \/ Start(c) \/ Stop(c) \/ View(c) PROVE TableOf(l)' = l
  <2>1. table' = table /\ (loop' = loop \/ loop' = [loop EXCEPT ![c] = "spawned"])
    BY <1>3
    DEF GetCluster, FindCluster, BuildFails, PublishCluster, Start, StartRefused, StartAccepted,
        StartPanics, StartSpawns, StoreHandle, Stop, StopAbort, StopClear, View, loopVars
  <2>2. loop[l] = "consume"
    BY <1>0, <2>1
  <2> QED
    BY <1>2, <2>1, <2>2
<1>4. ASSUME NEW c \in Calls, GetConsumer(c) PROVE TableOf(l)' = l
  <2>1. loop[l] = "consume"
    BY <1>4
    DEF GetConsumer, FindConsumer, DropTable, CreateTable, TableFails, PublishConsumer, loopVars
  <2>2. CASE DropTable(c) \/ CreateTable(c)
    <3>1. Creating(c) /\ \E x \in Calls \cup {None} :
             table' = [table EXCEPT ![cluster[c]][Name(c)] = x]
      BY <2>2 DEF DropTable, CreateTable, CallGoes, Creating
    <3> QED
      BY <1>2, <2>1, <3>1
  <2>3. CASE FindConsumer(c) \/ TableFails(c) \/ PublishConsumer(c)
    BY <1>2, <2>1, <2>3 DEF FindConsumer, TableFails, PublishConsumer
  <2> QED
    BY <1>4, <2>2, <2>3 DEF GetConsumer
<1>5. ASSUME NEW m \in Calls, LoopRuns(m), ~LoopCreates(l) PROVE TableOf(l)' = l
  <2>1. loop[l] = "consume"
    BY <1>0, <1>5
    DEF LoopRuns, LoopBegins, LoopDrops, LoopCreates, LoopDies, ErrorAbort, ErrorClear, Cancelled,
        LoopGoes
  <2>2. CASE LoopDrops(m) \/ LoopCreates(m)
    <3>1. /\ m # l /\ Settling(m)
          /\ \E x \in Calls \cup {None} : table' = [table EXCEPT ![cluster[m]][Name(m)] = x]
      BY <2>1, <2>2 DEF LoopDrops, LoopCreates, LoopGoes, Settling
    <3> QED
      BY <1>2, <2>1, <3>1
  <2>3. CASE LoopBegins(m) \/ LoopDies(m) \/ ErrorAbort(m) \/ ErrorClear(m) \/ Cancelled(m)
    BY <1>2, <2>1, <2>3 DEF LoopBegins, LoopDies, ErrorAbort, ErrorClear, Cancelled
  <2> QED
    BY <1>5, <2>2, <2>3 DEF LoopRuns
<1> QED
  BY <1>1, <1>3, <1>4, <1>5 DEF Next

\* The records that a loop stores stay where queries find them: nobody drops or replaces
\* the table of a topic, whose name no other topic shares, under the loop that fills it.
\* The exceptions are those of EveryLoopIsReachable, and a loop that was spawned while one
\* that was stopped during its setup had still to finish it.
THEOREM EveryTableIsKept == Spec => []TableIsKept
<1>1. Init => TableIsKept
  BY DEF Init, TableIsKept, Active
<1>2. MapInv /\ ControlInv /\ TableIsKept /\ [Next]_vars => TableIsKept'
  <2>1. ASSUME TableIsKept, UNCHANGED vars PROVE TableIsKept'
    BY <2>1
    DEF vars, registryVars, loopVars, callVars, raceVars, TableIsKept, Mingled, Contested, Creates,
        Use, Between, LoopBetween, Disturbed, Active, TableOf, Name, OwnTable
  <2> QED
    BY <2>1, TableStep
<1> QED
  BY <1>1, <1>2, MapInvariant, ControlInvariant, PTL DEF Spec
-----------------------------------------------------------------------------
(* Whatever first uses overlap, an entry that is settled stays *)

\* Topic t of cluster id has consumer k, and nobody is about to replace the cluster, or
\* the consumer in it: who is still creating one does so in a cluster that was replaced.
Settled(id, t, k) ==
    /\ Entry(id, t) = k
    /\ \A c \in Calls : request[c].id = id =>
          /\ call[c] # "build_cluster"
          /\ Creating(c) /\ request[c].topic = t => cluster[c] # clusters[id]

\* A step of a call that comes to no point of publishing, and leaves the maps alone
LEMMA SettledSame ==
    ASSUME NEW id \in Ids, NEW t \in Topics, NEW k \in Calls, Settled(id, t, k),
           UNCHANGED registryVars,
           \A c \in Calls : request'[c].id = id =>
              \/ call'[c] # "build_cluster" /\ ~Creating(c)'
              \/ /\ request'[c] = request[c] /\ cluster'[c] = cluster[c]
                 /\ call'[c] = "build_cluster" => call[c] = "build_cluster"
                 /\ Creating(c)' /\ request[c].topic = t
                       => Creating(c) \/ cluster[c] # clusters[id]
    PROVE  Settled(id, t, k)'
<1>1. Entry(id, t)' = k
  BY EntryKept DEF Settled
<1>2. clusters' = clusters
  BY DEF registryVars
<1> QED
  BY <1>1, <1>2 DEF Settled

LEMMA SettledStep ==
    ASSUME MapInv, NEW id \in Ids, NEW t \in Topics, NEW k \in Calls,
           Settled(id, t, k), [Next]_vars
    PROVE  Settled(id, t, k)'
<1> USE DEF MapInv, TypeInv, TypeOK, CallGoes
<1>1. ASSUME NEW c \in Calls, GetCluster(c) PROVE Settled(id, t, k)'
  <2>1. CASE FindCluster(c)
    <3>1. PICK r \in Requests :
            /\ call' = [call EXCEPT ![c] = IF clusters[r.id] = None THEN "build_cluster"
                                           ELSE WithCluster(r.op)]
            /\ request' = [request EXCEPT ![c] = r]
            /\ UNCHANGED registryVars
            /\ cluster' = [cluster EXCEPT ![c] = clusters[r.id]]
      BY <2>1 DEF FindCluster
    <3>2. clusters[id] # None
      BY RegistryAssumption DEF Settled, Entry
    <3>3. request'[c].id = id => call'[c] # "build_cluster" /\ ~Creating(c)'
      BY <3>1, <3>2 DEF WithCluster, Creating
    <3> QED
      BY <3>1, <3>3, SettledSame DEF Creating
  <2>2. CASE BuildFails(c)
    BY <2>2, SettledSame DEF BuildFails, Creating
  <2>3. CASE PublishCluster(c)
    <3>1. /\ request[c].id # id /\ clusters'[id] = clusters[id]
          /\ call' = [call EXCEPT ![c] = WithCluster(request[c].op)]
          /\ UNCHANGED <<consumers, request>>
          /\ \A d \in Calls \ {c} : cluster'[d] = cluster[d]
      BY <2>3, RequestTyped DEF PublishCluster, Settled
    <3>2. Entry(id, t)' = k
      BY <3>1 DEF Entry, Settled
    <3> QED
      BY <3>1, <3>2 DEF WithCluster, Settled, Creating
  <2> QED
    BY <1>1, <2>1, <2>2, <2>3 DEF GetCluster
<1>2. ASSUME NEW c \in Calls, GetConsumer(c) PROVE Settled(id, t, k)'
  <2>1. CASE FindConsumer(c)
    <3> DEFINE found == consumers[cluster[c]][request[c].topic]
    <3>1. /\ UNCHANGED <<registryVars, request, cluster>>
          /\ call' = [call EXCEPT ![c] = IF found = None THEN "drop" ELSE "operate"]
      BY <2>1 DEF FindConsumer
    <3>2. request[c].topic = t /\ cluster[c] = clusters[id] => found = k
      BY RegistryAssumption DEF Settled, Entry
    <3>3. request[c].topic = t /\ Creating(c)' => cluster[c] # clusters[id]
      BY <3>1, <3>2, RegistryAssumption DEF Creating
    <3>4. call'[c] # "build_cluster"
      BY <3>1
    <3>5. \A d \in Calls \ {c} : call'[d] = call[d]
      BY <3>1
    <3> HIDE DEF found
    <3> QED
      BY <3>1, <3>3, <3>4, <3>5, SettledSame DEF Creating
  <2>2. CASE DropTable(c) \/ CreateTable(c) \/ TableFails(c)
    <3>1. /\ Creating(c) /\ UNCHANGED <<registryVars, request, cluster>>
          /\ \E to \in {"create", "publish_consumer", "failed"} : call' = [call EXCEPT ![c] = to]
      BY <2>2 DEF DropTable, CreateTable, TableFails, Creating
    <3> QED
      BY <3>1, SettledSame DEF Creating
  <2>3. CASE PublishConsumer(c)
    <3>1. /\ UNCHANGED <<clusters, request, cluster>> /\ Creating(c)
          /\ call' = [call EXCEPT ![c] = "operate"] /\ cluster[c] \in Calls
          /\ consumers' = [consumers EXCEPT ![cluster[c]][request[c].topic] = c]
      BY <2>3, RegistryAssumption DEF PublishConsumer, Creating
    <3>2. clusters[id] \in Calls
      BY RegistryAssumption DEF Settled, Entry
    <3>3. cluster[c] = clusters[id] => request[c].id = id
      BY <3>1, <3>2 DEF ClusterInv
    <3>4. ~(cluster[c] = clusters[id] /\ request[c].topic = t)
      BY <3>1, <3>3 DEF Settled
    <3>5. consumers'[clusters[id]][t] = consumers[clusters[id]][t]
      BY <3>1, <3>2, <3>4
    <3>6. Entry(id, t)' = k
      BY <3>1, <3>5 DEF Settled, Entry
    <3> QED
      BY <3>1, <3>6 DEF Settled, Creating
  <2> QED
    BY <1>2, <2>1, <2>2, <2>3 DEF GetConsumer
<1>3. ASSUME NEW c \in Calls, Start(c) \/ Stop(c) \/ View(c) PROVE Settled(id, t, k)'
  <2>1. /\ UNCHANGED <<registryVars, request, cluster>>
        /\ \E to \in {"starting", "storing", "clearing", "done", "failed"} :
              call' = [call EXCEPT ![c] = to]
    BY <1>3, CommandStep
  <2> QED
    BY <2>1, SettledSame DEF Creating
<1>4. ASSUME NEW l \in Calls, LoopRuns(l) PROVE Settled(id, t, k)'
  <2>1. UNCHANGED <<registryVars, callVars>>
    BY <1>4, LoopStep
  <2> QED
    BY <2>1, SettledSame DEF callVars, Creating
<1>5. CASE UNCHANGED vars
  BY <1>5, SettledSame DEF vars, callVars, Creating
<1> QED
  BY <1>1, <1>2, <1>3, <1>4, <1>5 DEF Next

\* Whatever first uses overlap: once a topic has a consumer and nobody is about to create
\* another one, or another cluster, the topic keeps that consumer for good; a call that
\* still looks for one finds it, or works on a cluster that was replaced.
THEOREM EntriesSettle == Spec => SettledForGood
<1> SUFFICES ASSUME NEW id \in Ids, NEW t \in Topics, NEW k \in Calls
             PROVE  Spec => []((Quiet(id, t) /\ Entry(id, t) = k) => [](Entry(id, t) = k))
  BY DEF SettledForGood
<1> DEFINE S == Settled(id, t, k)
           Q == Quiet(id, t)
           E == Entry(id, t) = k
<1>1. Q /\ E => S
  BY DEF Quiet, Creates, Creating, Use, Settled
<1>2. MapInv /\ S /\ [Next]_vars => S'
  BY SettledStep
<1>3. S => E
  BY DEF Settled
<1> HIDE DEF S, Q, E
<1>4. Spec => [](Q /\ E => []E)
  BY <1>1, <1>2, <1>3, MapInvariant, PTL DEF Spec
<1> QED
  BY <1>4 DEF Q, E
=============================================================================
