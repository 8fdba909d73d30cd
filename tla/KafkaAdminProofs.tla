--------------------------- MODULE KafkaAdminProofs ---------------------------
(***************************************************************************)
(* Proofs about KafkaAdmin, for any calls, topics, bounds and failures:    *)
(* how old a list can be that a command works with, and what a description *)
(* of a group shows.                                                       *)
(***************************************************************************)
EXTENDS KafkaAdmin, TLAPS

-----------------------------------------------------------------------------
(* Facts about requests *)

LEMMA NoRequestIsList == NoRequest \in Requests /\ NoRequest.op = "list"
<1>1. PICK t \in Topics : t = (CHOOSE u \in Topics : TRUE)
  BY AdminAssumption
<1>2. [op |-> "list", topic |-> t, ignore |-> FALSE] \in Requests
  BY <1>1 DEF Requests
<1>3. \E r \in Requests : r.op = "list"
  BY <1>2
<1> QED
  BY <1>3 DEF NoRequest

LEMMA RequestFields ==
    ASSUME NEW r \in Requests
    PROVE  /\ r.op \in {"create", "delete", "info", "offsets", "list", "set_group",
                        "delete_group", "describe"}
           /\ r.topic \in Topics
           /\ r.ignore \in BOOLEAN
           /\ r.ignore => r.op = "describe"
BY AdminAssumption DEF Requests
-----------------------------------------------------------------------------
(* Type correctness *)

TypeInv == TypeOK /\ Now # 0

LEMMA TypeInit == Init => TypeInv
<1> SUFFICES ASSUME Init PROVE TypeInv
  OBVIOUS
<1>1. PICK ts \in TopicTables : history = <<ts>>
  BY DEF Init
<1>2. history \in Seq(TopicTables) /\ Len(history) = 1
  BY <1>1
<1>3. call \in [Calls -> CallStates] /\ \A c \in Calls : call[c] = "ready"
  BY DEF Init, CallStates
<1>4. request \in [Calls -> Requests]
  BY NoRequestIsList DEF Init
<1>5. view \in [Calls -> Views]
  BY DEF Init, NoView, Views
<1>6. cache \in [at : 0..Now, muddled : BOOLEAN] /\ listed \in 0..Now
      /\ got \in [Calls -> 0..Now]
  BY <1>2 DEF Init, Now
<1>7. answer \in [Calls -> SUBSET Partitions] /\ readers \subseteq Calls
      /\ committed \subseteq Partitions
  BY DEF Init
<1> QED
  BY <1>2, <1>3, <1>4, <1>5, <1>6, <1>7 DEF TypeInv, TypeOK, Now

\* The history only becomes longer, by what the topics have become.
LEMMA HistoryGrows ==
    ASSUME TypeInv, NEW topics \in TopicTables, NEW offsets, Becomes(topics, offsets)
    PROVE  /\ history' \in Seq(TopicTables)
           /\ Now \in Nat /\ Now' \in Nat /\ Now <= Now' /\ 1 <= Now'
           /\ \A n \in 1..Now : history'[n] = history[n]
           /\ \A n \in 1..Now' : n \in 1..Now \/ n = Now'
           /\ history'[Now'] = topics
           /\ Present \in TopicTables
<1> USE DEF TypeInv, TypeOK, Now, Present
<1>0. history \in Seq(TopicTables) /\ Len(history) \in Nat /\ Len(history) # 0
  OBVIOUS
<1>1. CASE topics = Present
  <2>1. history' = history
    BY <1>1 DEF Becomes
  <2> QED
    BY <1>0, <1>1, <2>1
<1>2. CASE topics # Present
  <2>1. history' = Append(history, topics)
    BY <1>2 DEF Becomes
  <2> QED
    BY <1>0, <2>1
<1> QED
  BY <1>1, <1>2

\* Steps of a call that leave the broker alone.
LEMMA TypeBegin1 ==
    ASSUME TypeInv, NEW c \in Calls, NEW op, NEW to \in CallStates \ {"store", "ask"},
           Begin(c, op, to)
    PROVE  TypeInv'
<1>1. view' \in [Calls -> Views]
  BY DEF Begin, TypeInv, TypeOK, Views, Now
<1>2. request' \in [Calls -> Requests]
  BY DEF Begin, TypeInv, TypeOK
<1>3. call' \in [Calls -> CallStates] /\ call'[c] \notin {"store", "ask"}
      /\ \A d \in Calls \ {c} : call'[d] = call[d]
  BY DEF Begin, CallGoes, TypeInv, TypeOK
<1>4. UNCHANGED <<history, committed, cache, readers, listed, got, answer>>
  BY DEF Begin, brokerVars, cacheVars
<1> QED
  BY <1>1, <1>2, <1>3, <1>4 DEF TypeInv, TypeOK, Now

LEMMA TypeBegin ==
    ASSUME TypeInv, NEW c \in Calls, Begins(c)
    PROVE  TypeInv'
<1>1. {"clear", "topic", "apply", "lock", "group"} \subseteq CallStates \ {"store", "ask"}
  BY DEF CallStates
<1>2. CASE BeginList(c)
  BY <1>1, <1>2, TypeBegin1 DEF BeginList
<1>3. CASE BeginInfo(c)
  BY <1>1, <1>3, TypeBegin1 DEF BeginInfo
<1>4. CASE BeginDelete(c)
  BY <1>1, <1>4, TypeBegin1 DEF BeginDelete
<1>5. CASE BeginCreate(c)
  BY <1>1, <1>5, TypeBegin1 DEF BeginCreate
<1>6. CASE BeginDescribe(c)
  BY <1>1, <1>6, TypeBegin1 DEF BeginDescribe
<1>7. CASE BeginOffsets(c)
  BY <1>1, <1>7, TypeBegin1 DEF BeginOffsets
<1>8. CASE BeginSetGroup(c)
  BY <1>1, <1>8, TypeBegin1 DEF BeginSetGroup
<1>9. CASE BeginDeleteGroup(c)
  BY <1>1, <1>9, TypeBegin1 DEF BeginDeleteGroup
<1> QED
  BY <1>2, <1>3, <1>4, <1>5, <1>6, <1>7, <1>8, <1>9 DEF Begins

LEMMA TypeReturns ==
    ASSUME TypeInv, NEW c \in Calls, Returns(c)
    PROVE  TypeInv'
<1>1. view' \in [Calls -> Views]
  BY DEF Returns, TypeInv, TypeOK, Views, NoView
<1>2. request' \in [Calls -> Requests]
  BY NoRequestIsList DEF Returns, TypeInv, TypeOK
<1>3. call' \in [Calls -> CallStates] /\ call'[c] = "ready"
      /\ \A d \in Calls \ {c} : call'[d] = call[d] /\ got'[d] = got[d]
  BY DEF Returns, TypeInv, TypeOK, CallStates
<1>4. UNCHANGED <<history, committed, cache, readers, listed>>
  BY DEF Returns, brokerVars, cacheVars
<1>5. got' \in [Calls -> 0..Now] /\ answer' \in [Calls -> SUBSET Partitions]
  BY DEF Returns, TypeInv, TypeOK, Now
<1> QED
  BY <1>1, <1>2, <1>3, <1>4, <1>5 DEF TypeInv, TypeOK, Now

LEMMA MuddledView ==
    ASSUME NEW w \in Views, NEW b \in BOOLEAN
    PROVE  [w EXCEPT !.muddled = b] \in Views
BY DEF Views

LEMMA TypeCache ==
    ASSUME TypeInv, NEW c \in Calls,
           LocksCache(c) \/ Lookup(c) \/ ClearCache(c) \/ Fetch(c) \/ StoreCache(c)
    PROVE  TypeInv'
<1> USE DEF TypeInv, TypeOK, Now, CallGoes, CallStates, brokerVars, cacheVars
<1>1. CASE LocksCache(c)
  BY <1>1 DEF LocksCache
<1>2. CASE Lookup(c)
  <2>1. CASE ~request[c].ignore /\ cache.at # 0 /\ AllOf(cache.at) # {}
    <3>1. view' = [view EXCEPT ![c].muddled = cache.muddled]
      BY <1>2, <2>1 DEF Lookup
    <3>2. [view[c] EXCEPT !.muddled = cache.muddled] \in Views
      BY MuddledView
    <3>3. view' \in [Calls -> Views]
      BY <3>1, <3>2
    <3>4. call' = [call EXCEPT ![c] = "ask"] /\ got' = [got EXCEPT ![c] = cache.at]
      BY <1>2, <2>1 DEF Lookup
    <3>5. readers' = readers \ {c} /\ UNCHANGED <<history, committed, cache, listed, request, answer>>
      BY <1>2 DEF Lookup
    <3>6. cache.at \in 0..Now /\ cache.at # 0
      BY <2>1
    <3> QED
      BY <3>3, <3>4, <3>5, <3>6
  <2>2. CASE ~(~request[c].ignore /\ cache.at # 0 /\ AllOf(cache.at) # {})
    BY <1>2, <2>2 DEF Lookup
  <2> QED
    BY <2>1, <2>2
<1>3. CASE ClearCache(c)
  BY <1>3 DEF ClearCache
<1>4. CASE Fetch(c)
  <2>1. \A d \in Calls : [view[d] EXCEPT !.muddled = call[d] # "ready"] \in Views
    BY MuddledView
  <2>2. view' \in [Calls -> Views]
    BY <1>4, <2>1 DEF Fetch
  <2>3. AllOf(Now) \in SUBSET Partitions
    BY DEF AllOf
  <2>4. answer' \in [Calls -> SUBSET Partitions]
    BY <1>4, <2>3 DEF Fetch
  <2>5. listed' \in 0..Now /\ got' \in [Calls -> 0..Now] /\ got'[c] # 0
        /\ \A d \in Calls \ {c} : got'[d] = got[d]
    BY <1>4 DEF Fetch
  <2>6. call' \in [Calls -> CallStates] /\ \A d \in Calls \ {c} : call'[d] = call[d]
    BY <1>4 DEF Fetch
  <2>7. UNCHANGED <<history, committed, cache, readers, request>>
    BY <1>4 DEF Fetch
  <2> QED
    BY <2>2, <2>4, <2>5, <2>6, <2>7
<1>5. CASE StoreCache(c)
  BY <1>5 DEF StoreCache, Views
<1> QED
  BY <1>1, <1>2, <1>3, <1>4, <1>5

Failure(c) == \/ Fails(c, "fetch", "metadata") \/ Fails(c, "topic", "metadata")
              \/ Fails(c, "group", "refused") \/ Fails(c, "ask", "committed")

LEMMA TypeAsks ==
    ASSUME TypeInv, NEW c \in Calls,
           \/ AsksOffsets(c) \/ AsksCommitted(c) \/ AsksTopic(c) \/ AsksConfiguration(c)
           \/ Refused(c) \/ Failure(c)
    PROVE  TypeInv'
<1> USE DEF TypeInv, TypeOK, Now, CallGoes, CallStates, brokerVars, cacheVars
<1>1. CASE AsksOffsets(c)
  BY <1>1 DEF AsksOffsets, InList, AllOf
<1>2. CASE AsksCommitted(c)
  <2> DEFINE L == UNION {InList(got[c], t) : t \in Topics}
  <2>1. answer' = [answer EXCEPT ![c] = L \cap committed]
    BY <1>2 DEF AsksCommitted
  <2> HIDE DEF L
  <2>2. answer' \in [Calls -> SUBSET Partitions]
    BY <2>1
  <2> QED
    BY <1>2, <2>2 DEF AsksCommitted
<1>3. CASE AsksTopic(c)
  <2>1. CASE Present[request[c].topic] = 0
    BY <1>3, <2>1 DEF AsksTopic
  <2>2. CASE Present[request[c].topic] # 0
    <3>1. InList(Now, request[c].topic) \in SUBSET Partitions
      BY DEF InList, AllOf
    <3>2. answer' \in [Calls -> SUBSET Partitions]
      BY <1>3, <2>2, <3>1 DEF AsksTopic
    <3>3. call' = [call EXCEPT ![c] = "config"] /\ got' = [got EXCEPT ![c] = Now]
      BY <1>3, <2>2 DEF AsksTopic
    <3>4. UNCHANGED <<history, committed, cache, readers, listed, request, view>>
      BY <1>3 DEF AsksTopic
    <3> QED
      BY <3>2, <3>3, <3>4
  <2> QED
    BY <2>1, <2>2
<1>4. CASE AsksConfiguration(c)
  BY <1>4 DEF AsksConfiguration
<1>5. CASE Refused(c)
  BY <1>5 DEF Refused
<1>6. CASE Failure(c)
  BY <1>6 DEF Failure, Fails
<1> QED
  BY <1>1, <1>2, <1>3, <1>4, <1>5, <1>6

\* The four commands that change what the broker has.
Changes(c) == CreateTopic(c) \/ DeleteTopic(c) \/ SetGroup(c) \/ DeleteGroup(c)

LEMMA ChangeShape ==
    ASSUME TypeInv, NEW c \in Calls, Changes(c)
    PROVE  \E topics \in TopicTables, offsets \in SUBSET Partitions :
              /\ Becomes(topics, offsets)
              /\ \E from \in {"apply", "group"} : CallGoes(c, from, "done")
              /\ UNCHANGED answer
              /\ request[c].op \in {"create", "delete", "set_group", "delete_group"}
              /\ \/ topics # Present /\ offsets = committed /\ \E t \in Topics :
                       /\ Present[t] = 0
                       /\ \A u \in Topics \ {t} : topics[u] = Present[u]
                 \/ \E t \in Topics : /\ offsets = {tp \in committed : tp[1] # t}
                                      /\ \A u \in Topics \ {t} : topics[u] = Present[u]
                 \/ topics = Present /\ offsets \subseteq committed \cup AllOf(Now)
<1>0. Present \in TopicTables /\ request[c].topic \in Topics
  BY RequestFields DEF TypeInv, TypeOK, Present, Now
<1> DEFINE t == request[c].topic
<1>1. CASE CreateTopic(c)
  <2>1. PICK n \in 1..MaxPartitions : Becomes([Present EXCEPT ![t] = n], committed)
    BY <1>1 DEF CreateTopic
  <2>2. Present[t] = 0 /\ CallGoes(c, "apply", "done") /\ UNCHANGED answer
        /\ request[c].op \in {"create", "delete"}
    BY <1>1 DEF CreateTopic
  <2>3. [Present EXCEPT ![t] = n] \in TopicTables
    BY <1>0, AdminAssumption DEF TopicTables
  <2>4. [Present EXCEPT ![t] = n] # Present
    BY <1>0, <2>2 DEF TopicTables
  <2> QED
    BY <1>0, <2>1, <2>2, <2>3, <2>4 DEF TypeInv, TypeOK, TopicTables
<1>2. CASE DeleteTopic(c)
  <2>1. Becomes([Present EXCEPT ![t] = 0], {tp \in committed : tp[1] # t})
        /\ CallGoes(c, "apply", "done") /\ UNCHANGED answer
        /\ request[c].op \in {"create", "delete"}
    BY <1>2 DEF DeleteTopic
  <2>2. [Present EXCEPT ![t] = 0] \in TopicTables
    BY <1>0, AdminAssumption DEF TopicTables
  <2>3. {tp \in committed : tp[1] # t} \in SUBSET Partitions
    BY DEF TypeInv, TypeOK
  <2> QED
    BY <1>0, <2>1, <2>2, <2>3 DEF TopicTables
<1>3. CASE SetGroup(c)
  <2>1. PICK ts \in SUBSET Topics : Becomes(Present, committed \cup UNION {InList(Now, u) : u \in ts})
    BY <1>3 DEF SetGroup
  <2>2. CallGoes(c, "group", "done") /\ UNCHANGED answer
        /\ request[c].op = "set_group"
    BY <1>3 DEF SetGroup
  <2>3. UNION {InList(Now, u) : u \in ts} \subseteq AllOf(Now)
    BY DEF InList
  <2>4. committed \cup UNION {InList(Now, u) : u \in ts} \in SUBSET Partitions
    BY <2>3 DEF AllOf, TypeInv, TypeOK
  <2> QED
    BY <1>0, <2>1, <2>2, <2>3, <2>4
<1>4. CASE DeleteGroup(c)
  BY <1>0, <1>4 DEF DeleteGroup
<1> QED
  BY <1>1, <1>2, <1>3, <1>4 DEF Changes

LEMMA TypeChanges ==
    ASSUME TypeInv, NEW c \in Calls, Changes(c)
    PROVE  TypeInv'
<1>1. PICK topics \in TopicTables, offsets \in SUBSET Partitions :
         /\ Becomes(topics, offsets)
         /\ \E from \in {"apply", "group"} : CallGoes(c, from, "done")
         /\ UNCHANGED answer
  BY ChangeShape
<1>2. view' \in [Calls -> Views]
  BY <1>1 DEF Becomes, TypeInv, TypeOK, Views
<1>3. history' \in Seq(TopicTables) /\ Now \in Nat /\ Now' \in Nat /\ Now <= Now' /\ 1 <= Now'
  BY <1>1, HistoryGrows
<1>4. committed' \subseteq Partitions /\ UNCHANGED <<cache, readers, listed, request, got, answer>>
  BY <1>1 DEF Becomes, cacheVars
<1>5. call' \in [Calls -> CallStates] /\ call'[c] = "done"
      /\ \A d \in Calls \ {c} : call'[d] = call[d]
  BY <1>1 DEF CallGoes, TypeInv, TypeOK, CallStates
<1> QED
  BY <1>2, <1>3, <1>4, <1>5 DEF TypeInv, TypeOK

\* The steps of a call, in the groups in which the proofs treat them.
LEMMA StepsSplit ==
    ASSUME NEW c \in Calls, Steps(c)
    PROVE  \/ LocksCache(c) \/ Lookup(c) \/ ClearCache(c) \/ Fetch(c) \/ StoreCache(c)
           \/ AsksOffsets(c) \/ AsksCommitted(c) \/ AsksTopic(c) \/ AsksConfiguration(c)
           \/ Refused(c) \/ Failure(c)
           \/ Changes(c)
BY DEF Steps, Changes, Failure

LEMMA TypeStep == TypeInv /\ [Next]_vars => TypeInv'
<1> SUFFICES ASSUME TypeInv, [Next]_vars PROVE TypeInv'
  OBVIOUS
<1>1. ASSUME NEW c \in Calls, Begins(c) PROVE TypeInv'
  BY <1>1, TypeBegin
<1>2. ASSUME NEW c \in Calls, Steps(c) PROVE TypeInv'
  BY <1>2, StepsSplit, TypeCache, TypeAsks, TypeChanges
<1>3. ASSUME NEW c \in Calls, Returns(c) PROVE TypeInv'
  BY <1>3, TypeReturns
<1>4. CASE UNCHANGED vars
  BY <1>4 DEF vars, brokerVars, cacheVars, callVars, TypeInv, TypeOK, Now
<1> QED
  BY <1>1, <1>2, <1>3, <1>4 DEF Next

\* Every variable keeps its type, and no command works with a list that was cleared.
THEOREM TypeCorrect == Spec => []TypeOK
<1>1. TypeInv => TypeOK
  BY DEF TypeInv
<1> QED
  BY <1>1, TypeInit, TypeStep, PTL DEF Spec
-----------------------------------------------------------------------------
(* How old a list can be *)

WithList == {"store", "ask", "done"}

\* What is true of each call: the list it works with is no older than its question asks
\* for, and the point it is at fits what it was asked.
CallInv(c) ==
    /\ view[c].began <= Now /\ view[c].listed <= listed
    /\ call[c] \in {"lock", "lookup", "store", "ask"} => request[c].op \in {"offsets", "describe"}
    /\ call[c] \in {"topic", "config"} => request[c].op = "info"
    /\ call[c] \in {"clear", "fetch"} => request[c].op \in {"list", "offsets", "describe"}
    /\ call[c] \in WithList /\ (request[c].op = "list" \/ request[c].ignore)
          => got[c] >= view[c].began
    /\ call[c] \in WithList /\ request[c].op \in {"offsets", "describe"}
          => got[c] # 0 /\ (got[c] >= view[c].listed \/ view[c].muddled)
    /\ call[c] = "store" => got[c] >= listed \/ view[c].muddled

\* The cached list is no older than the last listing, or marked; while a listing asks the
\* broker there is none that is not marked.
CacheInv ==
    /\ cache.at # 0 => cache.at >= listed \/ cache.muddled
    /\ \A c \in Calls : call[c] = "fetch" /\ request[c].op = "list"
                           => cache.at = 0 \/ cache.muddled

AgeInv == CacheInv /\ \A c \in Calls : CallInv(c)

LEMMA AgeInit == Init => AgeInv
<1> SUFFICES ASSUME Init PROVE AgeInv
  OBVIOUS
<1>1. PICK ts \in TopicTables : history = <<ts>>
  BY DEF Init
<1>2. Now = 1
  BY <1>1 DEF Now
<1>3. \A c \in Calls : call[c] = "ready" /\ view[c].began = 0 /\ view[c].listed = 0
  BY DEF Init, NoView
<1>4. cache.at = 0 /\ listed = 0
  BY DEF Init
<1> QED
  BY <1>2, <1>3, <1>4 DEF AgeInv, CacheInv, CallInv, WithList

\* Only c has moved.
Alone(c) ==
    /\ UNCHANGED <<history, listed>>
    /\ \A d \in Calls \ {c} : /\ call'[d] = call[d] /\ request'[d] = request[d]
                              /\ got'[d] = got[d] /\ view'[d] = view[d]

LEMMA AloneKeeps ==
    ASSUME TypeInv, AgeInv, NEW c \in Calls, Alone(c)
    PROVE  \A d \in Calls \ {c} : CallInv(d)'
BY DEF Alone, AgeInv, CallInv, Now, WithList

\* The cache is as it was, or empty.
LEMMA CacheKept ==
    ASSUME AgeInv, NEW c \in Calls, Alone(c), cache' = cache \/ cache'.at = 0,
           call'[c] = "fetch" /\ request'[c].op = "list" => cache'.at = 0
    PROVE  CacheInv'
BY DEF Alone, AgeInv, CacheInv

LEMMA AgeBegin1 ==
    ASSUME TypeInv, AgeInv, NEW c \in Calls, NEW op, NEW to, Begin(c, op, to),
           to \in {"lock"} => op \in {"offsets", "describe"},
           to \in {"topic"} => op = "info",
           to \in {"clear"} => op = "list",
           to \in {"clear", "lock", "topic", "apply", "group"}
    PROVE  AgeInv'
<1>1. request'[c].op = op /\ call'[c] = to
  BY DEF Begin, CallGoes, TypeInv, TypeOK
<1>2. view'[c].began = Now /\ view'[c].listed = listed
  BY DEF Begin, TypeInv, TypeOK
<1>3. Alone(c) /\ cache' = cache
  BY DEF Alone, Begin, CallGoes, brokerVars, cacheVars, TypeInv, TypeOK
<1>4. CallInv(c)'
  <2>1. Now \in Nat /\ listed \in Nat /\ Now' = Now /\ listed' = listed
    BY <1>3 DEF Alone, TypeInv, TypeOK, Now
  <2> QED
    BY <1>1, <1>2, <2>1 DEF CallInv, WithList
<1> QED
  BY <1>1, <1>3, <1>4, AloneKeeps, CacheKept DEF AgeInv

LEMMA AgeBegin ==
    ASSUME TypeInv, AgeInv, NEW c \in Calls, Begins(c)
    PROVE  AgeInv'
<1>2. CASE BeginList(c)
  BY <1>2, AgeBegin1 DEF BeginList
<1>3. CASE BeginInfo(c)
  BY <1>3, AgeBegin1 DEF BeginInfo
<1>4. CASE BeginDelete(c)
  BY <1>4, AgeBegin1 DEF BeginDelete
<1>5. CASE BeginCreate(c)
  BY <1>5, AgeBegin1 DEF BeginCreate
<1>6. CASE BeginDescribe(c)
  BY <1>6, AgeBegin1 DEF BeginDescribe
<1>7. CASE BeginOffsets(c)
  BY <1>7, AgeBegin1 DEF BeginOffsets
<1>8. CASE BeginSetGroup(c)
  BY <1>8, AgeBegin1 DEF BeginSetGroup
<1>9. CASE BeginDeleteGroup(c)
  BY <1>9, AgeBegin1 DEF BeginDeleteGroup
<1> QED
  BY <1>2, <1>3, <1>4, <1>5, <1>6, <1>7, <1>8, <1>9 DEF Begins

LEMMA AgeReturns ==
    ASSUME TypeInv, AgeInv, NEW c \in Calls, Returns(c)
    PROVE  AgeInv'
<1>1. Alone(c) /\ cache' = cache /\ call'[c] = "ready" /\ view'[c].began = 0 /\ view'[c].listed = 0
  BY DEF Alone, Returns, NoView, brokerVars, cacheVars, TypeInv, TypeOK
<1>2. Now' \in Nat /\ listed' \in Nat
  BY <1>1 DEF Alone, TypeInv, TypeOK, Now
<1>3. CallInv(c)'
  BY <1>1, <1>2 DEF CallInv, WithList
<1> QED
  BY <1>1, <1>3, AloneKeeps, CacheKept DEF AgeInv

\* The list is used if it is there and may be: no call that ignores it, or lists, does so.
LEMMA AgeLookup ==
    ASSUME TypeInv, AgeInv, NEW c \in Calls, Lookup(c)
    PROVE  AgeInv'
<1>1. Alone(c) /\ cache' = cache /\ request' = request
  BY DEF Alone, Lookup, TypeInv, TypeOK, brokerVars
<1>2. request[c].op \in {"offsets", "describe"} /\ view[c].listed <= listed
      /\ view[c].began <= Now /\ call[c] = "lookup"
  BY DEF Lookup, AgeInv, CallInv
<1>3. listed \in Nat /\ cache.at \in Nat /\ view[c].listed \in Nat /\ cache.muddled \in BOOLEAN
      /\ Now \in Nat
  BY DEF TypeInv, TypeOK, Views, Now
<1>4. CASE ~request[c].ignore /\ cache.at # 0 /\ AllOf(cache.at) # {}
  <2>1. call'[c] = "ask" /\ got'[c] = cache.at
    BY <1>4 DEF Lookup, TypeInv, TypeOK
  <2>2. view'[c] = [view[c] EXCEPT !.muddled = cache.muddled]
    BY <1>4 DEF Lookup, TypeInv, TypeOK
  <2>3. view'[c].began = view[c].began /\ view'[c].listed = view[c].listed
        /\ view'[c].muddled = cache.muddled
    BY <2>2 DEF TypeInv, TypeOK, Views
  <2>4. cache.at >= view[c].listed \/ cache.muddled
    BY <1>2, <1>3, <1>4 DEF AgeInv, CacheInv
  <2>5. CallInv(c)'
    BY <1>1, <1>2, <1>3, <1>4, <2>1, <2>3, <2>4 DEF CallInv, WithList, Alone, Now
  <2> QED
    BY <1>1, <2>1, <2>5, AloneKeeps, CacheKept DEF AgeInv
<1>5. CASE ~(~request[c].ignore /\ cache.at # 0 /\ AllOf(cache.at) # {})
  <2>1. call'[c] = "clear" /\ got' = got /\ view' = view
    BY <1>5 DEF Lookup, TypeInv, TypeOK
  <2>2. CallInv(c)'
    BY <1>1, <1>2, <1>3, <2>1 DEF CallInv, WithList, Alone, Now
  <2> QED
    BY <1>1, <2>1, <2>2, AloneKeeps, CacheKept DEF AgeInv
<1> QED
  BY <1>4, <1>5

LEMMA AgeFetch ==
    ASSUME TypeInv, AgeInv, NEW c \in Calls, Fetch(c)
    PROVE  AgeInv'
<1>1. history' = history /\ cache' = cache /\ request' = request /\ Now' = Now
  BY DEF Fetch, brokerVars, cacheVars, Now
<1>2. got'[c] = Now /\ call[c] = "fetch" /\ \A d \in Calls \ {c} : got'[d] = got[d] /\ call'[d] = call[d]
  BY DEF Fetch, CallGoes, TypeInv, TypeOK
<1>3. Now \in Nat /\ Now # 0 /\ listed \in 0..Now
  BY DEF TypeInv, TypeOK, Now
<1>4. \A d \in Calls : view[d] \in Views /\ view[d].began \in Nat /\ view[d].listed \in Nat
  BY DEF TypeInv, TypeOK, Views
<1>5. CASE request[c].op = "list"
  <2>1. listed' = Now /\ call'[c] = "done"
    BY <1>5 DEF Fetch, CallGoes, TypeInv, TypeOK
  <2>2. ASSUME NEW d \in Calls PROVE CallInv(d)'
    <3>1. view'[d] = [view[d] EXCEPT !.muddled = call[d] # "ready"]
      BY <1>5 DEF Fetch
    <3>2. view'[d].began = view[d].began /\ view'[d].listed = view[d].listed
          /\ (view'[d].muddled <=> call[d] # "ready")
      BY <1>4, <3>1 DEF Views
    <3>3. CallInv(d)
      BY DEF AgeInv
    <3>4. CASE d = c
      BY <1>1, <1>2, <1>3, <1>4, <1>5, <2>1, <3>2, <3>3, <3>4 DEF CallInv, WithList
    <3>5. CASE d # c
      BY <1>1, <1>2, <1>3, <1>4, <2>1, <3>2, <3>3, <3>5 DEF CallInv, WithList
    <3> QED
      BY <3>4, <3>5
  <2>3. CacheInv'
    BY <1>1, <1>2, <1>3, <1>5, <2>1 DEF AgeInv, CacheInv
  <2> QED
    BY <2>2, <2>3 DEF AgeInv
<1>6. CASE request[c].op # "list"
  <2>1. listed' = listed /\ view' = view /\ call'[c] = "store"
    BY <1>6 DEF Fetch, CallGoes, TypeInv, TypeOK
  <2>2. CallInv(c) /\ request[c].op \in {"offsets", "describe"}
    BY <1>2, <1>6 DEF AgeInv, CallInv
  <2>3. CallInv(c)'
    BY <1>1, <1>2, <1>3, <1>4, <2>1, <2>2 DEF CallInv, WithList
  <2>4. Alone(c)
    BY <1>1, <1>2, <2>1 DEF Alone
  <2> QED
    BY <1>1, <2>1, <2>3, <2>4, AloneKeeps, CacheKept DEF AgeInv
<1> QED
  BY <1>5, <1>6

LEMMA AgeStore ==
    ASSUME TypeInv, AgeInv, NEW c \in Calls, StoreCache(c)
    PROVE  AgeInv'
<1>1. Alone(c) /\ request' = request /\ view' = view /\ got' = got /\ call'[c] = "ask"
      /\ call[c] = "store" /\ call' = [call EXCEPT ![c] = "ask"]
  BY DEF Alone, StoreCache, CallGoes, TypeInv, TypeOK, brokerVars
<1>2. cache'.at = got[c] /\ cache'.muddled = (view[c].muddled \/ \E d \in Calls : Listing(d))
  BY DEF StoreCache
<1>3. got[c] >= listed \/ view[c].muddled
  BY <1>1 DEF AgeInv, CallInv
<1>4. CacheInv'
  <2>1. ASSUME NEW d \in Calls, call'[d] = "fetch", request'[d].op = "list"
        PROVE  cache'.muddled
    <3>1. call[d] = "fetch" /\ request[d].op = "list"
      BY <1>1, <2>1 DEF TypeInv, TypeOK
    <3> QED
      BY <1>2, <3>1 DEF Listing
  <2> QED
    BY <1>1, <1>2, <1>3, <2>1 DEF CacheInv, Alone
<1>5. CallInv(c)'
  <2>1. CallInv(c)
    BY DEF AgeInv
  <2> QED
    BY <1>1, <2>1 DEF CallInv, WithList, Alone, Now
<1> QED
  BY <1>1, <1>4, <1>5, AloneKeeps DEF AgeInv

\* Steps on the way, and the answers: the list a call works with stays what it is.
LEMMA AgeSame ==
    ASSUME TypeInv, AgeInv, NEW c \in Calls, NEW from, NEW to, CallGoes(c, from, to),
           UNCHANGED <<history, listed, request, view>>, cache' = cache \/ cache'.at = 0,
           to = "fetch" => cache'.at = 0,
           \/ to = "failed"
           \/ to \in {"lookup", "done"} /\ got' = got
                /\ (to = "lookup" => from = "lock")
                /\ (to = "done" => from \in {"ask"} \/ request[c].op = "info")
           \/ from = "topic" /\ to = "config"
           \/ from = "clear" /\ to = "fetch",
           \A d \in Calls \ {c} : got'[d] = got[d]
    PROVE  AgeInv'
<1>1. Alone(c) /\ call[c] = from /\ call'[c] = to
  BY DEF Alone, CallGoes, TypeInv, TypeOK
<1>2. CallInv(c) /\ request[c] \in Requests
  BY DEF AgeInv, TypeInv, TypeOK
<1>3. request[c].op = "info" => ~request[c].ignore
  BY <1>2, RequestFields
<1>4. CallInv(c)'
  BY <1>1, <1>2, <1>3 DEF CallInv, WithList, Now
<1>5. CacheInv'
  BY <1>1, CacheKept
<1> QED
  BY <1>1, <1>4, <1>5, AloneKeeps DEF AgeInv

LEMMA AgeOthers ==
    ASSUME TypeInv, AgeInv, NEW c \in Calls,
           \/ LocksCache(c) \/ ClearCache(c) \/ AsksOffsets(c) \/ AsksCommitted(c)
           \/ AsksTopic(c) \/ AsksConfiguration(c) \/ Refused(c) \/ Failure(c)
    PROVE  AgeInv'
<1>0. CallInv(c) /\ got \in [Calls -> 0..Now]
  BY DEF AgeInv, TypeInv, TypeOK
<1>1. CASE LocksCache(c)
  BY <1>1, AgeSame DEF LocksCache, brokerVars
<1>2. CASE ClearCache(c)
  <2>1. cache'.at = 0
    BY <1>2 DEF ClearCache
  <2> QED
    BY <1>2, <2>1, AgeSame DEF ClearCache, brokerVars
<1>3. CASE AsksOffsets(c)
  BY <1>3, AgeSame DEF AsksOffsets, brokerVars, cacheVars
<1>4. CASE AsksCommitted(c)
  BY <1>4, AgeSame DEF AsksCommitted, brokerVars, cacheVars
<1>5. CASE AsksTopic(c)
  <2>1. CASE Present[request[c].topic] = 0
    <3>1. CallGoes(c, "topic", "failed") /\ UNCHANGED <<history, listed, request, view, cache, got>>
      BY <1>5, <2>1 DEF AsksTopic, CallGoes, brokerVars, cacheVars
    <3> QED
      BY <3>1, AgeSame
  <2>2. CASE Present[request[c].topic] # 0
    <3>1. CallGoes(c, "topic", "config") /\ UNCHANGED <<history, listed, request, view, cache>>
      BY <1>5, <2>2 DEF AsksTopic, CallGoes, brokerVars, cacheVars
    <3>2. \A d \in Calls \ {c} : got'[d] = got[d]
      BY <1>0, <1>5, <2>2 DEF AsksTopic
    <3> QED
      BY <3>1, <3>2, AgeSame
  <2> QED
    BY <2>1, <2>2
<1>6. CASE AsksConfiguration(c)
  <2>1. request[c].op = "info"
    BY <1>0, <1>6 DEF AsksConfiguration, CallGoes, CallInv
  <2> QED
    BY <1>6, <2>1, AgeSame DEF AsksConfiguration, brokerVars, cacheVars
<1>7. CASE Refused(c)
  BY <1>7, AgeSame DEF Refused, brokerVars, cacheVars
<1>8. CASE Failure(c)
  <2>1. PICK from \in CallStates : CallGoes(c, from, "failed")
    BY <1>8 DEF Failure, Fails, CallStates
  <2>2. UNCHANGED <<history, listed, request, view, cache, got>>
    BY <1>8 DEF Failure, Fails, brokerVars, cacheVars
  <2> QED
    BY <2>1, <2>2, AgeSame
<1> QED
  BY <1>1, <1>2, <1>3, <1>4, <1>5, <1>6, <1>7, <1>8

LEMMA AgeChanges ==
    ASSUME TypeInv, AgeInv, NEW c \in Calls, Changes(c)
    PROVE  AgeInv'
<1>1. PICK topics \in TopicTables, offsets \in SUBSET Partitions :
         /\ Becomes(topics, offsets)
         /\ \E from \in {"apply", "group"} : CallGoes(c, from, "done")
         /\ request[c].op \in {"create", "delete", "set_group", "delete_group"}
  BY ChangeShape
<1>2. Now \in Nat /\ Now' \in Nat /\ Now <= Now'
  BY <1>1, HistoryGrows
<1>3. UNCHANGED <<cache, listed, request, got>>
  BY <1>1 DEF Becomes, cacheVars
<1>4. \A d \in Calls : /\ view[d] \in Views /\ view'[d].began = view[d].began
                       /\ view'[d].listed = view[d].listed
                       /\ view'[d].muddled = view[d].muddled
  BY <1>1 DEF Becomes, TypeInv, TypeOK, Views
<1>5. call'[c] = "done" /\ \A d \in Calls \ {c} : call'[d] = call[d]
  BY <1>1 DEF CallGoes, TypeInv, TypeOK
<1>6. request[c] \in Requests /\ ~request[c].ignore
  BY <1>1, RequestFields DEF TypeInv, TypeOK
<1>7. ASSUME NEW d \in Calls PROVE CallInv(d)'
  <2>1. CallInv(d) /\ view[d].began \in Nat
    BY <1>4 DEF AgeInv, Views
  <2>2. CASE d = c
    BY <1>1, <1>2, <1>3, <1>4, <1>5, <1>6, <2>1, <2>2 DEF CallInv, WithList
  <2>3. CASE d # c
    BY <1>2, <1>3, <1>4, <1>5, <2>1, <2>3 DEF CallInv, WithList
  <2> QED
    BY <2>2, <2>3
<1>8. CacheInv'
  BY <1>3, <1>5 DEF AgeInv, CacheInv
<1> QED
  BY <1>7, <1>8 DEF AgeInv

LEMMA AgeStep == TypeInv /\ AgeInv /\ [Next]_vars => AgeInv'
<1> SUFFICES ASSUME TypeInv, AgeInv, [Next]_vars PROVE AgeInv'
  OBVIOUS
<1>1. ASSUME NEW c \in Calls, Begins(c) PROVE AgeInv'
  BY <1>1, AgeBegin
<1>2. ASSUME NEW c \in Calls, Steps(c) PROVE AgeInv'
  BY <1>2, StepsSplit, AgeOthers, AgeLookup, AgeFetch, AgeStore, AgeChanges
<1>3. ASSUME NEW c \in Calls, Returns(c) PROVE AgeInv'
  BY <1>3, AgeReturns
<1>4. CASE UNCHANGED vars
  BY <1>4 DEF vars, brokerVars, cacheVars, callVars, AgeInv, CacheInv, CallInv, WithList, Now
<1> QED
  BY <1>1, <1>2, <1>3, <1>4 DEF Next

\* Who lists the topics, or asks to ignore the cache, works with what the broker had
\* at some time during the call.
THEOREM ListsAreFresh == Spec => []FreshOnDemand
<1>1. TypeInv /\ AgeInv => FreshOnDemand
  BY DEF AgeInv, CallInv, FreshOnDemand, WithList
<1> QED
  BY <1>1, TypeInit, TypeStep, AgeInit, AgeStep, PTL DEF Spec

\* Who uses the cache after a listing knows what that listing has shown, unless a refresh
\* that overlapped it has stored its own list since.
THEOREM ListingsAreKnown == Spec => []ListedIsKnown
<1>1. TypeInv /\ AgeInv => ListedIsKnown
  BY DEF AgeInv, CallInv, ListedIsKnown, WithList
<1> QED
  BY <1>1, TypeInit, TypeStep, AgeInit, AgeStep, PTL DEF Spec
-----------------------------------------------------------------------------
(* What a description shows *)

\* What a call has seen committed all the time was there in every version since it began,
\* and a finished description has all of it that its list has.
KeptInv ==
    /\ committed \subseteq AllOf(Now)
    /\ \A c \in Calls :
          /\ view[c].kept \subseteq committed
          /\ \A n \in 1..Now : n >= view[c].began => view[c].kept \subseteq AllOf(n)
          /\ call[c] = "done" /\ request[c].op = "describe"
                => view[c].kept \cap AllOf(got[c]) \subseteq answer[c]

LEMMA KeptInit == Init => KeptInv
<1> SUFFICES ASSUME Init PROVE KeptInv
  OBVIOUS
<1>1. \A c \in Calls : call[c] = "ready" /\ view[c].kept = {}
  BY DEF Init, NoView
<1> QED
  BY <1>1 DEF Init, KeptInv

\* A step that leaves the broker alone, and of each call either what it has seen or
\* what it began to see now.
LEMMA KeptSame ==
    ASSUME TypeInv, KeptInv, UNCHANGED <<history, committed>>,
           \A c \in Calls :
              /\ \/ view'[c].kept = view[c].kept /\ view'[c].began = view[c].began
                 \/ view'[c].kept = committed /\ view'[c].began = Now
                 \/ view'[c].kept = {}
              /\ call'[c] = "done" /\ request'[c].op = "describe"
                    => view'[c].kept \cap AllOf(got'[c]) \subseteq answer'[c]
    PROVE  KeptInv'
<1>1. Now' = Now /\ Now \in Nat /\ \A n : AllOf(n)' = AllOf(n)
  BY DEF TypeInv, TypeOK, Now, AllOf
<1> SUFFICES ASSUME NEW c \in Calls
             PROVE  /\ view'[c].kept \subseteq committed
                    /\ \A n \in 1..Now : n >= view'[c].began => view'[c].kept \subseteq AllOf(n)
                    /\ call'[c] = "done" /\ request'[c].op = "describe"
                          => view'[c].kept \cap AllOf(got'[c]) \subseteq answer'[c]
  BY <1>1 DEF KeptInv
<1>2. CASE view'[c].kept = committed /\ view'[c].began = Now
  <2>1. \A n \in 1..Now : n >= Now => n = Now
    BY <1>1
  <2> QED
    BY <1>1, <1>2, <2>1 DEF KeptInv
<1>3. CASE ~(view'[c].kept = committed /\ view'[c].began = Now)
  BY <1>3 DEF KeptInv
<1> QED
  BY <1>2, <1>3

LEMMA KeptBegin ==
    ASSUME TypeInv, KeptInv, NEW c \in Calls, NEW op, NEW to, Begin(c, op, to),
           to # "done"
    PROVE  KeptInv'
<1>1. UNCHANGED <<history, committed, got, answer>>
  BY DEF Begin, brokerVars
<1>2. view'[c].kept = committed /\ view'[c].began = Now /\ call'[c] = to
  BY DEF Begin, CallGoes, TypeInv, TypeOK
<1>3. \A d \in Calls \ {c} : view'[d] = view[d] /\ call'[d] = call[d] /\ request'[d] = request[d]
  BY DEF Begin, CallGoes, TypeInv, TypeOK
<1>4. \A d \in Calls : call'[d] = "done" => d # c
  BY <1>2
<1> QED
  BY <1>1, <1>2, <1>3, <1>4, KeptSame DEF KeptInv

LEMMA KeptReturns ==
    ASSUME TypeInv, KeptInv, NEW c \in Calls, Returns(c)
    PROVE  KeptInv'
<1>1. UNCHANGED <<history, committed>>
  BY DEF Returns, brokerVars
<1>2. view'[c].kept = {} /\ call'[c] = "ready"
  BY DEF Returns, NoView, TypeInv, TypeOK
<1>3. \A d \in Calls \ {c} : /\ view'[d] = view[d] /\ call'[d] = call[d] /\ request'[d] = request[d]
                             /\ got'[d] = got[d] /\ answer'[d] = answer[d]
  BY DEF Returns, TypeInv, TypeOK
<1> QED
  BY <1>1, <1>2, <1>3, KeptSame DEF KeptInv

\* Steps that lead to no finished description.
LEMMA KeptOn ==
    ASSUME TypeInv, KeptInv, UNCHANGED <<history, committed, request>>, NEW c \in Calls,
           \A d \in Calls : view'[d].kept = view[d].kept /\ view'[d].began = view[d].began,
           \A d \in Calls \ {c} : call'[d] = call[d] /\ got'[d] = got[d] /\ answer'[d] = answer[d],
           call'[c] = "done" => request[c].op # "describe"
    PROVE  KeptInv'
BY KeptSame DEF KeptInv

LEMMA MuddledKeeps ==
    ASSUME NEW w \in Views, NEW b
    PROVE  [w EXCEPT !.muddled = b].kept = w.kept /\ [w EXCEPT !.muddled = b].began = w.began
BY DEF Views

LEMMA KeptCache ==
    ASSUME TypeInv, KeptInv, NEW c \in Calls,
           LocksCache(c) \/ Lookup(c) \/ ClearCache(c) \/ Fetch(c) \/ StoreCache(c)
    PROVE  KeptInv'
<1> USE DEF CallGoes, TypeInv, TypeOK, brokerVars, cacheVars
<1>1. CASE LocksCache(c)
  BY <1>1, KeptOn DEF LocksCache
<1>2. CASE Lookup(c)
  <2>1. \A d \in Calls : view'[d].kept = view[d].kept /\ view'[d].began = view[d].began
    <3>1. CASE view' = view
      BY <3>1
    <3>2. CASE view' = [view EXCEPT ![c] = [view[c] EXCEPT !.muddled = cache.muddled]]
      <4>1. \A d \in Calls \ {c} : view'[d] = view[d]
        BY <3>2
      <4>2. view'[c] = [view[c] EXCEPT !.muddled = cache.muddled] /\ view[c] \in Views
        BY <3>2
      <4> QED
        <5>1. view'[c].kept = view[c].kept /\ view'[c].began = view[c].began
          BY <4>2, MuddledKeeps
        <5> QED
          BY <4>1, <5>1
    <3> QED
      BY <1>2, <3>1, <3>2 DEF Lookup
  <2>2. call'[c] \in {"ask", "clear"} /\ UNCHANGED <<history, committed, request>>
    BY <1>2 DEF Lookup
  <2>3. \A d \in Calls \ {c} : call'[d] = call[d] /\ got'[d] = got[d] /\ answer'[d] = answer[d]
    BY <1>2 DEF Lookup
  <2> QED
    BY <2>1, <2>2, <2>3, KeptOn
<1>3. CASE ClearCache(c)
  BY <1>3, KeptOn DEF ClearCache
<1>4. CASE Fetch(c)
  <2>1. \A d \in Calls : view'[d].kept = view[d].kept /\ view'[d].began = view[d].began
    <3>1. ASSUME NEW d \in Calls
          PROVE  view'[d].kept = view[d].kept /\ view'[d].began = view[d].began
      <4>1. view[d] \in Views
        OBVIOUS
      <4>2. CASE view' = view
        BY <4>2
      <4>3. CASE view'[d] = [view[d] EXCEPT !.muddled = call[d] # "ready"]
        BY <4>1, <4>3, MuddledKeeps
      <4> QED
        BY <1>4, <4>2, <4>3 DEF Fetch
    <3> QED
      BY <3>1
  <2>2. call'[c] = "done" => request[c].op # "describe"
    BY <1>4 DEF Fetch
  <2>3. \A d \in Calls \ {c} : call'[d] = call[d] /\ got'[d] = got[d] /\ answer'[d] = answer[d]
    BY <1>4 DEF Fetch
  <2>4. UNCHANGED <<history, committed, request>>
    BY <1>4 DEF Fetch
  <2> QED
    BY <2>1, <2>2, <2>3, <2>4, KeptOn
<1>5. CASE StoreCache(c)
  BY <1>5, KeptOn DEF StoreCache
<1> QED
  BY <1>1, <1>2, <1>3, <1>4, <1>5

LEMMA KeptAsks ==
    ASSUME TypeInv, AgeInv, KeptInv, NEW c \in Calls,
           \/ AsksOffsets(c) \/ AsksCommitted(c) \/ AsksTopic(c) \/ AsksConfiguration(c)
           \/ Refused(c) \/ Failure(c)
    PROVE  KeptInv'
<1> USE DEF CallGoes, TypeInv, TypeOK, brokerVars, cacheVars
<1>1. CASE AsksOffsets(c)
  BY <1>1, KeptOn DEF AsksOffsets
<1>2. CASE AsksCommitted(c)
  <2>1. UNCHANGED <<history, committed, request, got, view>>
    BY <1>2 DEF AsksCommitted
  <2>2. \A d \in Calls \ {c} : call'[d] = call[d] /\ answer'[d] = answer[d]
    BY <1>2 DEF AsksCommitted
  <2>3. answer'[c] = (UNION {InList(got[c], t) : t \in Topics}) \cap committed
    BY <1>2 DEF AsksCommitted
  <2>4. AllOf(got[c]) \subseteq UNION {InList(got[c], t) : t \in Topics}
    BY DEF AllOf, InList, Partitions
  <2>5. view[c].kept \cap AllOf(got[c]) \subseteq answer'[c]
    BY <2>3, <2>4 DEF KeptInv
  <2> QED
    BY <2>1, <2>2, <2>5, KeptSame DEF KeptInv
<1>3. CASE AsksTopic(c)
  <2>1. UNCHANGED <<history, committed, request, view>> /\ call'[c] # "done"
    BY <1>3 DEF AsksTopic
  <2>2. \A d \in Calls \ {c} : call'[d] = call[d] /\ got'[d] = got[d] /\ answer'[d] = answer[d]
    BY <1>3 DEF AsksTopic
  <2> QED
    BY <2>1, <2>2, KeptOn
<1>4. CASE AsksConfiguration(c)
  <2>1. request[c].op = "info"
    BY <1>4 DEF AsksConfiguration, AgeInv, CallInv
  <2> QED
    BY <1>4, <2>1, KeptOn DEF AsksConfiguration
<1>5. CASE Refused(c)
  BY <1>5, KeptOn DEF Refused
<1>6. CASE Failure(c)
  <2>1. call'[c] = "failed" /\ \A d \in Calls \ {c} : call'[d] = call[d]
    BY <1>6 DEF Failure, Fails
  <2>2. UNCHANGED <<history, committed, request, view, got, answer>>
    BY <1>6 DEF Failure, Fails
  <2> QED
    BY <2>1, <2>2, KeptOn
<1> QED
  BY <1>1, <1>2, <1>3, <1>4, <1>5, <1>6

\* Whatever changes, the offsets that are left belong to the topics that are left.
LEMMA ChangesFit ==
    ASSUME TypeInv, KeptInv, NEW c \in Calls, Changes(c)
    PROVE  /\ committed' \subseteq AllOf(Now)'
           /\ \A n \in 1..Now : AllOf(n)' = AllOf(n)
<1>1. PICK topics \in TopicTables, offsets \in SUBSET Partitions :
         /\ Becomes(topics, offsets)
         /\ \/ topics # Present /\ offsets = committed /\ \E t \in Topics :
                       /\ Present[t] = 0
                       /\ \A u \in Topics \ {t} : topics[u] = Present[u]
            \/ \E t \in Topics : /\ offsets = {tp \in committed : tp[1] # t}
                                 /\ \A u \in Topics \ {t} : topics[u] = Present[u]
            \/ topics = Present /\ offsets \subseteq committed \cup AllOf(Now)
  BY ChangeShape
<1>2. history'[Now'] = topics /\ \A n \in 1..Now : history'[n] = history[n]
  BY <1>1, HistoryGrows
<1>3. committed' = offsets
  BY <1>1 DEF Becomes
<1>4. AllOf(Now) = {tp \in Partitions : tp[2] <= Present[tp[1]]}
  BY DEF AllOf, Present
<1>5. AllOf(Now)' = {tp \in Partitions : tp[2] <= topics[tp[1]]}
  BY <1>2 DEF AllOf
<1>6. committed \subseteq {tp \in Partitions : tp[2] <= Present[tp[1]]}
  BY <1>4 DEF KeptInv
<1>7. ASSUME NEW tp \in offsets PROVE tp \in Partitions /\ tp[2] <= topics[tp[1]]
  <2>1. tp \in Partitions /\ tp[1] \in Topics /\ tp[2] \in Nat \ {0}
    BY DEF Partitions
  <2> QED
    BY <1>1, <1>4, <1>6, <2>1
<1>8. \A n \in 1..Now : AllOf(n)' = AllOf(n)
  BY <1>2 DEF AllOf
<1> QED
  BY <1>3, <1>5, <1>7, <1>8

LEMMA KeptChanges ==
    ASSUME TypeInv, AgeInv, KeptInv, NEW c \in Calls, Changes(c)
    PROVE  KeptInv'
<1>1. PICK topics \in TopicTables, offsets \in SUBSET Partitions :
         /\ Becomes(topics, offsets)
         /\ \E from \in {"apply", "group"} : CallGoes(c, from, "done")
         /\ UNCHANGED answer
         /\ request[c].op \in {"create", "delete", "set_group", "delete_group"}
  BY ChangeShape
<1>2. \A n \in 1..Now' : n \in 1..Now \/ n = Now'
  BY <1>1, HistoryGrows
<1>3. committed' = offsets /\ UNCHANGED <<request, got, answer>>
  BY <1>1 DEF Becomes
<1>4. \A d \in Calls : view'[d].kept = view[d].kept \cap offsets /\ view'[d].began = view[d].began
  BY <1>1 DEF Becomes, TypeInv, TypeOK, Views
<1>5. committed' \subseteq AllOf(Now)' /\ \A n \in 1..Now : AllOf(n)' = AllOf(n)
  BY ChangesFit
<1>6. call'[c] = "done" /\ \A d \in Calls \ {c} : call'[d] = call[d]
  BY <1>1 DEF CallGoes, TypeInv, TypeOK
<1> SUFFICES ASSUME NEW d \in Calls
             PROVE  /\ view'[d].kept \subseteq committed'
                    /\ \A n \in 1..Now' : n >= view'[d].began => view'[d].kept \subseteq AllOf(n)'
                    /\ call'[d] = "done" /\ request'[d].op = "describe"
                          => view'[d].kept \cap AllOf(got[d])' \subseteq answer'[d]
  BY <1>5 DEF KeptInv
<1>7. view'[d].kept \subseteq committed'
  BY <1>3, <1>4
<1>8. ASSUME NEW n \in 1..Now', n >= view'[d].began PROVE view'[d].kept \subseteq AllOf(n)'
  <2>1. CASE n \in 1..Now
    BY <1>4, <1>5, <1>8, <2>1 DEF KeptInv
  <2>2. CASE n = Now'
    BY <1>5, <1>7, <2>2
  <2> QED
    BY <1>2, <2>1, <2>2
<1>9. ASSUME call'[d] = "done", request'[d].op = "describe"
      PROVE  view'[d].kept \cap AllOf(got[d])' \subseteq answer'[d]
  <2>1. d # c /\ call[d] = "done" /\ request[d].op = "describe"
    BY <1>1, <1>3, <1>6, <1>9
  <2>2. got[d] \in 1..Now
    BY <2>1 DEF AgeInv, CallInv, WithList, TypeInv, TypeOK, Now
  <2>3. PICK n \in 1..Now : n = got[d]
    BY <2>2
  <2>4. AllOf(got[d])' = AllOf(n)'
    BY <1>3, <2>3 DEF AllOf
  <2>5. AllOf(got[d])' = AllOf(got[d])
    BY <1>5, <2>3, <2>4
  <2> QED
    BY <1>3, <1>4, <2>1, <2>5 DEF KeptInv
<1> QED
  BY <1>7, <1>8, <1>9

LEMMA KeptStep == TypeInv /\ AgeInv /\ KeptInv /\ [Next]_vars => KeptInv'
<1> SUFFICES ASSUME TypeInv, AgeInv, KeptInv, [Next]_vars PROVE KeptInv'
  OBVIOUS
<1>1. ASSUME NEW c \in Calls, Begins(c) PROVE KeptInv'
  BY <1>1, KeptBegin DEF Begins, BeginList, BeginInfo, BeginDelete, BeginCreate, BeginDescribe,
         BeginOffsets, BeginSetGroup, BeginDeleteGroup
<1>2. ASSUME NEW c \in Calls, Steps(c) PROVE KeptInv'
  BY <1>2, StepsSplit, KeptCache, KeptAsks, KeptChanges
<1>3. ASSUME NEW c \in Calls, Returns(c) PROVE KeptInv'
  BY <1>3, KeptReturns
<1>4. CASE UNCHANGED vars
  BY <1>4 DEF vars, brokerVars, cacheVars, callVars, KeptInv, AllOf, Now
<1> QED
  BY <1>1, <1>2, <1>3, <1>4 DEF Next

\* A description shows every offset that was committed throughout the call, of all the
\* topics in the list it worked with; of all topics, if it ignores the cache.
THEOREM DescriptionsShowAll == Spec => []DescribeShowsAll
<1>1. ASSUME TypeInv, AgeInv, KeptInv PROVE DescribeShowsAll
  <2> SUFFICES ASSUME NEW c \in Calls, call[c] = "done", request[c].op = "describe",
                      NEW tp \in view[c].kept
               PROVE  tp \in answer[c] \/ (tp \notin AllOf(got[c]) /\ ~request[c].ignore)
    BY DEF DescribeShowsAll
  <2>1. CASE tp \in AllOf(got[c])
    BY <1>1, <2>1 DEF KeptInv
  <2>2. CASE request[c].ignore
    <3>1. got[c] >= view[c].began /\ got[c] \in 1..Now
      BY <1>1, <2>2 DEF AgeInv, CallInv, WithList, TypeInv, TypeOK, Now
    <3> QED
      BY <1>1, <2>1, <3>1 DEF KeptInv
  <2> QED
    BY <2>1, <2>2
<1> QED
  BY <1>1, TypeInit, TypeStep, AgeInit, AgeStep, KeptInit, KeptStep, PTL DEF Spec
=============================================================================
