------------------------------ MODULE KafkaAdmin ------------------------------
(***************************************************************************)
(* The admin client of a cluster (core/admin/*.rs, api/admin.rs): the      *)
(* commands on topics and on consumer groups, and the list of all topics   *)
(* and partitions that get_last_offsets and describe_consumer_group keep   *)
(* behind an RwLock.  list_topics clears that list before it asks the      *)
(* broker; create_topic and delete_topic do not touch it.                  *)
(*                                                                         *)
(* The broker is the history of its topics: a version is the number of     *)
(* changes made to them so far, so that "older" is "less".  A topic is     *)
(* the number of its partitions, 0 when there is none.  One consumer group *)
(* stands for each of them: a command on another one does not touch it.    *)
(***************************************************************************)
EXTENDS Integers, Sequences

CONSTANTS
    Calls,          \* the invocations of commands
    Topics,         \* the names of topics
    MaxPartitions,  \* bound on the partitions of a topic
    MaxChanges,     \* bound on the changes of the topics
    Faults          \* what may fail: "metadata", "committed", "refused"

TopicTables == [Topics -> 0..MaxPartitions]

ASSUME AdminAssumption ==
    /\ Topics # {}
    /\ MaxPartitions \in Nat \ {0}
    /\ MaxChanges \in Nat
    /\ Faults \subseteq {"metadata", "committed", "refused"}

VARIABLES
    history,    \* the topics of the broker after each change, the present ones last
    committed,  \* the partitions the group has a committed offset for
    cache,      \* all_topic_partition_list: the version it was fetched at, 0 if empty
    readers,    \* the calls that hold its read lock
    listed,     \* the version that the last listing has shown
    call,       \* where each call is
    request,    \* what it was asked (arbitrary before)
    got,        \* the version of the list it works with
    answer,     \* the partitions in its answer
    view        \* what it could see when it began (see Views)

brokerVars == <<history, committed>>
cacheVars == <<cache, readers>>
callVars == <<call, request, got, answer, view>>
vars == <<brokerVars, cacheVars, listed, callVars>>

Partitions == Topics \X (1..MaxPartitions)
Requests ==
    [op : {"create", "delete", "info", "offsets"}, topic : Topics, ignore : {FALSE}]
      \cup [op : {"list", "set_group", "delete_group"}, topic : {CHOOSE t \in Topics : TRUE},
            ignore : {FALSE}]
      \cup [op : {"describe"}, topic : {CHOOSE t \in Topics : TRUE}, ignore : BOOLEAN]

NoRequest == CHOOSE r \in Requests : r.op = "list"

CallStates == {"ready", "apply", "group", "topic", "config", "lock", "lookup", "clear",
               "fetch", "store", "ask", "done", "failed"}

\* What is remembered of the moment a call began: the version, the version last
\* listed; the offsets that have been committed ever since; and whether a listing has
\* ended since then, or was under way when the list it uses was stored.
Views == [began : Nat, listed : Nat, kept : SUBSET Partitions, muddled : BOOLEAN]
NoView == [began |-> 0, listed |-> 0, kept |-> {}, muddled |-> FALSE]

Now == Len(history)
Present == history[Now]
Listing(c) == call[c] \in {"clear", "fetch"} /\ request[c].op = "list"

\* The partitions that a version of the topics has.
AllOf(version) == {tp \in Partitions : tp[2] <= history[version][tp[1]]}

TypeOK ==
    /\ history \in Seq(TopicTables)
    /\ committed \subseteq Partitions
    /\ cache \in [at : 0..Now, muddled : BOOLEAN]
    /\ readers \subseteq Calls
    /\ listed \in 0..Now
    /\ call \in [Calls -> CallStates]
    /\ request \in [Calls -> Requests]
    /\ got \in [Calls -> 0..Now]
    /\ answer \in [Calls -> SUBSET Partitions]
    /\ view \in [Calls -> Views]
    \* nobody works with a list that was cleared
    /\ \A c \in Calls : call[c] \in {"store", "ask"} => got[c] # 0

Init ==
    /\ history \in {<<ts>> : ts \in TopicTables}
    /\ committed = {}
    /\ cache = [at |-> 0, muddled |-> FALSE]
    /\ readers = {}
    /\ listed = 0
    /\ call = [c \in Calls |-> "ready"]
    /\ request = [c \in Calls |-> NoRequest]
    /\ got = [c \in Calls |-> 0]
    /\ answer = [c \in Calls |-> {}]
    /\ view = [c \in Calls |-> NoView]
-----------------------------------------------------------------------------
CallGoes(c, from, to) ==
    /\ call[c] = from
    /\ call' = [call EXCEPT ![c] = to]

\* A command of api/admin.rs that asks for op begins at a step of the client.
Begin(c, op, to) ==
    /\ CallGoes(c, "ready", to)
    /\ \E r \in Requests : r.op = op /\ request' = [request EXCEPT ![c] = r]
    /\ view' = [view EXCEPT ![c] = [began |-> Now, listed |-> listed, kept |-> committed,
                                    muddled |-> FALSE]]
    /\ UNCHANGED <<brokerVars, cacheVars, listed, got, answer>>

BeginList(c) == Begin(c, "list", "clear")
BeginInfo(c) == Begin(c, "info", "topic")
BeginDelete(c) == Begin(c, "delete", "apply")
BeginCreate(c) == Begin(c, "create", "apply")
BeginDescribe(c) == Begin(c, "describe", "lock")
BeginOffsets(c) == Begin(c, "offsets", "lock")
BeginSetGroup(c) == Begin(c, "set_group", "group")
BeginDeleteGroup(c) == Begin(c, "delete_group", "group")

\* A call fails: the broker's answer is an error, or none comes in time.
Fails(c, from, fault) ==
    /\ fault \in Faults
    /\ CallGoes(c, from, "failed")
    /\ UNCHANGED <<brokerVars, cacheVars, listed, request, got, answer, view>>

\* The answer has been returned, and what was local to the call is gone.
Returns(c) ==
    /\ call[c] \in {"done", "failed"}
    /\ call' = [call EXCEPT ![c] = "ready"]
    /\ request' = [request EXCEPT ![c] = NoRequest]
    /\ got' = [got EXCEPT ![c] = 0]
    /\ answer' = [answer EXCEPT ![c] = {}]
    /\ view' = [view EXCEPT ![c] = NoView]
    /\ UNCHANGED <<brokerVars, cacheVars, listed>>
-----------------------------------------------------------------------------
(* get_all_topic_partition_list *)

LocksCache(c) ==
    /\ CallGoes(c, "lock", "lookup")
    /\ readers' = readers \cup {c}
    /\ UNCHANGED <<brokerVars, cache, listed, request, got, answer, view>>

\* mutant of Lookup: ignore_cache is forgotten
LookupIgnoresIgnore(c) ==
    /\ call[c] = "lookup"
    /\ IF cache.at # 0 /\ AllOf(cache.at) # {}
          THEN /\ call' = [call EXCEPT ![c] = "ask"]
               /\ got' = [got EXCEPT ![c] = cache.at]
               /\ view' = [view EXCEPT ![c].muddled = cache.muddled]
          ELSE /\ call' = [call EXCEPT ![c] = "clear"]
               /\ UNCHANGED <<got, view>>
    /\ readers' = readers \ {c}
    /\ UNCHANGED <<brokerVars, cache, listed, request, answer>>

\* mutant of Lookup: an empty list is used like any other
LookupUsesEmpty(c) ==
    /\ call[c] = "lookup"
    /\ IF ~request[c].ignore
          THEN /\ call' = [call EXCEPT ![c] = "ask"]
               /\ got' = [got EXCEPT ![c] = cache.at]
               /\ view' = [view EXCEPT ![c].muddled = cache.muddled]
          ELSE /\ call' = [call EXCEPT ![c] = "clear"]
               /\ UNCHANGED <<got, view>>
    /\ readers' = readers \ {c}
    /\ UNCHANGED <<brokerVars, cache, listed, request, answer>>

\* The block of the read lock ends before the refresh, which needs the write lock.
Lookup(c) ==
    /\ call[c] = "lookup"
    /\ IF ~request[c].ignore /\ cache.at # 0 /\ AllOf(cache.at) # {}
          THEN /\ call' = [call EXCEPT ![c] = "ask"]
               /\ got' = [got EXCEPT ![c] = cache.at]
               /\ view' = [view EXCEPT ![c].muddled = cache.muddled]
          ELSE /\ call' = [call EXCEPT ![c] = "clear"]
               /\ UNCHANGED <<got, view>>
    /\ readers' = readers \ {c}
    /\ UNCHANGED <<brokerVars, cache, listed, request, answer>>

\* mutant of ClearCache: a listing leaves the list alone
ClearNothing(c) ==
    /\ CallGoes(c, "clear", "fetch")
    /\ UNCHANGED <<brokerVars, cacheVars, listed, request, got, answer, view>>

\* list_topics, of a listing or of a refresh: first clear,
ClearCache(c) ==
    /\ readers = {}
    /\ CallGoes(c, "clear", "fetch")
    /\ cache' = [at |-> 0, muddled |-> FALSE]
    /\ UNCHANGED <<brokerVars, readers, listed, request, got, answer, view>>

\* then fetch_metadata.
Fetch(c) ==
    /\ CallGoes(c, "fetch", IF request[c].op = "list" THEN "done" ELSE "store")
    /\ got' = [got EXCEPT ![c] = Now]
    /\ IF request[c].op = "list"
          THEN /\ answer' = [answer EXCEPT ![c] = AllOf(Now)]
               /\ listed' = Now
               /\ view' = [d \in Calls |-> [view[d] EXCEPT !.muddled = call[d] # "ready"]]
          ELSE UNCHANGED <<answer, listed, view>>
    /\ UNCHANGED <<brokerVars, cacheVars, request>>

\* A list is muddled when a listing has ended since its refresh began, or is under way.
StoreCache(c) ==
    /\ readers = {}
    /\ CallGoes(c, "store", "ask")
    /\ cache' = [at |-> got[c],
                 muddled |-> view[c].muddled \/ \E d \in Calls : Listing(d)]
    /\ UNCHANGED <<brokerVars, readers, listed, request, got, answer, view>>
-----------------------------------------------------------------------------
(* What is asked about the list *)

\* mutant of InList: the last partition is left out
InListButLast(version, t) == {tp \in AllOf(version) : tp[1] = t /\ tp[2] < history[version][t]}

\* elements_for_topic
InList(version, t) == {tp \in AllOf(version) : tp[1] = t}

\* get_last_offsets: the broker answers for the partitions it still has.
AsksOffsets(c) ==
    /\ request[c].op = "offsets"
    /\ CallGoes(c, "ask", "done")
    /\ answer' = [answer EXCEPT ![c] = InList(got[c], request[c].topic) \cap AllOf(Now)]
    /\ UNCHANGED <<brokerVars, cacheVars, listed, request, got, view>>

\* describe_consumer_group: the committed offsets of the list that are not Invalid
AsksCommitted(c) ==
    /\ request[c].op = "describe"
    /\ CallGoes(c, "ask", "done")
    /\ answer' = [answer EXCEPT ![c] =
                    (UNION {InList(got[c], t) : t \in Topics}) \cap committed]
    /\ UNCHANGED <<brokerVars, cacheVars, listed, request, got, view>>

\* get_topic_info: the partitions of one topic, or TopicNotFound,
AsksTopic(c) ==
    /\ call[c] = "topic"
    /\ IF Present[request[c].topic] = 0
          THEN /\ call' = [call EXCEPT ![c] = "failed"]
               /\ UNCHANGED <<answer, got>>
          ELSE /\ call' = [call EXCEPT ![c] = "config"]
               /\ got' = [got EXCEPT ![c] = Now]
               /\ answer' = [answer EXCEPT ![c] = InList(Now, request[c].topic)]
    /\ UNCHANGED <<brokerVars, cacheVars, listed, request, view>>

\* then its configuration, which is left empty if there is no answer.
AsksConfiguration(c) ==
    /\ CallGoes(c, "config", "done")
    /\ UNCHANGED <<brokerVars, cacheVars, listed, request, got, answer, view>>
-----------------------------------------------------------------------------
(* What is changed *)

\* The topics, or what the group has committed, become others; what a call has
\* seen committed all the time shrinks.
Becomes(topics, offsets) ==
    /\ history' = IF topics = Present THEN history ELSE Append(history, topics)
    /\ committed' = offsets
    /\ Len(history') <= MaxChanges + 1
    /\ view' = [c \in Calls |-> [view[c] EXCEPT !.kept = @ \cap offsets]]
    /\ UNCHANGED <<cacheVars, listed, request, got>>

CreateTopic(c) ==
    /\ request[c].op = "create"
    /\ Present[request[c].topic] = 0
    /\ CallGoes(c, "apply", "done")
    /\ \E n \in 1..MaxPartitions :
          Becomes([Present EXCEPT ![request[c].topic] = n], committed)
    /\ UNCHANGED answer

\* The broker forgets the offsets of a topic that is deleted.
DeleteTopic(c) ==
    /\ request[c].op = "delete"
    /\ Present[request[c].topic] # 0
    /\ CallGoes(c, "apply", "done")
    /\ Becomes([Present EXCEPT ![request[c].topic] = 0],
               {tp \in committed : tp[1] # request[c].topic})
    /\ UNCHANGED answer

\* Not there, there already, or not allowed.
Refused(c) ==
    /\ \/ request[c].op = "create" /\ Present[request[c].topic] # 0
       \/ request[c].op = "delete" /\ Present[request[c].topic] = 0
       \/ "refused" \in Faults
    /\ CallGoes(c, "apply", "failed")
    /\ UNCHANGED <<brokerVars, cacheVars, listed, request, got, answer, view>>

\* set_consumer_group of some topics (at least one), all partitions in one commit,
\* as ConsumerAssignment has it
SetGroup(c) ==
    /\ request[c].op = "set_group"
    /\ CallGoes(c, "group", "done")
    /\ \E ts \in SUBSET Topics \ {{}} :
          Becomes(Present, committed \cup UNION {InList(Now, t) : t \in ts})
    /\ UNCHANGED answer

DeleteGroup(c) ==
    /\ request[c].op = "delete_group"
    /\ CallGoes(c, "group", "done")
    /\ Becomes(Present, {})
    /\ UNCHANGED answer
-----------------------------------------------------------------------------
Begins(c) == \/ BeginList(c) \/ BeginInfo(c) \/ BeginDelete(c) \/ BeginCreate(c)
             \/ BeginDescribe(c) \/ BeginOffsets(c) \/ BeginSetGroup(c) \/ BeginDeleteGroup(c)

Steps(c) ==
    \/ LocksCache(c) \/ Lookup(c) \/ ClearCache(c) \/ Fetch(c) \/ StoreCache(c)
    \/ AsksOffsets(c) \/ AsksCommitted(c) \/ AsksTopic(c) \/ AsksConfiguration(c)
    \/ CreateTopic(c) \/ DeleteTopic(c) \/ Refused(c) \/ SetGroup(c) \/ DeleteGroup(c)
    \/ Fails(c, "fetch", "metadata") \/ Fails(c, "topic", "metadata")
    \/ Fails(c, "group", "refused") \/ Fails(c, "ask", "committed")

Next == \E c \in Calls : Begins(c) \/ Steps(c) \/ Returns(c)

Spec == Init /\ [][Next]_vars
-----------------------------------------------------------------------------
(* Properties *)

\* Who lists the topics, or asks to ignore the cache, works with what the broker had
\* at some time during the call.
FreshOnDemand ==
    \A c \in Calls :
        call[c] \in {"ask", "done"} /\ (request[c].op = "list" \/ request[c].ignore)
           => got[c] >= view[c].began

\* Who uses the cache after a listing has ended knows everything that listing has
\* shown, unless a refresh that overlapped the listing has stored an older list since.
ListedIsKnown ==
    \A c \in Calls :
        call[c] \in {"ask", "done"} /\ request[c].op \in {"offsets", "describe"}
           => got[c] >= view[c].listed \/ view[c].muddled

\* A description shows every offset that was committed throughout the call, of all the
\* topics in the list it worked with; of all topics, if it ignores the cache.
DescribeShowsAll ==
    \A c \in Calls :
        call[c] = "done" /\ request[c].op = "describe" =>
           \A tp \in view[c].kept :
              tp \in answer[c] \/ (tp \notin AllOf(got[c]) /\ ~request[c].ignore)
=============================================================================
