---------------------------- MODULE SchemaRegistry ----------------------------
(***************************************************************************)
(* The client of a schema registry (core/schema_registry/*.rs,             *)
(* api/schema_registry.rs) and its two users: the parser that turns a      *)
(* consumed record into text (get_schema_by_id, with a cache), and the     *)
(* producer that encodes with the latest schema (get_last_schema, without  *)
(* one) before it puts the record in the queue of librdkafka.              *)
(*                                                                         *)
(* A call sends one HTTP request after the other; between two of them      *)
(* other calls change the registry.  The registry: a schema is its id, an  *)
(* id keeps its schema for ever, also after the versions that have it are  *)
(* deleted; a new version of a subject has a number never used before.     *)
(***************************************************************************)
EXTENDS Integers, Sequences, FiniteSets

CONSTANTS
    Calls,        \* the invocations of commands, and the loops that parse records
    Subjects,     \* the names of subjects; each is <topic>-value of one topic
    Ids,          \* the ids of schemas, positive integers
    Unparsable,   \* those that apache_avro cannot parse
    MaxVersions,  \* bound on the versions ever made of a subject
    QueueLimit,   \* the records the producer's queue can hold (100 000 by default)
    Levels,       \* the compatibilities set_compatibility_level accepts, numbered
    Faults        \* "code": an error status; "lost": no answer within 10 s

ASSUME RegistryAssumption ==
    /\ Ids \subseteq Nat \ {0}
    /\ Unparsable \subseteq Ids
    /\ Subjects # {}
    /\ MaxVersions \in Nat \ {0}
    /\ QueueLimit \in Nat
    /\ Levels \subseteq Nat \ {0}
    /\ Faults \subseteq {"code", "lost"}

VARIABLES
    configured, \* the cluster has a schema registry
    subjects,   \* the versions of each subject that are not deleted
    used,       \* the highest version each subject has had
    known,      \* the ids in use
    level,      \* the compatibility of each subject, 0 if it has none of its own
    cache,      \* schema_cache_by_id
    queue,      \* the records the producer has accepted: the id of a schema, or 0
    call,       \* where each call is
    request,    \* what it was asked
    todo,       \* the versions it has yet to get
    got,        \* those it has got
    schema,     \* the schema it has found, 0 if none
    view        \* what its subject has been since it began, and whether the schema
                \* of its record was in the cache when it did

registryVars == <<configured, subjects, used, known, level>>
localVars == <<todo, got, schema>>
vars == <<registryVars, cache, queue, call, request, localVars, view>>

Versions == [version : 1..MaxVersions, id : Ids]
Requests ==
    [op : {"list", "subject", "delete_subject", "produce"}, subject : Subjects, arg : {0}]
      \cup [op : {"post"}, subject : Subjects, arg : Ids]
      \cup [op : {"delete_version"}, subject : Subjects, arg : 1..MaxVersions]
      \cup [op : {"set_level"}, subject : Subjects, arg : Levels \cup {0}]
      \cup [op : {"read"}, subject : Subjects, arg : Ids]
      \cup [op : {"send"}, subject : Subjects, arg : {0}]
NoRequest == CHOOSE r \in Requests : r.op = "list"
CallStates == {"ready", "list", "versions", "version", "level", "latest", "post", "delete",
               "put", "lookup", "get", "insert", "send", "done", "failed"}
AboutVersions == {"subject", "produce", "post", "delete_subject", "delete_version"}
NoView == [was |-> {}, cached |-> FALSE]

TypeOK ==
    /\ configured \in BOOLEAN
    /\ subjects \in [Subjects -> SUBSET Versions]
    /\ used \in [Subjects -> 0..MaxVersions]
    /\ known \subseteq Ids
    /\ level \in [Subjects -> Levels \cup {0}]
    /\ DOMAIN cache \subseteq Ids /\ \A i \in DOMAIN cache : cache[i] \in Ids
    /\ queue \in Seq(Ids \cup {0}) /\ Len(queue) <= QueueLimit
    /\ call \in [Calls -> CallStates]
    /\ request \in [Calls -> Requests]
    /\ todo \in [Calls -> SUBSET (1..MaxVersions)]
    /\ got \in [Calls -> SUBSET Versions]
    /\ schema \in [Calls -> Ids \cup {0}]
    /\ view \in [Calls -> [was : SUBSET SUBSET Versions, cached : BOOLEAN]]

\* What others have registered before, with this client's parser or without it.
Init ==
    /\ configured \in BOOLEAN
    /\ subjects \in [Subjects -> {{}} \cup {{v} : v \in [version : {1}, id : Ids]}]
    /\ used = [s \in Subjects |-> Cardinality(subjects[s])]
    /\ known = {v.id : v \in UNION {subjects[s] : s \in Subjects}}
    /\ level = [s \in Subjects |-> 0]
    /\ cache = [i \in {} |-> 0]
    /\ queue = <<>>
    /\ call = [c \in Calls |-> "ready"]
    /\ request = [c \in Calls |-> NoRequest]
    /\ todo = [c \in Calls |-> {}]
    /\ got = [c \in Calls |-> {}]
    /\ schema = [c \in Calls |-> 0]
    /\ view = [c \in Calls |-> NoView]
-----------------------------------------------------------------------------
CallGoes(c, from, to) ==
    /\ call[c] = from
    /\ call' = [call EXCEPT ![c] = to]

\* A command begins with its first step.
Begin(c, op, to) ==
    /\ CallGoes(c, "ready", to)
    /\ \E r \in Requests :
          /\ r.op = op
          /\ request' = [request EXCEPT ![c] = r]
          /\ view' = [view EXCEPT ![c] = [was |-> IF op \in AboutVersions
                                                      THEN {subjects[r.subject]} ELSE {},
                                          cached |-> op = "read" /\ r.arg \in DOMAIN cache]]
    /\ UNCHANGED <<registryVars, cache, queue, localVars>>

BeginList(c) == Begin(c, "list", IF configured THEN "list" ELSE "failed")
BeginSubject(c) == Begin(c, "subject", IF configured THEN "versions" ELSE "failed")
BeginDeleteSubject(c) == Begin(c, "delete_subject", IF configured THEN "delete" ELSE "failed")
BeginDeleteVersion(c) == Begin(c, "delete_version", IF configured THEN "delete" ELSE "failed")
BeginPost(c) == Begin(c, "post", IF configured THEN "post" ELSE "failed")
BeginSetLevel(c) == Begin(c, "set_level", IF configured THEN "put" ELSE "failed")

\* produce in the mode Avro, and in the mode String or with a tombstone
BeginProduce(c) == Begin(c, "produce", IF configured THEN "versions" ELSE "failed")
BeginSend(c) == Begin(c, "send", "send")

\* parse_kafka_record of a record with the id of a schema in its header; one that has
\* none, or cannot be decoded, is text, as without a registry.
BeginRead(c) == Begin(c, "read", IF configured THEN "lookup" ELSE "done")

\* What a call has come to is returned, and what was local to it is gone.
Returns(c) ==
    /\ call[c] \in {"done", "failed"}
    /\ call' = [call EXCEPT ![c] = "ready"]
    /\ request' = [request EXCEPT ![c] = NoRequest]
    /\ todo' = [todo EXCEPT ![c] = {}]
    /\ got' = [got EXCEPT ![c] = {}]
    /\ schema' = [schema EXCEPT ![c] = 0]
    /\ view' = [view EXCEPT ![c] = NoView]
    /\ UNCHANGED <<registryVars, cache, queue>>
-----------------------------------------------------------------------------
(* A request that fails *)

\* What an error makes of a call: the parser of records falls back to text.
Gives(c) == call' = [call EXCEPT ![c] = IF request[c].op = "read" THEN "done" ELSE "failed"]

\* mutant of RequestFails: a version that cannot be fetched is skipped
RequestFailsSkips(c) ==
    /\ Faults # {}
    /\ call[c] \in {"list", "versions", "version", "level", "get", "post", "delete", "put"}
    /\ IF call[c] = "version"
          THEN call' = [call EXCEPT ![c] = IF request[c].op = "produce" THEN "latest" ELSE "level"]
          ELSE Gives(c)
    /\ UNCHANGED <<registryVars, cache, queue, request, localVars, view>>

\* The answer is an error, or the request was not heard of and no answer comes in time.
RequestFails(c) ==
    /\ Faults # {}
    /\ call[c] \in {"list", "versions", "version", "level", "get", "post", "delete", "put"}
    /\ Gives(c)
    /\ UNCHANGED <<registryVars, cache, queue, request, localVars, view>>

\* What is asked for is not there.
NotFound(c) ==
    /\ LET vs == subjects[request[c].subject]
       IN \/ call[c] = "versions" /\ vs = {}
          \/ call[c] = "version" /\ \E n \in todo[c] : n \notin {v.version : v \in vs}
          \/ call[c] = "delete" /\ request[c].op = "delete_subject" /\ vs = {}
          \/ call[c] = "delete" /\ request[c].op = "delete_version"
               /\ request[c].arg \notin {v.version : v \in vs}
          \/ call[c] = "get" /\ request[c].arg \notin known
    /\ Gives(c)
    /\ UNCHANGED <<registryVars, cache, queue, request, localVars, view>>
-----------------------------------------------------------------------------
(* What is read: list_subjects, get_subject, get_versions, get_last_schema *)

ListsSubjects(c) ==
    /\ CallGoes(c, "list", "done")
    /\ UNCHANGED <<registryVars, cache, queue, request, localVars, view>>

\* get_versions asks for the numbers of the versions,
ListsVersions(c) ==
    LET vs == subjects[request[c].subject]
    IN /\ vs # {}
       /\ CallGoes(c, "versions", "version")
       /\ todo' = [todo EXCEPT ![c] = {v.version : v \in vs}]
       /\ UNCHANGED <<registryVars, cache, queue, request, got, schema, view>>

\* then for one after the other: the lowest that is left.
GetsVersion(c) ==
    \E v \in subjects[request[c].subject] :
       /\ v.version \in todo[c]
       /\ \A n \in todo[c] : v.version <= n
       /\ CallGoes(c, "version", IF todo[c] # {v.version} THEN "version"
                                 ELSE IF request[c].op = "produce" THEN "latest" ELSE "level")
       /\ todo' = [todo EXCEPT ![c] = @ \ {v.version}]
       /\ got' = [got EXCEPT ![c] = @ \cup {v}]
       /\ UNCHANGED <<registryVars, cache, queue, request, schema, view>>

\* get_compatibility_level, the global one where the subject has none
GetsLevel(c) ==
    /\ CallGoes(c, "level", "done")
    /\ UNCHANGED <<registryVars, cache, queue, request, localVars, view>>

\* mutant of LatestOf: the comparison the other way round
FirstOf(vs) == CHOOSE v \in vs : \A w \in vs : v.version <= w.version

LatestOf(vs) == CHOOSE v \in vs : \A w \in vs : w.version <= v.version

\* get_last_schema, and with it json_to_avro: the payload fits the schema
Encodes(c) ==
    LET id == LatestOf(got[c]).id
    IN /\ CallGoes(c, "latest", "send")
       /\ id \notin Unparsable
       /\ schema' = [schema EXCEPT ![c] = id]
       /\ UNCHANGED <<registryVars, cache, queue, request, todo, got, view>>

\* or the schema cannot be parsed, or the payload does not fit.
EncodeFails(c) ==
    /\ CallGoes(c, "latest", "failed")
    /\ UNCHANGED <<registryVars, cache, queue, request, localVars, view>>
-----------------------------------------------------------------------------
(* get_schema_by_id *)

\* Two calls can both miss; the read lock is released before the request is sent.
LooksUp(c) ==
    LET id == request[c].arg
    IN /\ IF id \in DOMAIN cache
             THEN /\ CallGoes(c, "lookup", "done")
                  /\ schema' = [schema EXCEPT ![c] = cache[id]]
             ELSE CallGoes(c, "lookup", "get") /\ UNCHANGED schema
       /\ UNCHANGED <<registryVars, cache, queue, request, todo, got, view>>

\* mutant of GetsSchema: what cannot be parsed is cached like the rest
GetsAnything(c) ==
    /\ request[c].arg \in known
    /\ CallGoes(c, "get", "insert")
    /\ UNCHANGED <<registryVars, cache, queue, request, localVars, view>>

\* A schema that cannot be parsed is an error, and is not cached.
GetsSchema(c) ==
    /\ request[c].arg \in known
    /\ CallGoes(c, "get", IF request[c].arg \in Unparsable THEN "done" ELSE "insert")
    /\ UNCHANGED <<registryVars, cache, queue, request, localVars, view>>

\* mutant of Inserts: the cache keeps one schema
InsertsAlone(c) ==
    LET id == request[c].arg
    IN /\ CallGoes(c, "insert", "done")
       /\ cache' = [i \in {id} |-> id]
       /\ schema' = [schema EXCEPT ![c] = id]
       /\ UNCHANGED <<registryVars, queue, request, todo, got, view>>

Inserts(c) ==
    LET id == request[c].arg
    IN /\ CallGoes(c, "insert", "done")
       /\ cache' = [i \in DOMAIN cache \cup {id} |-> IF i = id THEN id ELSE cache[i]]
       /\ schema' = [schema EXCEPT ![c] = id]
       /\ UNCHANGED <<registryVars, queue, request, todo, got, view>>
-----------------------------------------------------------------------------
(* What is written: the registry acts on the request, and the answer comes or is lost. *)

Answered(c, from) == \E to \in {"done"} \cup (IF "lost" \in Faults THEN {"failed"} ELSE {}) :
                        CallGoes(c, from, to)

\* The versions of a subject become others, and every call on it could have seen them.
Becomes(s, vs) ==
    /\ subjects' = [subjects EXCEPT ![s] = vs]
    /\ view' = [c \in Calls |-> IF request[c].subject = s /\ request[c].op \in AboutVersions
                                   THEN [view[c] EXCEPT !.was = @ \cup {vs}] ELSE view[c]]
    /\ UNCHANGED <<configured, cache, queue, request, localVars>>

\* post_schema: the registry answers with the version that has the schema, or makes one.
Posts(c) ==
    LET s == request[c].subject
        id == request[c].arg
    IN /\ id \notin Unparsable
       /\ Answered(c, "post")
       /\ IF \E v \in subjects[s] : v.id = id
             THEN Becomes(s, subjects[s]) /\ UNCHANGED <<used, known>>
             ELSE /\ used[s] < MaxVersions
                  /\ Becomes(s, subjects[s] \cup {[version |-> used[s] + 1, id |-> id]})
                  /\ used' = [used EXCEPT ![s] = @ + 1]
                  /\ known' = known \cup {id}
       /\ UNCHANGED level

\* The schema cannot be parsed here, or is not compatible there (409).
PostRefused(c) ==
    /\ CallGoes(c, "post", "failed")
    /\ UNCHANGED <<registryVars, cache, queue, request, localVars, view>>

DeletesSubject(c) ==
    /\ request[c].op = "delete_subject"
    /\ subjects[request[c].subject] # {}
    /\ Answered(c, "delete")
    /\ Becomes(request[c].subject, {})
    /\ UNCHANGED <<used, known, level>>

DeletesVersion(c) ==
    LET vs == subjects[request[c].subject]
    IN /\ request[c].op = "delete_version"
       /\ Answered(c, "delete")
       /\ \E v \in vs : v.version = request[c].arg /\ Becomes(request[c].subject, vs \ {v})
       /\ UNCHANGED <<used, known, level>>

\* set_compatibility_level
SetsLevel(c) ==
    /\ request[c].arg \in Levels
    /\ Answered(c, "put")
    /\ level' = [level EXCEPT ![request[c].subject] = request[c].arg]
    /\ UNCHANGED <<configured, subjects, used, known, cache, queue, request, localVars, view>>

LevelRefused(c) ==
    /\ request[c].arg \notin Levels
    /\ CallGoes(c, "put", "failed")
    /\ UNCHANGED <<registryVars, cache, queue, request, localVars, view>>
-----------------------------------------------------------------------------
(* producer.send *)

\* mutant of Sends: the limit of the queue is not looked at
SendsAnyway(c) ==
    /\ Len(queue) <= QueueLimit
    /\ CallGoes(c, "send", "done")
    /\ queue' = Append(queue, schema[c])
    /\ UNCHANGED <<registryVars, cache, request, localVars, view>>

\* The record is put in the queue.  It leaves it when the report of its delivery is
\* polled, which this code never does.
Sends(c) ==
    /\ Len(queue) < QueueLimit
    /\ CallGoes(c, "send", "done")
    /\ queue' = Append(queue, schema[c])
    /\ UNCHANGED <<registryVars, cache, request, localVars, view>>

SendRefused(c) ==
    /\ Len(queue) = QueueLimit
    /\ CallGoes(c, "send", "failed")
    /\ UNCHANGED <<registryVars, cache, queue, request, localVars, view>>
-----------------------------------------------------------------------------
Begins(c) ==
    \/ BeginList(c) \/ BeginSubject(c) \/ BeginDeleteSubject(c) \/ BeginDeleteVersion(c)
    \/ BeginPost(c) \/ BeginSetLevel(c) \/ BeginProduce(c) \/ BeginSend(c) \/ BeginRead(c)

Steps(c) ==
    \/ RequestFails(c) \/ NotFound(c)
    \/ ListsSubjects(c) \/ ListsVersions(c) \/ GetsVersion(c) \/ GetsLevel(c)
    \/ Encodes(c) \/ EncodeFails(c) \/ LooksUp(c) \/ GetsSchema(c) \/ Inserts(c)
    \/ Posts(c) \/ PostRefused(c) \/ DeletesSubject(c) \/ DeletesVersion(c)
    \/ SetsLevel(c) \/ LevelRefused(c) \/ Sends(c) \/ SendRefused(c)

Next == \E c \in Calls : Begins(c) \/ Steps(c) \/ Returns(c)

Spec == Init /\ [][Next]_vars
-----------------------------------------------------------------------------
(* Properties *)

\* The cache never needs eviction or an update: every entry is the schema its id has in
\* the registry, and no answer that was an error is kept.
CacheIsTrue == \A i \in DOMAIN cache : cache[i] = i /\ i \in known \ Unparsable

\* A record whose schema has been seen is never shown as text again, whatever becomes of
\* the subject or of the connection.
CachedStaysReadable ==
    \A c \in Calls : call[c] = "done" /\ view[c].cached /\ configured
                        => schema[c] = request[c].arg

\* get_subject, which fetches the versions one by one while others come and go, answers
\* with exactly those of one moment of the call.
AnswerIsOneMoment ==
    \A c \in Calls : call[c] = "done" /\ request[c].op = "subject" => got[c] \in view[c].was

\* A record is encoded with the schema that was the latest of its topic at a moment of
\* the call, and that everybody can get by its id.
ProducedIsLatest ==
    \A c \in Calls : call[c] \in {"send", "done"} /\ request[c].op = "produce" =>
       /\ \E vs \in view[c].was : \E v \in vs :
             v.id = schema[c] /\ \A w \in vs : w.version <= v.version
       /\ schema[c] \in known \ Unparsable
=============================================================================
