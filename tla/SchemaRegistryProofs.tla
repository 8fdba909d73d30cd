------------------------- MODULE SchemaRegistryProofs -------------------------
(***************************************************************************)
(* Proofs about SchemaRegistry, for any calls, subjects, ids, limits and   *)
(* failures: the cache is never wrong, an answer of several requests is    *)
(* that of one moment, and a record is produced with the latest schema.    *)
(***************************************************************************)
EXTENDS SchemaRegistry, FiniteSetTheorems, WellFoundedInduction, TLAPS

-----------------------------------------------------------------------------
(* Facts about requests and numbers *)

Ops == {"list", "subject", "delete_subject", "produce", "post", "delete_version", "set_level",
        "read", "send"}

LEMMA NoRequestIsList == NoRequest \in Requests /\ NoRequest.op = "list"
<1>1. PICK s \in Subjects : TRUE
  BY RegistryAssumption
<1>2. [op |-> "list", subject |-> s, arg |-> 0] \in Requests
  BY <1>1 DEF Requests
<1> QED
  BY <1>2 DEF NoRequest

LEMMA RequestFields ==
    ASSUME NEW r \in Requests
    PROVE  /\ r.op \in Ops /\ r.subject \in Subjects
           /\ r.op \in {"post", "read"} => r.arg \in Ids
BY DEF Requests, Ops

Below == {ss \in Nat \X Nat : ss[1] < ss[2]}

LEMMA BelowWellFounded == IsWellFoundedOn(Below, Nat)
BY NatLessThanWellFounded DEF OpToRel, Below

\* A set of versions has a latest one.
LEMMA LatestExists ==
    ASSUME NEW vs \in SUBSET Versions, vs # {}
    PROVE  LatestOf(vs) \in vs /\ \A w \in vs : w.version <= LatestOf(vs).version
<1> DEFINE T == {MaxVersions - v.version : v \in vs}
<1>1. \A v \in vs : v.version \in 1..MaxVersions
  BY DEF Versions
<1>2. T \subseteq Nat /\ T # {}
  BY <1>1, RegistryAssumption
<1>3. PICK m \in T : \A k \in T : ~(<<k, m>> \in Below)
  <2> HIDE DEF T
  <2> QED
    BY <1>2, BelowWellFounded, WFMin
<1>4. PICK v \in vs : m = MaxVersions - v.version
  OBVIOUS
<1>5. ASSUME NEW w \in vs PROVE w.version <= v.version
  <2>1. (MaxVersions - w.version) \in T /\ MaxVersions - w.version \in Nat /\ m \in Nat
    BY <1>2
  <2>2. ~(MaxVersions - w.version < m)
    BY <1>3, <2>1 DEF Below
  <2> QED
    BY <1>1, <1>4, <2>1, <2>2, RegistryAssumption
<1> QED
  BY <1>5 DEF LatestOf
-----------------------------------------------------------------------------
(* Type correctness *)

LEMMA TypeInit == Init => TypeOK
<1> SUFFICES ASSUME Init PROVE TypeOK
  OBVIOUS
<1> USE RegistryAssumption
<1>1. subjects \in [Subjects -> SUBSET Versions]
  <2>1. ({{}} \cup {{v} : v \in [version : {1}, id : Ids]}) \subseteq SUBSET Versions
    BY DEF Versions
  <2> QED
    BY <2>1 DEF Init
<1>2. used \in [Subjects -> 0..MaxVersions]
  <2>1. ASSUME NEW s \in Subjects PROVE Cardinality(subjects[s]) \in 0..MaxVersions
    <3>1. CASE subjects[s] = {}
      BY <3>1, FS_EmptySet
    <3>2. CASE \E v : subjects[s] = {v}
      <4>1. Cardinality(subjects[s]) = 1
        BY <3>2, FS_Singleton
      <4> QED
        BY <4>1
    <3> QED
      BY <3>1, <3>2 DEF Init
  <2> QED
    BY <2>1 DEF Init
<1>3. known \subseteq Ids
  BY <1>1 DEF Init, Versions
<1>4. request \in [Calls -> Requests]
  BY NoRequestIsList DEF Init
<1>5. view \in [Calls -> [was : SUBSET SUBSET Versions, cached : BOOLEAN]]
  BY DEF Init, NoView
<1>6. queue \in Seq(Ids \cup {0}) /\ Len(queue) <= QueueLimit
  BY DEF Init
<1>7. DOMAIN cache = {} /\ cache = [i \in {} |-> 0]
  BY DEF Init
<1>8. call \in [Calls -> CallStates] /\ schema \in [Calls -> Ids \cup {0}]
      /\ todo \in [Calls -> SUBSET (1..MaxVersions)] /\ got \in [Calls -> SUBSET Versions]
      /\ configured \in BOOLEAN /\ level \in [Subjects -> Levels \cup {0}]
  BY DEF Init, CallStates
<1> QED
  BY <1>1, <1>2, <1>3, <1>4, <1>5, <1>6, <1>7, <1>8 DEF TypeOK

LEMMA TypeBegin1 ==
    ASSUME TypeOK, NEW c \in Calls, NEW op, NEW to \in CallStates, Begin(c, op, to)
    PROVE  TypeOK'
<1>1. PICK r \in Requests : /\ request' = [request EXCEPT ![c] = r]
                            /\ view' = [view EXCEPT ![c] =
                                  [was |-> IF op \in AboutVersions THEN {subjects[r.subject]} ELSE {},
                                   cached |-> op = "read" /\ r.arg \in DOMAIN cache]]
  BY DEF Begin
<1>2. request' \in [Calls -> Requests] /\ subjects[r.subject] \in SUBSET Versions
  BY <1>1, RequestFields DEF TypeOK
<1>3. view' \in [Calls -> [was : SUBSET SUBSET Versions, cached : BOOLEAN]]
  BY <1>1, <1>2 DEF TypeOK
<1>4. call' \in [Calls -> CallStates]
  BY DEF Begin, CallGoes, TypeOK
<1>5. UNCHANGED <<registryVars, cache, queue, localVars>>
  BY DEF Begin
<1> QED
  BY <1>2, <1>3, <1>4, <1>5 DEF TypeOK, registryVars, localVars

LEMMA TypeBegin ==
    ASSUME TypeOK, NEW c \in Calls, Begins(c)
    PROVE  TypeOK'
<1>1. {"failed", "done", "list", "versions", "delete", "post", "put", "send", "lookup"} \subseteq CallStates
  BY DEF CallStates
<1>2. CASE BeginList(c)
  BY <1>1, <1>2, TypeBegin1 DEF BeginList
<1>3. CASE BeginSubject(c)
  BY <1>1, <1>3, TypeBegin1 DEF BeginSubject
<1>4. CASE BeginDeleteSubject(c)
  BY <1>1, <1>4, TypeBegin1 DEF BeginDeleteSubject
<1>5. CASE BeginDeleteVersion(c)
  BY <1>1, <1>5, TypeBegin1 DEF BeginDeleteVersion
<1>6. CASE BeginPost(c)
  BY <1>1, <1>6, TypeBegin1 DEF BeginPost
<1>7. CASE BeginSetLevel(c)
  BY <1>1, <1>7, TypeBegin1 DEF BeginSetLevel
<1>8. CASE BeginProduce(c)
  BY <1>1, <1>8, TypeBegin1 DEF BeginProduce
<1>9. CASE BeginSend(c)
  BY <1>1, <1>9, TypeBegin1 DEF BeginSend
<1>10. CASE BeginRead(c)
  BY <1>1, <1>10, TypeBegin1 DEF BeginRead
<1> QED
  BY <1>2, <1>3, <1>4, <1>5, <1>6, <1>7, <1>8, <1>9, <1>10 DEF Begins

LEMMA TypeReturns ==
    ASSUME TypeOK, NEW c \in Calls, Returns(c)
    PROVE  TypeOK'
<1>1. view' \in [Calls -> [was : SUBSET SUBSET Versions, cached : BOOLEAN]]
  BY DEF Returns, TypeOK, NoView
<1>2. call' \in [Calls -> CallStates] /\ request' \in [Calls -> Requests]
  BY NoRequestIsList DEF Returns, TypeOK, CallStates
<1>3. todo' \in [Calls -> SUBSET (1..MaxVersions)] /\ got' \in [Calls -> SUBSET Versions]
      /\ schema' \in [Calls -> Ids \cup {0}]
  BY DEF Returns, TypeOK
<1>4. UNCHANGED <<registryVars, cache, queue>>
  BY DEF Returns
<1> QED
  BY <1>1, <1>2, <1>3, <1>4 DEF TypeOK, registryVars

\* Steps that only move a call on.
Moves(c) ==
    \/ RequestFails(c) \/ NotFound(c) \/ ListsSubjects(c) \/ GetsLevel(c) \/ EncodeFails(c)
    \/ GetsSchema(c) \/ PostRefused(c) \/ LevelRefused(c) \/ SendRefused(c)

LEMMA MoveShape ==
    ASSUME TypeOK, NEW c \in Calls, Moves(c)
    PROVE  /\ UNCHANGED <<registryVars, cache, queue, request, localVars, view>>
           /\ \E to \in {"done", "failed", "insert"} : call' = [call EXCEPT ![c] = to]
           /\ call'[c] = "insert" => request[c].arg \in known \ Unparsable /\ call[c] = "get"
           /\ call'[c] = "done" => call[c] \in {"list", "level", "get"} \/ request[c].op = "read"
           /\ call[c] \notin {"ready", "lookup", "insert", "done", "failed"}
<1> USE DEF CallGoes, Gives, TypeOK
<1>1. CASE RequestFails(c)
  BY <1>1 DEF RequestFails
<1>2. CASE NotFound(c)
  BY <1>2 DEF NotFound
<1>3. CASE ListsSubjects(c)
  BY <1>3 DEF ListsSubjects
<1>4. CASE GetsLevel(c)
  BY <1>4 DEF GetsLevel
<1>5. CASE EncodeFails(c)
  BY <1>5 DEF EncodeFails
<1>6. CASE GetsSchema(c)
  BY <1>6 DEF GetsSchema
<1>7. CASE PostRefused(c)
  BY <1>7 DEF PostRefused
<1>8. CASE LevelRefused(c)
  BY <1>8 DEF LevelRefused
<1>9. CASE SendRefused(c)
  BY <1>9 DEF SendRefused
<1> QED
  BY <1>1, <1>2, <1>3, <1>4, <1>5, <1>6, <1>7, <1>8, <1>9 DEF Moves

LEMMA TypeMoves ==
    ASSUME TypeOK, NEW c \in Calls, Moves(c)
    PROVE  TypeOK'
<1>1. PICK to \in {"done", "failed", "insert"} : call' = [call EXCEPT ![c] = to]
  BY MoveShape
<1>2. call' \in [Calls -> CallStates]
  BY <1>1 DEF TypeOK, CallStates
<1>3. UNCHANGED <<registryVars, cache, queue, request, localVars, view>>
  BY MoveShape
<1> QED
  BY <1>2, <1>3 DEF TypeOK, registryVars, localVars

\* The point a call is at fits what it was asked; it does not encode without a version.
PointInv(c) ==
    /\ call[c] = "list" => request[c].op = "list"
    /\ call[c] \in {"versions", "version"} => request[c].op \in {"subject", "produce"}
    /\ call[c] = "level" => request[c].op = "subject"
    /\ call[c] = "latest" => request[c].op = "produce" /\ got[c] # {}
    /\ call[c] = "post" => request[c].op = "post"
    /\ call[c] = "put" => request[c].op = "set_level"
    /\ call[c] \in {"lookup", "get", "insert"} => request[c].op = "read"
    /\ call[c] = "send" => request[c].op \in {"produce", "send"}

LEMMA TypeReads ==
    ASSUME TypeOK, NEW c \in Calls, PointInv(c),
           ListsVersions(c) \/ GetsVersion(c) \/ Encodes(c) \/ LooksUp(c) \/ Inserts(c) \/ Sends(c)
    PROVE  TypeOK'
<1>0. request[c] \in Requests /\ subjects[request[c].subject] \in SUBSET Versions
  BY RequestFields DEF TypeOK
<1>1. CASE ListsVersions(c)
  <2>1. {v.version : v \in subjects[request[c].subject]} \in SUBSET (1..MaxVersions)
    BY <1>0 DEF Versions
  <2>2. todo' \in [Calls -> SUBSET (1..MaxVersions)]
    BY <1>1, <2>1 DEF ListsVersions, TypeOK
  <2>3. call' \in [Calls -> CallStates]
    BY <1>1 DEF ListsVersions, CallGoes, TypeOK, CallStates
  <2>4. UNCHANGED <<registryVars, cache, queue, request, got, schema, view>>
    BY <1>1 DEF ListsVersions
  <2> QED
    BY <2>2, <2>3, <2>4 DEF TypeOK, registryVars
<1>2. CASE GetsVersion(c)
  <2>1. PICK v \in subjects[request[c].subject] :
           /\ todo' = [todo EXCEPT ![c] = @ \ {v.version}]
           /\ got' = [got EXCEPT ![c] = @ \cup {v}]
           /\ \E to \in {"version", "latest", "level"} : call' = [call EXCEPT ![c] = to]
           /\ UNCHANGED <<registryVars, cache, queue, request, schema, view>>
    BY <1>2 DEF GetsVersion, CallGoes
  <2>2. todo' \in [Calls -> SUBSET (1..MaxVersions)] /\ got' \in [Calls -> SUBSET Versions]
    BY <1>0, <2>1 DEF TypeOK
  <2>3. call' \in [Calls -> CallStates]
    BY <2>1 DEF TypeOK, CallStates
  <2> QED
    BY <2>1, <2>2, <2>3 DEF TypeOK, registryVars
<1>3. CASE Encodes(c)
  <2>1. PICK id : /\ schema' = [schema EXCEPT ![c] = id] /\ id = LatestOf(got[c]).id
                  /\ call' = [call EXCEPT ![c] = "send"]
                  /\ UNCHANGED <<registryVars, cache, queue, request, todo, got, view>>
    BY <1>3 DEF Encodes, CallGoes
  <2>2. call' \in [Calls -> CallStates]
    BY <2>1 DEF TypeOK, CallStates
  <2>3. got[c] \in SUBSET Versions /\ got[c] # {}
    BY <1>3 DEF TypeOK, Encodes, CallGoes, PointInv
  <2>4. id \in Ids
    BY <2>1, <2>3, LatestExists DEF Versions
  <2>5. schema' \in [Calls -> Ids \cup {0}]
    BY <2>1, <2>4 DEF TypeOK
  <2> QED
    BY <2>1, <2>2, <2>5 DEF TypeOK, registryVars
<1>4. CASE LooksUp(c)
  <2>1. schema' \in [Calls -> Ids \cup {0}] /\ call' \in [Calls -> CallStates]
    BY <1>4 DEF LooksUp, CallGoes, TypeOK, CallStates
  <2> QED
    BY <1>4, <2>1 DEF LooksUp, TypeOK, registryVars
<1>5. CASE Inserts(c)
  <2>0. call[c] = "insert" /\ call' = [call EXCEPT ![c] = "done"]
    BY <1>5 DEF Inserts, CallGoes
  <2>1. request[c].arg \in Ids
    BY <1>0, <2>0, RequestFields DEF PointInv
  <2>2. DOMAIN cache' = DOMAIN cache \cup {request[c].arg}
        /\ \A i \in DOMAIN cache' : cache'[i] = IF i = request[c].arg THEN i ELSE cache[i]
    BY <1>5 DEF Inserts
  <2>3. DOMAIN cache' \subseteq Ids /\ \A i \in DOMAIN cache' : cache'[i] \in Ids
    BY <2>1, <2>2 DEF TypeOK
  <2>4. schema' \in [Calls -> Ids \cup {0}] /\ call' \in [Calls -> CallStates]
    BY <1>5, <2>0, <2>1 DEF Inserts, TypeOK, CallStates
  <2> QED
    BY <1>5, <2>3, <2>4 DEF Inserts, TypeOK, registryVars
<1>6. CASE Sends(c)
  <2>1. queue' \in Seq(Ids \cup {0}) /\ Len(queue') <= QueueLimit
    BY <1>6, RegistryAssumption DEF Sends, TypeOK
  <2>2. call' \in [Calls -> CallStates]
    BY <1>6 DEF Sends, CallGoes, TypeOK, CallStates
  <2> QED
    BY <1>6, <2>1, <2>2 DEF Sends, TypeOK, registryVars, localVars
<1> QED
  BY <1>1, <1>2, <1>3, <1>4, <1>5, <1>6

\* What a write makes of a subject: the same versions, fewer, or one more with a new number.
Writes(c) == Posts(c) \/ DeletesSubject(c) \/ DeletesVersion(c)

LEMMA WriteShape ==
    ASSUME TypeOK, NEW c \in Calls, PointInv(c), Writes(c)
    PROVE  \E vs \in SUBSET Versions, s \in Subjects :
              /\ s = request[c].subject /\ Becomes(s, vs)
              /\ \/ vs \subseteq subjects[s] /\ UNCHANGED <<used, known>>
                 \/ \E id \in Ids : /\ used[s] < MaxVersions
                                    /\ vs = subjects[s] \cup {[version |-> used[s] + 1, id |-> id]}
                                    /\ used' = [used EXCEPT ![s] = @ + 1]
                                    /\ known' = known \cup {id}
              /\ \E to \in {"done", "failed"} : call' = [call EXCEPT ![c] = to]
              /\ UNCHANGED level
              /\ request[c].op \in {"post", "delete_subject", "delete_version"}
<1> DEFINE s == request[c].subject
<1>0. request[c] \in Requests /\ s \in Subjects /\ subjects[s] \in SUBSET Versions
  BY RequestFields DEF TypeOK
<1>1. CASE Posts(c)
  <2>1. request[c].op = "post" /\ request[c].arg \in Ids
    BY <1>0, <1>1, RequestFields DEF Posts, Answered, CallGoes, PointInv
  <2>2. \E to \in {"done", "failed"} : call' = [call EXCEPT ![c] = to]
    BY <1>1 DEF Posts, Answered, CallGoes
  <2>3. UNCHANGED level
    BY <1>1 DEF Posts
  <2>4. CASE \E v \in subjects[s] : v.id = request[c].arg
    <3>1. Becomes(s, subjects[s]) /\ UNCHANGED <<used, known>>
      BY <1>1, <2>4 DEF Posts
    <3> QED
      BY <1>0, <2>1, <2>2, <2>3, <3>1
  <2>5. CASE ~\E v \in subjects[s] : v.id = request[c].arg
    <3> DEFINE vs == subjects[s] \cup {[version |-> used[s] + 1, id |-> request[c].arg]}
    <3>1. used[s] < MaxVersions /\ Becomes(s, vs) /\ used' = [used EXCEPT ![s] = @ + 1]
          /\ known' = known \cup {request[c].arg}
      BY <1>1, <2>5 DEF Posts
    <3>2. used[s] + 1 \in 1..MaxVersions
      BY <1>0, <3>1, RegistryAssumption DEF TypeOK
    <3>3. vs \in SUBSET Versions
      BY <1>0, <2>1, <3>2 DEF Versions
    <3> QED
      BY <1>0, <2>1, <2>2, <2>3, <3>1, <3>3
  <2> QED
    BY <2>4, <2>5
<1>2. CASE DeletesSubject(c)
  BY <1>0, <1>2 DEF DeletesSubject, Answered, CallGoes
<1>3. CASE DeletesVersion(c)
  <2>1. PICK v \in subjects[s] : Becomes(s, subjects[s] \ {v})
    BY <1>3 DEF DeletesVersion
  <2>2. subjects[s] \ {v} \in SUBSET Versions
    BY <1>0
  <2> QED
    BY <1>0, <1>3, <2>1, <2>2 DEF DeletesVersion, Answered, CallGoes
<1> QED
  BY <1>1, <1>2, <1>3 DEF Writes

LEMMA TypeWrites ==
    ASSUME TypeOK, NEW c \in Calls, PointInv(c), Writes(c)
    PROVE  TypeOK'
<1>1. PICK vs \in SUBSET Versions, s \in Subjects :
         /\ Becomes(s, vs)
         /\ \/ UNCHANGED <<used, known>>
            \/ \E id \in Ids : /\ used[s] < MaxVersions
                               /\ used' = [used EXCEPT ![s] = @ + 1]
                               /\ known' = known \cup {id}
         /\ \E to \in {"done", "failed"} : call' = [call EXCEPT ![c] = to]
         /\ UNCHANGED level
  BY WriteShape
<1>2. subjects' \in [Subjects -> SUBSET Versions]
  BY <1>1 DEF Becomes, TypeOK
<1>3. view' \in [Calls -> [was : SUBSET SUBSET Versions, cached : BOOLEAN]]
  <2>1. ASSUME NEW d \in Calls PROVE view'[d] \in [was : SUBSET SUBSET Versions, cached : BOOLEAN]
    <3>1. view[d] \in [was : SUBSET SUBSET Versions, cached : BOOLEAN]
      BY DEF TypeOK
    <3>2. [view[d] EXCEPT !.was = @ \cup {vs}] \in [was : SUBSET SUBSET Versions, cached : BOOLEAN]
      BY <3>1
    <3> QED
      BY <1>1, <3>1, <3>2 DEF Becomes
  <2> QED
    BY <1>1, <2>1 DEF Becomes
<1>4. used' \in [Subjects -> 0..MaxVersions] /\ known' \subseteq Ids
  <2>1. used \in [Subjects -> 0..MaxVersions] /\ known \subseteq Ids
    BY DEF TypeOK
  <2>2. CASE UNCHANGED <<used, known>>
    BY <2>1, <2>2
  <2>3. CASE used[s] < MaxVersions /\ used' = [used EXCEPT ![s] = @ + 1]
             /\ \E id \in Ids : known' = known \cup {id}
    <3>1. used[s] + 1 \in 0..MaxVersions
      BY <2>1, <2>3, RegistryAssumption
    <3> QED
      BY <2>1, <2>3, <3>1
  <2> QED
    BY <1>1, <2>2, <2>3
<1>5. call' \in [Calls -> CallStates]
  BY <1>1 DEF TypeOK, CallStates
<1>6. UNCHANGED <<configured, cache, queue, request, localVars, level>>
  BY <1>1 DEF Becomes
<1> QED
  BY <1>2, <1>3, <1>4, <1>5, <1>6 DEF TypeOK, localVars

LEMMA TypeSetsLevel ==
    ASSUME TypeOK, NEW c \in Calls, SetsLevel(c)
    PROVE  TypeOK'
<1>1. level' \in [Subjects -> Levels \cup {0}]
  BY DEF SetsLevel, TypeOK
<1>2. call' \in [Calls -> CallStates]
  BY DEF SetsLevel, Answered, CallGoes, TypeOK, CallStates
<1>3. UNCHANGED <<configured, subjects, used, known, cache, queue, request, localVars, view>>
  BY DEF SetsLevel
<1> QED
  BY <1>1, <1>2, <1>3 DEF TypeOK, localVars

LEMMA StepsSplit ==
    ASSUME NEW c \in Calls, Steps(c)
    PROVE  \/ Moves(c) \/ Writes(c) \/ SetsLevel(c)
           \/ ListsVersions(c) \/ GetsVersion(c) \/ Encodes(c) \/ LooksUp(c) \/ Inserts(c) \/ Sends(c)
BY DEF Steps, Moves, Writes
-----------------------------------------------------------------------------
(* The invariant *)

\* A subject has a version of each number at most, and none with a number yet to be used.
SubjectInv ==
    \A s \in Subjects : \A v \in subjects[s] :
       /\ v.version <= used[s] /\ v.id \in known
       /\ \A w \in subjects[s] : v.version = w.version => v = w

\* A record whose schema was in the cache when its parsing began is found there.
ReadInv(c) ==
    /\ call[c] = "insert" => request[c].arg \in known \ Unparsable
    /\ view[c].cached => request[c].op = "read" /\ request[c].arg \in DOMAIN cache
    /\ view[c].cached /\ configured
          => call[c] = "lookup" \/ (call[c] = "done" /\ schema[c] = request[c].arg)

\* The same number is the same version in all that the subject has been.
MomentInv(c) ==
    request[c].op \in AboutVersions =>
       /\ subjects[request[c].subject] \in view[c].was
       /\ \A S \in view[c].was : \A v \in S :
             /\ v.version <= used[request[c].subject] /\ v.id \in known
             /\ \A T \in view[c].was : \A w \in T : v.version = w.version => v = w

\* S without what has yet to be got is what the call has.
Part(c, S) ==
    /\ got[c] = {v \in S : v.version \notin todo[c]}
    /\ todo[c] \subseteq {v.version : v \in S}

Latest(c) == \E vs \in view[c].was : \E v \in vs :
                v.id = schema[c] /\ \A w \in vs : w.version <= v.version

FetchInv(c) ==
    /\ call[c] \in {"ready", "versions"} => todo[c] = {} /\ got[c] = {}
    /\ call[c] = "version" => \E S \in view[c].was : Part(c, S)
    /\ call[c] \in {"level", "latest"} => got[c] \in view[c].was
    /\ call[c] = "done" /\ request[c].op = "subject" => got[c] \in view[c].was
    /\ call[c] \in {"send", "done"} /\ request[c].op = "produce"
          => Latest(c) /\ schema[c] \in known \ Unparsable

CallInv(c) == PointInv(c) /\ ReadInv(c) /\ MomentInv(c) /\ FetchInv(c)

Inv == /\ TypeOK
       /\ CacheIsTrue /\ SubjectInv
       /\ \A c \in Calls : CallInv(c)

LEMMA InvInit == Init => Inv
<1> SUFFICES ASSUME Init PROVE Inv
  OBVIOUS
<1>1. \A c \in Calls : /\ call[c] = "ready" /\ todo[c] = {} /\ got[c] = {}
                       /\ ~view[c].cached /\ request[c] = NoRequest
  BY DEF Init, NoView
<1>2. \A c \in Calls : CallInv(c)
  BY <1>1, NoRequestIsList
     DEF CallInv, PointInv, ReadInv, MomentInv, FetchInv, AboutVersions
<1>3. SubjectInv
  <2>1. ASSUME NEW s \in Subjects, NEW v \in subjects[s]
        PROVE  /\ v.version <= used[s] /\ v.id \in known
               /\ \A w \in subjects[s] : v.version = w.version => v = w
    <3>1. subjects[s] = {v} /\ v.version = 1
      BY <2>1 DEF Init
    <3>2. used[s] = 1
      BY <3>1, FS_Singleton DEF Init
    <3>3. v.id \in known
      BY DEF Init
    <3> QED
      BY <3>1, <3>2, <3>3
  <2> QED
    BY <2>1 DEF SubjectInv
<1>4. CacheIsTrue
  BY DEF Init, CacheIsTrue
<1> QED
  BY <1>2, <1>3, <1>4, TypeInit DEF Inv

\* What a step of c may do without disturbing another call: known ids and the cache grow.
Aside(c) ==
    /\ UNCHANGED <<configured, subjects, used, known>>
    /\ DOMAIN cache \subseteq DOMAIN cache'
    /\ \A d \in Calls \ {c} :
          /\ call'[d] = call[d] /\ request'[d] = request[d] /\ todo'[d] = todo[d]
          /\ got'[d] = got[d] /\ schema'[d] = schema[d] /\ view'[d] = view[d]

LEMMA AsideKeeps ==
    ASSUME Inv, NEW c \in Calls, Aside(c), TypeOK', CacheIsTrue', CallInv(c)'
    PROVE  Inv'
<1>1. SubjectInv'
  BY DEF Inv, SubjectInv, Aside
<1>2. ASSUME NEW d \in Calls \ {c} PROVE CallInv(d)'
  <2>0. CallInv(d)
    BY DEF Inv
  <2>1. PointInv(d)'
    BY <2>0 DEF CallInv, PointInv, Aside
  <2>2. ReadInv(d)'
    BY <2>0 DEF CallInv, ReadInv, Aside
  <2>3. MomentInv(d)'
    BY <2>0 DEF CallInv, MomentInv, Aside
  <2>4. FetchInv(d)'
    BY <2>0 DEF CallInv, FetchInv, Part, Latest, Aside
  <2> QED
    BY <2>1, <2>2, <2>3, <2>4 DEF CallInv
<1> QED
  BY <1>1, <1>2 DEF Inv

LEMMA InvBegin1 ==
    ASSUME Inv, NEW c \in Calls, NEW op, NEW to \in CallStates, Begin(c, op, to),
           to = "failed"
             \/ (to = "done" /\ op = "read" /\ ~configured)
             \/ <<op, to>> \in {<<"list", "list">>, <<"subject", "versions">>, <<"post", "post">>,
                                <<"delete_subject", "delete">>, <<"delete_version", "delete">>,
                                <<"set_level", "put">>, <<"produce", "versions">>,
                                <<"read", "lookup">>, <<"send", "send">>},
           op = "read" /\ configured => to = "lookup"
    PROVE  Inv'
<1>1. PICK r \in Requests :
         /\ r.op = op /\ request' = [request EXCEPT ![c] = r]
         /\ view' = [view EXCEPT ![c] =
                       [was |-> IF op \in AboutVersions THEN {subjects[r.subject]} ELSE {},
                        cached |-> op = "read" /\ r.arg \in DOMAIN cache]]
  BY DEF Begin
<1>2. /\ request'[c] = r /\ call'[c] = to /\ call[c] = "ready"
      /\ view'[c].was = IF op \in AboutVersions THEN {subjects[r.subject]} ELSE {}
      /\ view'[c].cached <=> op = "read" /\ r.arg \in DOMAIN cache
  BY <1>1 DEF Begin, CallGoes, Inv, TypeOK
<1>3. UNCHANGED <<registryVars, cache, queue, localVars>>
  BY DEF Begin
<1>4. Aside(c)
  BY <1>1, <1>3 DEF Aside, Begin, CallGoes, registryVars, localVars, Inv, TypeOK
<1>5. r.subject \in Subjects
  BY RequestFields
<1>6. PointInv(c)'
  BY <1>1, <1>2 DEF PointInv
<1>7. ReadInv(c)'
  BY <1>1, <1>2, <1>3 DEF ReadInv, registryVars
<1>8. MomentInv(c)'
  BY <1>1, <1>2, <1>3, <1>5 DEF MomentInv, Inv, SubjectInv, registryVars
<1>9. FetchInv(c)'
  <2>1. todo'[c] = {} /\ got'[c] = {}
    BY <1>2, <1>3 DEF Inv, CallInv, FetchInv, localVars
  <2> QED
    BY <1>1, <1>2, <2>1 DEF FetchInv
<1>10. CacheIsTrue'
  BY <1>3 DEF Inv, CacheIsTrue, registryVars
<1>11. TypeOK'
  BY TypeBegin1 DEF Inv
<1> QED
  BY <1>4, <1>6, <1>7, <1>8, <1>9, <1>10, <1>11, AsideKeeps DEF CallInv

LEMMA InvBegin ==
    ASSUME Inv, NEW c \in Calls, Begins(c)
    PROVE  Inv'
<1>1. {"failed", "done", "list", "versions", "delete", "post", "put", "send", "lookup"} \subseteq CallStates
  BY DEF CallStates
<1>2. CASE BeginList(c)
  BY <1>1, <1>2, InvBegin1 DEF BeginList
<1>3. CASE BeginSubject(c)
  BY <1>1, <1>3, InvBegin1 DEF BeginSubject
<1>4. CASE BeginDeleteSubject(c)
  BY <1>1, <1>4, InvBegin1 DEF BeginDeleteSubject
<1>5. CASE BeginDeleteVersion(c)
  BY <1>1, <1>5, InvBegin1 DEF BeginDeleteVersion
<1>6. CASE BeginPost(c)
  BY <1>1, <1>6, InvBegin1 DEF BeginPost
<1>7. CASE BeginSetLevel(c)
  BY <1>1, <1>7, InvBegin1 DEF BeginSetLevel
<1>8. CASE BeginProduce(c)
  BY <1>1, <1>8, InvBegin1 DEF BeginProduce
<1>9. CASE BeginSend(c)
  BY <1>1, <1>9, InvBegin1 DEF BeginSend
<1>10. CASE BeginRead(c)
  BY <1>1, <1>10, InvBegin1 DEF BeginRead, Inv, TypeOK
<1> QED
  BY <1>2, <1>3, <1>4, <1>5, <1>6, <1>7, <1>8, <1>9, <1>10 DEF Begins

LEMMA InvReturns ==
    ASSUME Inv, NEW c \in Calls, Returns(c)
    PROVE  Inv'
<1>1. /\ call'[c] = "ready" /\ request'[c] = NoRequest /\ todo'[c] = {} /\ got'[c] = {}
      /\ ~view'[c].cached
  BY DEF Returns, NoView, Inv, TypeOK
<1>2. UNCHANGED <<registryVars, cache, queue>>
  BY DEF Returns
<1>3. Aside(c)
  BY <1>2 DEF Aside, Returns, registryVars, Inv, TypeOK
<1>4. CallInv(c)'
  BY <1>1, NoRequestIsList
     DEF CallInv, PointInv, ReadInv, MomentInv, FetchInv, AboutVersions
<1>5. CacheIsTrue'
  BY <1>2 DEF Inv, CacheIsTrue, registryVars
<1>6. TypeOK'
  BY TypeReturns DEF Inv
<1> QED
  BY <1>3, <1>4, <1>5, <1>6, AsideKeeps

\* c moves on with what it has; the cases of CallInv that its new point adds are given.
LEMMA InvOn ==
    ASSUME Inv, NEW c \in Calls, NEW to, call' = [call EXCEPT ![c] = to],
           UNCHANGED <<configured, subjects, used, known, request, view>>, TypeOK',
           DOMAIN cache \subseteq DOMAIN cache', CacheIsTrue',
           \A d \in Calls \ {c} :
              todo'[d] = todo[d] /\ got'[d] = got[d] /\ schema'[d] = schema[d],
           PointInv(c)', ReadInv(c)', FetchInv(c)'
    PROVE  Inv'
<1>1. Aside(c)
  BY DEF Aside, Inv, TypeOK
<1>2. MomentInv(c)'
  BY DEF Inv, CallInv, MomentInv
<1> QED
  BY <1>1, <1>2, AsideKeeps DEF CallInv

LEMMA InvMoves ==
    ASSUME Inv, NEW c \in Calls, Moves(c)
    PROVE  Inv'
<1>0. TypeOK /\ CallInv(c) /\ CacheIsTrue
  BY DEF Inv
<1>1. UNCHANGED <<registryVars, cache, queue, request, localVars, view>>
  BY <1>0, MoveShape
<1>2. PICK to \in {"done", "failed", "insert"} : call' = [call EXCEPT ![c] = to]
  BY <1>0, MoveShape
<1>3. call'[c] = to /\ call[c] \notin {"ready", "lookup", "insert", "done", "failed"}
  BY <1>0, <1>2, MoveShape DEF TypeOK
<1>4. to = "insert" => request[c].arg \in known \ Unparsable /\ call[c] = "get"
  BY <1>0, <1>3, MoveShape
<1>5. to = "done" => call[c] \in {"list", "level", "get"} \/ request[c].op = "read"
  BY <1>0, <1>3, MoveShape
<1>6. PointInv(c)'
  BY <1>0, <1>1, <1>2, <1>3, <1>4 DEF CallInv, PointInv
<1>7. ReadInv(c)'
  BY <1>0, <1>1, <1>2, <1>3, <1>4 DEF CallInv, ReadInv, registryVars
<1>8. FetchInv(c)'
  BY <1>0, <1>1, <1>2, <1>3, <1>5
     DEF CallInv, PointInv, FetchInv, Latest, registryVars, localVars
<1>9. TypeOK'
  BY <1>0, TypeMoves
<1>10. CacheIsTrue'
  BY <1>0, <1>1 DEF CacheIsTrue, registryVars
<1> QED
  BY <1>1, <1>2, <1>6, <1>7, <1>8, <1>9, <1>10, InvOn DEF registryVars, localVars

LEMMA InvLists ==
    ASSUME Inv, NEW c \in Calls, ListsVersions(c)
    PROVE  Inv'
<1>0. TypeOK /\ CallInv(c) /\ CacheIsTrue
  BY DEF Inv
<1> DEFINE vs == subjects[request[c].subject]
<1>1. UNCHANGED <<registryVars, cache, queue, request, got, schema, view>>
      /\ call' = [call EXCEPT ![c] = "version"] /\ call[c] = "versions"
      /\ todo' = [todo EXCEPT ![c] = {v.version : v \in vs}]
  BY DEF ListsVersions, CallGoes
<1>2. call'[c] = "version" /\ todo'[c] = {v.version : v \in vs} /\ got[c] = {}
  BY <1>0, <1>1 DEF TypeOK, CallInv, FetchInv
<1>3. vs \in view[c].was
  BY <1>0, <1>1 DEF CallInv, PointInv, MomentInv, AboutVersions
<1>4. Part(c, vs)'
  BY <1>1, <1>2 DEF Part, registryVars
<1>5. FetchInv(c)'
  <2>1. \E S \in view'[c].was : Part(c, S)'
    BY <1>1, <1>3, <1>4 DEF registryVars, Part
  <2> QED
    BY <1>2, <2>1 DEF FetchInv, Part
<1>6. PointInv(c)' /\ ReadInv(c)'
  BY <1>0, <1>1, <1>2 DEF CallInv, PointInv, ReadInv, registryVars
<1>7. TypeOK'
  BY <1>0, TypeReads DEF CallInv
<1>8. CacheIsTrue' /\ \A d \in Calls \ {c} : todo'[d] = todo[d]
  BY <1>0, <1>1 DEF CacheIsTrue, registryVars, TypeOK
<1> QED
  BY <1>1, <1>5, <1>6, <1>7, <1>8, InvOn DEF registryVars

LEMMA InvGets ==
    ASSUME Inv, NEW c \in Calls, GetsVersion(c)
    PROVE  Inv'
<1>0. TypeOK /\ CallInv(c) /\ CacheIsTrue
  BY DEF Inv
<1>1. PICK v \in subjects[request[c].subject] :
         /\ v.version \in todo[c]
         /\ CallGoes(c, "version", IF todo[c] # {v.version} THEN "version"
                                   ELSE IF request[c].op = "produce" THEN "latest" ELSE "level")
         /\ todo' = [todo EXCEPT ![c] = @ \ {v.version}]
         /\ got' = [got EXCEPT ![c] = @ \cup {v}]
         /\ UNCHANGED <<registryVars, cache, queue, request, schema, view>>
  BY DEF GetsVersion
<1>2. PICK to \in {"version", "latest", "level"} :
         /\ call' = [call EXCEPT ![c] = to] /\ call[c] = "version"
         /\ to # "version" => todo[c] = {v.version}
         /\ (to = "latest" => request[c].op = "produce")
         /\ (to = "level" => request[c].op # "produce")
  <2>1. CASE todo[c] # {v.version}
    <3>1. call' = [call EXCEPT ![c] = "version"] /\ call[c] = "version"
      BY <1>1, <2>1 DEF CallGoes
    <3>2. v.version \in todo[c]
      BY <1>1
    <3> QED
      BY <2>1, <3>1, <3>2
  <2>2. CASE todo[c] = {v.version} /\ request[c].op = "produce"
    BY <1>1, <2>2 DEF CallGoes
  <2>3. CASE todo[c] = {v.version} /\ request[c].op # "produce"
    BY <1>1, <2>3 DEF CallGoes
  <2> QED
    BY <2>1, <2>2, <2>3
<1>3. call'[c] = to /\ todo'[c] = todo[c] \ {v.version} /\ got'[c] = got[c] \cup {v}
      /\ \A d \in Calls \ {c} : todo'[d] = todo[d] /\ got'[d] = got[d]
  BY <1>0, <1>1, <1>2 DEF TypeOK
<1>4. request[c].op \in {"subject", "produce"}
  BY <1>0, <1>2 DEF CallInv, PointInv
<1>5. PICK S \in view[c].was : Part(c, S)
  BY <1>0, <1>2 DEF CallInv, FetchInv
<1>6. v \in S
  <2>1. PICK w \in S : w.version = v.version
    BY <1>1, <1>5 DEF Part
  <2> QED
    BY <1>0, <1>4, <2>1 DEF CallInv, MomentInv, AboutVersions
<1>7. \A w \in S : w.version = v.version => w = v
  BY <1>0, <1>4, <1>6 DEF CallInv, MomentInv, AboutVersions
<1>8. got'[c] = {w \in S : w.version \notin todo'[c]} /\ todo'[c] \subseteq {w.version : w \in S}
  BY <1>3, <1>5, <1>6, <1>7 DEF Part
<1>9. FetchInv(c)'
  <2>1. to = "version" => \E T \in view'[c].was : Part(c, T)'
    BY <1>1, <1>8 DEF Part
  <2>2. to # "version" => got'[c] = S
    BY <1>2, <1>3, <1>8
  <2> QED
    BY <1>1, <1>3, <2>1, <2>2 DEF FetchInv, Part
<1>10. PointInv(c)' /\ ReadInv(c)'
  BY <1>0, <1>1, <1>2, <1>3, <1>4 DEF CallInv, PointInv, ReadInv, registryVars
<1>11. TypeOK'
  BY <1>0, TypeReads DEF CallInv
<1>12. CacheIsTrue'
  BY <1>0, <1>1 DEF CacheIsTrue, registryVars
<1> QED
  BY <1>1, <1>2, <1>3, <1>9, <1>10, <1>11, <1>12, InvOn DEF registryVars

\* The latest of what was got is the latest of one moment.
LEMMA InvEncodes ==
    ASSUME Inv, NEW c \in Calls, Encodes(c)
    PROVE  Inv'
<1>0. TypeOK /\ CallInv(c) /\ CacheIsTrue
  BY DEF Inv
<1> DEFINE v == LatestOf(got[c])
<1>1. /\ call[c] = "latest" /\ call' = [call EXCEPT ![c] = "send"]
      /\ v.id \notin Unparsable /\ schema' = [schema EXCEPT ![c] = v.id]
      /\ UNCHANGED <<registryVars, cache, queue, request, todo, got, view>>
  BY DEF Encodes, CallGoes
<1>2. call'[c] = "send" /\ schema'[c] = v.id /\ \A d \in Calls \ {c} : schema'[d] = schema[d]
  BY <1>0, <1>1 DEF TypeOK
<1>3. got[c] \in view[c].was /\ request[c].op = "produce" /\ got[c] # {}
      /\ got[c] \in SUBSET Versions
  BY <1>0, <1>1 DEF CallInv, PointInv, FetchInv, TypeOK
<1>4. v \in got[c] /\ \A w \in got[c] : w.version <= v.version
  BY <1>3, LatestExists
<1>5. v.id \in known \ Unparsable
  BY <1>0, <1>1, <1>3, <1>4 DEF CallInv, MomentInv, AboutVersions
<1> HIDE DEF v
<1>6. Latest(c)'
  BY <1>1, <1>2, <1>3, <1>4 DEF Latest
<1>7. FetchInv(c)'
  BY <1>1, <1>2, <1>5, <1>6 DEF FetchInv, registryVars
<1>8. PointInv(c)' /\ ReadInv(c)'
  BY <1>0, <1>1, <1>2, <1>3 DEF CallInv, PointInv, ReadInv, registryVars
<1>9. TypeOK'
  BY <1>0, TypeReads DEF CallInv
<1>10. CacheIsTrue'
  BY <1>0, <1>1 DEF CacheIsTrue, registryVars
<1> QED
  BY <1>1, <1>2, <1>7, <1>8, <1>9, <1>10, InvOn DEF registryVars

LEMMA InvLooksUp ==
    ASSUME Inv, NEW c \in Calls, LooksUp(c)
    PROVE  Inv'
<1>0. TypeOK /\ CallInv(c) /\ CacheIsTrue
  BY DEF Inv
<1>1. UNCHANGED <<registryVars, cache, queue, request, todo, got, view>> /\ call[c] = "lookup"
  BY DEF LooksUp, CallGoes
<1>2. request[c].op = "read"
  BY <1>0, <1>1 DEF CallInv, PointInv
<1>3. CASE request[c].arg \in DOMAIN cache
  <2>1. call' = [call EXCEPT ![c] = "done"] /\ schema' = [schema EXCEPT ![c] = cache[request[c].arg]]
    BY <1>3 DEF LooksUp, CallGoes
  <2>2. call'[c] = "done" /\ schema'[c] = request[c].arg /\ \A d \in Calls \ {c} : schema'[d] = schema[d]
    BY <1>0, <1>3, <2>1 DEF TypeOK, CacheIsTrue
  <2>3. PointInv(c)' /\ ReadInv(c)' /\ FetchInv(c)'
    BY <1>0, <1>1, <1>2, <2>2 DEF CallInv, PointInv, ReadInv, FetchInv, registryVars
  <2>4. TypeOK' /\ CacheIsTrue'
    BY <1>0, <1>1, TypeReads DEF CallInv, CacheIsTrue, registryVars
  <2> QED
    BY <1>1, <2>1, <2>2, <2>3, <2>4, InvOn DEF registryVars
<1>4. CASE request[c].arg \notin DOMAIN cache
  <2>1. call' = [call EXCEPT ![c] = "get"] /\ schema' = schema
    BY <1>4 DEF LooksUp, CallGoes
  <2>2. call'[c] = "get" /\ ~view[c].cached
    BY <1>0, <1>4, <2>1 DEF TypeOK, CallInv, ReadInv
  <2>3. PointInv(c)' /\ ReadInv(c)' /\ FetchInv(c)'
    BY <1>0, <1>1, <1>2, <2>1, <2>2 DEF CallInv, PointInv, ReadInv, FetchInv, registryVars
  <2>4. TypeOK' /\ CacheIsTrue'
    BY <1>0, <1>1, TypeReads DEF CallInv, CacheIsTrue, registryVars
  <2> QED
    BY <1>1, <2>1, <2>3, <2>4, InvOn DEF registryVars
<1> QED
  BY <1>3, <1>4

LEMMA InvInserts ==
    ASSUME Inv, NEW c \in Calls, Inserts(c)
    PROVE  Inv'
<1>0. TypeOK /\ CallInv(c) /\ CacheIsTrue
  BY DEF Inv
<1> DEFINE id == request[c].arg
<1>1. /\ UNCHANGED <<registryVars, queue, request, todo, got, view>> /\ call[c] = "insert"
      /\ call' = [call EXCEPT ![c] = "done"] /\ schema' = [schema EXCEPT ![c] = id]
      /\ cache' = [i \in DOMAIN cache \cup {id} |-> IF i = id THEN id ELSE cache[i]]
  BY DEF Inserts, CallGoes
<1>2. call'[c] = "done" /\ schema'[c] = id /\ \A d \in Calls \ {c} : schema'[d] = schema[d]
  BY <1>0, <1>1 DEF TypeOK
<1>3. request[c].op = "read" /\ id \in known \ Unparsable
  BY <1>0, <1>1 DEF CallInv, PointInv, ReadInv
<1>4. DOMAIN cache' = DOMAIN cache \cup {id} /\ CacheIsTrue'
  BY <1>0, <1>1, <1>3 DEF CacheIsTrue, registryVars
<1>5. PointInv(c)' /\ ReadInv(c)' /\ FetchInv(c)'
  BY <1>0, <1>1, <1>2, <1>3, <1>4 DEF CallInv, PointInv, ReadInv, FetchInv, registryVars
<1>6. TypeOK'
  BY <1>0, TypeReads DEF CallInv
<1> QED
  BY <1>1, <1>2, <1>4, <1>5, <1>6, InvOn DEF registryVars

LEMMA InvSends ==
    ASSUME Inv, NEW c \in Calls, Sends(c) \/ SetsLevel(c)
    PROVE  Inv'
<1>0. TypeOK /\ CallInv(c) /\ CacheIsTrue
  BY DEF Inv
<1>1. UNCHANGED <<configured, subjects, used, known, cache, request, localVars, view>>
  BY DEF Sends, SetsLevel, registryVars
<1>2. PICK to \in {"done", "failed"} : /\ call' = [call EXCEPT ![c] = to]
                                      /\ call[c] \in {"send", "put"}
  BY DEF Sends, SetsLevel, Answered, CallGoes
<1>3. call'[c] = to
  BY <1>0, <1>2 DEF TypeOK
<1>4. PointInv(c)' /\ ReadInv(c)'
  BY <1>0, <1>1, <1>2, <1>3 DEF CallInv, PointInv, ReadInv
<1>5. FetchInv(c)'
  BY <1>0, <1>1, <1>2, <1>3 DEF CallInv, PointInv, FetchInv, Latest, localVars
<1>6. TypeOK' /\ CacheIsTrue'
  BY <1>0, <1>1, TypeReads, TypeSetsLevel DEF CallInv, CacheIsTrue
<1> QED
  BY <1>1, <1>2, <1>4, <1>5, <1>6, InvOn DEF localVars

\* A write adds to what the calls on its subject can see, and gives no number twice.
LEMMA InvWrites ==
    ASSUME Inv, NEW c \in Calls, Writes(c)
    PROVE  Inv'
<1>0. TypeOK /\ CallInv(c) /\ CacheIsTrue /\ SubjectInv
  BY DEF Inv
<1>1. PICK vs \in SUBSET Versions, s \in Subjects :
         /\ s = request[c].subject /\ Becomes(s, vs)
         /\ \/ vs \subseteq subjects[s] /\ UNCHANGED <<used, known>>
            \/ \E id \in Ids : /\ used[s] < MaxVersions
                               /\ vs = subjects[s] \cup {[version |-> used[s] + 1, id |-> id]}
                               /\ used' = [used EXCEPT ![s] = @ + 1]
                               /\ known' = known \cup {id}
         /\ \E to \in {"done", "failed"} : call' = [call EXCEPT ![c] = to]
         /\ UNCHANGED level
         /\ request[c].op \in {"post", "delete_subject", "delete_version"}
  BY <1>0, WriteShape DEF CallInv
<1>2. UNCHANGED <<configured, cache, queue, request, todo, got, schema>>
  BY <1>1 DEF Becomes, localVars
<1>3. call'[c] \in {"done", "failed"} /\ \A d \in Calls \ {c} : call'[d] = call[d]
  BY <1>0, <1>1 DEF TypeOK
<1>4. subjects'[s] = vs /\ \A t \in Subjects \ {s} : subjects'[t] = subjects[t] /\ used'[t] = used[t]
  BY <1>0, <1>1 DEF Becomes, TypeOK
<1>5. known \subseteq known' /\ \A t \in Subjects : used[t] <= used'[t] /\ used'[t] \in Nat /\ used[t] \in Nat
  BY <1>0, <1>1, RegistryAssumption DEF TypeOK
\* a version of vs is an old one, or has a number that none has had
<1>6. \A v \in vs : \/ v \in subjects[s]
                    \/ v.version = used[s] + 1 /\ used'[s] = used[s] + 1 /\ v.id \in known'
  BY <1>0, <1>1 DEF TypeOK
<1>7. \A v, w \in vs : v \notin subjects[s] /\ w \notin subjects[s] => v = w
  BY <1>1
<1>8. SubjectInv'
  <2>1. ASSUME NEW v \in vs, NEW w \in vs
        PROVE  v.version <= used'[s] /\ v.id \in known' /\ (v.version = w.version => v = w)
    BY <1>0, <1>5, <1>6, <1>7 DEF SubjectInv, Versions
  <2> QED
    BY <1>0, <1>4, <1>5, <2>1 DEF SubjectInv, TypeOK, Versions
<1>9. ASSUME NEW d \in Calls PROVE CallInv(d)'
  <2>0. CallInv(d) /\ view[d] \in [was : SUBSET SUBSET Versions, cached : BOOLEAN]
        /\ request[d] \in Requests
    BY DEF Inv, TypeOK
  <2>1. /\ view'[d].cached = view[d].cached
        /\ IF request[d].subject = s /\ request[d].op \in AboutVersions
              THEN view'[d].was = view[d].was \cup {vs} ELSE view'[d].was = view[d].was
    BY <1>0, <1>1, <2>0 DEF Becomes
  <2>2. PointInv(d)'
    BY <1>2, <1>3, <2>0 DEF CallInv, PointInv
  <2>3. ReadInv(d)'
    BY <1>1, <1>2, <1>3, <1>5, <2>0, <2>1 DEF CallInv, ReadInv
  <2>4. MomentInv(d)'
    <3>0. SUFFICES ASSUME request[d].op \in AboutVersions PROVE MomentInv(d)'
      BY <1>2 DEF MomentInv
    <3>1. CASE request[d].subject = s
      <4>1. view'[d].was = view[d].was \cup {vs} /\ subjects[s] \in view[d].was
        BY <2>0, <2>1, <3>0, <3>1 DEF CallInv, MomentInv
      <4>2. ASSUME NEW S \in view[d].was, NEW v \in S, NEW w \in vs, v.version = w.version
            PROVE  v = w
        <5>1. v.version <= used[s] /\ v.version \in Nat
          BY <2>0, <3>0, <3>1 DEF CallInv, MomentInv, Versions
        <5>2. w \in subjects[s]
          BY <1>5, <1>6, <4>2, <5>1
        <5> QED
          BY <2>0, <3>0, <3>1, <4>1, <4>2, <5>2 DEF CallInv, MomentInv
      <4>3. \A v \in vs : /\ v.version <= used'[s] /\ v.id \in known'
                          /\ \A w \in vs : v.version = w.version => v = w
        BY <1>4, <1>8 DEF SubjectInv
      <4>4. ASSUME NEW S \in view'[d].was, NEW v \in S
            PROVE  /\ v.version <= used'[s] /\ v.id \in known'
                   /\ \A T \in view'[d].was : \A w \in T : v.version = w.version => v = w
        <5>1. CASE S = vs
          BY <4>1, <4>2, <4>3, <4>4, <5>1
        <5>2. CASE S \in view[d].was
          <6>1. v.version <= used[s] /\ v.id \in known /\ v.version \in Nat
            BY <2>0, <3>0, <3>1, <5>2 DEF CallInv, MomentInv, Versions
          <6>2. \A T \in view[d].was : \A w \in T : v.version = w.version => v = w
            BY <2>0, <3>0, <3>1, <5>2 DEF CallInv, MomentInv
          <6> QED
            BY <1>5, <4>1, <4>2, <5>2, <6>1, <6>2
        <5> QED
          BY <4>1, <5>1, <5>2
      <4> QED
        BY <1>2, <1>4, <3>1, <4>1, <4>4 DEF MomentInv
    <3>2. CASE request[d].subject # s
      <4>1. request[d].subject \in Subjects \ {s} /\ view'[d].was = view[d].was
        BY <2>0, <2>1, <3>2, RequestFields
      <4> QED
        BY <1>2, <1>4, <1>5, <2>0, <4>1 DEF CallInv, MomentInv
    <3> QED
      BY <3>1, <3>2
  <2>5. FetchInv(d)'
    <3>1. view[d].was \subseteq view'[d].was
      BY <2>1
    <3>2. call'[d] = call[d] \/ (d = c /\ request[d].op \notin {"subject", "produce"})
      BY <1>1, <1>3
    <3>3. ASSUME call'[d] = call[d] PROVE FetchInv(d)'
      <4>1. call[d] = "version" => \E S \in view'[d].was : Part(d, S)'
        BY <1>2, <2>0, <3>1 DEF CallInv, FetchInv, Part
      <4>2. Latest(d) => Latest(d)'
        BY <1>2, <3>1 DEF Latest
      <4> QED
        BY <1>2, <1>5, <2>0, <3>1, <3>3, <4>1, <4>2 DEF CallInv, FetchInv, Part
    <3>4. ASSUME d = c, request[d].op \notin {"subject", "produce"} PROVE FetchInv(d)'
      BY <1>2, <1>3, <3>4 DEF FetchInv
    <3> QED
      BY <3>2, <3>3, <3>4
  <2> QED
    BY <2>2, <2>3, <2>4, <2>5 DEF CallInv
<1>10. CacheIsTrue'
  BY <1>0, <1>2, <1>5 DEF CacheIsTrue
<1>11. TypeOK'
  BY <1>0, TypeWrites DEF CallInv
<1> QED
  BY <1>8, <1>9, <1>10, <1>11 DEF Inv

LEMMA InvStep == Inv /\ [Next]_vars => Inv'
<1> SUFFICES ASSUME Inv, [Next]_vars PROVE Inv'
  OBVIOUS
<1>1. ASSUME NEW c \in Calls, Begins(c) PROVE Inv'
  BY <1>1, InvBegin
<1>2. ASSUME NEW c \in Calls, Steps(c) PROVE Inv'
  BY <1>2, StepsSplit, InvMoves, InvWrites, InvLists, InvGets, InvEncodes, InvLooksUp,
     InvInserts, InvSends
<1>3. ASSUME NEW c \in Calls, Returns(c) PROVE Inv'
  BY <1>3, InvReturns
<1>4. CASE UNCHANGED vars
  <2>1. TypeOK'
    BY <1>4 DEF Inv, TypeOK, vars, registryVars, localVars
  <2>2. CacheIsTrue' /\ SubjectInv'
    BY <1>4 DEF Inv, CacheIsTrue, SubjectInv, vars, registryVars
  <2>3. \A c \in Calls : CallInv(c)'
    BY <1>4 DEF Inv, CallInv, PointInv, ReadInv, MomentInv, FetchInv, Part, Latest,
                vars, registryVars, localVars
  <2> QED
    BY <2>1, <2>2, <2>3 DEF Inv
<1> QED
  BY <1>1, <1>2, <1>3, <1>4 DEF Next
-----------------------------------------------------------------------------
(* The theorems *)

\* Every variable keeps its type, and the producer's queue its limit.
THEOREM TypeCorrect == Spec => []TypeOK
<1>1. Inv => TypeOK
  BY DEF Inv
<1> QED
  BY <1>1, InvInit, InvStep, PTL DEF Spec

\* The cache of get_schema_by_id never holds anything but the schema of its id.
THEOREM CacheStaysTrue == Spec => []CacheIsTrue
<1>1. Inv => CacheIsTrue
  BY DEF Inv
<1> QED
  BY <1>1, InvInit, InvStep, PTL DEF Spec

\* What could be read once can be read for ever, with or without a connection.
THEOREM ReadableForEver == Spec => []CachedStaysReadable
<1>1. Inv => CachedStaysReadable
  BY DEF Inv, CallInv, ReadInv, CachedStaysReadable
<1> QED
  BY <1>1, InvInit, InvStep, PTL DEF Spec

\* The versions that get_versions fetches one by one are those of one moment of the call:
\* numbers are not used twice, and one that is missing by then fails the whole call.
THEOREM OneMoment == Spec => []AnswerIsOneMoment
<1>1. Inv => AnswerIsOneMoment
  BY DEF Inv, CallInv, FetchInv, AnswerIsOneMoment
<1> QED
  BY <1>1, InvInit, InvStep, PTL DEF Spec

\* A record is produced with the schema that was the latest at a moment of the call.
THEOREM LatestIsProduced == Spec => []ProducedIsLatest
<1>1. Inv => ProducedIsLatest
  BY DEF Inv, CallInv, FetchInv, Latest, ProducedIsLatest
<1> QED
  BY <1>1, InvInit, InvStep, PTL DEF Spec
=============================================================================
