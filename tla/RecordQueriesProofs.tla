------------------------- MODULE RecordQueriesProofs -------------------------
(***************************************************************************)
(* Proofs about RecordQueries, for any tasks, connections and records: who *)
(* has which connection of the pool, and whose progress handler is on it;  *)
(* what the pages of a query have shown, and what an export has written.   *)
(***************************************************************************)
EXTENDS RecordQueries, FiniteSetTheorems, SequenceTheorems, TLAPS

-----------------------------------------------------------------------------
(* The invariant *)

\* The part of TypeOK that is about the pool
PoolTypeOK ==
    /\ task \in [Tasks -> States]
    /\ holder \in [Conns -> Tasks \cup {None}]
    /\ handler \in [Conns -> Queries \cup {None}]

\* Where a task has no connection, and where it has one; a DROP is the only place for two.
HasNone == {"ready", "connect", "fill", "parsed", "ask", "done", "failed", "timed_out"}
HasOne == {"destroy", "create", "insert", "query", "read", "copy"}

\* The connections of a task are those that it needs where it is, which is where a
\* task of its kind can be.
TaskFits(t) ==
    /\ task[t] \in HasNone => Held(t) = {}
    /\ task[t] \in HasOne => \E c \in Conns : Held(t) = {c}
    /\ task[t] = "drop" => \E c, d \in Conns : c # d /\ Held(t) = {c, d}
    /\ task[t] \in {"connect", "destroy", "drop", "create"} => t \in Setups
    /\ task[t] \in {"insert", "parsed", "fill"} => t = Consumer
    /\ task[t] \in {"ask", "query", "read"} => t \in Queries

\* A handler is that of the task which has the connection and is asking its query.
HandlerFits(c) ==
    handler[c] # None => /\ holder[c] = handler[c]
                         /\ task[handler[c]] \in {"query", "read"}

PoolInv ==
    /\ PoolTypeOK
    /\ \A t \in Tasks : TaskFits(t)
    /\ \A c \in Conns : HandlerFits(c)

LEMMA TaskKinds ==
    /\ Queries \subseteq Tasks /\ Setups \subseteq Tasks /\ Backups \subseteq Tasks
    /\ Browsers \subseteq Queries /\ Exports \subseteq Queries /\ Elsewhere \subseteq Queries
    /\ Elsewhere \subseteq Setups
    /\ Consumer \in Setups /\ Consumer \notin Queries /\ None \notin Tasks
BY QueriesAssumption DEF Queries, Setups, Tasks

LEMMA PoolInit == Init => PoolInv
<1> SUFFICES ASSUME Init PROVE PoolInv
  OBVIOUS
<1>1. PoolTypeOK
  BY DEF Init, PoolTypeOK, States
<1>2. \A t \in Tasks : TaskFits(t)
  BY TaskKinds DEF Init, TaskFits, Held, HasNone, HasOne
<1>3. \A c \in Conns : HandlerFits(c)
  BY DEF Init, HandlerFits
<1> QED
  BY <1>1, <1>2, <1>3 DEF PoolInv
-----------------------------------------------------------------------------
(* What the operations of the pool do *)

\* The connections of the others stay as they are.
OthersKeep(t) == \A u \in Tasks \ {t} : Held(u)' = Held(u)

LEMMA TakesOne ==
    ASSUME PoolTypeOK, NEW t \in Tasks, Takes(t)
    PROVE  /\ holder' \in [Conns -> Tasks \cup {None}]
           /\ OthersKeep(t)
           /\ \E c \in Conns : /\ holder[c] = None
                               /\ Held(t)' = Held(t) \cup {c}
                               /\ c \notin Held(t)
                               /\ \A d \in Conns \ {c} : holder'[d] = holder[d]
<1>1. PICK c \in Free : holder' = [holder EXCEPT ![c] = t]
  BY DEF Takes
<1>2. c \in Conns /\ holder[c] = None /\ None \notin Tasks
  BY TaskKinds DEF Free
<1>3. holder' \in [Conns -> Tasks \cup {None}]
  BY <1>1, <1>2 DEF PoolTypeOK
<1>4. holder'[c] = t /\ \A d \in Conns \ {c} : holder'[d] = holder[d]
  BY <1>1, <1>2 DEF PoolTypeOK
<1>5. OthersKeep(t)
  BY <1>2, <1>4 DEF OthersKeep, Held
<1>6. Held(t)' = Held(t) \cup {c} /\ c \notin Held(t)
  BY <1>2, <1>4 DEF Held
<1> QED
  BY <1>2, <1>3, <1>4, <1>5, <1>6

LEMMA ReturnsThem ==
    ASSUME PoolTypeOK, NEW t \in Tasks, ReturnsAll(t)
    PROVE  /\ holder' \in [Conns -> Tasks \cup {None}]
           /\ OthersKeep(t)
           /\ Held(t)' = {}
           /\ \A c \in Conns : holder[c] # t => holder'[c] = holder[c]
<1>1. \A c \in Conns : holder'[c] = IF holder[c] = t THEN None ELSE holder[c]
  BY DEF ReturnsAll
<1>2. holder' \in [Conns -> Tasks \cup {None}]
  BY DEF ReturnsAll, PoolTypeOK
<1>3. OthersKeep(t)
  BY <1>1, TaskKinds DEF OthersKeep, Held
<1>4. Held(t)' = {}
  BY <1>1, TaskKinds DEF Held
<1> QED
  BY <1>1, <1>2, <1>3, <1>4

\* A step of one task keeps the invariant, if it fits where it comes to and the handlers
\* do.
LEMMA OneMoves ==
    ASSUME PoolInv, NEW t \in Tasks, NEW s \in States,
           task' = [task EXCEPT ![t] = s],
           holder' \in [Conns -> Tasks \cup {None}],
           handler' \in [Conns -> Queries \cup {None}],
           OthersKeep(t),
           task'[t] = s => TaskFits(t)',
           \A c \in Conns : HandlerFits(c)'
    PROVE  PoolInv'
<1>1. PoolTypeOK'
  BY DEF PoolInv, PoolTypeOK
<1>2. task'[t] = s /\ \A u \in Tasks \ {t} : task'[u] = task[u]
  BY DEF PoolInv, PoolTypeOK
<1>3. ASSUME NEW u \in Tasks \ {t} PROVE TaskFits(u)'
  <2>1. task'[u] = task[u] /\ Held(u)' = Held(u) /\ TaskFits(u)
    BY <1>2 DEF OthersKeep, PoolInv
  <2> QED
    BY <2>1 DEF TaskFits
<1> QED
  BY <1>1, <1>2, <1>3 DEF PoolInv
-----------------------------------------------------------------------------
(* The kinds of steps *)

\* Nothing happens to the pool.
LEMMA PoolStays ==
    ASSUME PoolInv, NEW t \in Tasks, NEW s \in States,
           task' = [task EXCEPT ![t] = s], UNCHANGED poolVars,
           \/ task[t] \in HasNone /\ s \in HasNone
           \/ task[t] = "query" /\ s = "read",
           s = "connect" => t \in Setups,
           s \in {"parsed", "fill"} => t = Consumer,
           s \in {"ask", "read"} => t \in Queries
    PROVE  PoolInv'
<1>1. holder' = holder /\ handler' = handler
  BY DEF poolVars
<1>2. holder' \in [Conns -> Tasks \cup {None}] /\ handler' \in [Conns -> Queries \cup {None}]
  BY <1>1 DEF PoolInv, PoolTypeOK
<1>3. OthersKeep(t) /\ Held(t)' = Held(t)
  BY <1>1 DEF OthersKeep, Held
<1>4. task'[t] = s /\ TaskFits(t) /\ \A u \in Tasks \ {t} : task'[u] = task[u]
  BY DEF PoolInv, PoolTypeOK
<1>5. TaskFits(t)'
  BY <1>3, <1>4 DEF TaskFits, HasNone, HasOne
<1>6. ASSUME NEW c \in Conns PROVE HandlerFits(c)'
  <2>1. HandlerFits(c) /\ handler[c] \in Queries \cup {None}
    BY DEF PoolInv, PoolTypeOK
  <2>2. handler[c] = t => task[t] = "query" /\ s = "read"
    <3>1. handler[c] = t => c \in Held(t)
      BY <2>1, TaskKinds DEF HandlerFits, Held
    <3> QED
      BY <3>1, <1>4 DEF TaskFits
  <2>3. handler[c] # None => handler[c] \in Tasks
    BY <2>1, TaskKinds
  <2> QED
    BY <1>1, <1>4, <2>1, <2>2, <2>3 DEF HandlerFits
<1> QED
  BY <1>2, <1>3, <1>5, <1>6, OneMoves

\* A task that is not a query takes its first or second connection.
LEMMA TaskTakes ==
    ASSUME PoolInv, NEW t \in Tasks, NEW s \in States,
           task' = [task EXCEPT ![t] = s], Takes(t), UNCHANGED handler,
           \/ task[t] \in HasNone /\ s \in {"destroy", "insert", "copy"}
           \/ task[t] = "destroy" /\ s = "drop",
           s \in {"destroy", "drop"} => t \in Setups,
           s = "insert" => t = Consumer
    PROVE  PoolInv'
<1>1. PICK c \in Conns : /\ holder[c] = None
                         /\ Held(t)' = Held(t) \cup {c}
                         /\ c \notin Held(t)
                         /\ \A d \in Conns \ {c} : holder'[d] = holder[d]
  BY TakesOne DEF PoolInv
<1>2. holder' \in [Conns -> Tasks \cup {None}] /\ OthersKeep(t)
  BY TakesOne DEF PoolInv
<1>3. handler' \in [Conns -> Queries \cup {None}]
  BY DEF PoolInv, PoolTypeOK
<1>4. task'[t] = s /\ TaskFits(t) /\ \A u \in Tasks \ {t} : task'[u] = task[u]
  BY DEF PoolInv, PoolTypeOK
<1>5. TaskFits(t)'
  <2>1. CASE task[t] \in HasNone /\ s \in {"destroy", "insert", "copy"}
    <3>1. Held(t)' = {c}
      BY <1>1, <1>4, <2>1 DEF TaskFits
    <3> QED
      BY <1>4, <2>1, <3>1 DEF TaskFits, HasNone, HasOne
  <2>2. CASE task[t] = "destroy" /\ s = "drop"
    <3>1. PICK d \in Conns : Held(t) = {d}
      BY <1>4, <2>2 DEF TaskFits, HasOne
    <3>2. d # c /\ Held(t)' = {d, c}
      BY <1>1, <3>1
    <3> QED
      BY <1>4, <2>2, <3>2 DEF TaskFits, HasNone, HasOne
  <2> QED
    BY <2>1, <2>2
<1>6. ASSUME NEW d \in Conns PROVE HandlerFits(d)'
  <2>1. HandlerFits(d) /\ handler[d] \in Queries \cup {None}
    BY DEF PoolInv, PoolTypeOK
  <2>2. CASE handler[d] = None
    BY <2>2 DEF HandlerFits
  <2>3. CASE handler[d] # None
    <3>1. handler[d] \in Tasks /\ d # c /\ holder[d] = handler[d]
          /\ task[handler[d]] \in {"query", "read"}
      BY <1>1, <2>1, <2>3, TaskKinds DEF HandlerFits
    <3>2. handler[d] # t
      BY <3>1 DEF HasNone
    <3> QED
      BY <1>1, <1>4, <3>1, <3>2 DEF HandlerFits
  <2> QED
    BY <2>2, <2>3
<1> QED
  BY <1>2, <1>3, <1>5, <1>6, OneMoves

\* A task that is not asking a query returns what it has.
LEMMA TaskReturns ==
    ASSUME PoolInv, NEW t \in Tasks, NEW s \in States,
           task' = [task EXCEPT ![t] = s], ReturnsAll(t), UNCHANGED handler,
           task[t] \notin {"query", "read"},
           s \in {"ready", "fill", "failed", "timed_out"},
           s = "fill" => t = Consumer
    PROVE  PoolInv'
<1>1. /\ holder' \in [Conns -> Tasks \cup {None}] /\ OthersKeep(t) /\ Held(t)' = {}
      /\ \A c \in Conns : holder[c] # t => holder'[c] = holder[c]
  BY ReturnsThem DEF PoolInv
<1>2. handler' \in [Conns -> Queries \cup {None}]
  BY DEF PoolInv, PoolTypeOK
<1>3. task'[t] = s /\ \A u \in Tasks \ {t} : task'[u] = task[u]
  BY DEF PoolInv, PoolTypeOK
<1>4. TaskFits(t)'
  BY <1>1, <1>3 DEF TaskFits, HasNone, HasOne
<1>5. ASSUME NEW c \in Conns PROVE HandlerFits(c)'
  <2>1. HandlerFits(c) /\ handler[c] \in Queries \cup {None}
    BY DEF PoolInv, PoolTypeOK
  <2>2. handler[c] # None => handler[c] \in Tasks \ {t} /\ holder[c] = handler[c]
    BY <2>1, TaskKinds DEF HandlerFits
  <2> QED
    BY <1>1, <1>3, <2>1, <2>2 DEF HandlerFits
<1> QED
  BY <1>1, <1>2, <1>4, <1>5, OneMoves

\* A query ends.
LEMMA QueryReturns ==
    ASSUME PoolInv, NEW q \in Queries, NEW s \in States,
           task' = [task EXCEPT ![q] = s], Disconnects(q),
           s \in {"ready", "done", "failed", "timed_out"}
    PROVE  PoolInv'
<1>1. q \in Tasks /\ ReturnsAll(q)
  BY TaskKinds DEF Disconnects
<1>2. /\ holder' \in [Conns -> Tasks \cup {None}] /\ OthersKeep(q) /\ Held(q)' = {}
      /\ \A c \in Conns : holder[c] # q => holder'[c] = holder[c]
  BY <1>1, ReturnsThem DEF PoolInv
<1>3. handler' = [c \in Conns |-> IF holder[c] = q THEN None ELSE handler[c]]
  BY DEF Disconnects
<1>4. handler' \in [Conns -> Queries \cup {None}]
  BY <1>3 DEF PoolInv, PoolTypeOK
<1>5. task'[q] = s /\ \A u \in Tasks \ {q} : task'[u] = task[u]
  BY <1>1 DEF PoolInv, PoolTypeOK
<1>6. TaskFits(q)'
  BY <1>2, <1>5 DEF TaskFits, HasNone, HasOne
<1>7. ASSUME NEW c \in Conns PROVE HandlerFits(c)'
  <2>1. HandlerFits(c) /\ handler[c] \in Queries \cup {None}
    BY DEF PoolInv, PoolTypeOK
  <2>2. CASE handler'[c] = None
    BY <2>2 DEF HandlerFits
  <2>3. CASE handler'[c] # None
    <3>1. holder[c] # q /\ handler'[c] = handler[c]
      BY <1>3, <2>3
    <3>2. handler[c] \in Tasks \ {q} /\ holder[c] = handler[c]
      BY <2>1, <2>3, <3>1, TaskKinds DEF HandlerFits
    <3> QED
      BY <1>2, <1>5, <2>1, <2>3, <3>1, <3>2 DEF HandlerFits
  <2> QED
    BY <2>2, <2>3
<1> QED
  BY <1>1, <1>2, <1>4, <1>6, <1>7, OneMoves
-----------------------------------------------------------------------------
(* The actions *)

LEMMA InvSetups ==
    ASSUME PoolInv, NEW t \in Setups, SetupNext(t)
    PROVE  PoolInv'
<1>0. t \in Tasks /\ PoolTypeOK
  BY TaskKinds DEF PoolInv
<1>1. CASE StartsSetup(t)
  BY <1>0, <1>1, PoolStays DEF StartsSetup, HasNone, States
<1>2. CASE SetupConnects(t)
  BY <1>0, <1>2, TaskTakes DEF SetupConnects, Goes, HasNone, States
<1>3. CASE DestroyConnects(t)
  BY <1>0, <1>3, TaskTakes DEF DestroyConnects, Goes, HasNone, States
<1>4. CASE Drops(t)
  <2>1. task[t] = "drop" /\ task' = [task EXCEPT ![t] = "create"] /\ UNCHANGED handler
    BY <1>4 DEF Drops, Goes
  <2>2. PICK c \in Held(t) : holder' = [holder EXCEPT ![c] = None]
    BY <1>4 DEF Drops
  <2>3. c \in Conns /\ holder[c] = t /\ t # None
    BY <1>0, TaskKinds DEF Held
  <2>4. /\ holder' \in [Conns -> Tasks \cup {None}]
        /\ holder'[c] = None /\ \A d \in Conns \ {c} : holder'[d] = holder[d]
    BY <1>0, <2>2, <2>3 DEF PoolTypeOK
  <2>5. OthersKeep(t) /\ Held(t)' = Held(t) \ {c}
    BY <2>3, <2>4, TaskKinds DEF OthersKeep, Held
  <2>6. \E d \in Conns : Held(t)' = {d}
    <3>1. PICK d, e \in Conns : d # e /\ Held(t) = {d, e}
      BY <1>0, <2>1 DEF PoolInv, TaskFits
    <3>2. Held(t)' = {d} \/ Held(t)' = {e}
      BY <2>5, <3>1
    <3> QED
      BY <3>2
  <2>7. task'[t] = "create" /\ \A u \in Tasks \ {t} : task'[u] = task[u]
    BY <1>0, <2>1 DEF PoolTypeOK
  <2>8. TaskFits(t)'
    BY <2>6, <2>7 DEF TaskFits, HasNone, HasOne
  <2>9. ASSUME NEW d \in Conns PROVE HandlerFits(d)'
    <3>1. HandlerFits(d) /\ handler[d] \in Queries \cup {None}
      BY DEF PoolInv, PoolTypeOK
    <3>2. CASE handler[d] = None
      BY <2>1, <3>2 DEF HandlerFits
    <3>3. CASE handler[d] # None
      <4>1. handler[d] \in Tasks \ {t} /\ holder[d] = handler[d] /\ d # c
        BY <2>1, <2>3, <3>1, <3>3, TaskKinds DEF HandlerFits
      <4> QED
        BY <2>1, <2>4, <2>7, <3>1, <3>3, <4>1 DEF HandlerFits
    <3> QED
      BY <3>2, <3>3
  <2>10. handler' \in [Conns -> Queries \cup {None}] /\ "create" \in States
    BY <1>0, <2>1 DEF PoolTypeOK, States
  <2> QED
    BY <1>0, <2>1, <2>4, <2>5, <2>8, <2>9, <2>10, OneMoves
<1>5. CASE Creates(t)
  <2>1. PICK s \in {"fill", "ready"} :
          task[t] = "create" /\ task' = [task EXCEPT ![t] = s] /\ (s = "fill" => t = Consumer)
    BY <1>5 DEF Creates, Goes
  <2>2. ReturnsAll(t) /\ UNCHANGED handler /\ s \in States
    BY <1>5 DEF Creates, States
  <2> QED
    BY <1>0, <2>1, <2>2, TaskReturns
<1>6. CASE SetupRefused(t)
  BY <1>0, <1>6, TaskReturns DEF SetupRefused, States
<1> QED
  BY <1>1, <1>2, <1>3, <1>4, <1>5, <1>6 DEF SetupNext

LEMMA InvRun ==
    ASSUME PoolInv, Receives \/ InsertConnects \/ Inserts \/ Ends
    PROVE  PoolInv'
<1>0. Consumer \in Tasks
  BY TaskKinds
<1>1. CASE Receives
  BY <1>0, <1>1, PoolStays DEF Receives, Goes, HasNone, States
<1>2. CASE InsertConnects
  BY <1>0, <1>2, TaskTakes DEF InsertConnects, Goes, HasNone, States
<1>3. CASE Inserts
  BY <1>0, <1>3, TaskReturns DEF Inserts, Goes, States
<1>4. CASE Ends
  BY <1>0, <1>4, PoolStays DEF Ends, Goes, HasNone, States
<1> QED
  BY <1>1, <1>2, <1>3, <1>4

LEMMA InvConnects ==
    ASSUME PoolInv, NEW q \in Queries, QueryConnects(q)
    PROVE  PoolInv'
<1>0. q \in Tasks /\ PoolTypeOK /\ "query" \in States
  BY TaskKinds DEF PoolInv, States
<1>1. /\ task[q] = "ask" /\ task' = [task EXCEPT ![q] = "query"] /\ Takes(q)
      /\ handler' = [c \in Conns |-> IF holder'[c] = q THEN q ELSE handler[c]]
  BY DEF QueryConnects, Goes
<1>2. PICK c \in Conns : /\ holder[c] = None
                         /\ Held(q)' = Held(q) \cup {c}
                         /\ c \notin Held(q)
                         /\ \A d \in Conns \ {c} : holder'[d] = holder[d]
  BY <1>0, <1>1, TakesOne
<1>3. holder' \in [Conns -> Tasks \cup {None}] /\ OthersKeep(q)
  BY <1>0, <1>1, TakesOne
<1>4. handler' \in [Conns -> Queries \cup {None}]
  BY <1>0, <1>1 DEF PoolTypeOK
<1>5. task'[q] = "query" /\ \A u \in Tasks \ {q} : task'[u] = task[u]
  BY <1>0, <1>1 DEF PoolTypeOK
<1>6. Held(q)' = {c}
  BY <1>0, <1>1, <1>2 DEF PoolInv, TaskFits, HasNone
<1>7. TaskFits(q)'
  BY <1>5, <1>6 DEF TaskFits, HasNone, HasOne
<1>8. ASSUME NEW d \in Conns PROVE HandlerFits(d)'
  <2>1. HandlerFits(d) /\ handler[d] \in Queries \cup {None}
    BY DEF PoolInv, PoolTypeOK
  <2>2. CASE holder'[d] = q
    BY <1>1, <1>5, <2>2 DEF HandlerFits
  <2>3. CASE holder'[d] # q
    <3>1. handler'[d] = handler[d] /\ d # c
      BY <1>1, <1>6, <2>3 DEF Held
    <3>2. handler[d] # None => handler[d] \in Tasks \ {q}
      BY <1>1, <2>1, TaskKinds DEF HandlerFits
    <3> QED
      BY <1>2, <1>5, <2>1, <3>1, <3>2 DEF HandlerFits
  <2> QED
    BY <2>2, <2>3
<1> QED
  BY <1>0, <1>1, <1>3, <1>4, <1>7, <1>8, OneMoves

LEMMA FailedIsState == \A t : Failed(t) \in {"failed", "ready"}
BY DEF Failed

LEMMA InvQueries ==
    ASSUME PoolInv, NEW q \in Queries, QueryNext(q)
    PROVE  PoolInv'
<1>0. q \in Tasks
  BY TaskKinds
<1>1. CASE QueryConnects(q)
  BY <1>1, InvConnects
<1>2. CASE Fetches(q)
  BY <1>0, <1>2, PoolStays DEF Fetches, Goes, States
<1>3. CASE TableMissing(q)
  BY <1>0, <1>3, QueryReturns, FailedIsState DEF TableMissing, Goes, States
<1> QED
  BY <1>1, <1>2, <1>3 DEF QueryNext

LEMMA InvBrowsers ==
    ASSUME PoolInv,
           \/ \E q \in Browsers \cup Elsewhere : Asks(q)
           \/ \E b \in Browsers : ShowsPage(b)
           \/ \E q \in Elsewhere : EndsElsewhere(q)
    PROVE  PoolInv'
<1>1. ASSUME NEW q \in Browsers \cup Elsewhere, Asks(q) PROVE PoolInv'
  <2>1. q \in Tasks /\ q \in Queries
    BY TaskKinds
  <2> QED
    BY <1>1, <2>1, PoolStays DEF Asks, Goes, HasNone, States
<1>2. ASSUME NEW b \in Browsers, ShowsPage(b) PROVE PoolInv'
  <2>1. PICK s \in {"ready", "done"} : task' = [task EXCEPT ![b] = s]
    BY <1>2 DEF ShowsPage
  <2>2. Disconnects(b) /\ b \in Queries /\ s \in States
    BY <1>2, TaskKinds DEF ShowsPage, States
  <2> QED
    BY <2>1, <2>2, QueryReturns
<1>3. ASSUME NEW q \in Elsewhere, EndsElsewhere(q) PROVE PoolInv'
  <2>1. q \in Queries /\ "ready" \in States
    BY TaskKinds DEF States
  <2> QED
    BY <1>3, <2>1, QueryReturns DEF EndsElsewhere, Goes
<1> QED
  BY <1>1, <1>2, <1>3

LEMMA InvExports ==
    ASSUME PoolInv, NEW e \in Exports, OpensFile(e) \/ WritesFile(e) \/ WriteFails(e)
    PROVE  PoolInv'
<1>0. e \in Tasks /\ e \in Queries
  BY TaskKinds
<1>1. CASE OpensFile(e)
  <2>1. PICK s \in {"ask", "failed"} : task' = [task EXCEPT ![e] = s]
    BY <1>1 DEF OpensFile
  <2>2. task[e] = "ready" /\ UNCHANGED poolVars
    BY <1>1 DEF OpensFile
  <2> QED
    BY <1>0, <2>1, <2>2, PoolStays DEF HasNone, States
<1>2. CASE WritesFile(e)
  BY <1>0, <1>2, QueryReturns DEF WritesFile, Goes, States
<1>3. CASE WriteFails(e)
  BY <1>0, <1>3, QueryReturns DEF WriteFails, Goes, States
<1> QED
  BY <1>1, <1>2, <1>3

LEMMA InvBackups ==
    ASSUME PoolInv, NEW b \in Backups, BackupConnects(b) \/ BackupEnds(b)
    PROVE  PoolInv'
<1>0. b \in Tasks
  BY TaskKinds
<1>1. CASE BackupConnects(b)
  BY <1>0, <1>1, TaskTakes DEF BackupConnects, Goes, HasNone, States
<1>2. CASE BackupEnds(b)
  BY <1>0, <1>2, TaskReturns DEF BackupEnds, Goes, States
<1> QED
  BY <1>1, <1>2

LEMMA InvTimeouts ==
    ASSUME PoolInv, NEW t \in Tasks, PoolTimesOut(t) \/ TimesOut(t)
    PROVE  PoolInv'
<1>1. CASE PoolTimesOut(t)
  BY <1>1, TaskReturns, FailedIsState DEF PoolTimesOut, States
<1>2. CASE TimesOut(t)
  <2>1. task' = [task EXCEPT ![t] = "timed_out"] /\ "timed_out" \in States
    BY <1>2 DEF TimesOut, States
  <2>2. CASE t \in Queries
    BY <1>2, <2>1, <2>2, QueryReturns DEF TimesOut
  <2>3. CASE t \notin Queries
    <3>1. task[t] \notin {"query", "read"}
      BY <2>3 DEF PoolInv, TaskFits
    <3>2. ReturnsAll(t) /\ UNCHANGED handler
      BY <1>2, <2>3 DEF TimesOut
    <3> QED
      BY <2>1, <3>1, <3>2, TaskReturns
  <2> QED
    BY <2>2, <2>3
<1> QED
  BY <1>1, <1>2

LEMMA PoolStep == PoolInv /\ [Next]_vars => PoolInv'
<1> SUFFICES ASSUME PoolInv, [Next]_vars PROVE PoolInv'
  OBVIOUS
<1>1. CASE UNCHANGED vars
  BY <1>1 DEF vars, poolVars, PoolInv, PoolTypeOK, TaskFits, HandlerFits, Held
<1>2. CASE \E t \in Setups : SetupNext(t)
  BY <1>2, InvSetups
<1>3. CASE Receives \/ InsertConnects \/ Inserts \/ Ends
  BY <1>3, InvRun
<1>4. CASE \E q \in Queries : QueryNext(q)
  BY <1>4, InvQueries
<1>5. CASE \/ \E q \in Browsers \cup Elsewhere : Asks(q)
           \/ \E b \in Browsers : ShowsPage(b)
           \/ \E q \in Elsewhere : EndsElsewhere(q)
  BY <1>5, InvBrowsers
<1>6. CASE \E e \in Exports : OpensFile(e) \/ WritesFile(e) \/ WriteFails(e)
  BY <1>6, InvExports
<1>7. CASE \E b \in Backups : BackupConnects(b) \/ BackupEnds(b)
  BY <1>7, InvBackups
<1>8. CASE \E t \in Tasks : PoolTimesOut(t) \/ TimesOut(t)
  BY <1>8, InvTimeouts
<1> QED
  BY <1>1, <1>2, <1>3, <1>4, <1>5, <1>6, <1>7, <1>8 DEF Next
-----------------------------------------------------------------------------
(* The theorems *)

\* If there are fewer setups than connections, they cannot have them all while each of
\* them waits for its second: as long as no connection is free, some task goes on.
THEOREM NoSetupStarves ==
    ASSUME IsFiniteSet(Setups), Cardinality(Setups) < Cardinality(Conns)
    PROVE  Spec => []SomebodyGoesOn
<1>1. ASSUME PoolInv PROVE SomebodyGoesOn
  <2> DEFINE Going == {"drop", "create", "insert", "query", "read", "copy"}
  <2> SUFFICES ASSUME Free = {}, \A c \in Conns : task[holder[c]] \notin Going PROVE FALSE
    BY DEF SomebodyGoesOn
  <2>1. \A c \in Conns : holder[c] \in Tasks
    BY <1>1 DEF PoolInv, PoolTypeOK, Free
  <2>2. ASSUME NEW c \in Conns
        PROVE  holder[c] \in Setups /\ \E d \in Conns : Held(holder[c]) = {d}
    <3>1. holder[c] \in Tasks /\ c \in Held(holder[c]) /\ TaskFits(holder[c])
          /\ task[holder[c]] \in States
      BY <1>1, <2>1 DEF PoolInv, PoolTypeOK, Held
    <3>2. task[holder[c]] \notin HasNone
      BY <3>1 DEF TaskFits
    <3>3. task[holder[c]] = "destroy"
      BY <3>1, <3>2 DEF HasNone, States
    <3> QED
      BY <3>1, <3>3 DEF TaskFits, HasOne
  <2>3. holder \in Injection(Conns, Setups)
    <3>1. holder \in [Conns -> Setups]
      BY <1>1, <2>2 DEF PoolInv, PoolTypeOK
    <3>2. \A c, d \in Conns : holder[c] = holder[d] => c = d
      BY <2>2 DEF Held
    <3> QED
      BY <3>1, <3>2 DEF Injection, IsInjective
  <2>4. IsFiniteSet(Conns) /\ Cardinality(Conns) <= Cardinality(Setups)
    BY <2>3, FS_Injection, IsFiniteSet(Setups)
  <2>5. Cardinality(Conns) \in Nat /\ Cardinality(Setups) \in Nat
    BY <2>4, FS_CardinalityType, IsFiniteSet(Setups)
  <2> QED
    BY <2>4, <2>5, Cardinality(Setups) < Cardinality(Conns)
<1> QED
  BY <1>1, PoolInit, PoolStep, PTL DEF Spec

\* No deadline ends anything but the query that has set it.
THEOREM DeadlinesStay == Spec => OnlyQueriesTimeOut
<1> DEFINE Own == \A t \in Tasks : task'[t] = "timed_out" /\ task[t] # "timed_out" =>
                     \E c \in Conns : holder[c] = t /\ handler[c] = t
<1>1. ASSUME PoolInv, [Next]_vars PROVE [Own]_vars
  <2> SUFFICES ASSUME Next PROVE Own
    BY <1>1
  <2> SUFFICES ASSUME NEW t \in Tasks, task'[t] = "timed_out", task[t] # "timed_out"
               PROVE  \E c \in Conns : holder[c] = t /\ handler[c] = t
    OBVIOUS
  <2>1. TimesOut(t)
    <3>1. ASSUME NEW u \in Tasks, NEW s, s # "timed_out" PROVE task' # [task EXCEPT ![u] = s]
      BY <1>1, <3>1 DEF PoolInv, PoolTypeOK
    <3>2. ASSUME NEW u \in Setups, SetupNext(u) PROVE FALSE
      <4>1. PICK s \in {"connect", "destroy", "drop", "create", "fill", "ready"} :
              task' = [task EXCEPT ![u] = s]
        BY <3>2 DEF SetupNext, StartsSetup, SetupConnects, DestroyConnects, Drops, Creates,
                    SetupRefused, Goes
      <4> QED
        BY <3>1, <4>1, TaskKinds
    <3>3. ~(Receives \/ InsertConnects \/ Inserts \/ Ends)
      <4>1. \A s \in {"parsed", "insert", "fill", "ready"} : task' # [task EXCEPT ![Consumer] = s]
        BY <3>1, TaskKinds
      <4> QED
        BY <4>1 DEF Receives, InsertConnects, Inserts, Ends, Goes
    <3>4. ASSUME NEW q \in Queries, NEW s \in {"query", "read", "failed", "ready", "ask", "done"}
          PROVE  task' # [task EXCEPT ![q] = s]
      BY <3>1, TaskKinds
    <3>5. \A q \in Queries : ~QueryNext(q)
      BY <3>4, FailedIsState DEF QueryNext, QueryConnects, Fetches, TableMissing, Goes
    <3>6. /\ \A q \in Browsers \cup Elsewhere : ~Asks(q)
          /\ \A b \in Browsers : ~ShowsPage(b)
          /\ \A q \in Elsewhere : ~EndsElsewhere(q)
      BY <3>4, TaskKinds DEF Asks, ShowsPage, EndsElsewhere, Goes
    <3>7. \A e \in Exports : ~OpensFile(e) /\ ~WritesFile(e) /\ ~WriteFails(e)
      BY <3>4, TaskKinds DEF OpensFile, WritesFile, WriteFails, Goes
    <3>8. \A b \in Backups : ~BackupConnects(b) /\ ~BackupEnds(b)
      BY <3>1, TaskKinds DEF BackupConnects, BackupEnds, Goes
    <3>9. \A u \in Tasks : ~PoolTimesOut(u)
      BY <3>1, FailedIsState DEF PoolTimesOut
    <3>10. PICK u \in Tasks : TimesOut(u)
      BY <3>2, <3>3, <3>5, <3>6, <3>7, <3>8, <3>9 DEF Next
    <3>11. u = t
      <4>1. task' = [task EXCEPT ![u] = "timed_out"]
        BY <3>10 DEF TimesOut
      <4> QED
        BY <1>1, <4>1 DEF PoolInv, PoolTypeOK
    <3> QED
      BY <3>10, <3>11
  <2>2. PICK c \in Held(t) : handler[c] # None
    BY <2>1 DEF TimesOut
  <2>3. c \in Conns /\ holder[c] = t /\ HandlerFits(c)
    BY <1>1, <2>2 DEF Held, PoolInv
  <2> QED
    BY <2>2, <2>3 DEF HandlerFits
<1> QED
  BY <1>1, PoolInit, PoolStep, PTL DEF Spec, OnlyQueriesTimeOut
-----------------------------------------------------------------------------
(* What the pages and the exports hold *)

\* The rows of S that come before row i, and how many of the table do.
EarlierIn(S) == [i \in S |-> {j \in S \ {i} : Earlier(j, i)}]
Place(i) == Cardinality(EarlierIn(rows)[i])

\* TypeOK, with the functions that its parts are about
StoreFits ==
    /\ StoreTypeOK
    /\ pos \in 0..Len(Log)
    /\ task[Consumer] \in {"parsed", "insert"} => pos > 0

DataTypeOK ==
    /\ StoreFits
    /\ page \in [Browsers -> Nat]
    /\ shown \in [Browsers -> Seq(Positions)]
    /\ first \in [Browsers -> SUBSET Positions]
    /\ since \in [Browsers -> {"same", "grown", "cut"}]
    /\ result \in [Queries -> Seq(Positions)]
    /\ file \in [Exports -> [kind : FileKinds, header : Seq(STRING), rows : Seq(Positions)]]

\* The rows that were in the table at the first page are still there.  Those that have
\* the places of the pages up to now have been shown: rows that are stored meanwhile move
\* them on to higher places, never back to a page that has gone by.
BrowserFits(b) ==
    LET end == page[b] * PageSize
    IN  /\ task[b] # "done" => Len(shown[b]) = end
        /\ task[b] = "read" => Len(result[b]) <= PageSize
        /\ since[b] # "cut" =>
              /\ first[b] \subseteq rows
              /\ \A i \in first[b] : Place(i) < end => i \in ToSet(shown[b])
              /\ task[b] = "done" => first[b] \subseteq ToSet(shown[b])
              /\ task[b] = "read" => \A i \in first[b] :
                    Place(i) < end + Len(result[b]) \/ Len(result[b]) < PageSize
                       => i \in ToSet(shown[b]) \cup ToSet(result[b])
        /\ since[b] = "same" =>
              /\ IsPrefix(shown[b], InOrder(rows))
              /\ task[b] = "read" => IsPrefix(shown[b] \o result[b], InOrder(rows))

\* ExportsAreExact, and what is about to be written
ExportFits(e) ==
    /\ file[e].kind \in {"empty", "partial"} =>
          task[e] \in {"ask", "query", "read", "failed", "timed_out"}
    /\ file[e].kind = "rows" => /\ file[e].rows # <<>> /\ IsSorted(file[e].rows, Earlier)
                                /\ LayOut(file[e].header)
    /\ task[e] = "read" => IsSorted(result[e], Earlier)

\* All but the pool, which has lemmas of its own
Rest == /\ DataTypeOK
        /\ \A b \in Browsers : BrowserFits(b)
        /\ \A e \in Exports : ExportFits(e)

-----------------------------------------------------------------------------
(* Orders.  A theorem cannot be used for an operator that it takes as a parameter, so an *)
(* order on S is given here by the function that maps each element of S to those which   *)
(* come before it. *)

\* before is a strict and total order on S.
StrictOrder(before, S) ==
    /\ before \in [S -> SUBSET S]
    /\ \A x \in S : x \notin before[x]
    /\ \A x, y \in S : y \in before[x] => before[y] \subseteq before[x]
    /\ \A x, y \in S : x = y \/ x \in before[y] \/ y \in before[x]

\* s has at each place n the element with n - 1 others before it.
ByRank(s, before, S) ==
    /\ s \in [1..Cardinality(S) -> S]
    /\ \A n \in 1..Cardinality(S) : Cardinality(before[s[n]]) = n - 1

LEMMA RankIsNumber ==
    ASSUME NEW S, IsFiniteSet(S), NEW before, StrictOrder(before, S), NEW x \in S
    PROVE  /\ IsFiniteSet(before[x])
           /\ Cardinality(before[x]) \in Nat /\ Cardinality(S) \in Nat
           /\ Cardinality(before[x]) + 1 \in 1..Cardinality(S)
<1>1. before[x] \in SUBSET S /\ before[x] # S
  BY DEF StrictOrder
<1>2. IsFiniteSet(before[x]) /\ Cardinality(before[x]) <= Cardinality(S)
      /\ Cardinality(before[x]) # Cardinality(S)
  BY <1>1, FS_Subset
<1>3. Cardinality(before[x]) \in Nat /\ Cardinality(S) \in Nat
  BY <1>2, FS_CardinalityType
<1> QED
  BY <1>2, <1>3

\* Who comes before another has fewer before him.
LEMMA RankGrows ==
    ASSUME NEW S, IsFiniteSet(S), NEW before, StrictOrder(before, S),
           NEW x \in S, NEW y \in before[x]
    PROVE  Cardinality(before[y]) < Cardinality(before[x])
<1>1. y \in S /\ before[y] \in SUBSET before[x] /\ y \notin before[y]
  BY DEF StrictOrder
<1>2. IsFiniteSet(before[x]) /\ Cardinality(before[x]) \in Nat /\ Cardinality(before[y]) \in Nat
  BY <1>1, RankIsNumber
<1>3. Cardinality(before[y]) <= Cardinality(before[x])
      /\ Cardinality(before[y]) # Cardinality(before[x])
  BY <1>1, <1>2, FS_Subset
<1> QED
  BY <1>2, <1>3

\* Every rank is taken: as many numbers as there are elements, no two with the same one.
LEMMA RanksAreTaken ==
    ASSUME NEW S, IsFiniteSet(S), NEW before, StrictOrder(before, S),
           NEW n \in 1..Cardinality(S)
    PROVE  \E x \in S : Cardinality(before[x]) = n - 1
<1> DEFINE N == 1..Cardinality(S)
           rank == [x \in S |-> Cardinality(before[x]) + 1]
<1>1. Cardinality(S) \in Nat
  BY FS_CardinalityType
<1>2. rank \in [S -> N] /\ \A x \in S : Cardinality(before[x]) \in Nat
  BY RankIsNumber
<1>3. \A x, y \in S : rank[x] = rank[y] => x = y
  <2> SUFFICES ASSUME NEW x \in S, NEW y \in S, x \in before[y] PROVE rank[x] # rank[y]
    BY DEF StrictOrder
  <2> QED
    BY <1>2, RankGrows
<1>4. rank \in Injection(S, N)
  BY <1>2, <1>3 DEF Injection, IsInjective
<1>5. IsFiniteSet(N) /\ Cardinality(N) = Cardinality(S)
  BY <1>1, FS_Interval
<1>6. rank \in Surjection(S, N)
  BY <1>4, <1>5, FS_Injection
<1>7. PICK x \in S : rank[x] = n
  BY <1>6 DEF Surjection
<1> QED
  BY <1>2, <1>7

\* A sequence by rank has every element once, each before those that come after it.
LEMMA OrderedFacts ==
    ASSUME NEW S, IsFiniteSet(S), NEW before, StrictOrder(before, S),
           NEW s, ByRank(s, before, S)
    PROVE  /\ s \in Seq(S) /\ Len(s) = Cardinality(S) /\ Cardinality(S) \in Nat
           /\ \A m, n \in DOMAIN s : m < n => s[m] \in before[s[n]]
           /\ \A m, n \in DOMAIN s : s[m] = s[n] => m = n
           /\ \A x \in S : \E n \in DOMAIN s : s[n] = x
<1>1. Cardinality(S) \in Nat
  BY FS_CardinalityType
<1>2. Len(s) = Cardinality(S) /\ s \in Seq(S)
  BY <1>1 DEF ByRank
<1>3. \A m, n \in DOMAIN s : s[m] = s[n] => m = n
  BY <1>1 DEF ByRank
<1>4. ASSUME NEW m \in DOMAIN s, NEW n \in DOMAIN s, m < n PROVE s[m] \in before[s[n]]
  <2>1. /\ s[m] \in S /\ s[n] \in S
        /\ Cardinality(before[s[m]]) = m - 1 /\ Cardinality(before[s[n]]) = n - 1
    BY DEF ByRank
  <2>2. m \in Int /\ n \in Int
    BY <1>1 DEF ByRank
  <2>3. s[n] \notin before[s[m]]
    BY <1>4, <2>1, <2>2, RankGrows
  <2>4. s[m] # s[n]
    BY <1>3, <1>4, <2>2
  <2> QED
    BY <2>1, <2>3, <2>4 DEF StrictOrder
<1>5. ASSUME NEW x \in S PROVE \E n \in DOMAIN s : s[n] = x
  <2> DEFINE n == Cardinality(before[x]) + 1
  <2>1. n \in DOMAIN s /\ Cardinality(before[x]) \in Nat
    BY RankIsNumber DEF ByRank
  <2>2. s[n] \in S /\ Cardinality(before[s[n]]) = Cardinality(before[x])
    BY <2>1 DEF ByRank
  <2>3. x \notin before[s[n]] /\ s[n] \notin before[x]
    BY <2>1, <2>2, RankGrows
  <2> QED
    BY <2>1, <2>2, <2>3 DEF StrictOrder
<1> QED
  BY <1>1, <1>2, <1>3, <1>4, <1>5

-----------------------------------------------------------------------------
(* The order of the rows *)

LEMMA LogFacts ==
    /\ Len(Log) \in Nat /\ IsFiniteSet(Positions)
    /\ \A i \in Positions : i \in Int /\ Log[i].ts \in Int
<1>1. Len(Log) \in Nat /\ Log \in [1..Len(Log) -> [key : Keys \cup {NoKey}, ts : Nat]]
  BY LogAssumption, LenProperties
<1>2. IsFiniteSet(1..Len(Log))
  BY <1>1, FS_Interval
<1> QED
  BY <1>1, <1>2 DEF Positions

LEMMA EarlierIsOrder ==
    ASSUME NEW S \in SUBSET Positions
    PROVE  IsFiniteSet(S) /\ StrictOrder(EarlierIn(S), S)
<1> DEFINE B == EarlierIn(S)
<1>1. IsFiniteSet(S)
  BY LogFacts, FS_Subset
<1>2. B \in [S -> SUBSET S]
  BY DEF EarlierIn
<1>3. \A i \in S : \A j : j \in B[i] <=> j \in S /\ j # i /\ Earlier(j, i)
  BY DEF EarlierIn
<1>4. \A i \in S : i \in Int /\ Log[i].ts \in Int
  BY LogFacts
<1> HIDE DEF B
<1>5. \A x \in S : x \notin B[x]
  BY <1>3
<1>6. ASSUME NEW x \in S, NEW y \in S, y \in B[x] PROVE B[y] \subseteq B[x]
  <2> SUFFICES ASSUME NEW z \in S, Earlier(z, y) PROVE z # x /\ Earlier(z, x)
    BY <1>3
  <2>1. Earlier(y, x)
    BY <1>3, <1>6
  <2> QED
    BY <1>4, <2>1 DEF Earlier
<1>7. ASSUME NEW x \in S, NEW y \in S PROVE x = y \/ x \in B[y] \/ y \in B[x]
  BY <1>3, <1>4 DEF Earlier
<1> QED
  BY <1>1, <1>2, <1>5, <1>6, <1>7 DEF StrictOrder, B

LEMMA RowsByRank ==
    ASSUME NEW S \in SUBSET Positions
    PROVE  ByRank(InOrder(S), EarlierIn(S), S)
<1> DEFINE s == InOrder(S)
<1>1. ASSUME NEW n \in 1..Cardinality(S)
      PROVE  s[n] \in S /\ Cardinality(EarlierIn(S)[s[n]]) = n - 1
  <2>1. \E i \in S : Cardinality({j \in S \ {i} : Earlier(j, i)}) = n - 1
    <3>1. PICK i \in S : Cardinality(EarlierIn(S)[i]) = n - 1
      BY RanksAreTaken, EarlierIsOrder
    <3>2. EarlierIn(S)[i] = {j \in S \ {i} : Earlier(j, i)}
      BY DEF EarlierIn
    <3> QED
      BY <3>1, <3>2
  <2>2. s[n] = CHOOSE i \in S : Cardinality({j \in S \ {i} : Earlier(j, i)}) = n - 1
    BY <1>1 DEF InOrder, Ordered, Rank
  <2>3. s[n] \in S /\ Cardinality({j \in S \ {s[n]} : Earlier(j, s[n])}) = n - 1
    BY <2>1, <2>2
  <2> QED
    BY <2>3 DEF EarlierIn
<1>2. s \in [1..Cardinality(S) -> S]
  BY <1>1 DEF InOrder, Ordered
<1> QED
  BY <1>1, <1>2 DEF ByRank

\* All the rows are in the list, each at its place.
LEMMA RowsInOrder ==
    ASSUME DataTypeOK
    PROVE  LET all == InOrder(rows)
           IN  /\ all \in Seq(Positions) /\ Len(all) \in Nat
               /\ \A m, n \in 1..Len(all) : m < n => Earlier(all[m], all[n])
               /\ \A i \in rows : /\ Place(i) \in Nat /\ Place(i) < Len(all)
                                  /\ all[Place(i) + 1] = i
<1> DEFINE all == InOrder(rows)
<1>1. rows \in SUBSET Positions
  BY DEF DataTypeOK, StoreFits, StoreTypeOK
<1>2. IsFiniteSet(rows) /\ StrictOrder(EarlierIn(rows), rows) /\ ByRank(all, EarlierIn(rows), rows)
  BY <1>1, EarlierIsOrder, RowsByRank
<1>3. /\ all \in Seq(rows) /\ Len(all) = Cardinality(rows) /\ Cardinality(rows) \in Nat
      /\ \A m, n \in DOMAIN all : m < n => all[m] \in EarlierIn(rows)[all[n]]
      /\ \A i \in rows : \E n \in DOMAIN all : all[n] = i
  BY <1>2, OrderedFacts
<1>4. all \in Seq(Positions) /\ DOMAIN all = 1..Len(all)
  BY <1>1, <1>3
<1>5. ASSUME NEW m \in 1..Len(all), NEW n \in 1..Len(all), m < n PROVE Earlier(all[m], all[n])
  <2>1. all[n] \in rows /\ all[m] \in EarlierIn(rows)[all[n]]
    BY <1>3, <1>4, <1>5
  <2> QED
    BY <2>1 DEF EarlierIn
<1>6. ASSUME NEW i \in rows
      PROVE  Place(i) \in Nat /\ Place(i) < Len(all) /\ all[Place(i) + 1] = i
  <2>1. PICK n \in 1..Len(all) : all[n] = i
    BY <1>3, <1>4
  <2>2. Place(i) = n - 1
    BY <1>2, <1>3, <2>1 DEF ByRank, Place
  <2> QED
    BY <1>3, <2>1, <2>2
<1> QED
  BY <1>3, <1>4, <1>5, <1>6

\* What a query selects: the rows from its offset on, at most as many as its limit.
LEMMA SelectedFacts ==
    ASSUME DataTypeOK, NEW limit \in Int, NEW offset \in Nat
    PROVE  LET all == InOrder(rows)
               page_rows == Selected(limit, offset)
               n == Len(page_rows)
           IN  /\ page_rows \in Seq(Positions) /\ n \in Nat
               /\ IsSorted(page_rows, Earlier)
               /\ limit >= 0 => n <= limit
               /\ \A k \in 1..n : offset + k <= Len(all) /\ page_rows[k] = all[offset + k]
               /\ \A i \in rows : Place(i) >= offset /\ (Place(i) < offset + n \/ limit < 0 \/ n < limit)
                     => i \in ToSet(page_rows)
<1> DEFINE all == InOrder(rows)
           end == IF limit < 0 \/ offset + limit > Len(all) THEN Len(all) ELSE offset + limit
           r == SubSeq(all, offset + 1, end)
           n == Len(r)
<1>1. /\ all \in Seq(Positions) /\ Len(all) \in Nat
      /\ \A m, k \in 1..Len(all) : m < k => Earlier(all[m], all[k])
      /\ \A i \in rows : Place(i) \in Nat /\ Place(i) < Len(all) /\ all[Place(i) + 1] = i
  BY RowsInOrder
<1>2. r = Selected(limit, offset) /\ all = InOrder(rows)
  BY DEF Selected
<1> HIDE DEF all
<1>3. end \in Nat /\ end <= Len(all)
  BY <1>1
<1>4. /\ r \in Seq(Positions)
      /\ n = IF offset + 1 <= end THEN end - offset ELSE 0
      /\ \A k \in 1..n : r[k] = all[offset + k]
  BY <1>1, <1>3, SubSeqProperties
<1>5. limit >= 0 => n <= limit
  BY <1>1, <1>3, <1>4
<1>6. n < limit \/ limit < 0 => end = Len(all)
  BY <1>1, <1>3, <1>4
<1> HIDE DEF r, end
<1>7. n \in Nat /\ \A k \in 1..n : offset + k \in 1..Len(all)
  BY <1>1, <1>3, <1>4
<1>8. IsSorted(r, Earlier)
  <2> SUFFICES ASSUME NEW m \in 1..n, NEW k \in 1..n, m < k PROVE Earlier(r[m], r[k])
    BY DEF IsSorted
  <2>1. Earlier(all[offset + m], all[offset + k])
    BY <1>1, <1>7
  <2> QED
    BY <1>4, <2>1
<1>9. ASSUME NEW i \in rows, Place(i) >= offset, Place(i) < offset + n \/ limit < 0 \/ n < limit
      PROVE  i \in ToSet(r)
  <2> DEFINE k == Place(i) + 1 - offset
  <2>1. Place(i) \in Nat /\ Place(i) < Len(all) /\ all[Place(i) + 1] = i
    BY <1>1
  <2>2. k \in 1..n
    BY <1>1, <1>3, <1>4, <1>9, <1>6, <2>1
  <2>3. r[k] = i /\ DOMAIN r = 1..n
    BY <1>4, <2>1, <2>2
  <2> QED
    BY <2>2, <2>3 DEF ToSet
<1> QED
  BY <1>2, <1>4, <1>7, <1>8, <1>5, <1>9
-----------------------------------------------------------------------------
(* The columns of a file *)

ColumnsBefore == [a \in ToSet(Columns) |-> {b \in ToSet(Columns) \ {a} : SortsBefore(b, a)}]

LEMMA ColumnFacts ==
    /\ Len(Columns) \in Nat /\ IsFiniteSet(ToSet(Columns))
    /\ Cardinality(ToSet(Columns)) = Len(Columns)
    /\ ToSet(Columns) \subseteq STRING
    /\ \A a \in ToSet(Columns) : \E n \in 1..Len(Columns) : Columns[n] = a
    /\ \A m, n \in 1..Len(Columns) : Columns[m] = Columns[n] => m = n
<1>1. Len(Columns) \in Nat /\ Columns \in [1..Len(Columns) -> STRING]
  BY QueriesAssumption, LenProperties
<1>2. /\ ToSet(Columns) \subseteq STRING
      /\ \A a \in ToSet(Columns) : \E n \in 1..Len(Columns) : Columns[n] = a
      /\ Columns \in [1..Len(Columns) -> ToSet(Columns)]
  BY <1>1 DEF ToSet
<1>3. \A m, n \in 1..Len(Columns) : Columns[m] = Columns[n] => m = n
  BY <1>1, QueriesAssumption DEF IsInjective
<1>4. Columns \in Bijection(1..Len(Columns), ToSet(Columns))
  BY <1>2, <1>3 DEF Bijection, Injection, Surjection, IsInjective
<1>5. ExistsBijection(1..Len(Columns), ToSet(Columns))
  BY <1>4 DEF ExistsBijection
<1>6. IsFiniteSet(1..Len(Columns)) /\ Cardinality(1..Len(Columns)) = Len(Columns)
  <2> DEFINE N == Len(Columns)
  <2>1. N \in Nat
    BY <1>1
  <2> HIDE DEF N
  <2>2. IsFiniteSet(1..N) /\ Cardinality(1..N) = IF 1 > N THEN 0 ELSE N - 1 + 1
    BY <2>1, FS_Interval
  <2>3. (IF 1 > N THEN 0 ELSE N - 1 + 1) = N
    BY <2>1
  <2> QED
    BY <2>2, <2>3 DEF N
<1>7. IsFiniteSet(ToSet(Columns)) /\ Cardinality(ToSet(Columns)) = Len(Columns)
  BY <1>5, <1>6, FS_Bijection
<1> QED
  BY <1>1, <1>2, <1>3, <1>7

LEMMA AlphabetIsOrder ==
    ASSUME NEW a \in ToSet(Columns), NEW b \in ToSet(Columns), a # b
    PROVE  /\ AlphabeticallyBefore(a, b) <=> ~AlphabeticallyBefore(b, a)
           /\ \A c \in ToSet(Columns) :
                 AlphabeticallyBefore(a, b) /\ AlphabeticallyBefore(b, c)
                    => a # c /\ AlphabeticallyBefore(a, c)
<1>0. DOMAIN Columns = 1..Len(Columns)
  BY QueriesAssumption, LenProperties
<1>1. PICK m, n \in 1..Len(Columns) : Columns[m] = a /\ Columns[n] = b
  BY ColumnFacts
<1>2. AlphabeticallyBefore(a, b) <=> m < n
  BY <1>0, <1>1, ColumnFacts DEF AlphabeticallyBefore
<1>3. AlphabeticallyBefore(b, a) <=> n < m
  BY <1>0, <1>1, ColumnFacts DEF AlphabeticallyBefore
<1>4. AlphabeticallyBefore(a, b) <=> ~AlphabeticallyBefore(b, a)
  BY <1>1, <1>2, <1>3, ColumnFacts
<1>5. ASSUME NEW c \in ToSet(Columns), AlphabeticallyBefore(a, b), AlphabeticallyBefore(b, c)
      PROVE  a # c /\ AlphabeticallyBefore(a, c)
  <2>1. PICK k \in 1..Len(Columns) : Columns[k] = c
    BY ColumnFacts
  <2>2. m < n
    BY <1>2, <1>5
  <2>3. n < k
    BY <1>0, <1>1, <1>5, <2>1, ColumnFacts DEF AlphabeticallyBefore
  <2>4. m < k /\ m # k
    BY <2>2, <2>3, ColumnFacts
  <2> QED
    BY <1>0, <1>1, <2>1, <2>4, ColumnFacts DEF AlphabeticallyBefore
<1> QED
  BY <1>4, <1>5

\* sort_columns compares any two columns one way, and what it finds is transitive.
LEMMA ColumnsAreOrdered == StrictOrder(ColumnsBefore, ToSet(Columns))
<1> DEFINE B == ColumnsBefore
           S == ToSet(Columns)
<1>1. B \in [S -> SUBSET S]
  BY DEF ColumnsBefore
<1>2. \A a \in S : \A b : b \in B[a] <=> b \in S /\ b # a /\ SortsBefore(b, a)
  BY DEF ColumnsBefore
<1> HIDE DEF B, S
<1>3. \A a \in S : a \notin B[a]
  BY <1>2
<1>4. ASSUME NEW a \in S, NEW b \in S PROVE a = b \/ a \in B[b] \/ b \in B[a]
  <2>1. a # b => AlphabeticallyBefore(a, b) \/ AlphabeticallyBefore(b, a)
    BY AlphabetIsOrder DEF S
  <2> QED
    BY <1>2, <2>1 DEF SortsBefore
<1>5. ASSUME NEW a \in S, NEW b \in S, b \in B[a] PROVE B[b] \subseteq B[a]
  <2> SUFFICES ASSUME NEW c \in S, c # b, SortsBefore(c, b) PROVE c # a /\ SortsBefore(c, a)
    BY <1>2
  <2>1. b # a /\ SortsBefore(b, a)
    BY <1>2, <1>5
  <2>2. AlphabeticallyBefore(c, b) /\ AlphabeticallyBefore(b, a)
           => c # a /\ AlphabeticallyBefore(c, a)
    BY AlphabetIsOrder DEF S
  <2>3. c # a
    BY <2>1, <2>2 DEF SortsBefore
  <2> QED
    BY <2>1, <2>2, <2>3 DEF SortsBefore
<1> QED
  BY <1>1, <1>3, <1>4, <1>5 DEF StrictOrder, B, S

LEMMA HeaderByRank == ByRank(Ordered(ToSet(Columns), SortsBefore), ColumnsBefore, ToSet(Columns))
<1> DEFINE S == ToSet(Columns)
           s == Ordered(S, SortsBefore)
<1>1. ASSUME NEW n \in 1..Cardinality(S)
      PROVE  s[n] \in S /\ Cardinality(ColumnsBefore[s[n]]) = n - 1
  <2>1. \E a \in S : Cardinality({b \in S \ {a} : SortsBefore(b, a)}) = n - 1
    <3>1. PICK a \in S : Cardinality(ColumnsBefore[a]) = n - 1
      BY RanksAreTaken, ColumnsAreOrdered, ColumnFacts
    <3>2. ColumnsBefore[a] = {b \in S \ {a} : SortsBefore(b, a)}
      BY DEF ColumnsBefore
    <3> QED
      BY <3>1, <3>2
  <2>2. s[n] = CHOOSE a \in S : Cardinality({b \in S \ {a} : SortsBefore(b, a)}) = n - 1
    BY <1>1 DEF Ordered, Rank
  <2>3. s[n] \in S /\ Cardinality({b \in S \ {s[n]} : SortsBefore(b, s[n])}) = n - 1
    BY <2>1, <2>2
  <2> QED
    BY <2>3 DEF ColumnsBefore
<1>2. s \in [1..Cardinality(S) -> S]
  BY <1>1 DEF Ordered
<1> QED
  BY <1>1, <1>2 DEF ByRank

\* Every file has its columns in the same order.
LEMMA HeaderIsLaidOut ==
    LET header == Ordered(ToSet(Columns), SortsBefore)
    IN  header \in Seq(STRING) /\ LayOut(header)
<1> DEFINE S == ToSet(Columns)
           N == Len(Columns)
           h == Ordered(S, SortsBefore)
<1>1. /\ h \in Seq(S) /\ Len(h) = N /\ N \in Nat
      /\ \A m, n \in DOMAIN h : m < n => h[m] \in ColumnsBefore[h[n]]
      /\ \A m, n \in DOMAIN h : h[m] = h[n] => m = n
      /\ \A a \in S : \E n \in DOMAIN h : h[n] = a
  BY OrderedFacts, HeaderByRank, ColumnsAreOrdered, ColumnFacts
<1>2. DOMAIN h = 1..N /\ h \in Seq(STRING) /\ \A n \in 1..N : h[n] \in S
  BY <1>1, ColumnFacts
<1>3. ASSUME NEW m \in 1..N, NEW n \in 1..N, m < n PROVE h[m] # h[n] /\ SortsBefore(h[m], h[n])
  BY <1>1, <1>2, <1>3 DEF ColumnsBefore
<1> HIDE DEF h, N
<1>4. ToSet(h) = S
  <2>1. ToSet(h) = {h[n] : n \in 1..N}
    BY <1>2 DEF ToSet
  <2>2. \A a \in S : \E n \in 1..N : h[n] = a
    BY <1>1, <1>2
  <2> HIDE DEF S
  <2> QED
    BY <1>2, <2>1, <2>2
<1>5. PICK t \in 1..N, k \in 1..N, p \in 1..N : h[t] = "timestamp" /\ h[k] = "key" /\ h[p] = "payload"
  BY <1>1, <1>2, QueriesAssumption
<1>6. t = 1
  <2> SUFFICES ASSUME 1 < t PROVE FALSE
    BY <1>1
  <2>1. 1 \in 1..N
    BY <1>1
  <2>2. h[1] # "timestamp" /\ SortsBefore(h[1], "timestamp")
    BY <1>3, <1>5, <2>1
  <2> QED
    BY <2>2 DEF SortsBefore
<1>7. p = N
  <2> SUFFICES ASSUME p < N PROVE FALSE
    BY <1>1
  <2>1. N \in 1..N
    BY <1>1
  <2>2. h[N] # "payload" /\ SortsBefore("payload", h[N]) /\ h[N] # "timestamp"
    BY <1>1, <1>2, <1>3, <1>5, <1>6, <2>1
  <2> QED
    BY <2>2 DEF SortsBefore
<1>8. k = N - 1
  <2>1. k # N /\ k # 1
    BY <1>5, <1>6, <1>7
  <2> SUFFICES ASSUME k < N - 1 PROVE FALSE
    BY <1>1, <2>1
  <2>2. N - 1 \in 1..N /\ N - 1 # N /\ N - 1 # 1
    BY <1>1, <2>1
  <2>3. h[N - 1] # "key" /\ SortsBefore("key", h[N - 1])
    BY <1>1, <1>3, <1>5, <2>2
  <2>4. h[N - 1] # "payload" /\ h[N - 1] # "timestamp"
    BY <1>1, <1>2, <1>5, <1>6, <1>7, <2>2
  <2> QED
    BY <2>3, <2>4 DEF SortsBefore
<1>9. ASSUME NEW m \in 2..(N - 2), NEW n \in 2..(N - 2), m < n
      PROVE  AlphabeticallyBefore(h[m], h[n])
  <2>1. m \in 1..N /\ n \in 1..N /\ m # t /\ m # k /\ m # p /\ n # t /\ n # k /\ n # p
    BY <1>1, <1>6, <1>7, <1>8
  <2>2. {h[m], h[n]} \cap {"timestamp", "key", "payload"} = {}
    BY <1>1, <1>2, <1>5, <2>1
  <2>3. SortsBefore(h[m], h[n])
    BY <1>3, <1>9, <2>1
  <2> QED
    BY <2>2, <2>3 DEF SortsBefore
<1>10. LayOut(h)
  BY <1>1, <1>4, <1>5, <1>6, <1>7, <1>8, <1>9 DEF LayOut, N
<1> QED
  BY <1>2, <1>10 DEF h
-----------------------------------------------------------------------------
(* The steps *)

\* A task goes on, without a page, a file or a row of the table.
Quiet(t, s) ==
    /\ task' = [task EXCEPT ![t] = s]
    /\ task[t] # "done" /\ s \notin {"read", "done"}
    /\ t \in Exports => s \in {"query", "failed", "timed_out"}
    /\ \/ result' = result
       \/ t \in Queries /\ result' = [result EXCEPT ![t] = <<>>]
    /\ UNCHANGED <<rows, browseVars, since, file>>

\* The steps that are not
Loud ==
    \/ Drops(Consumer) \/ Inserts
    \/ \E q \in Queries : Fetches(q)
    \/ \E b \in Browsers : ShowsPage(b)
    \/ \E e \in Exports : OpensFile(e) \/ WritesFile(e) \/ WriteFails(e)

LEMMA Kinds ==
    /\ Consumer \notin Exports /\ Setups \cap Exports = {} /\ Backups \cap Exports = {}
    /\ Browsers \cap Exports = {} /\ Elsewhere \cap Browsers = {} /\ Elsewhere \cap Exports = {}
    /\ Consumer \notin Browsers
BY QueriesAssumption DEF Queries, Setups

LEMMA StepKinds ==
    ASSUME PoolInv, Next
    PROVE  Loud \/ \E t \in Tasks, s \in States : Quiet(t, s)
<1>1. ASSUME NEW t \in Setups, SetupNext(t) PROVE Loud \/ \E s \in States : Quiet(t, s)
  <2>1. t \notin Exports
    BY Kinds
  <2>2. CASE StartsSetup(t)
    <3>1. Quiet(t, "connect")
      BY <2>1, <2>2 DEF StartsSetup, Quiet, ResetCounter, storeVars
    <3> QED
      BY <3>1 DEF States
  <2>3. CASE SetupConnects(t)
    <3>1. Quiet(t, "destroy")
      BY <2>1, <2>3 DEF SetupConnects, Quiet, Goes, storeVars
    <3> QED
      BY <3>1 DEF States
  <2>4. CASE DestroyConnects(t)
    <3>1. Quiet(t, "drop")
      BY <2>1, <2>4 DEF DestroyConnects, Quiet, Goes, storeVars
    <3> QED
      BY <3>1 DEF States
  <2>5. CASE Drops(t) /\ t # Consumer
    <3>1. Quiet(t, "create")
      BY <2>1, <2>5 DEF Drops, Quiet, Goes, storeVars, browseVars
    <3> QED
      BY <3>1 DEF States
  <2>6. CASE Creates(t)
    <3>1. Quiet(t, IF t = Consumer THEN "fill" ELSE "ready")
      BY <2>1, <2>6 DEF Creates, Quiet, Goes, CreateTable, storeVars
    <3> QED
      BY <3>1 DEF States
  <2>7. CASE SetupRefused(t)
    <3>1. Quiet(t, "ready")
      BY <2>1, <2>7 DEF SetupRefused, Quiet, storeVars
    <3> QED
      BY <3>1 DEF States
  <2> QED
    BY <1>1, <2>2, <2>3, <2>4, <2>5, <2>6, <2>7 DEF SetupNext, Loud
<1>2. ASSUME Receives \/ InsertConnects \/ Ends PROVE \E s \in States : Quiet(Consumer, s)
  <2>1. CASE Receives
    <3>1. Quiet(Consumer, "parsed")
      BY <2>1, Kinds DEF Receives, Quiet, Goes, CountRecord
    <3> QED
      BY <3>1 DEF States
  <2>2. CASE InsertConnects
    <3>1. Quiet(Consumer, "insert")
      BY <2>2, Kinds DEF InsertConnects, Quiet, Goes, storeVars
    <3> QED
      BY <3>1 DEF States
  <2>3. CASE Ends
    <3>1. Quiet(Consumer, "ready")
      BY <2>3, Kinds DEF Ends, Quiet, Goes, storeVars
    <3> QED
      BY <3>1 DEF States
  <2> QED
    BY <1>2, <2>1, <2>2, <2>3
<1>3. ASSUME NEW q \in Queries, QueryNext(q) PROVE Loud \/ \E s \in States : Quiet(q, s)
  <2>1. CASE QueryConnects(q)
    <3>1. Quiet(q, "query")
      BY <2>1 DEF QueryConnects, Quiet, Goes, storeVars
    <3> QED
      BY <3>1 DEF States
  <2>2. CASE TableMissing(q)
    <3>1. Quiet(q, Failed(q))
      BY <2>2 DEF TableMissing, Quiet, Goes, Disconnects, Failed, storeVars
    <3> QED
      BY <3>1, FailedIsState DEF States
  <2> QED
    BY <1>3, <2>1, <2>2 DEF QueryNext, Loud
<1>4. ASSUME NEW q \in Browsers \cup Elsewhere, Asks(q) PROVE Quiet(q, "ask")
  BY <1>4, Kinds DEF Asks, Quiet, Goes, storeVars
<1>5. ASSUME NEW q \in Elsewhere, EndsElsewhere(q) PROVE Quiet(q, "ready")
  BY <1>5, Kinds, TaskKinds DEF EndsElsewhere, Quiet, Goes, Disconnects, storeVars
<1>6. ASSUME NEW b \in Backups, BackupConnects(b) \/ BackupEnds(b)
      PROVE  Quiet(b, "copy") \/ Quiet(b, "ready")
  BY <1>6, Kinds DEF BackupConnects, BackupEnds, Quiet, Goes, storeVars
<1>7. ASSUME NEW t \in Tasks, PoolTimesOut(t) PROVE Quiet(t, Failed(t))
  BY <1>7 DEF PoolTimesOut, Quiet, Failed, storeVars
<1>8. ASSUME NEW t \in Tasks, TimesOut(t) PROVE Quiet(t, "timed_out")
  BY <1>8 DEF TimesOut, Quiet, Disconnects, storeVars
<1>9. {"ask", "ready", "copy", "timed_out", "failed"} \subseteq States
  BY DEF States
<1> QED
  BY <1>1, <1>2, <1>3, <1>4, <1>5, <1>6, <1>7, <1>8, <1>9, TaskKinds, FailedIsState DEF Next, Loud

LEMMA StoreStep == PoolInv /\ StoreFits /\ [Next]_vars => StoreFits'
<1> SUFFICES ASSUME PoolInv, StoreFits, [Next]_vars PROVE StoreFits'
  OBVIOUS
<1>0. task \in [Tasks -> States] /\ Consumer \in Tasks /\ Len(Log) \in Nat
  BY TaskKinds, LogFacts DEF PoolInv, PoolTypeOK
\* no task but the consumer, and no step but these, comes to where a record is inserted
<1>1. ASSUME NEW t \in Tasks, NEW s, task' = [task EXCEPT ![t] = s],
             UNCHANGED <<storeVars, pos>>, t # Consumer \/ s \notin {"parsed", "insert"}
      PROVE  StoreFits'
  <2>1. task'[Consumer] \in {"parsed", "insert"} => task[Consumer] \in {"parsed", "insert"}
    BY <1>0, <1>1
  <2> QED
    BY <1>1, <2>1 DEF StoreFits, StoreTypeOK, storeVars
<1>2. CASE UNCHANGED vars
  BY <1>2 DEF vars, storeVars, StoreFits, StoreTypeOK
<1>3. ASSUME NEW t \in Setups, SetupNext(t) PROVE StoreFits'
  <2>0. t \in Tasks
    BY TaskKinds
  <2>1. CASE StartsSetup(t)
    <3>1. task' = [task EXCEPT ![t] = "connect"]
      BY <2>1 DEF StartsSetup
    <3>2. CASE t = Consumer
      BY <1>0, <2>1, <3>1, <3>2 DEF StartsSetup, ResetCounter, StoreFits, StoreTypeOK
    <3>3. CASE t # Consumer
      BY <1>1, <2>0, <2>1, <3>1, <3>3 DEF StartsSetup
    <3> QED
      BY <3>2, <3>3
  <2>2. CASE SetupConnects(t) \/ DestroyConnects(t) \/ SetupRefused(t)
    BY <1>1, <2>0, <2>2 DEF SetupConnects, DestroyConnects, SetupRefused, Goes
  <2>3. CASE Drops(t)
    <3>1. task' = [task EXCEPT ![t] = "create"] /\ pos' = pos
      BY <2>3 DEF Drops, Goes
    <3>2. CASE t = Consumer
      BY <1>0, <2>3, <3>1, <3>2 DEF Drops, DropTable, StoreFits, StoreTypeOK
    <3>3. CASE t # Consumer
      BY <1>1, <2>0, <2>3, <3>1, <3>3 DEF Drops
    <3> QED
      BY <3>2, <3>3
  <2>4. CASE Creates(t)
    <3>1. task' = [task EXCEPT ![t] = IF t = Consumer THEN "fill" ELSE "ready"] /\ pos' = pos
      BY <2>4 DEF Creates, Goes
    <3>2. CASE t = Consumer
      BY <1>0, <2>4, <3>1, <3>2 DEF Creates, CreateTable, StoreFits, StoreTypeOK
    <3>3. CASE t # Consumer
      BY <1>1, <2>0, <2>4, <3>1, <3>3 DEF Creates
    <3> QED
      BY <3>2, <3>3
  <2> QED
    BY <1>3, <2>1, <2>2, <2>3, <2>4 DEF SetupNext
<1>4. CASE Receives
  BY <1>0, <1>4 DEF Receives, Goes, CountRecord, StoreFits, StoreTypeOK
<1>5. CASE InsertConnects
  BY <1>0, <1>5 DEF InsertConnects, Goes, StoreFits, StoreTypeOK, storeVars
<1>6. CASE Inserts
  <2>1. /\ task' = [task EXCEPT ![Consumer] = "fill"] /\ pos' = pos
        /\ task[Consumer] = "insert" /\ InsertRow(pos)
    BY <1>6 DEF Inserts, Goes
  <2>2. pos \in Positions
    BY <1>0, <2>1 DEF StoreFits, Positions
  <2> QED
    BY <1>0, <2>1, <2>2 DEF InsertRow, StoreFits, StoreTypeOK
<1>7. CASE Ends
  BY <1>0, <1>1, <1>7 DEF Ends, Goes
<1>8. ASSUME NEW q \in Queries, NEW s, task' = [task EXCEPT ![q] = s], UNCHANGED <<storeVars, pos>>
      PROVE  StoreFits'
  BY <1>1, <1>8, TaskKinds
<1>9. ASSUME NEW q \in Queries, QueryNext(q) PROVE StoreFits'
  BY <1>8, <1>9 DEF QueryNext, QueryConnects, Fetches, TableMissing, Goes
<1>10. CASE \/ \E q \in Browsers \cup Elsewhere : Asks(q)
            \/ \E b \in Browsers : ShowsPage(b)
            \/ \E q \in Elsewhere : EndsElsewhere(q)
            \/ \E e \in Exports : OpensFile(e) \/ WritesFile(e) \/ WriteFails(e)
  <2>1. ASSUME NEW q \in Queries, Asks(q) \/ EndsElsewhere(q) PROVE StoreFits'
    BY <1>8, <2>1 DEF Asks, EndsElsewhere, Goes
  <2>2. ASSUME NEW b \in Queries, ShowsPage(b) PROVE StoreFits'
    BY <1>8, <2>2 DEF ShowsPage
  <2>3. ASSUME NEW e \in Queries, OpensFile(e) \/ WritesFile(e) \/ WriteFails(e) PROVE StoreFits'
    BY <1>8, <2>3 DEF OpensFile, WritesFile, WriteFails, Goes
  <2> QED
    BY <1>10, <2>1, <2>2, <2>3, TaskKinds
<1>11. ASSUME NEW b \in Backups, BackupConnects(b) \/ BackupEnds(b) PROVE StoreFits'
  BY <1>1, <1>11, TaskKinds DEF BackupConnects, BackupEnds, Goes
<1>12. ASSUME NEW t \in Tasks, PoolTimesOut(t) \/ TimesOut(t) PROVE StoreFits'
  BY <1>1, <1>12, FailedIsState DEF PoolTimesOut, TimesOut
<1> QED
  BY <1>2, <1>3, <1>4, <1>5, <1>6, <1>7, <1>9, <1>10, <1>11, <1>12 DEF Next
-----------------------------------------------------------------------------
(* The pages *)

LEMMA PrefixFacts ==
    ASSUME NEW s \in Seq(Positions), NEW t \in Seq(Positions)
    PROVE  IsPrefix(s, t) <=> Len(s) <= Len(t) /\ \A k \in 1..Len(s) : s[k] = t[k]
<1>1. Len(s) \in Nat /\ Len(t) \in Nat
  BY LenProperties
<1>2. CASE Len(s) <= Len(t)
  <2> DEFINE u == SubSeq(s, 1, Len(s))
             v == SubSeq(t, 1, Len(s))
  <2>1. \A k \in 1..Len(s) : s[k] \in Positions /\ t[k] \in Positions
    BY <1>1, <1>2, ElementOfSeq
  <2>2. /\ u \in Seq(Positions) /\ Len(u) = Len(s) /\ \A k \in 1..Len(s) : u[k] = s[k]
        /\ v \in Seq(Positions) /\ Len(v) = Len(s) /\ \A k \in 1..Len(s) : v[k] = t[k]
    BY <1>1, <2>1, SubSeqProperties
  <2>3. u = v <=> \A k \in 1..Len(s) : s[k] = t[k]
    BY <2>2, SeqEqual
  <2> QED
    BY <1>2, <2>3 DEF IsPrefix
<1>3. CASE ~(Len(s) <= Len(t))
  BY <1>3 DEF IsPrefix
<1> QED
  BY <1>2, <1>3

LEMMA ConcatElements ==
    ASSUME NEW s \in Seq(Positions), NEW t \in Seq(Positions)
    PROVE  ToSet(s \o t) = ToSet(s) \cup ToSet(t)
<1> DEFINE u == s \o t
           m == Len(s)
           n == Len(t)
<1>1. m \in Nat /\ n \in Nat /\ DOMAIN s = 1..m /\ DOMAIN t = 1..n
  BY LenProperties
<1>2. /\ DOMAIN u = 1..(m + n)
      /\ \A k \in 1..(m + n) : u[k] = IF k <= m THEN s[k] ELSE t[k - m]
  BY <1>1, ConcatProperties, LenProperties
<1> HIDE DEF u, m, n
<1>3. ASSUME NEW k \in 1..m PROVE k \in 1..(m + n) /\ u[k] = s[k]
  BY <1>1, <1>2
<1>4. ASSUME NEW k \in 1..n PROVE k + m \in 1..(m + n) /\ u[k + m] = t[k]
  <2>1. k + m \in 1..(m + n) /\ ~(k + m <= m) /\ (k + m) - m = k
    BY <1>1
  <2> QED
    BY <1>2, <2>1
<1>5. ASSUME NEW k \in 1..(m + n)
      PROVE  \/ k \in 1..m /\ u[k] = s[k]
             \/ k - m \in 1..n /\ u[k] = t[k - m]
  BY <1>1, <1>2
<1>6. ToSet(u) \subseteq ToSet(s) \cup ToSet(t)
  BY <1>1, <1>2, <1>5 DEF ToSet
<1>7. ToSet(s) \subseteq ToSet(u) /\ ToSet(t) \subseteq ToSet(u)
  <2>1. ToSet(u) = {u[k] : k \in 1..(m + n)}
    BY <1>2 DEF ToSet
  <2>2. ToSet(s) \subseteq ToSet(u)
    BY <1>1, <1>3, <2>1 DEF ToSet
  <2>3. ToSet(t) \subseteq ToSet(u)
    BY <1>1, <1>4, <2>1 DEF ToSet
  <2> QED
    BY <2>2, <2>3
<1>8. ToSet(u) = ToSet(s) \cup ToSet(t)
  BY <1>6, <1>7
<1> QED
  BY <1>8 DEF u

\* Rows that are stored move the others on, never back.
LEMMA PlacesGrow ==
    ASSUME NEW S \in SUBSET Positions, NEW T \in SUBSET Positions, S \subseteq T, NEW i \in S
    PROVE  /\ Cardinality(EarlierIn(S)[i]) \in Nat /\ Cardinality(EarlierIn(T)[i]) \in Nat
           /\ Cardinality(EarlierIn(S)[i]) <= Cardinality(EarlierIn(T)[i])
<1>1. /\ IsFiniteSet(S) /\ StrictOrder(EarlierIn(S), S)
      /\ IsFiniteSet(T) /\ StrictOrder(EarlierIn(T), T)
  BY EarlierIsOrder
<1>2. /\ IsFiniteSet(EarlierIn(T)[i])
      /\ Cardinality(EarlierIn(S)[i]) \in Nat /\ Cardinality(EarlierIn(T)[i]) \in Nat
  BY <1>1, RankIsNumber
<1>3. EarlierIn(S)[i] \in SUBSET EarlierIn(T)[i]
  BY DEF EarlierIn
<1> QED
  BY <1>2, <1>3, FS_Subset

LEMMA SameRows ==
    ASSUME rows' = rows
    PROVE  InOrder(rows)' = InOrder(rows) /\ \A i : Place(i)' = Place(i)
BY DEF Place

\* Nothing that is said of browser b has changed, but for a query it no longer has.
LEMMA BrowserStays ==
    ASSUME NEW b \in Browsers, BrowserFits(b), rows' = rows,
           page'[b] = page[b], shown'[b] = shown[b], first'[b] = first[b], since'[b] = since[b],
           \/ task'[b] = task[b] /\ result'[b] = result[b]
           \/ task[b] # "done" /\ task'[b] \notin {"read", "done"}
    PROVE  BrowserFits(b)'
<1>1. InOrder(rows)' = InOrder(rows) /\ \A i : Place(i)' = Place(i)
  BY SameRows
<1> QED
  BY <1>1 DEF BrowserFits

LEMMA ExportStays ==
    ASSUME NEW e \in Exports, ExportFits(e), file'[e] = file[e],
           \/ task'[e] = task[e] /\ result'[e] = result[e]
           \/ task'[e] \in {"query", "failed", "timed_out"}
    PROVE  ExportFits(e)'
BY DEF ExportFits
-----------------------------------------------------------------------------
(* What each of the steps keeps *)

LEMMA QuietKeeps ==
    ASSUME PoolInv, Rest, StoreFits', NEW t \in Tasks, NEW s \in States, Quiet(t, s)
    PROVE  Rest'
<1>1. /\ task'[t] = s /\ \A u \in Tasks \ {t} : task'[u] = task[u]
      /\ UNCHANGED <<rows, page, shown, first, since, file>>
  BY DEF Quiet, PoolInv, PoolTypeOK, browseVars
<1>2. /\ result' \in [Queries -> Seq(Positions)]
      /\ \A q \in Queries \ {t} : result'[q] = result[q]
  <2>1. <<>> \in Seq(Positions) /\ result \in [Queries -> Seq(Positions)]
    BY EmptySeq DEF Rest, DataTypeOK
  <2> QED
    BY <2>1 DEF Quiet
<1>3. DataTypeOK'
  BY <1>1, <1>2 DEF Rest, DataTypeOK
<1>4. ASSUME NEW b \in Browsers PROVE BrowserFits(b)'
  <2>1. b \in Tasks /\ b \in Queries /\ BrowserFits(b)
    BY TaskKinds DEF Rest
  <2>2. CASE b = t
    BY <1>1, <2>1, <2>2, BrowserStays DEF Quiet
  <2>3. CASE b # t
    BY <1>1, <1>2, <2>1, <2>3, BrowserStays
  <2> QED
    BY <2>2, <2>3
<1>5. ASSUME NEW e \in Exports PROVE ExportFits(e)'
  <2>1. e \in Tasks /\ e \in Queries /\ ExportFits(e)
    BY TaskKinds DEF Rest
  <2>2. CASE e = t
    BY <1>1, <2>1, <2>2, ExportStays DEF Quiet
  <2>3. CASE e # t
    BY <1>1, <1>2, <2>1, <2>3, ExportStays
  <2> QED
    BY <2>2, <2>3
<1> QED
  BY <1>3, <1>4, <1>5 DEF Rest

\* With the table all the rows are gone: what a browser has shown is of the past.
LEMMA DropsKeeps ==
    ASSUME PoolInv, Rest, StoreFits', Drops(Consumer)
    PROVE  Rest'
<1>1. /\ task' = [task EXCEPT ![Consumer] = "create"]
      /\ since' = [b \in Browsers |-> "cut"]
      /\ UNCHANGED <<page, shown, first, result, file>>
  BY DEF Drops, Goes, browseVars
<1>2. DataTypeOK'
  BY <1>1 DEF Rest, DataTypeOK
<1>3. \A q \in Queries : task'[q] = task[q]
  BY <1>1, TaskKinds DEF PoolInv, PoolTypeOK
<1>4. ASSUME NEW b \in Browsers PROVE BrowserFits(b)'
  <2>1. BrowserFits(b) /\ task'[b] = task[b] /\ since'[b] = "cut"
    BY <1>1, <1>3, TaskKinds DEF Rest
  <2> QED
    BY <1>1, <2>1 DEF BrowserFits
<1>5. ASSUME NEW e \in Exports PROVE ExportFits(e)'
  BY <1>1, <1>3, <1>5, TaskKinds, ExportStays DEF Rest
<1> QED
  BY <1>2, <1>4, <1>5 DEF Rest

LEMMA InsertsKeeps ==
    ASSUME PoolInv, Rest, StoreFits', Inserts
    PROVE  Rest'
<1>1. /\ task' = [task EXCEPT ![Consumer] = "fill"]
      /\ since' = [b \in Browsers |-> Touched(b, pos)]
      /\ rows' = (rows \ Conflicts(pos)) \cup {pos}
      /\ UNCHANGED <<page, shown, first, result, file>>
  BY DEF Inserts, Goes, InsertRow, browseVars
<1>2. since' \in [Browsers -> {"grown", "cut"}]
  BY <1>1 DEF Touched
<1>3. DataTypeOK'
  BY <1>1, <1>2 DEF Rest, DataTypeOK
<1>4. \A q \in Queries : task'[q] = task[q]
  BY <1>1, TaskKinds DEF PoolInv, PoolTypeOK
<1>5. ASSUME NEW b \in Browsers PROVE BrowserFits(b)'
  <2>1. BrowserFits(b) /\ task'[b] = task[b]
    BY <1>4, TaskKinds DEF Rest
  <2>2. CASE since'[b] = "cut"
    BY <1>1, <2>1, <2>2 DEF BrowserFits
  <2>3. CASE since'[b] = "grown"
    <3>1. since[b] # "cut" /\ Conflicts(pos) = {}
      BY <1>1, <2>3 DEF Touched
    <3>2. first[b] \subseteq rows /\ rows \subseteq rows'
      BY <1>1, <2>1, <3>1 DEF BrowserFits
    <3>3. rows \in SUBSET Positions /\ rows' \in SUBSET Positions
      BY DEF Rest, DataTypeOK, StoreFits, StoreTypeOK
    <3>4. \A i \in first[b] : /\ Place(i) \in Nat /\ Place(i)' \in Nat
                              /\ Place(i) <= Place(i)'
      BY <3>2, <3>3, PlacesGrow DEF Place
    <3>5. page[b] * PageSize \in Int /\ (task[b] = "read" => Len(result[b]) \in Nat)
      <4>1. page[b] \in Nat /\ PageSize \in Nat /\ result[b] \in Seq(Positions)
        BY QueriesAssumption, TaskKinds DEF Rest, DataTypeOK
      <4> QED
        BY <4>1, LenProperties
    <3> DEFINE end == page[b] * PageSize
    <3>6. end' = end
      BY <1>1
    <3> HIDE DEF end
    <3>7. ASSUME NEW i \in first[b], Place(i)' < end PROVE i \in ToSet(shown[b])
      <4>1. Place(i) < end
        BY <3>4, <3>5, <3>7 DEF end
      <4> QED
        BY <2>1, <3>1, <4>1 DEF BrowserFits, end
    <3>8. ASSUME task[b] = "read", NEW i \in first[b],
                 Place(i)' < end + Len(result[b]) \/ Len(result[b]) < PageSize
          PROVE  i \in ToSet(shown[b]) \cup ToSet(result[b])
      <4>1. Place(i) < end + Len(result[b]) \/ Len(result[b]) < PageSize
        BY <3>4, <3>5, <3>8 DEF end
      <4> QED
        BY <2>1, <3>1, <3>8, <4>1 DEF BrowserFits, end
    <3> QED
      BY <1>1, <2>1, <2>3, <3>1, <3>2, <3>7, <3>8 DEF BrowserFits, end
  <2> QED
    BY <1>2, <2>2, <2>3
<1>6. ASSUME NEW e \in Exports PROVE ExportFits(e)'
  BY <1>1, <1>4, <1>6, TaskKinds, ExportStays DEF Rest
<1> QED
  BY <1>3, <1>5, <1>6 DEF Rest

\* A page that is fetched goes on where the ones before it have ended.
LEMMA FetchesKeeps ==
    ASSUME PoolInv, Rest, StoreFits', NEW q \in Queries, Fetches(q)
    PROVE  Rest'
<1> DEFINE limit == LimitOf(q)
           offset == OffsetOf(q)
           r == IF q \in Elsewhere THEN <<>> ELSE Selected(limit, offset)
<1>1. /\ task' = [task EXCEPT ![q] = "read"] /\ task[q] = "query"
      /\ result' = [result EXCEPT ![q] = r]
      /\ first' = [b \in Browsers |-> IF b = q /\ page[b] = 0 THEN rows ELSE first[b]]
      /\ since' = [b \in Browsers |-> IF b = q /\ page[b] = 0 THEN "same" ELSE since[b]]
      /\ UNCHANGED <<storeVars, page, shown, file>>
  BY DEF Fetches, Goes
<1>2. rows' = rows /\ rows \in SUBSET Positions
  BY <1>1 DEF storeVars, Rest, DataTypeOK, StoreFits, StoreTypeOK
<1>3. limit \in Int /\ offset \in Nat
  BY QueriesAssumption DEF LimitOf, OffsetOf, Rest, DataTypeOK
<1>4. Selected(limit, offset) \in Seq(Positions) /\ IsSorted(Selected(limit, offset), Earlier)
  BY <1>3, SelectedFacts DEF Rest
<1>5. r \in Seq(Positions)
  BY <1>4, EmptySeq
<1> HIDE DEF r, limit, offset
<1>6. DataTypeOK'
  <2>1. result' \in [Queries -> Seq(Positions)]
    BY <1>1, <1>5 DEF Rest, DataTypeOK
  <2>2. first' \in [Browsers -> SUBSET Positions] /\ since' \in [Browsers -> {"same", "grown", "cut"}]
    BY <1>1, <1>2 DEF Rest, DataTypeOK
  <2> QED
    BY <1>1, <2>1, <2>2 DEF Rest, DataTypeOK
<1>7. /\ task'[q] = "read" /\ \A p \in Queries \ {q} : task'[p] = task[p]
      /\ result'[q] = r /\ \A p \in Queries \ {q} : result'[p] = result[p]
  BY <1>1, TaskKinds DEF PoolInv, PoolTypeOK, Rest, DataTypeOK
<1>8. ASSUME NEW e \in Exports PROVE ExportFits(e)'
  <2>1. ExportFits(e) /\ e \in Queries
    BY TaskKinds DEF Rest
  <2>2. CASE e # q
    BY <1>1, <1>7, <2>1, <2>2, ExportStays
  <2>3. CASE e = q
    <3>1. IsSorted(r, Earlier)
      BY <1>4, <2>3, Kinds DEF r
    <3>2. file'[e] = file[e] /\ task'[e] = "read" /\ task[e] = "query" /\ result'[e] = r
      BY <1>1, <1>7, <2>3
    <3>3. IsSorted(result'[e], Earlier)
      BY <3>1, <3>2
    <3> QED
      BY <2>1, <3>2, <3>3 DEF ExportFits
  <2> QED
    BY <2>2, <2>3
<1>9. ASSUME NEW b \in Browsers PROVE BrowserFits(b)'
  <2>1. BrowserFits(b) /\ b \in Queries
    BY TaskKinds DEF Rest
  <2>2. CASE b # q
    BY <1>1, <1>2, <1>7, <2>1, <2>2, BrowserStays
  <2>3. CASE b = q
    <3> DEFINE all == InOrder(rows)
               end == page[b] * PageSize
               n == Len(r)
    <3>1. limit = PageSize /\ PageSize \in Nat \ {0} /\ offset = end /\ r = Selected(limit, offset)
      BY <2>3, Kinds, QueriesAssumption DEF limit, offset, LimitOf, OffsetOf, r
    <3> HIDE DEF end
    <3>2. /\ n \in Nat /\ n <= PageSize /\ end \in Nat
          /\ \A k \in 1..n : end + k <= Len(all) /\ r[k] = all[end + k]
          /\ \A i \in rows : Place(i) >= end /\ (Place(i) < end + n \/ n < PageSize)
                => i \in ToSet(r)
      <4>1. DataTypeOK /\ PageSize >= 0 /\ ~(PageSize < 0)
        BY <3>1 DEF Rest
      <4>2. /\ n \in Nat /\ (limit >= 0 => n <= limit)
            /\ \A k \in 1..n : offset + k <= Len(all) /\ r[k] = all[offset + k]
            /\ \A i \in rows : Place(i) >= offset /\ (Place(i) < offset + n \/ limit < 0 \/ n < limit)
                 => i \in ToSet(r)
        BY <1>3, <3>1, <4>1, SelectedFacts
      <4> QED
        BY <1>3, <3>1, <4>1, <4>2
    <3>3. /\ all \in Seq(Positions) /\ Len(all) \in Nat
          /\ \A i \in rows : Place(i) \in Nat
      BY RowsInOrder DEF Rest
    <3>4. page[b] \in Nat /\ shown[b] \in Seq(Positions) /\ Len(shown[b]) = end
      BY <1>1, <2>1, <2>3 DEF BrowserFits, Rest, DataTypeOK, end
    <3>5. InOrder(rows)' = all /\ \A i : Place(i)' = Place(i)
      BY <1>2, SameRows
    <3>6. /\ page'[b] = page[b] /\ shown'[b] = shown[b] /\ task'[b] = "read" /\ result'[b] = r
          /\ page[b] = 0 => first'[b] = rows /\ since'[b] = "same"
          /\ page[b] # 0 => first'[b] = first[b] /\ since'[b] = since[b]
      BY <1>1, <1>7, <2>3
    <3>7. (page[b] * PageSize)' = end
      BY <3>6 DEF end
    <3>8. page[b] = 0 => end = 0
      BY <3>1, <3>4 DEF end
    <3> HIDE DEF all, n
    <3>9. ASSUME since'[b] # "cut"
          PROVE  /\ first'[b] \subseteq rows
                 /\ \A i \in first'[b] : Place(i) < end => i \in ToSet(shown[b])
      <4>1. CASE page[b] = 0
        BY <3>3, <3>6, <3>8, <4>1
      <4>2. CASE page[b] # 0
        BY <2>1, <3>6, <3>9, <4>2 DEF BrowserFits, end
      <4> QED
        BY <4>1, <4>2
    <3>10. ASSUME since'[b] # "cut", NEW i \in first'[b], Place(i) < end + n \/ n < PageSize
           PROVE  i \in ToSet(shown[b]) \cup ToSet(r)
      <4>1. i \in rows /\ Place(i) \in Nat
        BY <3>3, <3>9, <3>10
      <4>2. CASE Place(i) < end
        BY <3>9, <3>10, <4>2
      <4>3. CASE Place(i) >= end
        BY <3>2, <3>10, <4>1, <4>3
      <4> QED
        BY <3>2, <4>1, <4>2, <4>3
    <3>11. ASSUME since'[b] = "same" PROVE IsPrefix(shown[b], all) /\ IsPrefix(shown[b] \o r, all)
      <4>1. Len(shown[b]) <= Len(all) /\ \A k \in 1..end : shown[b][k] = all[k]
        <5>1. CASE page[b] = 0
          BY <3>3, <3>4, <3>8, <5>1
        <5>2. CASE page[b] # 0
          <6>1. IsPrefix(shown[b], all)
            BY <2>1, <3>6, <3>11, <5>2 DEF BrowserFits, all
          <6> QED
            BY <3>3, <3>4, <6>1, PrefixFacts
        <5> QED
          BY <5>1, <5>2
      <4>2. /\ shown[b] \o r \in Seq(Positions) /\ Len(shown[b] \o r) = end + n
            /\ \A k \in 1..(end + n) :
                  (shown[b] \o r)[k] = IF k <= end THEN shown[b][k] ELSE r[k - end]
        BY <1>5, <3>4, ConcatProperties DEF n
      <4>3. end + n <= Len(all)
        <5>1. CASE n = 0
          BY <3>2, <3>4, <4>1, <5>1
        <5>2. CASE n # 0
          <6>1. n \in 1..n
            BY <3>2, <5>2
          <6> QED
            BY <3>2, <6>1
        <5> QED
          BY <5>1, <5>2
      <4>4. ASSUME NEW k \in 1..(end + n) PROVE (shown[b] \o r)[k] = all[k]
        <5>1. CASE k <= end
          BY <3>2, <4>1, <4>2, <5>1
        <5>2. CASE k > end
          <6>1. k - end \in 1..n /\ end + (k - end) = k
            BY <3>2, <5>2
          <6>2. r[k - end] = all[k]
            BY <3>2, <6>1
          <6>3. (shown[b] \o r)[k] = r[k - end]
            BY <3>2, <4>2, <5>2
          <6> QED
            BY <6>2, <6>3
        <5>3. k <= end \/ k > end
          BY <3>2
        <5> QED
          BY <5>1, <5>2, <5>3
      <4> QED
        BY <3>3, <3>4, <4>1, <4>2, <4>3, <4>4, PrefixFacts
    <3>12. since[b]' # "cut" => first[b]' \subseteq rows'
      BY <1>2, <3>9
    <3> QED
      BY <3>2, <3>4, <3>5, <3>6, <3>7, <3>9, <3>10, <3>11, <3>12 DEF BrowserFits, all, n
  <2> QED
    BY <2>2, <2>3
<1> QED
  BY <1>6, <1>8, <1>9 DEF Rest

\* A full page moves the browser on by as many places as it has shown; a page that is not
\* full is the last.
LEMMA ShowsKeeps ==
    ASSUME PoolInv, Rest, StoreFits', NEW b \in Browsers, ShowsPage(b)
    PROVE  Rest'
<1> DEFINE next == HasNext(b)
           end == page[b] * PageSize
           n == Len(result[b])
           r == result[b]
<1>0. b \in Queries /\ b \in Tasks /\ BrowserFits(b)
  BY TaskKinds DEF Rest
<1>1. /\ task[b] = "read" /\ task' = [task EXCEPT ![b] = IF next THEN "ready" ELSE "done"]
      /\ shown' = [shown EXCEPT ![b] = @ \o result[b]]
      /\ page' = IF next THEN [page EXCEPT ![b] = @ + 1] ELSE page
      /\ result' = [result EXCEPT ![b] = <<>>]
      /\ UNCHANGED <<storeVars, first, since, file>>
  BY DEF ShowsPage, Disconnects
<1>2. rows' = rows
  BY <1>1 DEF storeVars
<1>3. /\ PageSize \in Nat \ {0} /\ page[b] \in Nat
      /\ shown[b] \in Seq(Positions) /\ r \in Seq(Positions) /\ n \in Nat
  BY <1>0, QueriesAssumption, LenProperties DEF Rest, DataTypeOK
<1>4. /\ shown[b] \o r \in Seq(Positions) /\ Len(shown[b] \o r) = Len(shown[b]) + n
      /\ Len(shown[b]) \in Nat
      /\ \A k \in 1..(Len(shown[b]) + n) : (shown[b] \o r)[k] =
            IF k <= Len(shown[b]) THEN shown[b][k] ELSE r[k - Len(shown[b])]
  <2>1. Len(shown[b]) \in Nat /\ n = Len(r)
    BY <1>3, LenProperties
  <2> HIDE DEF r, n
  <2> QED
    BY <1>3, <2>1, ConcatProperties
<1>5. DataTypeOK'
  <2>1. shown' \in [Browsers -> Seq(Positions)] /\ page' \in [Browsers -> Nat]
    BY <1>1, <1>3, <1>4 DEF Rest, DataTypeOK
  <2>2. result' \in [Queries -> Seq(Positions)]
    BY <1>1, EmptySeq DEF Rest, DataTypeOK
  <2> QED
    BY <1>1, <2>1, <2>2 DEF Rest, DataTypeOK
<1>6. /\ \A q \in Queries \ {b} : task'[q] = task[q] /\ result'[q] = result[q]
      /\ \A c \in Browsers \ {b} : page'[c] = page[c] /\ shown'[c] = shown[c]
  BY <1>1, TaskKinds DEF PoolInv, PoolTypeOK, Rest, DataTypeOK
<1>7. /\ task'[b] = IF next THEN "ready" ELSE "done"
      /\ shown'[b] = shown[b] \o r /\ page'[b] = IF next THEN page[b] + 1 ELSE page[b]
      /\ first'[b] = first[b] /\ since'[b] = since[b]
  BY <1>0, <1>1 DEF PoolInv, PoolTypeOK, Rest, DataTypeOK
<1>8. ASSUME NEW e \in Exports PROVE ExportFits(e)'
  <2>1. e \in Queries \ {b} /\ ExportFits(e)
    BY Kinds, TaskKinds DEF Rest
  <2> QED
    BY <1>1, <1>6, <2>1, ExportStays
<1>9. ASSUME NEW c \in Browsers, c # b PROVE BrowserFits(c)'
  <2>1. c \in Queries \ {b} /\ BrowserFits(c)
    BY <1>9, TaskKinds DEF Rest
  <2> QED
    BY <1>1, <1>2, <1>6, <1>9, <2>1, BrowserStays
<1>10. BrowserFits(b)'
  <2>1. InOrder(rows)' = InOrder(rows) /\ \A i : Place(i)' = Place(i)
    BY <1>2, SameRows
  <2>2. ToSet(shown[b] \o r) = ToSet(shown[b]) \cup ToSet(r)
    BY <1>3, ConcatElements
  <2>3. /\ Len(shown[b]) = end /\ n <= PageSize
        /\ since[b] # "cut" =>
              /\ first[b] \subseteq rows
              /\ \A i \in first[b] : Place(i) < end => i \in ToSet(shown[b])
              /\ \A i \in first[b] : Place(i) < end + n \/ n < PageSize
                    => i \in ToSet(shown[b]) \cup ToSet(r)
        /\ since[b] = "same" => IsPrefix(shown[b] \o r, InOrder(rows))
    BY <1>0, <1>1 DEF BrowserFits
  <2>4. CASE next
    <3>1. n = PageSize /\ (page[b] + 1) * PageSize = end + n
      BY <1>3, <2>4 DEF HasNext
    <3>2. (page[b] * PageSize)' = end + n
      BY <1>7, <2>4, <3>1
    <3>3. Len(shown[b])' = end + n
      BY <1>4, <1>7, <2>3
    <3> HIDE DEF end, n, next
    <3> QED
      BY <1>2, <1>7, <2>1, <2>2, <2>3, <2>4, <3>2, <3>3 DEF BrowserFits
  <2>5. CASE ~next
    <3>1. n < PageSize
      BY <1>3, <2>3, <2>5 DEF HasNext
    <3>2. (page[b] * PageSize)' = end
      BY <1>7, <2>5
    <3> HIDE DEF end, n, next
    <3> QED
      BY <1>2, <1>7, <2>1, <2>2, <2>3, <2>5, <3>1, <3>2 DEF BrowserFits
  <2> QED
    BY <2>4, <2>5
<1> QED
  BY <1>5, <1>8, <1>9, <1>10 DEF Rest

LEMMA ExportsKeep ==
    ASSUME PoolInv, Rest, StoreFits', NEW e \in Exports,
           OpensFile(e) \/ WritesFile(e) \/ WriteFails(e)
    PROVE  Rest'
<1>0. e \in Queries /\ e \in Tasks /\ ExportFits(e) /\ file[e].kind \in FileKinds
      /\ file[e] \in [kind : FileKinds, header : Seq(STRING), rows : Seq(Positions)]
  BY TaskKinds DEF Rest, DataTypeOK
<1>1. \E s \in States \ {"read"}, f \in [kind : FileKinds, header : Seq(STRING), rows : Seq(Positions)] :
         /\ task' = [task EXCEPT ![e] = s] /\ file' = [file EXCEPT ![e] = f]
         /\ f.kind \in {"empty", "partial"} => s \in {"ask", "failed"}
         /\ f.kind = "rows" => /\ f.rows # <<>> /\ IsSorted(f.rows, Earlier) /\ LayOut(f.header)
  <2> DEFINE Files == [kind : FileKinds, header : Seq(STRING), rows : Seq(Positions)]
  <2>1. \A kind \in FileKinds : Blank(kind) \in Files /\ Blank(kind).kind = kind
    BY EmptySeq DEF Blank
  <2>2. CASE OpensFile(e)
    <3>1. task[e] = "ready" /\ {"ask", "failed"} \subseteq States \ {"read"}
      BY <2>2 DEF OpensFile, States
    <3>2. CASE task' = [task EXCEPT ![e] = "ask"] /\ file' = [file EXCEPT ![e] = Blank("empty")]
      BY <2>1, <3>1, <3>2 DEF FileKinds
    <3>3. CASE task' = [task EXCEPT ![e] = "failed"] /\ file' = file
      <4>1. file' = [file EXCEPT ![e] = file[e]]
        BY <3>3 DEF Rest, DataTypeOK
      <4> QED
        BY <1>0, <3>1, <3>3, <4>1 DEF ExportFits
    <3> QED
      BY <2>2, <3>2, <3>3 DEF OpensFile
  <2>3. CASE WritesFile(e)
    <3>1. /\ task[e] = "read" /\ task' = [task EXCEPT ![e] = "done"]
          /\ "done" \in States \ {"read"}
      BY <2>3 DEF WritesFile, Goes, States
    <3>2. CASE result[e] = <<>>
      <4>1. file' = [file EXCEPT ![e] = Blank("message")]
        BY <2>3, <3>2 DEF WritesFile
      <4> QED
        BY <2>1, <3>1, <4>1 DEF FileKinds
    <3>3. CASE result[e] # <<>>
      <4> DEFINE f == [kind |-> "rows", rows |-> result[e],
                       header |-> Ordered(ToSet(Columns), SortsBefore)]
      <4>1. file' = [file EXCEPT ![e] = f]
        BY <2>3, <3>3 DEF WritesFile
      <4>2. result[e] \in Seq(Positions) /\ IsSorted(result[e], Earlier)
        BY <1>0, <3>1 DEF ExportFits, Rest, DataTypeOK
      <4>3. /\ f.header \in Seq(STRING) /\ LayOut(f.header)
            /\ f.kind = "rows" /\ f.rows = result[e]
        BY HeaderIsLaidOut
      <4>4. f \in Files
        BY <4>2, HeaderIsLaidOut DEF FileKinds
      <4> HIDE DEF f
      <4>5. IsSorted(f.rows, Earlier)
        BY <4>2, <4>3
      <4> QED
        BY <3>1, <3>3, <4>1, <4>3, <4>4, <4>5
    <3> QED
      BY <3>2, <3>3
  <2>4. CASE WriteFails(e)
    <3> DEFINE f == [file[e] EXCEPT !.kind = "partial"]
    <3>1. task' = [task EXCEPT ![e] = "failed"] /\ file' = [file EXCEPT ![e] = f]
      BY <2>4 DEF WriteFails, Goes
    <3>2. f \in Files /\ f.kind = "partial" /\ "failed" \in States \ {"read"}
      BY <1>0 DEF FileKinds, States
    <3> QED
      BY <3>1, <3>2
  <2> QED
    BY <2>2, <2>3, <2>4
<1>2. PICK s \in States \ {"read"}, f \in [kind : FileKinds, header : Seq(STRING), rows : Seq(Positions)] :
         /\ task' = [task EXCEPT ![e] = s] /\ file' = [file EXCEPT ![e] = f]
         /\ f.kind \in {"empty", "partial"} => s \in {"ask", "failed"}
         /\ f.kind = "rows" => /\ f.rows # <<>> /\ IsSorted(f.rows, Earlier) /\ LayOut(f.header)
  BY <1>1
<1>3. /\ rows' = rows /\ UNCHANGED <<page, shown, first, since>>
      /\ result' = result \/ result' = [result EXCEPT ![e] = <<>>]
  BY DEF OpensFile, WritesFile, WriteFails, Disconnects, storeVars, browseVars
<1>4. /\ task'[e] = s /\ file'[e] = f
      /\ \A t \in Tasks \ {e} : task'[t] = task[t]
      /\ \A g \in Exports \ {e} : file'[g] = file[g]
      /\ \A q \in Queries \ {e} : result'[q] = result[q]
  BY <1>0, <1>2, <1>3 DEF PoolInv, PoolTypeOK, Rest, DataTypeOK
<1>5. DataTypeOK'
  <2>0. <<>> \in Seq(Positions)
    BY EmptySeq
  <2>1. result' \in [Queries -> Seq(Positions)]
    BY <1>3, <2>0 DEF Rest, DataTypeOK
  <2>2. file' \in [Exports -> [kind : FileKinds, header : Seq(STRING), rows : Seq(Positions)]]
    BY <1>2 DEF Rest, DataTypeOK
  <2> QED
    BY <1>3, <2>1, <2>2 DEF Rest, DataTypeOK
<1>6. ASSUME NEW b \in Browsers PROVE BrowserFits(b)'
  <2>1. b \in Queries \ {e} /\ b \in Tasks \ {e} /\ BrowserFits(b)
    BY Kinds, TaskKinds DEF Rest
  <2> QED
    BY <1>3, <1>4, <2>1, BrowserStays
<1>7. ASSUME NEW g \in Exports, g # e PROVE ExportFits(g)'
  <2>1. g \in Queries \ {e} /\ g \in Tasks \ {e} /\ ExportFits(g)
    BY <1>7, TaskKinds DEF Rest
  <2> QED
    BY <1>4, <1>7, <2>1, ExportStays
<1>8. ExportFits(e)'
  <2>1. f.kind = "rows" => IsSorted(file[e].rows, Earlier)'
    BY <1>2, <1>4 DEF IsSorted
  <2> QED
    BY <1>2, <1>4, <2>1 DEF ExportFits
<1> QED
  BY <1>5, <1>6, <1>7, <1>8 DEF Rest
-----------------------------------------------------------------------------
LEMMA RestInit == Init => Rest
<1> SUFFICES ASSUME Init PROVE Rest
  OBVIOUS
<1>1. StoreFits
  <2>1. task[Consumer] = "ready"
    BY TaskKinds DEF Init
  <2>2. StoreTypeOK
    BY DEF Init, StoreInit, StoreTypeOK
  <2>3. pos \in 0..Len(Log)
    BY LogFacts DEF Init
  <2> QED
    BY <2>1, <2>2, <2>3 DEF StoreFits
<1>2. DataTypeOK
  <2>1. <<>> \in Seq(Positions) /\ <<>> \in Seq(STRING)
    BY EmptySeq
  <2>2. \A kind \in FileKinds :
          Blank(kind) \in [kind : FileKinds, header : Seq(STRING), rows : Seq(Positions)]
    BY <2>1 DEF Blank
  <2>3. file \in [Exports -> [kind : FileKinds, header : Seq(STRING), rows : Seq(Positions)]]
    BY <2>2 DEF Init, FileKinds
  <2> QED
    BY <1>1, <2>1, <2>3 DEF Init, DataTypeOK
<1>3. ASSUME NEW b \in Browsers PROVE BrowserFits(b)
  <2>1. /\ page[b] = 0 /\ shown[b] = <<>> /\ first[b] = {} /\ since[b] = "same"
        /\ task[b] = "ready"
    BY TaskKinds DEF Init
  <2>2. page[b] * PageSize = 0
    BY <2>1, QueriesAssumption
  <2>3. <<>> \in Seq(Positions) /\ Len(<<>>) = 0
    BY EmptySeq
  <2>4. InOrder(rows) \in Seq(Positions) /\ Len(InOrder(rows)) \in Nat
    BY <1>2, RowsInOrder
  <2>5. IsPrefix(<<>>, InOrder(rows))
    <3> DEFINE none == <<>>
               all == InOrder(rows)
    <3>1. none \in Seq(Positions) /\ Len(none) = 0
      BY <2>3
    <3> HIDE DEF none, all
    <3>2. Len(none) <= Len(all) /\ \A k \in 1..Len(none) : none[k] = all[k]
      BY <2>4, <3>1 DEF all
    <3>3. IsPrefix(none, all)
      BY <2>4, <3>1, <3>2, PrefixFacts DEF all
    <3> QED
      BY <3>3 DEF none, all
  <2> QED
    BY <2>1, <2>2, <2>3, <2>5 DEF BrowserFits
<1>4. ASSUME NEW e \in Exports PROVE ExportFits(e)
  <2>1. file[e].kind \in {"none", "old"} /\ task[e] = "ready"
    BY TaskKinds DEF Init, Blank
  <2> QED
    BY <2>1 DEF ExportFits
<1> QED
  BY <1>2, <1>3, <1>4 DEF Rest

LEMMA RestStep == PoolInv /\ Rest /\ [Next]_vars => Rest'
<1> SUFFICES ASSUME PoolInv, Rest, [Next]_vars PROVE Rest'
  OBVIOUS
<1>1. StoreFits'
  BY StoreStep DEF Rest, DataTypeOK
<1>2. CASE UNCHANGED vars
  <2>1. UNCHANGED <<rows, task, page, shown, first, since, result, file>>
    BY <1>2 DEF vars, storeVars, browseVars
  <2>2. \A b \in Browsers : BrowserFits(b)'
    BY <2>1, BrowserStays DEF Rest
  <2>3. \A e \in Exports : ExportFits(e)'
    BY <2>1, ExportStays DEF Rest
  <2>4. DataTypeOK'
    BY <1>1, <2>1 DEF Rest, DataTypeOK
  <2> QED
    BY <2>2, <2>3, <2>4 DEF Rest
<1>3. CASE Next
  BY <1>1, <1>3, StepKinds, QuietKeeps, DropsKeeps, InsertsKeeps, FetchesKeeps, ShowsKeeps,
     ExportsKeep DEF Loud
<1> QED
  BY <1>2, <1>3

\* The variables stay within their types, and whoever uses a connection has one.
THEOREM QueriesTypeCorrect == Spec => []TypeOK
<1>1. PoolInv /\ Rest => TypeOK
  <2> SUFFICES ASSUME PoolInv, Rest PROVE TypeOK
    OBVIOUS
  <2>1. ASSUME NEW t \in Tasks,
               task[t] \in {"destroy", "drop", "create", "insert", "query", "read", "copy"}
        PROVE  t \in {holder[c] : c \in Conns}
    <3>1. TaskFits(t)
      BY DEF PoolInv
    <3>2. \E c \in Conns : c \in Held(t)
      BY <2>1, <3>1 DEF TaskFits, HasOne
    <3> QED
      BY <3>2 DEF Held
  <2>2. \A e \in Exports : file[e].kind \in FileKinds
    BY DEF Rest, DataTypeOK
  <2> QED
    BY <2>1, <2>2 DEF PoolInv, PoolTypeOK, Rest, DataTypeOK, StoreFits, TypeOK
<1> QED
  BY <1>1, PoolInit, PoolStep, RestInit, RestStep, PTL DEF Spec

\* However the pages of a browser, the inserts and the setups follow each other, a browser
\* that has come to the last page has been shown every row there was at its first, unless
\* the table has lost rows since; of a table that stays the same it has been shown the rows
\* in order and once each.
THEOREM PagesShowAll == Spec => []PagesAreExact
<1>1. Rest => PagesAreExact
  BY DEF Rest, BrowserFits, PagesAreExact
<1> QED
  BY <1>1, PoolInit, PoolStep, RestInit, RestStep, PTL DEF Spec

\* A file that is not empty or half written has the rows in order under columns that are
\* always the same.
THEOREM ExportsInOrder == Spec => []ExportsAreExact
<1>1. Rest => ExportsAreExact
  BY DEF Rest, ExportFits, ExportsAreExact
<1> QED
  BY <1>1, PoolInit, PoolStep, RestInit, RestStep, PTL DEF Spec
=============================================================================
