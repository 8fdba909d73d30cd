---------------------------- MODULE RecordQueries ----------------------------
(***************************************************************************)
(* Reading a topic's table while a consumer fills it: the pages of the     *)
(* record list (get_records_page), the export of a query to a file         *)
(* (export_records), the copy of the whole database (export_db), and the   *)
(* pool of connections they share with the consumer (sqlite_store.rs).     *)
(*                                                                         *)
(* A task is the Consumer (KafkaConsumer reduced to its setup and its      *)
(* inserts, one run after the other), a Browser that goes through the      *)
(* pages of one query, an Export, a Backup, or something Elsewhere: a      *)
(* query or a setup of another topic of the same cluster, which shares the *)
(* pool and the schema but not the table.                                  *)
(*                                                                         *)
(* SQLite, as this code opens it: a query of `ORDER BY' sorts in its first *)
(* step and gives its rows in the following ones; until its last row it    *)
(* keeps the schema of the shared cache locked against DROP and CREATE,    *)
(* and, reading uncommitted, nothing else.                                 *)
(***************************************************************************)
EXTENDS TopicStore, SequencesExt, Orders

CONSTANTS
    Consumer, Browsers, Exports, Backups, Elsewhere,   \* the tasks
    Conns,      \* the connections of the pool (20 in the code)
    PageSize,   \* PAGE_SIZE (20 in the code)
    Columns,    \* the columns of the table, in alphabetical order
    None,       \* no task
    Faults      \* what may go wrong: "pool" (30 s without a connection), "write"

Queries == Browsers \cup Exports \cup Elsewhere
Setups == {Consumer} \cup Elsewhere
Tasks == Setups \cup Backups \cup Queries

ASSUME QueriesAssumption ==
    /\ PageSize \in Nat \ {0}
    /\ None \notin Tasks
    /\ Consumer \notin Queries \cup Backups
    /\ Backups \cap Queries = {}
    /\ Browsers \cap Exports = {} /\ Elsewhere \cap (Browsers \cup Exports) = {}
    /\ Columns \in Seq(STRING) /\ IsInjective(Columns)
    /\ {"timestamp", "key", "payload"} \subseteq ToSet(Columns)
    /\ Faults \subseteq {"pool", "write"}

VARIABLES
    task,    \* where each task is
    holder,  \* the task that has each connection
    handler, \* the query whose progress handler is on each connection
    pos,     \* how many records the consumer's run has received
    page,    \* the page_number of each browser's next call
    shown,   \* the rows of the pages it has, one after the other
    first,   \* the rows that were in the table when it read page 0
    since,   \* what the table has gone through since ("same", "grown", "cut")
    result,  \* the rows of the last query
    file     \* the output file of each export

poolVars == <<holder, handler>>
browseVars == <<page, shown, first>>
vars == <<storeVars, task, poolVars, pos, browseVars, since, result, file>>

\* A browser or an export is done or has failed; the others are ready again.
States == {"ready", "connect", "destroy", "drop", "create", "fill", "parsed", "insert",
           "ask", "query", "read", "copy", "done", "failed", "timed_out"}
Failed(t) == IF t \in Browsers \cup Exports THEN "failed" ELSE "ready"

FileKinds == {"none", "old", "empty", "message", "partial", "rows"}
Blank(kind) == [kind |-> kind, header |-> <<>>, rows |-> <<>>]

TypeOK ==
    /\ StoreTypeOK
    /\ task \in [Tasks -> States]
    /\ holder \in [Conns -> Tasks \cup {None}]
    /\ handler \in [Conns -> Queries \cup {None}]
    /\ pos \in 0..Len(Log)
    /\ page \in [Browsers -> Nat]
    /\ \A b \in Browsers : shown[b] \in Seq(Positions)
    /\ first \in [Browsers -> SUBSET Positions]
    /\ since \in [Browsers -> {"same", "grown", "cut"}]
    /\ \A q \in Queries : result[q] \in Seq(Positions)
    /\ \A e \in Exports : file[e].kind \in FileKinds
    \* a connection is put to use only by a task that has one
    /\ \A t \in Tasks : task[t] \in {"destroy", "drop", "create", "insert", "query",
                                     "read", "copy"} => t \in {holder[c] : c \in Conns}

Init ==
    /\ StoreInit
    /\ task = [t \in Tasks |-> "ready"]
    /\ holder = [c \in Conns |-> None]
    /\ handler = [c \in Conns |-> None]
    /\ pos = 0
    /\ page = [b \in Browsers |-> 0]
    /\ shown = [b \in Browsers |-> <<>>]
    /\ first = [b \in Browsers |-> {}]
    /\ since = [b \in Browsers |-> "same"]
    /\ result = [q \in Queries |-> <<>>]
    /\ file \in [Exports -> {Blank("none"), Blank("old")}]
-----------------------------------------------------------------------------
(* The pool *)

Goes(t, from, to) ==
    /\ task[t] = from
    /\ task' = [task EXCEPT ![t] = to]

Held(t) == {c \in Conns : holder[c] = t}

Free == {c \in Conns : holder[c] = None}

\* pool.get() when a connection is free
Takes(t) == \E c \in Free : holder' = [holder EXCEPT ![c] = t]

\* The end of the scope of every PooledConnection of t, by unwinding too.
ReturnsAll(t) == holder' = [c \in Conns |-> IF holder[c] = t THEN None ELSE holder[c]]

\* r2d2 gives up after 30 seconds and the unwrap() panics.
PoolTimesOut(t) ==
    /\ "pool" \in Faults
    /\ task[t] \in {"connect", "destroy", "parsed", "ask"}
    /\ Free = {}
    /\ task' = [task EXCEPT ![t] = Failed(t)]
    /\ ReturnsAll(t)
    /\ UNCHANGED <<storeVars, handler, pos, browseVars, since, result, file>>

-----------------------------------------------------------------------------
(* A setup: create_or_replace_topic_table, of the topic or elsewhere *)

\* Somebody is between the first and the last row of a query.
SchemaLocked == \E q \in Queries : task[q] = "read"

\* TopicStore::setup, when the consumer is started.
StartsSetup(t) ==
    /\ task[t] \in {"ready", "timed_out"}
    /\ task' = [task EXCEPT ![t] = "connect"]
    /\ IF t = Consumer THEN ResetCounter /\ pos' = 0 ELSE UNCHANGED <<storeVars, pos>>
    /\ UNCHANGED <<poolVars, browseVars, since, result, file>>

SetupConnects(t) ==
    /\ Goes(t, "connect", "destroy")
    /\ Takes(t)
    /\ UNCHANGED <<storeVars, handler, pos, browseVars, since, result, file>>

\* SqliteStore::destroy takes a connection of its own.
DestroyConnects(t) ==
    /\ Goes(t, "destroy", "drop")
    /\ Takes(t)
    /\ UNCHANGED <<storeVars, handler, pos, browseVars, since, result, file>>

\* mutant of Drops: both connections go back
DropsAndReturnsBoth(t) ==
    /\ ~SchemaLocked
    /\ Goes(t, "drop", "create")
    /\ ReturnsAll(t)
    /\ IF t = Consumer
          THEN DropTable /\ since' = [b \in Browsers |-> "cut"]
          ELSE UNCHANGED <<storeVars, since>>
    /\ UNCHANGED <<handler, pos, browseVars, result, file>>

Drops(t) ==
    /\ ~SchemaLocked
    /\ Goes(t, "drop", "create")
    /\ \E c \in Held(t) : holder' = [holder EXCEPT ![c] = None]
    /\ IF t = Consumer
          THEN DropTable /\ since' = [b \in Browsers |-> "cut"]
          ELSE UNCHANGED <<storeVars, since>>
    /\ UNCHANGED <<handler, pos, browseVars, result, file>>

Creates(t) ==
    /\ ~SchemaLocked
    /\ Goes(t, "create", IF t = Consumer THEN "fill" ELSE "ready")
    /\ IF t = Consumer THEN \E compactify \in BOOLEAN : CreateTable(compactify)
                       ELSE UNCHANGED storeVars
    /\ ReturnsAll(t)
    /\ UNCHANGED <<handler, pos, browseVars, since, result, file>>

\* mutant of SetupRefused: the connections of a task that panics are lost
SetupRefusedLeaks(t) ==
    /\ SchemaLocked
    /\ task[t] \in {"drop", "create"}
    /\ task' = [task EXCEPT ![t] = "ready"]
    /\ UNCHANGED <<storeVars, poolVars, pos, browseVars, since, result, file>>

\* Either statement is refused while the schema is locked, and the panic ends the task.
SetupRefused(t) ==
    /\ SchemaLocked
    /\ task[t] \in {"drop", "create"}
    /\ task' = [task EXCEPT ![t] = "ready"]
    /\ ReturnsAll(t)
    /\ UNCHANGED <<storeVars, handler, pos, browseVars, since, result, file>>
-----------------------------------------------------------------------------
(* The records of a run *)

\* TopicStore::insert_record counts the record before it is parsed.
Receives ==
    /\ pos < Len(Log)
    /\ Goes(Consumer, "fill", "parsed")
    /\ pos' = pos + 1
    /\ CountRecord
    /\ UNCHANGED <<poolVars, browseVars, since, result, file>>

InsertConnects ==
    /\ Goes(Consumer, "parsed", "insert")
    /\ Takes(Consumer)
    /\ UNCHANGED <<storeVars, handler, pos, browseVars, since, result, file>>

\* The table of a browser that has begun to read it grows, or loses rows to a replacement.
Touched(b, i) ==
    IF since[b] = "cut" \/ Conflicts(i) # {} THEN "cut" ELSE "grown"

Inserts ==
    /\ Goes(Consumer, "insert", "fill")
    /\ InsertRow(pos)
    /\ since' = [b \in Browsers |-> Touched(b, pos)]
    /\ ReturnsAll(Consumer)
    /\ UNCHANGED <<handler, pos, browseVars, result, file>>

\* The loop is aborted where it waits for the next record.
Ends ==
    /\ Goes(Consumer, "fill", "ready")
    /\ UNCHANGED <<storeVars, poolVars, pos, browseVars, since, result, file>>
-----------------------------------------------------------------------------
(* A query: SqliteStore::query_records *)

\* ORDER BY timestamp desc; rows with the same timestamp in the order they were stored
Earlier(i, j) == Log[i].ts > Log[j].ts \/ (Log[i].ts = Log[j].ts /\ i < j)
InOrder(S) == Ordered(S, Earlier)

\* LIMIT and OFFSET as parse_query puts them in; SQLite takes a limit of -1 for none.
Selected(limit, offset) ==
    LET all == InOrder(rows)
    IN  SubSeq(all, offset + 1,
               IF limit < 0 \/ offset + limit > Len(all) THEN Len(all) ELSE offset + limit)

\* The connection's progress handler is replaced by that of this query.
QueryConnects(q) ==
    /\ Goes(q, "ask", "query")
    /\ Takes(q)
    /\ handler' = [c \in Conns |-> IF holder'[c] = q THEN q ELSE handler[c]]
    /\ UNCHANGED <<storeVars, pos, browseVars, since, result, file>>

\* mutant of Disconnects: only a query that succeeds removes its handler
DisconnectsOnSuccess(q) ==
    /\ handler' = [c \in Conns |-> IF holder[c] = q /\ task'[q] # "timed_out" THEN None
                                   ELSE handler[c]]
    /\ result' = [result EXCEPT ![q] = <<>>]
    /\ ReturnsAll(q)

\* The handler is removed and the connection returned, whatever the outcome was.
Disconnects(q) ==
    /\ handler' = [c \in Conns |-> IF holder[c] = q THEN None ELSE handler[c]]
    /\ result' = [result EXCEPT ![q] = <<>>]
    /\ ReturnsAll(q)

\* The limit and the offset a query is asked with: a browser's page, or all of it.
LimitOf(q) == IF q \in Browsers THEN PageSize ELSE -1
OffsetOf(q) == IF q \in Browsers THEN page[q] * PageSize ELSE 0

\* prepare, and the first step, which sorts
Fetches(q) ==
    /\ created \/ q \in Elsewhere
    /\ Goes(q, "query", "read")
    /\ result' = [result EXCEPT ![q] = IF q \in Elsewhere THEN <<>>
                                       ELSE Selected(LimitOf(q), OffsetOf(q))]
    /\ first' = [b \in Browsers |-> IF b = q /\ page[b] = 0 THEN rows ELSE first[b]]
    /\ since' = [b \in Browsers |-> IF b = q /\ page[b] = 0 THEN "same" ELSE since[b]]
    /\ UNCHANGED <<storeVars, poolVars, pos, page, shown, file>>

\* "no such table", between the DROP and the CREATE of a setup
TableMissing(q) ==
    /\ ~created /\ q \notin Elsewhere
    /\ Goes(q, "query", Failed(q))
    /\ Disconnects(q)
    /\ UNCHANGED <<storeVars, pos, browseVars, since, file>>

\* "Operation timed out": the deadline of the handler that is on the connection
\* passes, whoever executes something there by then.
TimesOut(t) ==
    /\ task[t] \in {"query", "read", "insert"}
    /\ \E c \in Held(t) : handler[c] # None
    /\ task' = [task EXCEPT ![t] = "timed_out"]
    /\ IF t \in Queries THEN Disconnects(t)
                      ELSE ReturnsAll(t) /\ UNCHANGED <<handler, result>>
    /\ UNCHANGED <<storeVars, pos, browseVars, since, file>>
-----------------------------------------------------------------------------
(* get_records_page, and the record list that asks for one page after the other *)

Asks(q) ==
    /\ Goes(q, "ready", "ask")
    /\ UNCHANGED <<storeVars, poolVars, pos, browseVars, since, result, file>>

\* mutant of HasNext: a page that shows nothing new is taken for the last one
HasNextIfNew(b) == Len(result[b]) = PageSize /\ ~(ToSet(result[b]) \subseteq ToSet(shown[b]))

\* next_page
HasNext(b) == Len(result[b]) = PageSize

ShowsPage(b) ==
    /\ task[b] = "read"
    /\ shown' = [shown EXCEPT ![b] = @ \o result[b]]
    /\ IF HasNext(b)
          THEN /\ page' = [page EXCEPT ![b] = @ + 1]
               /\ task' = [task EXCEPT ![b] = "ready"]
          ELSE /\ task' = [task EXCEPT ![b] = "done"]
               /\ UNCHANGED page
    /\ Disconnects(b)
    /\ UNCHANGED <<storeVars, pos, first, since, file>>

EndsElsewhere(q) ==
    /\ Goes(q, "read", "ready")
    /\ Disconnects(q)
    /\ UNCHANGED <<storeVars, pos, browseVars, since, file>>
-----------------------------------------------------------------------------
(* export_records and export_db *)

\* a.cmp(b)
AlphabeticallyBefore(a, b) ==
    \E m, n \in DOMAIN Columns : m < n /\ Columns[m] = a /\ Columns[n] = b

\* mutant of SortsBefore: the key is where the alphabet puts it
SortsBeforeButKey(a, b) ==
    IF a = "timestamp" \/ b = "payload" THEN TRUE
    ELSE IF b = "timestamp" \/ a = "payload" THEN FALSE
    ELSE AlphabeticallyBefore(a, b)

\* sort_columns: timestamp first, payload last, the key right before it
SortsBefore(a, b) ==
    IF {a, b} = {"key", "payload"} THEN a = "key"
    ELSE IF a = "timestamp" \/ b \in {"payload", "key"} THEN TRUE
    ELSE IF b = "timestamp" \/ a \in {"payload", "key"} THEN FALSE
    ELSE AlphabeticallyBefore(a, b)

\* The file is opened, and emptied, before the query is asked.
OpensFile(e) ==
    /\ task[e] = "ready"
    /\ \E overwrite \in BOOLEAN :
          IF overwrite \/ file[e].kind = "none"
             THEN /\ file' = [file EXCEPT ![e] = Blank("empty")]
                  /\ task' = [task EXCEPT ![e] = "ask"]
             ELSE /\ task' = [task EXCEPT ![e] = "failed"]
                  /\ UNCHANGED file
    /\ UNCHANGED <<storeVars, poolVars, pos, browseVars, since, result>>

\* The rows of a HashMap have their columns in any order, and they are sorted.
WritesFile(e) ==
    /\ Goes(e, "read", "done")
    /\ file' = [file EXCEPT ![e] =
                  IF result[e] = <<>> THEN Blank("message")
                  ELSE [kind |-> "rows", rows |-> result[e],
                        header |-> Ordered(ToSet(Columns), SortsBefore)]]
    /\ Disconnects(e)
    /\ UNCHANGED <<storeVars, pos, browseVars, since>>

\* The disk is full: what was written stays.
WriteFails(e) ==
    /\ "write" \in Faults
    /\ Goes(e, "read", "failed")
    /\ file' = [file EXCEPT ![e].kind = "partial"]
    /\ Disconnects(e)
    /\ UNCHANGED <<storeVars, pos, browseVars, since>>

BackupConnects(b) ==
    /\ Goes(b, "ready", "copy")
    /\ Takes(b)
    /\ UNCHANGED <<storeVars, handler, pos, browseVars, since, result, file>>

\* Backup::run_to_completion; of the copy only the connection it keeps matters here.
BackupEnds(b) ==
    /\ Goes(b, "copy", "ready")
    /\ ReturnsAll(b)
    /\ UNCHANGED <<storeVars, handler, pos, browseVars, since, result, file>>
-----------------------------------------------------------------------------
SetupNext(t) == \/ StartsSetup(t) \/ SetupConnects(t) \/ DestroyConnects(t) \/ Drops(t)
                \/ Creates(t) \/ SetupRefused(t)
QueryNext(q) == QueryConnects(q) \/ Fetches(q) \/ TableMissing(q)

Next ==
    \/ \E t \in Setups : SetupNext(t)
    \/ Receives \/ InsertConnects \/ Inserts \/ Ends
    \/ \E q \in Queries : QueryNext(q)
    \/ \E q \in Browsers \cup Elsewhere : Asks(q)
    \/ \E b \in Browsers : ShowsPage(b)
    \/ \E q \in Elsewhere : EndsElsewhere(q)
    \/ \E e \in Exports : OpensFile(e) \/ WritesFile(e) \/ WriteFails(e)
    \/ \E b \in Backups : BackupConnects(b) \/ BackupEnds(b)
    \/ \E t \in Tasks : PoolTimesOut(t) \/ TimesOut(t)

Spec == Init /\ [][Next]_vars
-----------------------------------------------------------------------------
(* Properties *)

\* What is interrupted is a query, by the deadline it has set itself, and never
\* something that uses the connection after it.
OnlyQueriesTimeOut ==
    [][\A t \in Tasks : task'[t] = "timed_out" /\ task[t] # "timed_out" =>
          \E c \in Conns : holder[c] = t /\ handler[c] = t]_vars

\* What the pages show: a browser that has come to the last one has been shown every
\* row that was in the table at its first page, however many have been stored since,
\* unless the table was recreated or a compacted one lost rows meanwhile; as long as
\* the table stays the same, they are its rows in order and once each.
PagesAreExact ==
    \A b \in Browsers :
        /\ task[b] = "done" /\ since[b] # "cut" => first[b] \subseteq ToSet(shown[b])
        /\ since[b] = "same" => IsPrefix(shown[b], InOrder(rows))

\* All the columns: the timestamp first, then the others as the alphabet has them, and at
\* the end the key and the payload.
LayOut(header) ==
    LET last == Len(header)
    IN  /\ ToSet(header) = ToSet(Columns) /\ last = Len(Columns)
        /\ header[1] = "timestamp" /\ header[last - 1] = "key" /\ header[last] = "payload"
        /\ \A m, n \in 2..(last - 2) : m < n => AlphabeticallyBefore(header[m], header[n])

\* What an export leaves: an empty or partial file means that it is under way or
\* has failed; a written one has the rows in order, and its columns are in the
\* same order every time.
ExportsAreExact ==
    \A e \in Exports :
        /\ file[e].kind \in {"empty", "partial"} => task[e] \in {"ask", "query", "read", "failed", "timed_out"}
        /\ file[e].kind = "rows" =>
              /\ file[e].rows # <<>> /\ IsSorted(file[e].rows, Earlier)
              /\ LayOut(file[e].header)

\* When no connection is free, somebody who has one can go on: nobody loses a
\* connection, and setups, which wait for a second one, cannot have them all as long
\* as there are fewer of them than connections.  The pool comes free again without
\* the help of its timeout.
SomebodyGoesOn ==
    Free = {} => \E c \in Conns :
                    task[holder[c]] \in {"drop", "create", "insert", "query", "read", "copy"}
=============================================================================
