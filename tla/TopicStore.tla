----------------------------- MODULE TopicStore -----------------------------
(***************************************************************************)
(* The store a consumer fills: one SQLite table per topic plus a counter   *)
(* of the records handed to it (core/record_store/topic_store.rs and       *)
(* sqlite_store.rs).                                                       *)
(*                                                                         *)
(* The store has no thread of its own.  Its operations run inside the      *)
(* tasks that call it, so this module gives the state and one action per   *)
(* atomic piece of an operation; the modules that EXTEND it interleave     *)
(* them.  `setup' is three pieces (reset the counter, DROP, CREATE) and    *)
(* `insert_record' is two (count, then write the row), because nothing     *)
(* in the code makes either of them one transaction.                       *)
(*                                                                         *)
(* A record is its position in the topic partition it is read from; of its *)
(* content only the key and the timestamp matter here.                     *)
(***************************************************************************)
EXTENDS Integers, Sequences, FiniteSets

CONSTANTS
    Keys,   \* the record keys
    NoKey,  \* the key of a record that has none (NULL in the table)
    Log     \* the records of the consumed partition, oldest first

ASSUME LogAssumption ==
    /\ NoKey \notin Keys
    /\ Log \in Seq([key : Keys \cup {NoKey}, ts : Nat])

VARIABLES
    counter,    \* TopicStore.records_counter
    created,    \* does the table of the topic exist?
    compacted,  \* was it created with key UNIQUE?
    rows        \* the positions of the records in the table

storeVars == <<counter, created, compacted, rows>>

Positions == 1..Len(Log)

StoreTypeOK ==
    /\ counter \in Nat
    /\ created \in BOOLEAN
    /\ compacted \in BOOLEAN
    /\ rows \in SUBSET Positions

\* TopicStore::from_record_store: a fresh, empty, not compacted table.
StoreInit ==
    /\ counter = 0
    /\ created = TRUE
    /\ compacted = FALSE
    /\ rows = {}
-----------------------------------------------------------------------------
\* TopicStore::setup, its first statement.
ResetCounter ==
    /\ counter' = 0
    /\ UNCHANGED <<created, compacted, rows>>

\* SqliteStore::destroy: DROP TABLE IF EXISTS.
DropTable ==
    /\ created' = FALSE
    /\ rows' = {}
    /\ UNCHANGED <<counter, compacted>>

\* The CREATE TABLE of create_or_replace_topic_table; without IF NOT EXISTS,
\* so it is refused, and the caller panics, when the table is there again.
CreateTable(compactify) ==
    /\ ~created
    /\ created' = TRUE
    /\ compacted' = compactify
    /\ UNCHANGED <<counter, rows>>

CreateRefused ==
    /\ created
    /\ UNCHANGED storeVars

\* TopicStore::insert_record, its first statement: counted before it is
\* parsed and before it is stored.
CountRecord ==
    /\ counter' = counter + 1
    /\ UNCHANGED <<created, compacted, rows>>

\* mutant of Conflicts: records without a key replace each other
ConflictsOfNulls(i) ==
    {r \in rows : r = i \/ (compacted /\ Log[r].key = Log[i].key)}

\* Rows that INSERT OR REPLACE removes to make room for record i: the row with
\* its (partition, offset), and in a compacted table the row with its key.
\* SQLite never considers two NULL keys equal.
Conflicts(i) ==
    {r \in rows : \/ r = i
                  \/ compacted /\ Log[r].key = Log[i].key /\ Log[i].key # NoKey}

\* SqliteStore::insert_record
InsertRow(i) ==
    /\ created
    /\ rows' = (rows \ Conflicts(i)) \cup {i}
    /\ UNCHANGED <<counter, created, compacted>>

\* The same statement with the table missing ("no such table").
InsertRefused ==
    /\ ~created
    /\ UNCHANGED storeVars
=============================================================================
