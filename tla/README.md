# Insulator 2: a verification project

Insulator 2 is a desktop client for Apache Kafka: a Rust backend (Tauri commands over rdkafka, SQLite and a
schema registry client) and a React frontend. This directory holds TLA+ models of the parts in which order,
concurrency or failure decide the outcome, the TLC runs that check them and TLAPS proofs of what matters most.

Paths below are relative to the repository: `B/` is `src/backend/src/`, `F/` is `src/frontend/src/`.

## 1. The system

### 1.1 Components, their state and operations

| Component | Code | State | Operations |
|---|---|---|---|
| Consumer life cycle | `B/core/consumer/client.rs`, `B/api/consumer.rs` | `loop_handle : Arc<Mutex<Option<JoinHandle>>>`, one background loop per start | start, stop, get_consumer_state, consumer_loop |
| Consumer assignment | `client.rs:47-109`, `:162-173`, `:210-239`, `B/core/admin/consumer_admin.rs:29-53` | the partition offsets given to the Kafka client | update_consumer_assignment, handle_consumed_message, set_consumer_group |
| Topic store | `B/core/record_store/topic_store.rs`, `sqlite_store.rs` | one SQLite table per topic in a shared-cache in-memory database, a counter of consumed records, a pool of 20 connections | setup, insert_record, get_records, get_records_count, export_records, export_db |
| Cluster registry | `B/api/state.rs`, `B/api/cluster.rs` | clusters by id; per cluster, consumers by topic (both behind an RwLock) | get_cluster, get_consumer, get_topic_store |
| Admin client | `B/core/admin/*.rs`, `B/api/admin.rs` | a cache of topics and their partitions | list/get/create/delete topic, topic info, last offsets, consumer groups: list, describe, set, delete, state |
| Schema registry client | `B/core/schema_registry/*.rs` | a cache of schemas by id | get_schema_by_id, post, list, get, delete, compatibility |
| Configuration | `B/core/configuration/*.rs` | one TOML file | get_configuration (with the migration of the legacy file), write_configuration |
| Avro mapping | `B/core/avro/*.rs`, `B/core/parser/*.rs` | none | schema resolution, avro to JSON, JSON to avro |
| Producer | `B/core/producer/client.rs` | the queue inside librdkafka | produce |
| Topic page | `F/pages/topics/topic/*` | is_running and counts of the last poll, pages of records | start/stop toggle, polling, paging, export |
| Settings | `F/providers/user-settings-provider.tsx`, `F/hooks/use-favorites.ts`, `F/pages/clusters/*` | a copy of the configuration per window | load, save, upsert a cluster, favourites |
| Consumer group pages | `F/pages/consumer-groups/*` | the group as last fetched | lag, reset of offsets |
| Schema registry pages | `F/pages/schema-registry/*` | the subject as last fetched | browse, publish, delete |
| Shell | `B/main.rs`, `B/telemetry.rs`, `F/components`, `F/helpers` | none of its own | windows, notifications, telemetry |

### 1.2 How they interact

A Tauri command is an asynchronous task on a multi-threaded tokio runtime; any two of them may run at once. A command
looks its cluster up in the registry (building it from the configuration file the first time) and the cluster's consumer
of a topic (building it, and the topic's table, the first time). A start spawns one more task, the consumer loop,
which owns a Kafka client, drops and recreates the table and then stores records in it until it is aborted or the
client fails. Queries and exports read the same table through other connections of the pool. The loop parses each
record with the cluster's parser, which may call the schema registry. Nothing of a run is persistent: the database
lives in memory; the configuration file is the only thing that survives a restart.
The frontend polls `get_consumer_state` and the records of the page that is shown, and caches everything else.

### 1.3 What is hard

* Check-then-act across `await`: `start` (check, work, store the handle), `_stop` (abort, then clear), `get_cluster`,
  `get_consumer`, `get_schema_by_id`, the topic cache, the settings of two windows.
* Cancellation: `abort` takes effect where the task waits, and only there; code after the last wait still runs.
* Partial failure: a panic inside a task leaves the shared state as it was; several statements on the table without a
  transaction; a group reset of several partitions; a listing followed by one request per item.
* Limits: the connection pool, the producer queue, locks of the shared cache, queries with a timeout.
* Data on edges: timestamps and offsets at the ends of a log, records without key or timestamp, compaction by a UNIQUE
  column, recursive Avro schemas and ambiguous unions.

### 1.4 What makes each component correct

* Consumer: at most one loop consumes a topic and the handle refers to it, unless its start raced with another command; every command
  returns, an aborted loop ends, `is_running` is true exactly while there is a loop.
* Assignment: with Beginning everything from offset 0 on; with Custom every record in `[start, stop)`; with End only what
  arrives from then on; a pause stops its own partition and nothing else.
* Topic store: the table holds exactly the records of the running consumer, once each (the last per key if compacted);
  pages and exports show the rows of that table; the pool of connections comes free again without its timeout.
* Registry: one consumer per topic and cluster, so that a stop reaches the loop a start began, unless first uses met; one table per topic.
* Admin and schema caches: an answer was true at some time since the question (or since the last listing).
* Configuration: whoever loads it gets what was saved last; a file that cannot be read has only one cause; a window that
  knows nothing overwrites nothing. That the last window to save wins, with its whole copy, is how the program is built.
* Avro: what is shown of a record is what was written; a record that is copied from what is shown is the same value.
* Producer: a record is encoded with the schema that was its topic's latest.

## 2. Modules

| Module | Kind | Models |
|---|---|---|
| `TopicStore` | component | table and counter of one topic, each statement an atomic step |
| `KafkaConsumer` | component, extends `TopicStore` | the commands and loops of one topic, at the granularity of mutex and await points |
| `ConsumerControl` | abstract specification | what the commands promise: a register of consuming loops, of which two are there only if one had a start that raced |
| `ClusterRegistry` | component | how a command gets its cluster and its consumer, what a start and a stop do with it, and the tables that creating a consumer and starting a loop recreate |
| `OnceRegistry` | abstract specification | an entry per topic that is set once, and replaced only where two first uses met |
| `ConsumerAssignment` | component | where consumption begins, what the loop does with several partitions, how a group is moved |
| `RecordQueries` | component, extends `TopicStore` | pages, exports and copies of a table that is filled and recreated; the pool of connections |
| `KafkaAdmin` | component | the commands on topics and groups, and the cached list of topics and partitions |
| `SchemaRegistry` | component | the commands of the registry client, the cache by id, and the producer that uses the latest schema |
| `Orders` | functions | what `ORDER BY`, a sort and a filter give, without recursion |
| `Settings` | component | the configuration file, its formats, and the copies of the windows |
| `AvroMapping` | pure functions and a record's path through them | Avro to JSON, JSON to Avro, the fallback to text |
| `AvroSchema` | functions of the number of calls, extends `AvroMapping` | the expansion of the references in a schema |
| `MCKafkaConsumer`, `MCClusterRegistry`, `MCConsumerAssignment`, `MCRecordQueries`, `MCKafkaAdmin`, `MCSchemaRegistry`, `MCSettings`, `MCAvroMapping` | TLC instances | logs, configurations, files and schemas for the runs |
| `KafkaConsumerProofs` | proofs | type correctness, mutual exclusion of guards, one consumer, refinement; the table and the counter of a run |
| `ClusterRegistryProofs` | proofs | type correctness, reachable loops, kept tables, refinement, entries that settle |
| `ConsumerAssignmentProofs` | proofs | type correctness, what each mode promises, pauses, moves of a group |
| `RecordQueriesProofs` | proofs | type correctness, the pool of connections, the deadlines of queries, pages and exports |
| `KafkaAdminProofs` | proofs | type correctness, the age of lists, complete descriptions |
| `SchemaRegistryProofs` | proofs | type correctness, the cache, answers of one moment |
| `SettingsProofs` | proofs | type correctness, what the file gives back, empty files, what an ignorant window can save |
| `AvroMappingProofs` | proofs | what is shown means what was written, copies of what is shown |

`Orders` defines a sorted sequence by rank: at its n-th place is the element that has n - 1 others before it. `RecordQueries` uses it for `ORDER BY` and
for `sort_columns`, `Settings` for the filters of clusters; `SortSeq` and `SelectSeq` would compute the same, but nothing could be proved about them.

`TopicStore` is shared: `KafkaConsumer` composes it with the commands and the loop, `RecordQueries` with its readers.
`ClusterRegistry` has of the consumer its handle, the two critical sections of its commands and its loops without records, `RecordQueries` to its setup and inserts, and `KafkaAdmin` the move of a
group to the one step that `ConsumerAssignment` shows it to be (`GroupMovesAtOnce`).

### 2.1 KafkaConsumer and TopicStore

Correspondence of state:

| Variable | Code |
|---|---|
| `locked` | a `MutexGuard` of `loop_handle` is alive |
| `handle` | the value inside: `None`, or the start whose JoinHandle it is |
| `call` | the program counter of each command invocation |
| `loop` | the program counter of the task each start spawns |
| `aborted` | the tasks on which `abort()` was called |
| `config`, `pos`, `paused` | the configuration of each start; how far its Kafka client has delivered; whether it paused |
| `counter`, `created`, `compacted`, `rows` | `records_counter`; the table, its UNIQUE key column, its rows |

An action is what a task does between two points where another task can act on the shared state. `start` is
`StartBegin, StartLock, StartAccepted | StartRefused, StartSpawns | StartPanics, StoreLock, StoreHandle`: the guard
of the check is a temporary of the `if` condition and ends there, and Rust evaluates the right-hand side of the
assignment (the spawn) before it locks for the left-hand side. `_stop` is `lock, abort, lock again, clear`.
The loop is `reset counter, DROP, CREATE`, then for each record `receive and count, parse, insert`.

Cancellation: tokio drops an aborted task when it next yields. `Waiting` lists the places: not yet polled, waiting for
a record, waiting for the schema registry, waiting for the mutex when it is taken. A task past its last wait completes the
step (`LoopInserts` of an aborted loop), and one that was aborted before its first poll touches nothing.

Abstractions: one partition (the order in which partitions interleave is a property of the log); a record is its
position in `Log`, a sequence of keys and timestamps; the Kafka client is `pos`, it delivers the next record or fails;
failures are members of `Faults`, chosen nondeterministically when present. Each invocation is a member of
`Starts`, `Stops` or `Reads` and runs once: their number is the bound of a run.
`get_consumer_state` is two actions, since it holds the guard while it reads the counter.

What the commands promise when they race: nothing in the code keeps two of them apart, and neither do the specifications. A start, a stop and the error arm of
a loop each take the mutex twice, and what the first section has found may be stale in the second (`Between`). `mingled` is a history variable,
which no guard reads: the starts that were in between together with another task. `SingleConsumer` says that a start that met nobody in between has the
only such loop and its handle is there, and that a stop which is about to return has aborted every loop but those of mingled starts.
Outside the two windows everything is allowed to overlap: a stop may be in any of its steps when a start begins, the loop may fail at
any time, an aborted loop may linger.

### 2.2 ClusterRegistry

| Variable | Code |
|---|---|
| `clusters` | `AppState.clusters` |
| `consumers` | `Cluster.active_kafka_consumers` of every cluster |
| `table` | the tables of each cluster's database, and for which consumer each was created last |
| `handle` | `loop_handle` of each consumer |
| `loop`, `aborted` | the program counter of the task each start spawns; the tasks on which `abort()` was called |
| `call`, `request`, `cluster`, `consumer` | the program counter, arguments and locals of each command |
| `contested` | the uses that two calls were about to create at the same time (kept for the properties) |
| `mingled`, `crossed` | the starts that raced with another task of their consumer; the loops that were spawned while a stopped one had its setup to finish (kept for the properties) |

A call is `FindCluster` (with its request), `PublishCluster`, `FindConsumer`, `DropTable, CreateTable, PublishConsumer`
and then what it does with the consumer; the read lock, the creation and the write lock of each map are separate
actions since no lock spans them. `WithCluster` is the command's next step: listing topics or producing needs no consumer.
A cluster is named after the call that built it, and so is a consumer, which keeps two that were built for the same
name apart. `TableName` is what SQLite takes the name of a topic's table for.

What a command does with the consumer is `KafkaConsumer` without records: `StartAccepted | StartRefused`, `StartSpawns | StartPanics`, `StoreHandle`
for a start, `StopAbort`, `StopClear` for a stop. Each critical section is one step here, since no other state is touched in it and `GuardsExclude` says that
they exclude each other. The loop is `LoopBegins, LoopDrops, LoopCreates` and then records, until it is cancelled, fails (`ErrorAbort`, `ErrorClear`) or dies.
`Cancelled` is possible only where the task waits: a loop that is stopped during its setup, which has no await, still drops and creates the table after the stop has returned.

Everything overlaps in `RegistryRaces` and `RegistrySettles`: first uses of a topic (one opened in a second window, an export before the state has loaded; for the
cluster the three queries a topic page starts with), and commands on one consumer. The properties name what a race can break: `LoopsAreReachable` exempts
a topic whose first uses met (`Contested`) and a start that met another command in between (`Mingled`); `TableIsKept` in addition a loop that was spawned beside
a stopped one in its setup (`crossed`), and topics whose tables share a name. As the properties say nothing about the loops of a topic whose first uses have met,
`RegistryRaces` ends a behaviour there when it is the topic its loops are of (`CONSTRAINT StillPromised`: `contested` only grows, so nothing that is promised about
loops is missed); what first uses that meet do to the registry is the question of `RegistrySettles`, and the theorems hold with no such bound.

### 2.3 ConsumerAssignment

| Variable | Code |
|---|---|
| `log`, `first` | the partitions at the broker: the timestamps of the records, and how many have expired |
| `step`, `config`, `begun` | the call of `update_consumer_assignment`, its argument, and the ends of the partitions when it began |
| `ends`, `times` | `end_offset_assignment`, and the answer to the question for the start timestamp |
| `from` | the assignment |
| `next`, `paused` | the Kafka client: the offset it delivers next, the partitions it was told to pause |
| `stored` | the offsets of the records given to `insert_record` |
| `offsets`, `committed` | what `set_consumer_group` stores for the commit, and what the group has at the broker |

`AskEnd(p)` and `AskTime(p)` are one action per partition, since each partition's leader answers for itself: records arrive
and expire between two answers, and between the two questions. `Assign` takes what the mode says from the answers. A `consume`
call goes on with `StoresRecord`, `PausesPartition` (the whole of `handle_consumed_message`) and `Resets`; a `group` call
with `StoresOffset`, once per partition, and `Commits`, or fails in one of the two.

Outside `src/`, modelled from how it is used: `offsets_for_times` returns the first retained offset at or after a timestamp, or
`Offset::End`, and for `Offset::End` the end of the partition; a client whose offset has expired goes on where
`auto.offset.reset` says, which `kafka_client_config.rs` leaves at its default, the end; the offset stored for a
commit is that of the last record handled, so that `set_consumer_group` stores one less than it means
(`B/integration_tests/consumer_group_admin_it.rs:105` expects 0 after a reset to the beginning).

Abstractions: the partitions of all topics of a call are one set; records the client has fetched ahead and partitions added after the
assignment are left out; a record is its timestamp; a negative stop timestamp, which would wrap, is not among the inputs.

### 2.4 RecordQueries

| Variable | Code |
|---|---|
| `task` | where each command is: the consumer's run, a browser, an export, a backup, or something elsewhere |
| `holder` | the pool: who has each `PooledConnection` |
| `handler` | the progress handler on each connection, which ends whatever runs there when its time has passed |
| `pos` | how many records the consumer's run has received |
| `page`, `shown` | the page number of a browser's next call, and the rows of the pages it has |
| `first`, `since` | what the table held at its first page, and whether it has only grown since (kept for the properties) |
| `result` | the rows of a query between its first step and its end |
| `file` | the output file of an export: its kind, and when written its columns and rows |

A setup (`create_or_replace_topic_table`) takes a connection and then, in `destroy`, another one, drops, gives the second back and
creates. A query takes a connection, sets its handler, fetches and removes the handler on every path (`Disconnects`). An export empties its
file before it asks. "Elsewhere" is a query or a setup of another topic of the cluster, which shares pool and schema but not the table.

Outside `src/`, from how it is used: r2d2 gives up after 30 seconds (`PoolTimesOut`, and the `unwrap` panics); a query with `ORDER BY` sorts in
its first step, so that its rows are of one moment, and keeps the schema of the shared cache locked until its last row: a DROP or CREATE
meanwhile is refused at once (`SetupRefused`); it reads uncommitted and holds nothing else up.

Abstractions: a user's own query is `ORDER BY timestamp desc`, with the limit and offset of the page; the rows of a table are positions
of the log, as in `TopicStore`; of a copy of the database only the connection it keeps is modelled. The columns of an export come in any order
out of a `HashMap`; `SortsBefore` is the comparison of `sort_columns`, and the alphabet is the order of the constant `Columns`.

### 2.5 KafkaAdmin

| Variable | Code |
|---|---|
| `history` | external: the topics of the broker after each change, so that a version is a number and "older" is "less" |
| `committed` | external: the partitions the group has a committed offset for |
| `cache`, `readers` | `all_topic_partition_list` behind its RwLock: the version it was fetched at; the calls that hold the read lock |
| `call`, `request`, `got`, `answer` | the program counter, the arguments, the list it works with and the answer of each command |
| `listed`, `view` | the version last listed; what a call could see when it began (kept for the properties) |

`get_all_topic_partition_list` is `LocksCache, Lookup`, and if the list is empty or to be ignored `ClearCache, Fetch, StoreCache`: `list_topics`
clears the list before it asks the broker, and the block of the read lock ends before that. `list_topics` as a command clears and asks, and stores nothing;
`create_topic` and `delete_topic` do not touch the cache. A list is "muddled" if a listing ended or was under way while the refresh that stored it ran:
the one case in which the cache can be older than the last listing.

Abstractions: a topic is the number of its partitions, a committed offset is there or not; one group stands for each;
`set_consumer_group` is one step, as in `ConsumerAssignment`. `list_consumer_groups` and `get_consumer_group_state` pass on one answer of the
broker and are left out.

### 2.6 SchemaRegistry

| Variable | Code |
|---|---|
| `configured` | the cluster has a schema registry |
| `subjects`, `used`, `known`, `level` | external: the versions of each subject, the highest number ever given, the ids in use, the compatibility |
| `cache` | `schema_cache_by_id` |
| `queue` | external: the queue of librdkafka, as the ids of the schemas its records are encoded with |
| `call`, `request`, `todo`, `got`, `schema` | the program counter and the locals of each command |
| `view` | what its subject has been since the call began, and whether its schema was cached then (kept for the properties) |

One action per HTTP request, since the registry changes between two: `get_subject` is `ListsVersions`, a `GetsVersion` for each, the lowest first, and `GetsLevel`;
`get_schema_by_id` is `LooksUp, GetsSchema, Inserts`, without a lock in between; a produced record goes through `ListsVersions, GetsVersion..., Encodes, Sends`.
A request fails (`RequestFails`: an error, or no answer in 10 seconds), finds nothing (`NotFound`), or, if it writes, is carried out and its answer lost.

Outside `src/`: an id keeps its schema for ever, also when the versions that have it are deleted; the number of a version is not given twice; the queue holds
a record until the report of its delivery is polled, which this code never does.

### 2.7 Settings

| Variable | Code |
|---|---|
| `file`, `legacy` | the configuration file and that of Insulator 1 |
| `writing`, `cut` | the main thread is inside `fs::write`; the application has stopped there |
| `window`, `state` | the windows, and the `appState` of each |
| `rendered` | the clusters of that state when the page was rendered last: what the handlers of the page have closed over |
| `reply` | an answer of `get_configuration` on its way to the window |
| `form` | a cluster form that was submitted and is reading its keystores, with the clusters it was checked against |
| `queue` | the commands that were invoked: both are synchronous, so the main thread runs them in their order |
| `known`, `saved` | the window's settings were loaded, or the user has set the Kafka timeout; what was written last (kept for the properties) |

A window asks once, when it opens; each change is made in its copy and the whole copy is written. What is changed can come from the last render (`rendered`):
`toggleFav` computes the new favourites from those it was rendered with, a form is checked against the clusters it was rendered with. `Truncates` and `Writes` are the two
halves of the write, and `Stops` may come anywhere. `FromStore`, `ToStore`, `FromLegacy` are the conversions between the formats,
with the defaults of missing fields: `ToStore` collects the clusters in a map, so that the last of an id stays and their order is lost.
`defaultAppState` of the frontend has no Kafka timeout, which the backend requires: that is what keeps an ignorant window from overwriting the file.

Abstractions: the theme stands for all settings that are copied as they are; an authentication is its kind; endpoints are one good and one empty one, of a schema
registry too (`write_configuration` asserts that neither is empty; the import of Insulator 1 can bring an empty one in, and then no save succeeds).

### 2.8 AvroMapping and AvroSchema

| Variable | Code |
|---|---|
| `step` | how far the record has come |
| `schema` | the `AvroSchema` of its topic, with all references expanded |
| `doc`, `record` | the text it was produced from, if it was produced here; its `AvroValue` |
| `shown` | what the parser gives for it: JSON, or text |
| `copy` | what `json_to_avro_map` gives for the shown text |

A schema is a record with its type and what belongs to it; a text or a value is a record that says what it is, with its content. `MapToAvro` is the
`match` of `json_to_avro_map`, `MapToJson` that of `map`, arm by arm; where the code calls itself on a part they take it to `Sub`, the function
for the schemas one level down. `ToAvro[n]` and `ToJson[n]` are these functions for schemas of up to n levels, and `MaxDepth` is the number of levels that
the stack has room for. `Display` is the parser with its fallback to text. The state is the path of one record: `Produces` from a text or `Arrives` from
elsewhere, `Shows`, `Copies`; `Crashes` is the stack overflow of a schema that refers to itself. `AvroSchema` has the expansion of references:
`MapSchema` is one call of the `map` in `ResolvedAvroSchema::from`, `Resolve[n]` what it gives with room for n more calls on the stack, and `Resolved` the whole
with `MaxCalls` of them. A name that is not found is a panic (`Unresolved`), no more room the end of the process (`Overflow`). `Parsed` are the schemas as `apache_avro` has parsed them, with their parts; `Schemas` are in the run
what `Resolved` gives for 17 of them.

The limits `IntMax`, `LongMax` and `DecimalMax` are constants, so that each is in reach. `InRange` says whether a float or a double has room for a number, and
`Rounded` is what it makes of one that it has room for: all that is assumed is that rounding again changes nothing and that a double has room for what a float has.
A number that is too large for a float becomes an infinity (`NoNumber`), which is shown as null, and one that is too large for a double is refused, as
`serde_json` has no such number. `DocsOf` and `RecordsOf` are the inputs: right ones, and ones that are wrong in one place.

Abstractions: a name is its part before the last dot and the part behind it; a string is a UUID (in its canonical form, or in another one that `Uuid::parse_str` takes too), a decimal or something else; numbers are whole, with the one value
(`NoNumber`) that stands for those JSON has no number for; an object of any kind maps the names that occur, so that fields have no order; `duration` stands for all types that are supported
neither way. A conversion that fails gives all the reasons, where the code stops at the first: a property that holds of all of them holds of the first.
Left out: schemas with a decimal of a scale over `MaxScale`, 28 in the library, for which `Decimal::new` panics, and texts of decimals with more digits than that.
External: the binary encoding of `apache_avro`, of which only matters whether there is any (`NoBytes`), what its parser gives (`Parsed`) and
its `get_names` (`NamesOf`; of both only their types are assumed, in `SchemaAssumption`, and `MCAvroMapping` computes them).

## 3. Runs

Bounds are the sets of invocations, the log and the constants named `Max...`; every run names its failures in `Faults`.

| Run | Shows | Bounds, and why they are enough |
|---|---|---|
| `ConsumerCommands` | `TypeOK`, `SingleConsumer` and the refinement `ImplementsControl`, with commands in any interleaving and loops that fail | 3 starts, 1 stop, 1 record; assignments and streams that fail: two starts that meet and a third that meets nobody; a loop that lingers after a stop beside a new one; a stop or the error arm of an old loop between the two sections of a start. Queries change nothing and are left out |
| `ConsumerOverlap` | `GuardsExclude` with every failure and any overlap; `AbortedLoopsEnd`, `CommandsReturn` under fairness | 2 starts, 1 stop, 1 query: two loops and two commands compete for the mutex, which the handler of a stream error needs twice |
| `ConsumerTable` | `TableIsExact`; `ConsumesAll` under fairness | one loop over 6 records with repeated and missing keys and timestamps out of order, for 18 configurations, pauses that fail |
| `RegistryRaces` | `TypeOK`, `LoopsAreReachable`, `TableIsKept` and the refinement `ImplementsOnce`, with commands in any interleaving and first uses of two topics | 3 calls on 2 topics of a cluster, to start, to stop or to read: up to first uses of the topic with loops that meet (`StillPromised`); start, stop, start with a stopped loop in its setup; a start between the two sections of another one or of a stop, and a call elsewhere in between |
| `RegistrySettles` | `SettledForGood` whatever overlaps | 3 calls on 1 topic: two that race and a third that sees the outcome |
| `AssignmentRange` | `TypeOK`, `NoneMissed`, `EndMeansNow`, `OldOnesAreNew`, `PauseLosesNothing`, `GroupMovesAtOnce`, and `ConsumesRange` under fairness | 2 partitions, `MaxLog` = 3 records in all with timestamps before, at and after the range: one partition pauses while the other goes on, two records of a partition are out of order or the older one expires |
| `RecordPages` | `TypeOK`, `PagesAreExact`, `ExportsAreExact`, `SomebodyGoesOn`, `OnlyQueriesTimeOut` | 3 connections for 5 tasks, of which two set up a table: the pool is exhausted and both setups meet in it; pages of 1 row and 3 records, two of one key: a table of two rows grows between the first page and the second, or a row is replaced, or the table recreated |
| `AdminCache` | `TypeOK`, `FreshOnDemand`, `ListedIsKnown`, `DescribeShowsAll`, and that the lock never blocks everyone | 2 calls, each as often as it likes, 1 topic of up to 2 partitions, 2 changes: a topic is created, deleted or recreated under a refresh that overlaps a listing |
| `RegistryCalls` | `TypeOK`, `CacheIsTrue`, `CachedStaysReadable`, `AnswerIsOneMoment`, `ProducedIsLatest` | 2 calls, each as often as it likes, 1 subject with up to 2 versions, 3 ids of which one cannot be parsed, a queue of 1: a version is deleted and another made while they are fetched, and the queue is full |
| `SettingsFile` | `TypeOK`, `LoadsWhatWasSaved`, `EmptyFileExplained`, `OnlyKnownIsSaved` | 2 windows, 2 ids and names, 2 changes, a queue of 2; no file, one of an older version, or three kinds of Insulator 1's, with a cluster that cannot be imported and one that cannot be saved: a window saves before, between and after another one's load, from a page that was rendered before either |
| `AvroRecords` | `CopyIsSame`, `ShownAsWritten` | 17 schemas, each with a feature the others do not have, one of them without end; values and texts at the limits of their types, with at most one item; a float has only even numbers, so that rounding shows, and ends at 100, a double at 200; `IntMax` 1 < `LongMax` 3 < `DecimalMax` 79, so that rescaling a decimal ends for want of room |

One run ends in a violation, of a property that the repository states ("Stop consumer on error", `CHANGELOG.md:431`, and the `expect` at `client.rs:199`):

| Run | Property | What happens |
|---|---|---|
| `StaleAfterStreamError` | `IsRunningIsTrue` | a failing loop aborts itself and then waits for the mutex a query holds: it is cancelled there and never clears the handle |

`AdminCache`, `RegistryCalls` and `SettingsFile` check for deadlock. The other runs have `CHECK_DEADLOCK FALSE`: when every invocation has run and the loops
wait for records that do not come, or the path of a record is at its end, the program is idle, which is its normal state; that no command hangs is `CommandsReturn`.

The exemptions in the properties are needed; TLC refutes each property without them:

* `SingleConsumer` without `Mingled`: two starts pass the check before either stores its handle, and two loops run, of which a stop reaches only the second.
* `LoopsAreReachable` without `Contested`: two first uses of a topic create a consumer each, and the loop of the one that is replaced can no longer be stopped.
  Without `Mingled`: the two loops of one consumer.
* `TableIsKept` without `Contested`: the second of two first uses drops the table that the first one fills; without `Mingled`: two loops of one consumer set up
  the same table; without `crossed`: start, stop during the setup, start again, and the stopped loop drops the table of the new one; without
  `OwnTable`, where the names of two topics' tables differ in case only (`TableName` maps both to one table): the first use of the one drops the table of the other, without any overlap.
* `TableIsExact` is stated of one run without refused inserts. With a second start, a stopped loop that has parsed its record inserts it in the table of the
  next run; with a refused insert the counter counts a row that is not there.
* `ConsumesRange` promises nothing of a partition that has lost records: Beginning assigns offset 0, and once that has expired the client resets to the end and passes over what is retained.
* `ListedIsKnown` exempts a list that was stored by a refresh which a listing has overlapped: that list can be older than the listing.
* `SomebodyGoesOn` needs fewer setups than connections: as many of them can have all the connections and wait for another one each, until the pool gives up.

`IsRunningIsTrue` fails in other ways than the one of its run, which has a single start and no failure but that of the stream: with "setup" in `Faults` a panic in the setup leaves the
handle behind, with "end" a stream that ends does, before or after its handle is stored, and with two starts the loop whose CREATE finds the table there.

Two properties say what the program does and not that it could not be better. Of two windows that save, the later one wins with its whole copy:
`LoadsWhatWasSaved` says that this is what everybody reads from then on, not that it has the changes of both; and of Insulator 1's clusters
only those with a complete authentication are read, the others are gone with the next save. `EmptyFileExplained` says that a file that cannot be read is
due to a crash in the middle of a write and to nothing else.

### 3.1 Fairness

`Fairness` is weak fairness of each command that has begun and of each loop's own steps: tokio polls every runnable
task, the mutex wakes its waiters, and a request to the schema registry ends after 10 seconds at the latest
(`B/core/schema_registry/http_client.rs`). Nothing is assumed of the user (no command has to be given), of errors of
the stream or of its end. `StateLock` of a query is weakly fair only with the query itself under way.
In `ConsumerAssignment` it is weak fairness of what the loop does with each partition: the Kafka client fetches all partitions it has
not paused in turn. Nothing is assumed of the broker or of the call: `ConsumesRange` begins with the assignment.
Weak fairness suffices for the mutex because each guard is held for one step only.

## 4. Proofs

`KafkaConsumerProofs`, for any sets of commands, any log, any configurations:

* `TypeCorrect`: type correctness. `Received` is needed to make it inductive: a loop that parses or inserts has
  received a record, so the row it writes is a position of the log.
* `GuardsExclusive`: `GuardsExclude`, with no assumption on failures or overlap. The inductive form `OneGuard` says
  the same of one or two tasks at a time instead of through set equalities.
* `OneConsumer`: `SingleConsumer`, for any interleaving and failure. `CommandInv` is its inductive form: a start that met nobody
  finds the handle empty as long as it is between its two sections, and its loop, once the handle is stored and until somebody aborts it, is the one the handle refers to, while nobody
  is between two sections: whoever clears the handle has aborted that loop before. That a race is never forgotten (`MingledStays`, `StepRemembers`) is what lets the other starts be left out.
* `ControlImplemented`: every step of `KafkaConsumer` is a step of `ConsumerControl` or a stutter
  (`SpawnStep`, `CommandStep`, `LoopStep`, one lemma per kind of step); that a start brings its loop up beside others only if one of them has raced is `SingleConsumer'`.
* `TableExact`: `TableIsExact`, assuming at most one start and no insert that is refused. `RunInv` says how far the run has come at each
  point of the loop, and what its table and counter are by then. `InsertKeepsExpected` is the heart of it: `INSERT OR REPLACE` removes exactly
  the rows that the new record supersedes; `WantedGrows` counts the one more record.

`ClusterRegistryProofs`, for any calls, clusters, topics and names of tables:

* `TypeCorrect`: type correctness. `Published` makes it inductive: whoever is referred to has finished its search.
* `OnceImplemented`: the two nested maps together implement `OnceRegistry`. `MapInv` is inductive: `ClusterInv` (a cluster is that of one id, a consumer that of
  one topic in it, whatever races) and `UseInv` (unless the first uses of a topic have met, a call that creates knows that there is no entry, and a call that has found one has the one of the map).
  Only `PublishConsumer` is a first use there (`OtherEntries`, `OwnEntry`); the publication of a cluster is none (`NewClusterIsEmpty`).
* `EveryLoopIsReachable`: with any interleaving and failure. `HandleInv`: a handle refers to a loop of its own consumer that a start has stored, and only such loops are aborted.
  `OwnerInv`: a start that met nobody finds no handle, its loop is the one the handle refers to, and while it is active nobody else is between two sections of the same consumer.
* `EveryTableIsKept`: with the last part of `OwnerInv`, that no other loop of the consumer is about to replace the table, and, for the calls that create a consumer,
  `UseInv`: who creates one has found no entry, so that it cannot be the consumer of a loop (`OtherTable`). `SameTable` says that only calls with the same topic and cluster touch a table.
* `EntriesSettle`: `SettledForGood`, with any overlap. `ClusterInv` says that a cluster is that of one id, for the map as for the calls that have found it.
  `Settled` is the entry with what protects it: no call is building another cluster of the id, and who still creates a consumer of the topic does so
  in a cluster that was replaced. No step leaves it (`SettledStep`), although new first uses may begin at any time: they find the entry.

`ConsumerAssignmentProofs`, for any partitions, timestamps, configurations and failures:

* `TypeCorrect`, `GroupsMoveAtOnce`: `GroupInv` (what is stored for the commit is one less than what was assigned) makes both inductive.
* `NothingIsMissed`, `EndIsNow`, `OldRecordsAreNew`, `PausesLoseNothing`, from one inductive invariant `RangeInv`. `AnswersInv` says of
  each answer what stays true of it while the partition changes: no retained record that is asked for lies before it. It needs the
  order of the two questions: an answer `Offset::End` is worth something only because the end was read before.
  `AssignedInv` ties the assignment to the answers, `StoredInv` and `PausedInv` say that the client only goes forward and is paused behind a late record.
  `LogStep` (records stay where they are, and expire in order) is all these proofs use of the broker, `FirstSinceAnswers` all they use of `CHOOSE`.

`RecordQueriesProofs`, for any pool, tasks, columns, log and failures:

* `NoSetupStarves`: `SomebodyGoesOn`, assuming that there are finitely many setups and fewer than connections (20 in the code). The invariant `PoolInv` says how many connections a task has at each of its points: none, one, or
  in the DROP two, and that returning gives back all. If nobody could go on each connection would belong to another setup.
* `DeadlinesStay`: `OnlyQueriesTimeOut`. `HandlerFits`: a handler on a connection belongs to the query that has it now.
* `QueriesTypeCorrect`, `PagesShowAll`, `ExportsInOrder`, from one more invariant, `Rest`. `BrowserFits` says of a browser that it has been shown a beginning of the sorted
  table, exactly its first pages, if the table is the same as at its first page; and if rows were stored since, that each row of the first page's table is either shown
  already or has a place from here on. The reason is that a row's place in the order only grows when others are stored
  (and no row is removed): what moves over the edge of a page is shown twice and never missed. `ExportFits` says the same of an export's file at each of its points.
  That `SortsBefore` is a strict order on the columns, and `Earlier` on the rows, is proved; what a sort by rank gives follows from it (`OrderedFacts`): every element once, each before those that come after it.
  `QueriesAssumption` says that the columns are different and that timestamp, key and payload are among them, as the table has them.

`KafkaAdminProofs`, for any calls, topics and failures:

* `TypeCorrect`: `Now # 0` is its strengthening.
* `ListsAreFresh`, `ListingsAreKnown` from `AgeInv`: `CacheInv` (the cached list is no older than the last listing, or muddled; while a listing is
  asking there is no other) and for each call `CallInv` (its list is as new as its question requires, and a refresh that a listing overlaps knows).
* `DescriptionsShowAll` from `KeptInv`: what was committed throughout the call was there in every version since it began.

`SchemaRegistryProofs`, for any subjects, ids, requests and failures, from one invariant `Inv`:

* `TypeCorrect`, `CacheStaysTrue`, `ReadableForEver`: `PointInv` (where a call is fits what it was asked) and `ReadInv` (what is about to be
  cached is known and can be parsed, and what was in the cache is found there).
* `OneMoment`, `LatestIsProduced`: `FetchInv` says that what has been got, with what is yet to be got, are the versions of one moment of the call;
  `SubjectInv` and `MomentInv` that a number stands for the same version at all of them. It is this that makes fetching one by one
  safe: a version is what it was when it was listed, or it is gone and the whole call fails. That a set of versions has a latest one is proved from the
  well-foundedness of the natural numbers (`LatestExists`).

`SettingsProofs`, for any windows, files and changes:

* `EmptyFilesAreExplained`, assuming that the first start finds no file that is already empty.
* `UnknownIsNotSaved`: `KnownInv`: a copy that has a Kafka timeout was loaded or changed knowingly (`WindowInv`), and so is each command in the queue that
  will not be refused (`QueueInv`). What is read has a timeout (`ReadableIsConfig`), whichever file it comes from.
* `SettingsTypeCorrect`, `SavedIsLoaded` (`LoadsWhatWasSaved`), from `FileInv`: every copy, answer and command is "sound" (typed, and no two of its clusters share an id),
  and what is being written would not have been refused. `FirstAreRead` is the part of `LoadsWhatWasSaved` before the first save. Both are needed for `RoundTrip`: the map of the file keeps one cluster of an id,
  and a missing timeout would come back as 15. `UpsertIsSound`, `WithIsSound` and `SomeClusters` show that no edit makes two clusters of one id,
  `FromStoreIsSound` and `FromLegacyIsSound` that no file does. `SettingsAssumption` says what a first file can be: one with the types of `StoreConfig`, or
  one of Insulator 1, whose clusters have a guid each. That is taken for granted of Insulator 1, which is not in this repository: of two clusters with one guid
  the first save would lose one.

`AvroMappingProofs`, for any schemas, texts, values, limits, ranges, rounding and depth:

* `RecordTheorem`: `RecordInv` is inductive. A record that is made is a value of its schema, and what the conversion gives for its text, if it has one (for a number that a float has no room for an infinity, as in the code); what is shown and copied is computed from it.
* `CopyTheorem`, `ShownTheorem`: `CopyIsSame`, `ShownAsWritten`.

The functions recurse over the depth. What such a definition says is proved first: that `SchemaSet`, `ToAvro`, `SameMeaning` and the others satisfy their equations
(`SchemaSetAt`, `ToAvroAt`, ...), each by constructing a function that does, level by level, and by induction in the form that speaks of a set of numbers (`AllNumbers`).
The rest is one level at a time. `Below` is what is assumed of the parts: their schemas, texts and values. `ShowsLevel`: a value of a schema is shown as a text, or not at all because of
something in it that is not supported. `CopiesLevel`: the text of a shown value is read as that value, unless a branch of a union is taken for another one.
`ReadsLevel`: what is read is a value of its schema, and if it is shown its text means the same. `Faithful` has the three of them, `FaithfulLevel` is the step from a level
to the next, and `FaithfulDepths` that all levels have it. Among the facts these need: in a union without ambiguity only one branch fits a name
(`OneBranch`); a decimal of the schema's scale is not rescaled any more (`RescaledSame`), and one that could not be rescaled for want of room is larger than a long,
so that it is not shown with fewer digits than it should have (`RescaledFits`).
`AvroAssumption` says that the limits are in their order, with a decimal having room for one digit more than a long; that the numbers include the longs and bytes; that a rounded number is in range too and rounding again changes
nothing, and that a double has room for what a float has; and that the inputs are texts and values of their schemas.

Which schemas the expansion of references gives is proved for any schemas, names, stack and depth, about the calls that a call of `map` makes (`CallsIn`):

* `EndlessCrashes`: if from the first call on there is always a further one, the schema overflows the stack, however large it is.
  `EndlessLevel` says that a call has no schema of any depth as its result if the one of the calls it makes has none.
* `EndingIsExpanded`: if the calls end (each has a rank larger than those of the calls it makes), each reference is to a name there is, and the stack has room
  for as many as the rank says, the result is a schema without references. `EndingLevel` is the step from the calls that a call makes to its own result, `SchemaSetGrows` says that a
  schema of some depth is one of each greater depth.

In the run 16 of the 17 schemas have such a rank, and the last has calls without end.

Only model-checked:

* liveness (`AbortedLoopsEnd`, `CommandsReturn`, `ConsumesAll`, `ConsumesRange`), since fairness is beyond the prover.

## 5. Plan

The plan was to take the most important behaviour first: consumer, topic store and their control register; the registries of clusters
and consumers; assignment; queries, pages and the pool; the admin client's cache; the schema registry client with the producer; settings; the Avro mapping.
All of these are modelled, and proved about as far as section 4 says. The suite is kept at a dozen runs, so that all of it can be checked again in
minutes. Left for later:

1. The composition of `RecordQueries` with `KafkaConsumer` instead of its reduction: two runs of a consumer that share the pool.
2. A second subject in `RegistryCalls` and a second topic in `AdminCache`, which the proofs cover and the runs do not.

## 6. Not modelled

* Topic page, consumer group pages and schema registry pages (`F/pages`): their state is React's and React Query's, and the order in which renders
  happen and answers are applied is not decided in this repository. What the commands answer them is in the modules above.
* `list_consumer_groups`, `get_consumer_group_state`: one answer of the broker, passed on.
* Kafka client configuration, keystore import, shell and telemetry, the HTTP and Kafka protocols, TLS and authentication, SQL beyond the statements the
  store issues, rendering and styling: input and output, with no state that another part depends on.
* A negative stop timestamp, which would wrap to a huge unsigned one: the form makes none for times after 1970.
* A failure of the file system other than a stop in the middle of a write; a full disk during an export is `WriteFails`.

`PROJECT.json` lists every component with its status.
