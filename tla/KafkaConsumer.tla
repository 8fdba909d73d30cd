--------------------------- MODULE KafkaConsumer ---------------------------
(***************************************************************************)
(* The life cycle of the consumer of one topic: the commands start, stop   *)
(* and get_consumer_state (api/consumer.rs, core/consumer/client.rs), each *)
(* an asynchronous task of its own, and the background loop that a start   *)
(* spawns, which fills the TopicStore until it is aborted or fails.        *)
(*                                                                         *)
(* Commands and loops share loop_handle : Mutex<Option<JoinHandle>>, here  *)
(* `locked' and `handle'.  The mutex is taken twice by a start and twice   *)
(* by a stop, never across the two, so other tasks run in between.         *)
(*                                                                         *)
(* A command invocation is a member of Starts, Stops or Reads and runs     *)
(* once; the loop a start spawns carries the name of the start.            *)
(*                                                                         *)
(* abort() on a tokio task does not interrupt it: a task that is running   *)
(* goes on to the next point where it has to wait, and ends there.  The    *)
(* places where a loop can wait are `Waiting' below.                       *)
(***************************************************************************)
EXTENDS TopicStore

CONSTANTS
    Starts,   \* the invocations of start_consumer
    Stops,    \* the invocations of stop_consumer
    Reads,    \* the invocations of get_consumer_state
    None,     \* no loop: the None of Option<JoinHandle>
    Configs,  \* the configurations a start may be given
    Faults    \* which failures occur

\* "assign": the broker cannot be asked for the partitions and offsets
\* "setup":  SQLite refuses the DROP or CREATE (a query under way has the schema
\*           of the shared cache locked)
\* "insert": SQLite refuses an INSERT
\* "pause":  the Kafka client cannot pause a partition
\* "stream": the Kafka client reports an error to the loop
\* "end":    the Kafka client ends the stream
FaultKinds == {"assign", "setup", "insert", "pause", "stream", "end"}

Calls == Starts \cup Stops \cup Reads

ASSUME ConsumerAssumption ==
    /\ Starts \cap Stops = {} /\ Starts \cap Reads = {} /\ Stops \cap Reads = {}
    /\ None \notin Starts
    /\ Faults \subseteq FaultKinds
    /\ Configs # {}
    /\ Configs \subseteq [from : 0..Len(Log), stop : Nat, compactify : BOOLEAN]

VARIABLES
    locked,   \* is a guard of the mutex around loop_handle alive?
    handle,   \* loop_handle: the loop it refers to, or None
    call,     \* where each command is
    loop,     \* where the loop of each start is
    aborted,  \* the loops whose JoinHandle was aborted
    config,   \* the configuration each start was given (arbitrary before)
    pos,      \* the last record of the log each loop received
    paused,   \* the loops that paused their partition
    mingled   \* not in the code and read by no guard: see Mingled

controlVars == <<locked, handle, call, loop, aborted>>
readVars == <<config, pos, paused>>
vars == <<storeVars, controlVars, readVars, mingled>>

StartStates == {"start_lock", "start_check", "creating", "store_lock", "store"}
StopStates == {"stop_lock", "abort", "stop_relock", "clear"}
EndStates == {"started", "refused", "panicked", "stopped", "reported"}
CallStates == {"ready", "read"} \cup StartStates \cup StopStates \cup EndStates

LoopStates == {"none", "spawned", "drop", "create", "poll", "parse", "insert",
               "error_lock", "error_abort", "error_relock", "error_clear", "dead"}

\* The places where a guard of the mutex is alive.
HoldingCalls == {c \in Calls : call[c] \in {"start_check", "store", "abort", "clear", "read"}}
HoldingLoops == {l \in Starts : loop[l] \in {"error_abort", "error_clear"}}

Live(l) == loop[l] \notin {"none", "dead"}
Active(l) == Live(l) /\ l \notin aborted

\* The commands that change the consumer and are under way.
Busy == {c \in Calls : call[c] \in StartStates \cup StopStates}

TypeOK ==
    /\ StoreTypeOK
    /\ locked \in BOOLEAN
    /\ handle \in Starts \cup {None}
    /\ call \in [Calls -> CallStates]
    /\ loop \in [Starts -> LoopStates]
    /\ aborted \in SUBSET Starts
    /\ config \in [Starts -> Configs]
    /\ pos \in [Starts -> 0..Len(Log)]
    /\ paused \in SUBSET Starts
    /\ mingled \in SUBSET Starts

Init ==
    /\ StoreInit
    /\ locked = FALSE
    /\ handle = None
    /\ call = [c \in Calls |-> "ready"]
    /\ loop = [l \in Starts |-> "none"]
    /\ aborted = {}
    /\ config = [l \in Starts |-> CHOOSE cfg \in Configs : TRUE]
    /\ pos = [l \in Starts |-> 0]
    /\ paused = {}
    /\ mingled = {}
-----------------------------------------------------------------------------
(* Between the two critical sections of a start, of a stop or of the error  *)
(* arm of a loop, what the first has found or done may become stale before  *)
(* the second relies on it.                                                 *)

\* A start has seen no handle and has not stored its own; a stop has aborted
\* what the handle referred to and has not cleared it.
Between(c) == call[c] \in {"creating", "store_lock", "store", "stop_relock", "clear"}
LoopBetween(l) == loop[l] \in {"error_relock", "error_clear"}

\* Somebody else than start l (and the loop it spawned) is in between.
Disturbed(l) ==
    \/ \E c \in Calls \ {l} : Between(c)
    \/ \E m \in Starts \ {l} : LoopBetween(m)

\* The starts that were in between together with another task, at any time:
\* what they do is decided by the race between the two.
Meeting == {l \in Starts : Between(l) /\ Disturbed(l)}
Mingled == mingled \cup Meeting
Remember == mingled' = Mingled

CallGoes(c, from, to) ==
    /\ call[c] = from
    /\ call' = [call EXCEPT ![c] = to]
    /\ Remember

LoopGoes(l, from, to) ==
    /\ loop[l] = from
    /\ loop' = [loop EXCEPT ![l] = to]
    /\ Remember

Acquire == ~locked /\ locked' = TRUE
Release == locked' = FALSE
-----------------------------------------------------------------------------
(* KafkaConsumer::start *)

StartBegin(c) ==
    /\ CallGoes(c, "ready", "start_lock")
    /\ \E cfg \in Configs : config' = [config EXCEPT ![c] = cfg]
    /\ UNCHANGED <<locked, handle, loop, aborted, pos, paused, storeVars>>

StartLock(c) ==
    /\ CallGoes(c, "start_lock", "start_check")
    /\ Acquire
    /\ UNCHANGED <<handle, loop, aborted, storeVars, readVars>>

\* Err(AlreadyRunning)
StartRefused(c) ==
    /\ handle # None
    /\ CallGoes(c, "start_check", "refused")
    /\ Release
    /\ UNCHANGED <<handle, loop, aborted, storeVars, readVars>>

\* mutant of StartAccepted: the result of the check is ignored
StartUnchecked(c) ==
    /\ CallGoes(c, "start_check", "creating")
    /\ Release
    /\ UNCHANGED <<handle, loop, aborted, storeVars, readVars>>

\* The guard of the check is a temporary: it is dropped here, long before the
\* handle is stored.
StartAccepted(c) ==
    /\ handle = None
    /\ CallGoes(c, "start_check", "creating")
    /\ Release
    /\ UNCHANGED <<handle, loop, aborted, storeVars, readVars>>

\* update_consumer_assignment fails: the error callback, then panic!
StartPanics(c) ==
    /\ "assign" \in Faults
    /\ CallGoes(c, "creating", "panicked")
    /\ UNCHANGED <<locked, handle, loop, aborted, storeVars, readVars>>

\* The right-hand side of the assignment is evaluated first: the Kafka client
\* is created, its partitions assigned and the loop spawned, and only then is
\* the mutex taken to store the handle.
StartSpawns(c) ==
    /\ CallGoes(c, "creating", "store_lock")
    /\ LoopGoes(c, "none", "spawned")
    /\ pos' = [pos EXCEPT ![c] = config[c].from]
    /\ UNCHANGED <<locked, handle, aborted, config, paused, storeVars>>

StoreLock(c) ==
    /\ CallGoes(c, "store_lock", "store")
    /\ Acquire
    /\ UNCHANGED <<handle, loop, aborted, storeVars, readVars>>

\* The JoinHandle that was there, if any, is dropped: its task is detached.
StoreHandle(c) ==
    /\ CallGoes(c, "store", "started")
    /\ handle' = c
    /\ Release
    /\ UNCHANGED <<loop, aborted, storeVars, readVars>>
-----------------------------------------------------------------------------
(* KafkaConsumer::stop, that is _stop called by a command *)

StopBegin(c) ==
    /\ CallGoes(c, "ready", "stop_lock")
    /\ UNCHANGED <<locked, handle, loop, aborted, storeVars, readVars>>

StopLock(c) ==
    /\ CallGoes(c, "stop_lock", "abort")
    /\ Acquire
    /\ UNCHANGED <<handle, loop, aborted, storeVars, readVars>>

\* mutant of AbortHandle: aborts without looking whether there is a handle
AbortAnything == aborted' = aborted \cup {handle}

\* `if let Some(handle) = ..': abort what the handle refers to.
AbortHandle == aborted' = aborted \cup ({handle} \ {None})

\* mutant of StopAbort: the guard of the abort lives on to the end of _stop
StopAbortKeepsGuard(c) ==
    /\ CallGoes(c, "abort", "stop_relock")
    /\ AbortHandle
    /\ UNCHANGED <<locked, handle, loop, storeVars, readVars>>

\* mutant of StopAbort: the handle is dropped, its task is not aborted
StopDetaches(c) ==
    /\ CallGoes(c, "abort", "stop_relock")
    /\ Release
    /\ UNCHANGED <<handle, loop, aborted, storeVars, readVars>>

StopAbort(c) ==
    /\ CallGoes(c, "abort", "stop_relock")
    /\ AbortHandle
    /\ Release
    /\ UNCHANGED <<handle, loop, storeVars, readVars>>

StopRelock(c) ==
    /\ CallGoes(c, "stop_relock", "clear")
    /\ Acquire
    /\ UNCHANGED <<handle, loop, aborted, storeVars, readVars>>

StopClear(c) ==
    /\ CallGoes(c, "clear", "stopped")
    /\ handle' = None
    /\ Release
    /\ UNCHANGED <<loop, aborted, storeVars, readVars>>
-----------------------------------------------------------------------------
(* KafkaConsumer::get_consumer_state.  The guard of the mutex lives until   *)
(* the record count was read too.                                           *)

StateLock(c) ==
    /\ CallGoes(c, "ready", "read")
    /\ Acquire
    /\ UNCHANGED <<handle, loop, aborted, storeVars, readVars>>

StateRead(c) ==
    /\ CallGoes(c, "read", "reported")
    /\ Release
    /\ UNCHANGED <<handle, loop, aborted, storeVars, readVars>>
-----------------------------------------------------------------------------
(* consumer_loop *)

\* The first poll of the task.  An aborted task is never polled again, so one
\* that was aborted before this leaves the store alone.
LoopResets(l) ==
    /\ l \notin aborted
    /\ LoopGoes(l, "spawned", "drop")
    /\ ResetCounter
    /\ UNCHANGED <<locked, handle, call, aborted, readVars>>

LoopDrops(l) ==
    /\ LoopGoes(l, "drop", "create")
    /\ DropTable
    /\ UNCHANGED <<locked, handle, call, aborted, readVars>>

LoopCreates(l) ==
    /\ LoopGoes(l, "create", "poll")
    /\ CreateTable(config[l].compactify)
    /\ UNCHANGED <<locked, handle, call, aborted, readVars>>

\* The setup panics inside the task; nobody clears the handle.
SetupPanics(l) ==
    /\ \/ LoopGoes(l, "create", "dead") /\ CreateRefused
       \/ /\ "setup" \in Faults
          /\ LoopGoes(l, "drop", "dead") \/ LoopGoes(l, "create", "dead")
          /\ UNCHANGED storeVars
    /\ UNCHANGED <<locked, handle, call, aborted, readVars>>

\* handle_consumed_message: `record.timestamp < stop_timestamp'
BeforeStop(l, i) == Log[i].ts < config[l].stop

\* mutant of Delivered: the last record of the log is never delivered
DeliveredShort(l) ==
    /\ l \notin paused
    /\ pos[l] + 1 < Len(Log)
    /\ pos' = [pos EXCEPT ![l] = @ + 1]

\* The next record of the partition, unless the partition is paused.
Delivered(l) ==
    /\ l \notin paused
    /\ pos[l] < Len(Log)
    /\ pos' = [pos EXCEPT ![l] = @ + 1]

LoopReceives(l) ==
    /\ LoopGoes(l, "poll", "parse")
    /\ Delivered(l)
    /\ BeforeStop(l, pos[l] + 1)
    /\ CountRecord
    /\ UNCHANGED <<locked, handle, call, aborted, config, paused>>

\* A record at or after the stop timestamp pauses its partition; a pause that
\* fails is only logged.
LoopPauses(l) ==
    /\ LoopGoes(l, "poll", "poll")
    /\ Delivered(l)
    /\ ~BeforeStop(l, pos[l] + 1)
    /\ \/ paused' = paused \cup {l}
       \/ "pause" \in Faults /\ UNCHANGED paused
    /\ UNCHANGED <<locked, handle, call, aborted, config, storeVars>>

\* parse_kafka_record may have to wait for the schema registry.
LoopParses(l) ==
    /\ LoopGoes(l, "parse", "insert")
    /\ UNCHANGED <<locked, handle, call, aborted, storeVars, readVars>>

LoopInserts(l) ==
    /\ LoopGoes(l, "insert", "poll")
    /\ InsertRow(pos[l])
    /\ UNCHANGED <<locked, handle, call, aborted, readVars>>

\* The error goes to the error callback and the loop goes on.
InsertFails(l) ==
    /\ LoopGoes(l, "insert", "poll")
    /\ \/ InsertRefused
       \/ "insert" \in Faults /\ UNCHANGED storeVars
    /\ UNCHANGED <<locked, handle, call, aborted, readVars>>

\* Some(Err(_)): the loop runs _stop on the handle, whatever it refers to by
\* then.  If that is the loop itself, it has aborted itself.
StreamError(l) ==
    /\ "stream" \in Faults
    /\ LoopGoes(l, "poll", "error_lock")
    /\ UNCHANGED <<locked, handle, call, aborted, storeVars, readVars>>

ErrorLock(l) ==
    /\ LoopGoes(l, "error_lock", "error_abort")
    /\ Acquire
    /\ UNCHANGED <<handle, call, aborted, storeVars, readVars>>

\* mutant of ErrorAbort: the guard of the abort is held while the loop waits for
\* the next one
ErrorAbortHoldsGuard(l) ==
    /\ LoopGoes(l, "error_abort", "error_relock")
    /\ AbortHandle
    /\ UNCHANGED <<locked, handle, call, storeVars, readVars>>

ErrorAbort(l) ==
    /\ LoopGoes(l, "error_abort", "error_relock")
    /\ AbortHandle
    /\ Release
    /\ UNCHANGED <<handle, call, storeVars, readVars>>

ErrorRelock(l) ==
    /\ LoopGoes(l, "error_relock", "error_clear")
    /\ Acquire
    /\ UNCHANGED <<handle, call, aborted, storeVars, readVars>>

ErrorClear(l) ==
    /\ LoopGoes(l, "error_clear", "dead")
    /\ handle' = None
    /\ Release
    /\ UNCHANGED <<call, aborted, storeVars, readVars>>

\* None: the loop is left without _stop.
StreamEnds(l) ==
    /\ "end" \in Faults
    /\ LoopGoes(l, "poll", "dead")
    /\ UNCHANGED <<locked, handle, call, aborted, storeVars, readVars>>

\* mutant of Waiting: the wait for the next record cannot be cancelled
WaitingButNotForRecords(l) ==
    \/ loop[l] \in {"spawned", "parse"}
    \/ loop[l] \in {"error_lock", "error_relock"} /\ locked

\* Where a loop may find that it has to wait: before its first poll, for the
\* next record, for the schema registry, and for the mutex when it is taken.
Waiting(l) ==
    \/ loop[l] \in {"spawned", "poll", "parse"}
    \/ loop[l] \in {"error_lock", "error_relock"} /\ locked

\* tokio drops an aborted task where it waits.
Cancelled(l) ==
    /\ l \in aborted
    /\ Waiting(l)
    /\ loop' = [loop EXCEPT ![l] = "dead"]
    /\ Remember
    /\ UNCHANGED <<locked, handle, call, aborted, storeVars, readVars>>
-----------------------------------------------------------------------------
Start(c) == \/ StartBegin(c) \/ StartLock(c) \/ StartRefused(c) \/ StartAccepted(c)
            \/ StartPanics(c) \/ StartSpawns(c) \/ StoreLock(c) \/ StoreHandle(c)

Stop(c) == \/ StopBegin(c) \/ StopLock(c) \/ StopAbort(c)
           \/ StopRelock(c) \/ StopClear(c)

GetState(c) == StateLock(c) \/ StateRead(c)

LoopRuns(l) == \/ LoopResets(l) \/ LoopDrops(l) \/ LoopCreates(l) \/ SetupPanics(l)
               \/ LoopReceives(l) \/ LoopPauses(l) \/ LoopParses(l)
               \/ LoopInserts(l) \/ InsertFails(l)
               \/ ErrorLock(l) \/ ErrorAbort(l) \/ ErrorRelock(l) \/ ErrorClear(l)
               \/ Cancelled(l)

Next ==
    \/ \E c \in Starts : Start(c)
    \/ \E c \in Stops : Stop(c)
    \/ \E c \in Reads : GetState(c)
    \/ \E l \in Starts : LoopRuns(l) \/ StreamError(l) \/ StreamEnds(l)

Spec == Init /\ [][Next]_vars

\* The runtime keeps polling every task that can go on; it does not decide
\* which commands the user gives, nor when Kafka fails.
StartGoesOn(c) == call[c] # "ready" /\ Start(c)
StopGoesOn(c) == call[c] # "ready" /\ Stop(c)
ReadGoesOn(c) == call[c] # "ready" /\ GetState(c)

Fairness ==
    /\ \A c \in Starts : WF_vars(StartGoesOn(c))
    /\ \A c \in Stops : WF_vars(StopGoesOn(c))
    /\ \A c \in Reads : WF_vars(ReadGoesOn(c))
    /\ \A l \in Starts : WF_vars(LoopRuns(l))

FairSpec == Spec /\ Fairness
-----------------------------------------------------------------------------
(* Properties *)

\* The guards of the mutex exclude each other and none outlives its task: when
\* a loop is cancelled or panics, or a command ends, the mutex is free for the
\* next one.  (Every guard in client.rs is dropped before the next await.)
GuardsExclude ==
    IF locked
    THEN \/ HoldingLoops = {} /\ \E c \in Calls : HoldingCalls = {c}
         \/ HoldingCalls = {} /\ \E l \in Starts : HoldingLoops = {l}
    ELSE HoldingCalls = {} /\ HoldingLoops = {}

\* One consumer per topic, and never one that cannot be stopped, unless its start
\* raced with another command: a loop that nobody aborted is the one the handle
\* refers to, or is in the hands of the start that is about to store its handle;
\* of two loops one raced; and a stop that is about to return has aborted every
\* loop but those.  (The check in `start' and AlreadyRunning, client.rs:113-118,
\* the two critical sections of `_stop', client.rs:241-248.)
SingleConsumer ==
    /\ \A l \in Starts \ Mingled :
          Active(l) => handle = l \/ call[l] \in {"store_lock", "store"}
    /\ \A l, m \in Starts \ Mingled : Active(l) /\ Active(m) => l = m
    /\ (\E c \in Stops : Between(c)) => \A l \in Starts : Active(l) => l \in Mingled

\* Between two commands is_running tells the truth: the handle is None or the
\* loop it refers to has not ended.  In particular a loop that ended after an
\* error of the stream leaves None behind.  (The `_stop' in the error arm of
\* consumer_loop, client.rs:196-201, and get_consumer_state, client.rs:151-159.)
IsRunningIsTrue ==
    Busy = {} /\ handle # None => Live(handle)

\* Whatever interleaves and fails, the consumer is the register described in
\* ConsumerControl: what consumes are the loops that are alive and not aborted.
Control == INSTANCE ConsumerControl WITH
    Loops <- Starts,
    consuming <- {l \in Starts : Active(l)},
    used <- {l \in Starts : loop[l] # "none"},
    raced <- Mingled

ImplementsControl == Control!ControlSpec

\* What the table of loop l has to hold once the records up to i were handled:
\* those before the stop timestamp, and if it is compacted only the last one
\* of each key, every record without a key being one of its own.
Wanted(l, i) == {j \in config[l].from + 1 .. i : BeforeStop(l, j)}
Superseded(j, S) == \E k \in S : k > j /\ Log[k].key = Log[j].key /\ Log[j].key # NoKey
Expected(l, i) ==
    {j \in Wanted(l, i) : ~(config[l].compactify /\ Superseded(j, Wanted(l, i)))}

\* The table is exactly that, whatever pauses fail, as long as one loop fills
\* it and no row is refused; and the counter has counted each of them once.
TableIsExact ==
    \A l \in Starts :
        /\ loop[l] = "poll" =>
              rows = Expected(l, pos[l]) /\ counter = Cardinality(Wanted(l, pos[l]))
        /\ loop[l] \in {"parse", "insert"} =>
              rows = Expected(l, pos[l] - 1) /\ counter = Cardinality(Wanted(l, pos[l]))

\* A loop whose handle was aborted ends, whatever it was doing.
AbortedLoopsEnd == \A l \in Starts : l \in aborted /\ Live(l) ~> ~Live(l)

\* Every command returns (or panics): no order of commands, errors and
\* cancellations leaves one waiting for the mutex for ever.
CommandsReturn == \A c \in Calls : call[c] # "ready" ~> call[c] \in EndStates

\* A loop nobody stops reads the partition to its end or to the stop
\* timestamp, also when rows cannot be stored on the way.
ConsumesAll ==
    \A l \in Starts : loop[l] = "poll" ~>
        \/ loop[l] = "dead" \/ l \in aborted
        \/ pos[l] = Len(Log) \/ l \in paused
=============================================================================
