-------------------------- MODULE ConsumerAssignment --------------------------
(***************************************************************************)
(* Where consumption begins, and what the consumer loop does with what it  *)
(* gets from several partitions: KafkaConsumer::update_consumer_assignment *)
(* and handle_consumed_message (core/consumer/client.rs), and its other    *)
(* user, KafkaAdmin::set_consumer_group (core/admin/consumer_admin.rs),    *)
(* which commits the offsets instead of consuming from them.               *)
(*                                                                         *)
(* The broker goes on while the offsets are asked for: records arrive, the *)
(* oldest ones expire.  A record is its timestamp; record o of a partition *)
(* is log[p][o + 1] and stays there when it expires, which first[p] tells. *)
(***************************************************************************)
EXTENDS Integers, Sequences, Functions

CONSTANTS
    Partitions,
    Times,    \* timestamps in ms; a record without one counts as 0
    Configs,  \* what the user may ask for
    Faults,   \* what may go wrong
    None,     \* not known yet
    LogEnd,   \* Offset::End, the answer when no record is that late
    MaxLog    \* bound on the records that arrive

\* "ask":    a request to the cluster fails or times out
\* "pause":  the Kafka client cannot pause a partition
\* "store":  the client cannot store an offset for the commit
\* "commit": the commit fails, before or after the broker has applied it
FaultKinds == {"ask", "pause", "store", "commit"}

\* ConsumerOffsetConfiguration.  Without stop timestamp, stop is later than
\* every record; start and stop are of no use to Beginning and End.
Configurations ==
    [op : {"consume", "group"}, mode : {"Beginning", "End", "Custom"}, start : Nat, stop : Nat]

ASSUME AssignmentAssumption ==
    /\ Times \subseteq Nat
    /\ Configs # {} /\ Configs \subseteq Configurations
    /\ Faults \subseteq FaultKinds
    /\ {None, LogEnd} \cap Int = {} /\ None # LogEnd
    /\ MaxLog \in Nat

VARIABLES
    log,        \* the records of each partition, expired ones included
    first,      \* how many of them have expired
    step,       \* how far the call is
    config,     \* what was asked for (arbitrary before)
    begun,      \* the end of each partition when the call began
    ends,       \* the answers to the question for the end offsets
    times,      \* the answers to the question for the start timestamp
    from,       \* the offsets that were assigned
    next,       \* the next offset the Kafka client delivers
    paused,     \* the partitions it was told to pause
    stored,     \* the offsets of the records that were stored
    offsets,    \* the offsets stored for the commit
    committed   \* the offsets the group has at the broker

brokerVars == <<log, first>>
callVars == <<config, begun>>
answerVars == <<ends, times>>
clientVars == <<next, paused, stored>>
groupVars == <<offsets, committed>>
vars == <<brokerVars, step, callVars, answerVars, from, clientVars, groupVars>>

Steps == {"idle", "ask", "consume", "store", "done", "failed"}

Unknown == [p \in Partitions |-> None]
Known(answers) == \A p \in Partitions : answers[p] # None
End(p) == Len(log[p])
Offsets(p) == 0..End(p) - 1
Stamp(p, o) == log[p][o + 1]

TypeOK ==
    /\ log \in [Partitions -> Seq(Times)]
    /\ first \in [Partitions -> Nat]
    /\ \A p \in Partitions : first[p] <= End(p)
    /\ step \in Steps
    /\ config \in Configs
    /\ begun \in [Partitions -> Nat]
    /\ ends \in [Partitions -> Nat \cup {None}]
    /\ times \in [Partitions -> Nat \cup {None, LogEnd}]
    /\ from \in [Partitions -> Nat \cup {None}]
    /\ next \in [Partitions -> Nat \cup {None}]
    /\ paused \subseteq Partitions
    /\ stored \in [Partitions -> SUBSET Nat]
    /\ offsets \in [Partitions -> Int \cup {None}]
    /\ committed \in [Partitions -> Nat \cup {None}]
    \* an offset that is used is known
    /\ step = "consume" => Known(from) /\ Known(next)
    /\ step = "store" => Known(from)

Init ==
    /\ log = [p \in Partitions |-> <<>>]
    /\ first = [p \in Partitions |-> 0]
    /\ step = "idle"
    /\ config = CHOOSE c \in Configs : TRUE
    /\ begun = first
    /\ ends = Unknown /\ times = Unknown
    /\ from = Unknown /\ next = Unknown
    /\ paused = {}
    /\ stored = [p \in Partitions |-> {}]
    /\ offsets = Unknown /\ committed = Unknown
-----------------------------------------------------------------------------
(* The broker.  What it does once the call is over is of no interest.       *)

Over == {"done", "failed"}
Arrived == FoldFunction(LAMBDA records, n : n + Len(records), 0, log)

Arrives(p) ==
    /\ step \notin Over /\ Arrived < MaxLog
    /\ \E t \in Times : log' = [log EXCEPT ![p] = Append(@, t)]
    /\ UNCHANGED <<first, step, callVars, answerVars, from, clientVars, groupVars>>

Expires(p) ==
    /\ step \notin Over /\ first[p] < End(p)
    /\ first' = [first EXCEPT ![p] = @ + 1]
    /\ UNCHANGED <<log, step, callVars, answerVars, from, clientVars, groupVars>>
-----------------------------------------------------------------------------
(* update_consumer_assignment.  Each partition is answered by its own       *)
(* leader, so the answers to one request are of different times.            *)

Begin ==
    /\ step = "idle"
    /\ step' = "ask"
    /\ config' \in Configs
    /\ begun' = [p \in Partitions |-> End(p)]
    /\ UNCHANGED <<brokerVars, answerVars, from, clientVars, groupVars>>

\* mutant of AskEnd: the answer is the last offset there is, not the next one
AskLast(p) ==
    /\ step = "ask" /\ ends[p] = None
    /\ ends' = [ends EXCEPT ![p] = IF End(p) = 0 THEN 0 ELSE End(p) - 1]
    /\ UNCHANGED <<brokerVars, step, callVars, times, from, clientVars, groupVars>>

\* offsets_for_times of Offset::End, asked for whatever the mode.
AskEnd(p) ==
    /\ step = "ask" /\ ends[p] = None
    /\ ends' = [ends EXCEPT ![p] = End(p)]
    /\ UNCHANGED <<brokerVars, step, callVars, times, from, clientVars, groupVars>>

\* The first retained record at or after timestamp t.
Since(p, t) == {o \in Offsets(p) : o >= first[p] /\ Stamp(p, o) >= t}
FirstSince(p, t) ==
    IF Since(p, t) = {} THEN LogEnd
    ELSE CHOOSE o \in Since(p, t) : \A q \in Since(p, t) : o <= q

\* offsets_for_times of the start timestamp, once the end offsets are there.
AskTime(p) ==
    /\ step = "ask" /\ config.mode = "Custom"
    /\ Known(ends) /\ times[p] = None
    /\ times' = [times EXCEPT ![p] = FirstSince(p, config.start)]
    /\ UNCHANGED <<brokerVars, step, callVars, ends, from, clientVars, groupVars>>

\* A request fails: start panics, set_consumer_group returns the error.
AskFails ==
    /\ "ask" \in Faults
    /\ step = "ask"
    /\ step' = "failed"
    /\ UNCHANGED <<brokerVars, callVars, answerVars, from, clientVars, groupVars>>

\* mutant of StartOffset: no record since the start leaves Offset::End in the
\* assignment, which the client resolves when it begins to fetch
StartOffsetAtFetch(p) ==
    IF config.mode = "Beginning" THEN 0
    ELSE IF config.mode = "End" THEN ends[p]
    ELSE IF times[p] = LogEnd THEN End(p) ELSE times[p]

\* mutant of StartOffset: no record since the start means all of them
StartOffsetOfNone(p) ==
    IF config.mode = "Beginning" THEN 0
    ELSE IF config.mode = "End" THEN ends[p]
    ELSE IF times[p] = LogEnd THEN 0 ELSE times[p]

\* mutant of StartOffset: the end that offsets_for_times names is assigned
StartOffsetAsAnswered(p) ==
    IF config.mode = "Beginning" THEN 0
    ELSE IF config.mode = "End" THEN ends[p] ELSE times[p]

\* The offset each mode assigns.
StartOffset(p) ==
    IF config.mode = "Beginning" THEN 0
    ELSE IF config.mode = "End" \/ times[p] = LogEnd THEN ends[p]
    ELSE times[p]

Assign ==
    /\ step = "ask"
    /\ Known(ends) /\ (config.mode = "Custom" => Known(times))
    /\ from' = [p \in Partitions |-> StartOffset(p)]
    /\ next' = from'
    /\ step' = IF config.op = "consume" THEN "consume" ELSE "store"
    /\ UNCHANGED <<brokerVars, callVars, answerVars, paused, stored, groupVars>>
-----------------------------------------------------------------------------
(* The Kafka client and handle_consumed_message *)

\* What the client is to fetch has expired.  The configuration leaves
\* auto.offset.reset at its default, the end of the partition.
Resets(p) ==
    /\ step = "consume" /\ p \notin paused
    /\ next[p] < first[p]
    /\ next' = [next EXCEPT ![p] = End(p)]
    /\ UNCHANGED <<brokerVars, step, callVars, answerVars, from, paused, stored, groupVars>>

Delivers(p) ==
    /\ step = "consume" /\ p \notin paused
    /\ first[p] <= next[p] /\ next[p] < End(p)
    /\ next' = [next EXCEPT ![p] = @ + 1]
    /\ UNCHANGED <<brokerVars, callVars, answerVars, from, groupVars>>

BeforeStop(t) == config.mode = "Custom" => t < config.stop

StoresRecord(p) ==
    /\ Delivers(p)
    /\ BeforeStop(Stamp(p, next[p]))
    /\ stored' = [stored EXCEPT ![p] = @ \cup {next[p]}]
    /\ UNCHANGED <<step, paused>>

\* mutant of PausesPartition: the list of partitions to pause is the assignment
PausesAll(p) ==
    /\ Delivers(p)
    /\ ~BeforeStop(Stamp(p, next[p]))
    /\ paused' = Partitions
    /\ UNCHANGED <<step, stored>>

\* mutant of PausesPartition: the loop ends with the first record that is late
PausesForGood(p) ==
    /\ Delivers(p)
    /\ ~BeforeStop(Stamp(p, next[p]))
    /\ step' = "done"
    /\ UNCHANGED <<paused, stored>>

\* The record is dropped; a pause that fails is logged.
PausesPartition(p) ==
    /\ Delivers(p)
    /\ ~BeforeStop(Stamp(p, next[p]))
    /\ \/ paused' = paused \cup {p}
       \/ "pause" \in Faults /\ UNCHANGED paused
    /\ UNCHANGED <<step, stored>>
-----------------------------------------------------------------------------
(* set_consumer_group: store each assigned offset, then commit them all.    *)
(* What is stored is the offset of the last record that was handled: the    *)
(* Kafka client commits the one after it.                                   *)

\* mutant of StoresOffset: the assigned offset itself is stored
StoresItself(p) ==
    /\ step = "store" /\ offsets[p] = None
    /\ offsets' = [offsets EXCEPT ![p] = from[p]]
    /\ UNCHANGED <<brokerVars, step, callVars, answerVars, from, clientVars, committed>>

StoresOffset(p) ==
    /\ step = "store" /\ offsets[p] = None
    /\ offsets' = [offsets EXCEPT ![p] = from[p] - 1]
    /\ UNCHANGED <<brokerVars, step, callVars, answerVars, from, clientVars, committed>>

\* The error is returned before the commit.
StoreFails ==
    /\ "store" \in Faults
    /\ step = "store" /\ ~Known(offsets)
    /\ step' = "failed"
    /\ UNCHANGED <<brokerVars, callVars, answerVars, from, clientVars, groupVars>>

Committing == [p \in Partitions |-> offsets[p] + 1]

Commits ==
    /\ step = "store" /\ Known(offsets)
    /\ step' = "done"
    /\ committed' = Committing
    /\ UNCHANGED <<brokerVars, callVars, answerVars, from, clientVars, offsets>>

\* The group has members, or the answer is lost.
CommitFails ==
    /\ "commit" \in Faults
    /\ step = "store" /\ Known(offsets)
    /\ step' = "failed"
    /\ committed' \in {committed, Committing}
    /\ UNCHANGED <<brokerVars, callVars, answerVars, from, clientVars, offsets>>
-----------------------------------------------------------------------------
Broker == \E p \in Partitions : Arrives(p) \/ Expires(p)

Call == \/ Begin \/ AskFails \/ Assign \/ StoreFails \/ Commits \/ CommitFails
        \/ \E p \in Partitions : AskEnd(p) \/ AskTime(p) \/ StoresOffset(p)

Consumes(p) == Resets(p) \/ StoresRecord(p) \/ PausesPartition(p)

Next == Broker \/ Call \/ \E p \in Partitions : Consumes(p)

Spec == Init /\ [][Next]_vars

\* The Kafka client fetches every partition it has not paused, in turn.
Fairness == \A p \in Partitions : WF_vars(Consumes(p))

FairSpec == Spec /\ Fairness
-----------------------------------------------------------------------------
(* Properties *)

Assigned == step \in {"consume", "store"}

\* Custom misses no record: nothing at or after the start timestamp lies before
\* the offset that is assigned, not even what arrived while offsets were asked
\* for (client.rs:92-101: the end comes from an earlier answer).
NoneMissed ==
    Assigned /\ config.mode = "Custom" =>
        \A p \in Partitions : \A o \in Offsets(p) :
            first[p] <= o /\ Stamp(p, o) >= config.start => from[p] <= o

\* End means now: what was there when the call began is not consumed, what
\* arrives after the assignment is.
EndMeansNow ==
    Assigned /\ config.mode = "End" =>
        \A p \in Partitions : begun[p] <= from[p] /\ from[p] <= End(p)

\* A record older than the start timestamp is stored only if it arrived after
\* the call began, or behind one that is not older.
OldOnesAreNew ==
    config.mode = "Custom" =>
        \A p \in Partitions : \A o \in stored[p] :
            Stamp(p, o) < config.start =>
                begun[p] <= o \/ \E q \in 0..o - 1 : Stamp(p, q) >= config.start

Ordered(p) == \A i, j \in 1..Len(log[p]) : i < j => log[p][i] <= log[p][j]

\* A pause loses nothing: if the timestamps of a partition are in order, none
\* of the records it still has is before the stop timestamp.
PauseLosesNothing ==
    \A p \in paused : Ordered(p) =>
        \A o \in Offsets(p) : next[p] <= o => ~BeforeStop(Stamp(p, o))

\* The records of partition p the user asked for.
Requested(p, o) ==
    /\ step = "consume" /\ o < End(p)
    /\ CASE config.mode = "Beginning" -> TRUE
         [] config.mode = "End" -> from[p] <= o
         [] config.mode = "Custom" -> config.start <= Stamp(p, o) /\ Stamp(p, o) < config.stop

\* Every record asked for is stored, whatever the other partitions do, if the
\* timestamps of its partition are in order and nothing of it expires.
ConsumesRange ==
    \A p \in Partitions, o \in 0..MaxLog - 1 :
        Requested(p, o) ~> (o \in stored[p] \/ first[p] > 0 \/ ~Ordered(p))

\* A group is moved in one step, all partitions together, to what was assigned.
GroupMovesAtOnce ==
    [][committed' # committed => committed' = from]_vars
=============================================================================
