------------------------ MODULE KafkaConsumerProofs ------------------------
(***************************************************************************)
(* Proofs about KafkaConsumer and its TopicStore, for any sets of          *)
(* commands, any log and any configurations: who may consume, and what the *)
(* table holds while one loop fills it.                                    *)
(***************************************************************************)
EXTENDS KafkaConsumer, FiniteSetTheorems, TLAPS

-----------------------------------------------------------------------------
(* Type correctness *)

\* A loop that parses or inserts has received the record it works on, so the
\* position it writes is one of the log.
Received ==
    \A l \in Starts : loop[l] \in {"parse", "insert"} => pos[l] > 0

LEMMA LenIsNat == Len(Log) \in Nat
BY LogAssumption

LEMMA TypeInit == Init => TypeOK /\ Received
<1> SUFFICES ASSUME Init PROVE TypeOK /\ Received
  OBVIOUS
<1>1. (CHOOSE cfg \in Configs : TRUE) \in Configs
  BY ConsumerAssumption
<1>2. 0 \in 0..Len(Log)
  BY LenIsNat
<1> QED
  BY <1>1, <1>2 DEF Init, StoreInit, TypeOK, StoreTypeOK, Received,
     CallStates, LoopStates, Calls

\* The steps of the commands.
LEMMA TypeCommands ==
    ASSUME TypeOK, Received,
           \/ \E c \in Starts : Start(c)
           \/ \E c \in Stops : Stop(c)
           \/ \E c \in Reads : GetState(c)
    PROVE  TypeOK' /\ Received'
<1> USE DEF TypeOK, StoreTypeOK, Received, Calls, CallStates, StartStates,
            StopStates, EndStates, CallGoes, Acquire, Release, Remember, Mingled, Meeting,
            storeVars, readVars
<1>1. ASSUME NEW c \in Starts, Start(c) PROVE TypeOK' /\ Received'
  <2>1. CASE StartBegin(c)
    BY <2>1 DEF StartBegin
  <2>2. CASE StartLock(c) \/ StartRefused(c) \/ StartAccepted(c) \/ StartPanics(c)
    BY <2>2 DEF StartLock, StartRefused, StartAccepted, StartPanics
  <2>3. CASE StartSpawns(c)
    <3>1. config[c].from \in 0..Len(Log)
      BY ConsumerAssumption
    <3> QED
      BY <2>3, <3>1 DEF StartSpawns, LoopGoes, LoopStates
  <2>4. CASE StoreLock(c) \/ StoreHandle(c)
    BY <2>4 DEF StoreLock, StoreHandle
  <2> QED
    BY <1>1, <2>1, <2>2, <2>3, <2>4 DEF Start
<1>2. ASSUME NEW c \in Stops, Stop(c) PROVE TypeOK' /\ Received'
  <2>1. CASE StopAbort(c)
    BY <2>1 DEF StopAbort, AbortHandle
  <2>2. CASE StopBegin(c) \/ StopLock(c) \/ StopRelock(c) \/ StopClear(c)
    BY <2>2 DEF StopBegin, StopLock, StopRelock, StopClear
  <2> QED
    BY <1>2, <2>1, <2>2 DEF Stop
<1>3. ASSUME NEW c \in Reads, GetState(c) PROVE TypeOK' /\ Received'
  BY <1>3 DEF GetState, StateLock, StateRead
<1> QED
  BY <1>1, <1>2, <1>3

\* The steps of the loops.
LEMMA TypeLoops ==
    ASSUME TypeOK, Received, NEW l \in Starts,
           LoopRuns(l) \/ StreamError(l) \/ StreamEnds(l)
    PROVE  TypeOK' /\ Received'
<1> USE DEF TypeOK, StoreTypeOK, Received, LoopStates, LoopGoes, Remember, Mingled, Meeting,
            storeVars, readVars
<1>1. CASE LoopResets(l)
  BY <1>1 DEF LoopResets, ResetCounter
<1>2. CASE LoopDrops(l)
  BY <1>2 DEF LoopDrops, DropTable
<1>3. CASE LoopCreates(l)
  <2>1. config[l].compactify \in BOOLEAN
    BY ConsumerAssumption
  <2> QED
    BY <1>3, <2>1 DEF LoopCreates, CreateTable
<1>4. CASE SetupPanics(l)
  BY <1>4 DEF SetupPanics, CreateRefused
<1>5. CASE LoopReceives(l)
  BY <1>5, LenIsNat DEF LoopReceives, Delivered, CountRecord
<1>6. CASE LoopPauses(l)
  BY <1>6, LenIsNat DEF LoopPauses, Delivered
<1>7. CASE LoopParses(l)
  BY <1>7 DEF LoopParses
<1>8. CASE LoopInserts(l)
  <2>1. pos[l] \in Positions
    BY <1>8, LenIsNat DEF LoopInserts, Positions
  <2> QED
    BY <1>8, <2>1 DEF LoopInserts, InsertRow
<1>9. CASE InsertFails(l)
  BY <1>9 DEF InsertFails, InsertRefused
<1>10. CASE StreamError(l) \/ StreamEnds(l) \/ Cancelled(l)
  BY <1>10 DEF StreamError, StreamEnds, Cancelled
<1>11. CASE ErrorLock(l) \/ ErrorRelock(l) \/ ErrorClear(l)
  BY <1>11 DEF ErrorLock, ErrorRelock, ErrorClear, Acquire, Release
<1>12. CASE ErrorAbort(l)
  BY <1>12 DEF ErrorAbort, AbortHandle, Release
<1> QED
  BY <1>1, <1>2, <1>3, <1>4, <1>5, <1>6, <1>7, <1>8, <1>9, <1>10, <1>11, <1>12
  DEF LoopRuns

\* Every variable keeps its type: in particular a row is always a record of the
\* log and a position never leaves it.
THEOREM TypeCorrect == Spec => [](TypeOK /\ Received)
<1>1. Init => TypeOK /\ Received
  BY TypeInit
<1>2. TypeOK /\ Received /\ [Next]_vars => TypeOK' /\ Received'
  <2> SUFFICES ASSUME TypeOK, Received, [Next]_vars PROVE TypeOK' /\ Received'
    OBVIOUS
  <2>1. CASE Next
    BY <2>1, TypeCommands, TypeLoops DEF Next
  <2>2. CASE UNCHANGED vars
    BY <2>2 DEF vars, controlVars, readVars, storeVars, TypeOK, StoreTypeOK, Received
  <2> QED
    BY <2>1, <2>2
<1> QED
  BY <1>1, <1>2, PTL DEF Spec
-----------------------------------------------------------------------------
(* The mutex around loop_handle *)

CallHolds == {"start_check", "store", "abort", "clear", "read"}
LoopHolds == {"error_abort", "error_clear"}

\* GuardsExclude said of one task or two at a time, which is how a step of one
\* task disturbs it.
OneGuard ==
    /\ \A c \in Calls : call[c] \in CallHolds => locked
    /\ \A l \in Starts : loop[l] \in LoopHolds => locked
    /\ \A c, d \in Calls : call[c] \in CallHolds /\ call[d] \in CallHolds => c = d
    /\ \A l, m \in Starts : loop[l] \in LoopHolds /\ loop[m] \in LoopHolds => l = m
    /\ \A c \in Calls, l \in Starts : ~(call[c] \in CallHolds /\ loop[l] \in LoopHolds)
    /\ locked => \/ \E c \in Calls : call[c] \in CallHolds
                 \/ \E l \in Starts : loop[l] \in LoopHolds

LEMMA OneGuardExcludes == OneGuard => GuardsExclude
<1> SUFFICES ASSUME OneGuard PROVE GuardsExclude
  OBVIOUS
<1> USE DEF OneGuard, CallHolds, LoopHolds, HoldingCalls, HoldingLoops
<1>1. CASE ~locked
  BY <1>1 DEF GuardsExclude
<1>2. ASSUME locked, NEW c \in Calls, call[c] \in CallHolds PROVE GuardsExclude
  <2>1. HoldingCalls = {c} /\ HoldingLoops = {}
    BY <1>2
  <2> QED
    BY <2>1, <1>2 DEF GuardsExclude
<1>3. ASSUME locked, NEW l \in Starts, loop[l] \in LoopHolds PROVE GuardsExclude
  <2>1. HoldingLoops = {l} /\ HoldingCalls = {}
    BY <1>3
  <2> QED
    BY <2>1, <1>3 DEF GuardsExclude
<1> QED
  BY <1>1, <1>2, <1>3

LEMMA OneGuardCommands ==
    ASSUME TypeOK, OneGuard,
           \/ \E c \in Starts : Start(c)
           \/ \E c \in Stops : Stop(c)
           \/ \E c \in Reads : GetState(c)
    PROVE  OneGuard'
<1> USE DEF TypeOK, OneGuard, CallHolds, LoopHolds, Calls, CallGoes, Acquire, Release
<1>1. ASSUME NEW c \in Starts, Start(c) PROVE OneGuard'
  <2>1. CASE StartBegin(c) \/ StartPanics(c) \/ StartSpawns(c)
    BY <2>1 DEF StartBegin, StartPanics, StartSpawns, LoopGoes
  <2>2. CASE StartLock(c) \/ StoreLock(c)
    BY <2>2 DEF StartLock, StoreLock
  <2>3. CASE StartRefused(c) \/ StartAccepted(c) \/ StoreHandle(c)
    BY <2>3 DEF StartRefused, StartAccepted, StoreHandle
  <2> QED
    BY <1>1, <2>1, <2>2, <2>3 DEF Start
<1>2. ASSUME NEW c \in Stops, Stop(c) PROVE OneGuard'
  <2>1. CASE StopBegin(c)
    BY <2>1 DEF StopBegin
  <2>2. CASE StopLock(c) \/ StopRelock(c)
    BY <2>2 DEF StopLock, StopRelock
  <2>3. CASE StopAbort(c) \/ StopClear(c)
    BY <2>3 DEF StopAbort, StopClear
  <2> QED
    BY <1>2, <2>1, <2>2, <2>3 DEF Stop
<1>3. ASSUME NEW c \in Reads, GetState(c) PROVE OneGuard'
  BY <1>3 DEF GetState, StateLock, StateRead
<1> QED
  BY <1>1, <1>2, <1>3

LEMMA OneGuardLoops ==
    ASSUME TypeOK, OneGuard, NEW l \in Starts,
           LoopRuns(l) \/ StreamError(l) \/ StreamEnds(l)
    PROVE  OneGuard'
<1> USE DEF TypeOK, OneGuard, CallHolds, LoopHolds, LoopGoes
<1>1. CASE LoopResets(l) \/ LoopDrops(l) \/ LoopCreates(l) \/ SetupPanics(l)
  BY <1>1 DEF LoopResets, LoopDrops, LoopCreates, SetupPanics
<1>2. CASE LoopReceives(l) \/ LoopPauses(l) \/ LoopParses(l)
  BY <1>2 DEF LoopReceives, LoopPauses, LoopParses
<1>3. CASE LoopInserts(l) \/ InsertFails(l)
  BY <1>3 DEF LoopInserts, InsertFails
<1>4. CASE StreamError(l) \/ StreamEnds(l)
  BY <1>4 DEF StreamError, StreamEnds
\* A loop is only cancelled where it waits, and never holds the guard there.
<1>5. CASE Cancelled(l)
  <2>1. loop[l] \notin LoopHolds
    BY <1>5 DEF Cancelled, Waiting
  <2> QED
    BY <1>5, <2>1 DEF Cancelled
<1>6. CASE ErrorLock(l) \/ ErrorRelock(l)
  BY <1>6 DEF ErrorLock, ErrorRelock, Acquire
<1>7. CASE ErrorAbort(l) \/ ErrorClear(l)
  BY <1>7 DEF ErrorAbort, ErrorClear, Release
<1> QED
  BY <1>1, <1>2, <1>3, <1>4, <1>5, <1>6, <1>7 DEF LoopRuns

\* For every interleaving of commands, loops, failures and cancellations: two
\* guards of the mutex never coexist, and none is left behind.
THEOREM GuardsExclusive == Spec => []GuardsExclude
<1>1. Init => OneGuard
  BY DEF Init, OneGuard, CallHolds, LoopHolds
<1>2. TypeOK /\ OneGuard /\ [Next]_vars => OneGuard'
  <2> SUFFICES ASSUME TypeOK, OneGuard, [Next]_vars PROVE OneGuard'
    OBVIOUS
  <2>1. CASE Next
    BY <2>1, OneGuardCommands, OneGuardLoops DEF Next
  <2>2. CASE UNCHANGED vars
    BY <2>2 DEF vars, controlVars, OneGuard
  <2> QED
    BY <2>1, <2>2
<1> QED
  BY <1>1, <1>2, TypeCorrect, OneGuardExcludes, PTL DEF Spec
-----------------------------------------------------------------------------
(* One consumer *)

\* What SingleConsumer needs to be inductive.
CommandInv ==
    \* a loop exists from the moment its start has spawned it
    /\ \A l \in Starts :
          loop[l] # "none" <=> call[l] \in {"store_lock", "store", "started"}
    \* and its handle is stored by that start
    /\ handle # None => call[handle] = "started"
    /\ aborted \subseteq {l \in Starts : call[l] = "started"}
    \* a start past its check that met nobody still finds the handle empty
    /\ \A l \in Starts \ Mingled : Between(l) => handle = None
    \* its loop, until somebody aborts it, is what the handle refers to, and nobody
    \* has the handle in his hands
    /\ \A l \in Starts \ Mingled :
          Active(l) /\ call[l] = "started" => handle = l /\ ~Disturbed(l)

LEMMA CommandInvImplies == TypeOK /\ CommandInv => SingleConsumer
<1> SUFFICES ASSUME TypeOK, CommandInv PROVE SingleConsumer
  OBVIOUS
<1>1. ASSUME NEW l \in Starts \ Mingled, Active(l)
      PROVE  /\ \/ Between(l) /\ handle = None /\ call[l] \in {"store_lock", "store"}
                \/ handle = l
             /\ ~Disturbed(l)
  <2>1. call[l] \in {"store_lock", "store", "started"}
    BY <1>1 DEF CommandInv, Active, Live
  <2>2. CASE call[l] = "started"
    BY <1>1, <2>2 DEF CommandInv
  <2>3. CASE call[l] # "started"
    BY <1>1, <2>1, <2>3 DEF CommandInv, Between, Mingled, Meeting
  <2> QED
    BY <2>2, <2>3
<1>2. ASSUME NEW l \in Starts \ Mingled, NEW m \in Starts \ Mingled, Active(l), Active(m)
      PROVE  l = m
  <2>1. Between(l) => m = l
    BY <1>1, <1>2 DEF Disturbed, Calls
  <2>2. Between(m) => m = l
    BY <1>1, <1>2 DEF Disturbed, Calls
  <2> QED
    BY <1>1, <1>2, <2>1, <2>2
<1>3. ASSUME NEW c \in Stops, Between(c), NEW l \in Starts, Active(l) PROVE l \in Mingled
  BY <1>1, <1>3, ConsumerAssumption DEF Disturbed, Calls
<1> QED
  BY <1>1, <1>2, <1>3 DEF SingleConsumer

\* What was mingled stays so.
LEMMA MingledStays == Remember => Mingled \subseteq Mingled'
BY DEF Remember, Mingled

\* A step that leaves the handle and the aborts alone, and nobody gets in between.
LEMMA CommandFrame ==
    ASSUME TypeOK, CommandInv, Mingled \subseteq Mingled', UNCHANGED <<handle, aborted>>,
           \A l \in Starts :
              /\ loop'[l] # "none" <=> call'[l] \in {"store_lock", "store", "started"}
              /\ call[l] = "started" <=> call'[l] = "started"
              /\ Active(l)' /\ call'[l] = "started" => Active(l)
              /\ LoopBetween(l)' => LoopBetween(l),
           \A c \in Calls : Between(c)' => Between(c)
    PROVE  CommandInv'
<1>1. \A l \in Starts : Disturbed(l)' => Disturbed(l)
  BY DEF Disturbed
<1>2. handle' # None => call'[handle'] = "started"
  BY DEF CommandInv, TypeOK
<1>3. \A l \in Starts \ Mingled' : Between(l)' => handle' = None
  BY DEF CommandInv, Calls
<1>4. \A l \in Starts \ Mingled' :
          Active(l)' /\ call'[l] = "started" => handle' = l /\ ~Disturbed(l)'
  BY <1>1 DEF CommandInv
<1>5. aborted' \subseteq {l \in Starts : call'[l] = "started"}
  BY DEF CommandInv
<1> QED
  BY <1>2, <1>3, <1>4, <1>5 DEF CommandInv

LEMMA CommandInvStarts ==
    ASSUME TypeOK, CommandInv, NEW c \in Starts, Start(c)
    PROVE  CommandInv'
<1> USE DEF TypeOK, CallGoes, Calls
<1>1. CASE StartBegin(c) \/ StartLock(c) \/ StartRefused(c) \/ StartPanics(c) \/ StoreLock(c)
  <2>1. Mingled \subseteq Mingled'
    BY <1>1, MingledStays DEF StartBegin, StartLock, StartRefused, StartPanics, StoreLock
  <2> QED
    BY <1>1, <2>1, CommandFrame DEF StartBegin, StartLock, StartRefused, StartPanics, StoreLock,
       CommandInv, Active, Live, Between, LoopBetween
<1>2. CASE StartSpawns(c)
  <2>1. Mingled \subseteq Mingled'
    BY <1>2, MingledStays DEF StartSpawns
  <2> QED
    BY <1>2, <2>1, CommandFrame DEF StartSpawns, LoopGoes,
       CommandInv, Active, Live, Between, LoopBetween
<1>3. CASE StartAccepted(c)
  <2>1. Mingled \subseteq Mingled' /\ handle = None /\ UNCHANGED <<handle, loop, aborted>>
        /\ call[c] = "start_check" /\ call' = [call EXCEPT ![c] = "creating"]
    BY <1>3, MingledStays DEF StartAccepted
  <2>2. ASSUME NEW l \in Starts \ Mingled', Active(l)', call'[l] = "started" PROVE FALSE
    BY <2>1, <2>2, ConsumerAssumption DEF CommandInv, Active, Live
  <2> QED
    BY <2>1, <2>2 DEF CommandInv
<1>4. CASE StoreHandle(c)
  <2>1. Mingled \subseteq Mingled' /\ handle' = c /\ UNCHANGED <<loop, aborted>>
        /\ call[c] = "store" /\ call' = [call EXCEPT ![c] = "started"]
    BY <1>4, MingledStays DEF StoreHandle
  <2>2. Between(c)
    BY <2>1 DEF Between
  <2>3. ASSUME NEW l \in Starts \ Mingled', l # c PROVE ~Between(l)' /\ ~(Active(l)' /\ call'[l] = "started")
    <3>1. Disturbed(l)
      BY <2>2, <2>3 DEF Disturbed
    <3>2. ~Between(l)
      BY <2>1, <3>1 DEF Mingled, Meeting
    <3> QED
      BY <2>1, <2>3, <3>1, <3>2 DEF CommandInv, Active, Live, Between
  <2>4. ASSUME c \notin Mingled' PROVE ~Between(c)' /\ ~Disturbed(c)'
    <3>1. ~Disturbed(c)
      BY <2>1, <2>2, <2>4 DEF Mingled, Meeting
    <3> QED
      BY <2>1, <3>1 DEF Disturbed, Between, LoopBetween
  <2>5. \A l \in Starts : loop'[l] # "none" <=> call'[l] \in {"store_lock", "store", "started"}
    BY <2>1 DEF CommandInv
  <2>6. aborted' \subseteq {l \in Starts : call'[l] = "started"}
    BY <2>1 DEF CommandInv
  <2> QED
    BY <2>1, <2>3, <2>4, <2>5, <2>6 DEF CommandInv
<1> QED
  BY <1>1, <1>2, <1>3, <1>4 DEF Start

\* Whoever has aborted what the handle refers to, and whoever clears it, disturbs
\* every start that is in between.
LEMMA CommandInvStops ==
    ASSUME TypeOK, CommandInv, NEW c \in Stops, Stop(c)
    PROVE  CommandInv'
<1> USE ConsumerAssumption DEF TypeOK, CallGoes, Calls
<1>0. \A l \in Starts : Between(c) => Disturbed(l)
  BY DEF Disturbed
<1>1. CASE StopBegin(c) \/ StopLock(c) \/ StopRelock(c)
  <2>1. Mingled \subseteq Mingled'
    BY <1>1, MingledStays DEF StopBegin, StopLock, StopRelock
  <2> QED
    BY <1>1, <2>1, CommandFrame DEF StopBegin, StopLock, StopRelock,
       CommandInv, Active, Live, Between, LoopBetween
<1>2. CASE StopAbort(c)
  <2>1. Mingled \subseteq Mingled' /\ UNCHANGED <<handle, loop>>
        /\ aborted' = aborted \cup ({handle} \ {None})
        /\ call[c] = "abort" /\ call' = [call EXCEPT ![c] = "stop_relock"]
    BY <1>2, MingledStays DEF StopAbort, AbortHandle
  <2>2. ASSUME NEW l \in Starts, Active(l)' PROVE Active(l) /\ l # handle
    BY <2>1, <2>2 DEF Active, Live
  <2> QED
    BY <2>1, <2>2 DEF CommandInv, Between
<1>3. CASE StopClear(c)
  <2>1. Mingled \subseteq Mingled' /\ handle' = None /\ UNCHANGED <<loop, aborted>>
        /\ call[c] = "clear" /\ call' = [call EXCEPT ![c] = "stopped"]
    BY <1>3, MingledStays DEF StopClear
  <2>2. ASSUME NEW l \in Starts \ Mingled, Active(l), call[l] = "started" PROVE FALSE
    BY <1>0, <2>1, <2>2 DEF CommandInv, Between
  <2> QED
    BY <2>1, <2>2 DEF CommandInv, Active, Live
<1> QED
  BY <1>1, <1>2, <1>3 DEF Stop

LEMMA CommandInvReads ==
    ASSUME TypeOK, CommandInv, NEW c \in Reads, GetState(c)
    PROVE  CommandInv'
<1> USE ConsumerAssumption DEF TypeOK, CallGoes, Calls
<1>1. Mingled \subseteq Mingled'
  BY MingledStays DEF GetState, StateLock, StateRead
<1> QED
  BY <1>1, CommandFrame DEF GetState, StateLock, StateRead, CommandInv, Active, Live,
     Between, LoopBetween

LEMMA CommandInvLoops ==
    ASSUME TypeOK, CommandInv, NEW l \in Starts,
           LoopRuns(l) \/ StreamError(l) \/ StreamEnds(l)
    PROVE  CommandInv'
<1> USE ConsumerAssumption DEF TypeOK, LoopGoes, Calls
\* The steps that leave the handle alone
<1>1. ASSUME NEW s, s # "none", loop[l] # "none", loop' = [loop EXCEPT ![l] = s], Remember,
             s \in {"error_relock", "error_clear"} => LoopBetween(l),
             s # "dead" => loop[l] # "dead", UNCHANGED <<handle, call, aborted>>
      PROVE  CommandInv'
  <2>1. Mingled \subseteq Mingled'
    BY <1>1, MingledStays
  <2> QED
    BY <1>1, <2>1, CommandFrame DEF CommandInv, Active, Live, Between, LoopBetween
<1>2. CASE LoopResets(l) \/ LoopDrops(l) \/ LoopCreates(l) \/ SetupPanics(l)
  BY <1>1, <1>2 DEF LoopResets, LoopDrops, LoopCreates, SetupPanics
<1>3. CASE LoopReceives(l) \/ LoopPauses(l) \/ LoopParses(l) \/ LoopInserts(l) \/ InsertFails(l)
  BY <1>1, <1>3 DEF LoopReceives, LoopPauses, LoopParses, LoopInserts, InsertFails, readVars
<1>4. CASE StreamError(l) \/ StreamEnds(l) \/ ErrorLock(l) \/ Cancelled(l)
  BY <1>1, <1>4 DEF StreamError, StreamEnds, ErrorLock, Cancelled, Waiting
<1>5. CASE ErrorRelock(l)
  BY <1>1, <1>5 DEF ErrorRelock, LoopBetween
<1>6. CASE ErrorAbort(l)
  <2>1. Mingled \subseteq Mingled' /\ UNCHANGED <<handle, call>>
        /\ aborted' = aborted \cup ({handle} \ {None})
        /\ loop[l] = "error_abort" /\ loop' = [loop EXCEPT ![l] = "error_relock"]
    BY <1>6, MingledStays DEF ErrorAbort, AbortHandle
  <2>2. ASSUME NEW m \in Starts, Active(m)' PROVE Active(m) /\ m # handle
    BY <2>1, <2>2 DEF Active, Live
  <2> QED
    BY <2>1, <2>2 DEF CommandInv, Between
<1>7. CASE ErrorClear(l)
  <2>1. Mingled \subseteq Mingled' /\ handle' = None /\ UNCHANGED <<call, aborted>>
        /\ loop[l] = "error_clear" /\ loop' = [loop EXCEPT ![l] = "dead"]
    BY <1>7, MingledStays DEF ErrorClear
  <2>2. ASSUME NEW m \in Starts \ Mingled, Active(m), call[m] = "started", m # l PROVE FALSE
    BY <2>1, <2>2 DEF CommandInv, Disturbed, LoopBetween
  <2>3. ~Active(l)'
    BY <2>1 DEF Active, Live
  <2> QED
    BY <2>1, <2>2, <2>3 DEF CommandInv, Active, Live
<1> QED
  BY <1>2, <1>3, <1>4, <1>5, <1>6, <1>7 DEF LoopRuns

LEMMA StepRemembers == [Next]_vars => Mingled \subseteq Mingled'
<1>1. ASSUME NEW c \in Starts, Start(c) PROVE Remember
  BY <1>1 DEF Start, StartBegin, StartLock, StartRefused, StartAccepted, StartPanics,
     StartSpawns, StoreLock, StoreHandle, CallGoes
<1>2. ASSUME NEW c \in Stops, Stop(c) PROVE Remember
  BY <1>2 DEF Stop, StopBegin, StopLock, StopAbort, StopRelock, StopClear, CallGoes
<1>3. ASSUME NEW c \in Reads, GetState(c) PROVE Remember
  BY <1>3 DEF GetState, StateLock, StateRead, CallGoes
<1>4. ASSUME NEW l \in Starts, LoopRuns(l) \/ StreamError(l) \/ StreamEnds(l) PROVE Remember
  BY <1>4 DEF LoopRuns, LoopResets, LoopDrops, LoopCreates, SetupPanics, LoopReceives,
     LoopPauses, LoopParses, LoopInserts, InsertFails, ErrorLock, ErrorAbort, ErrorRelock,
     ErrorClear, Cancelled, StreamError, StreamEnds, LoopGoes
<1>5. UNCHANGED vars => Mingled \subseteq Mingled'
  BY DEF vars, Mingled, Meeting, Between, Disturbed, LoopBetween, controlVars
<1> QED
  BY <1>1, <1>2, <1>3, <1>4, <1>5, MingledStays DEF Next

LEMMA CommandInvariant == Spec => [](TypeOK /\ CommandInv)
<1>1. Init => CommandInv
  BY ConsumerAssumption DEF Init, CommandInv, Active, Live, Between, Calls
<1>2. TypeOK /\ CommandInv /\ [Next]_vars => CommandInv'
  <2> SUFFICES ASSUME TypeOK, CommandInv, [Next]_vars PROVE CommandInv'
    OBVIOUS
  <2>1. CASE Next
    BY <2>1, CommandInvStarts, CommandInvStops, CommandInvReads, CommandInvLoops DEF Next
  <2>2. CASE UNCHANGED vars
    <3>1. UNCHANGED <<handle, call, loop, aborted, mingled>>
      BY <2>2 DEF vars, controlVars
    <3>2. Mingled \subseteq Mingled'
      BY <2>2, StepRemembers
    <3> QED
      BY <3>1, <3>2, CommandFrame DEF CommandInv, Active, Live, Between, LoopBetween
  <2> QED
    BY <2>1, <2>2
<1> QED
  BY <1>1, <1>2, TypeCorrect, PTL DEF Spec

\* Whatever commands overlap, whichever failures occur and whenever the aborted loops
\* really end: a loop whose start met nobody between its two critical sections is the
\* only such loop, there is always a handle to stop it with, and a stop stops it.
THEOREM OneConsumer == Spec => []SingleConsumer
BY CommandInvariant, CommandInvImplies, PTL
-----------------------------------------------------------------------------
(* The consumer implements ConsumerControl *)

Consuming == {l \in Starts : Active(l)}
Used == {l \in Starts : loop[l] # "none"}

LEMMA SpawnStep ==
    ASSUME TypeOK, CommandInv, NEW c \in Starts, StartSpawns(c), SingleConsumer'
    PROVE  /\ c \notin Used /\ Used' = Used \cup {c}
           /\ Consuming' = Consuming \cup {c}
           /\ c \in Mingled' \/ Consuming \subseteq Mingled'
<1> USE DEF StartSpawns, CallGoes, LoopGoes, TypeOK, Used, Consuming, Active, Live
<1>1. c \notin aborted
  BY DEF CommandInv
<1>2. Consuming' = Consuming \cup {c} /\ Used' = Used \cup {c} /\ c \notin Used
  BY <1>1
<1>3. ASSUME NEW m \in Consuming, c \notin Mingled', m \notin Mingled' PROVE FALSE
  <2>1. Active(c)' /\ Active(m)' /\ m # c
    BY <1>1, <1>2, <1>3
  <2> QED
    BY <1>3, <2>1 DEF SingleConsumer
<1> QED
  BY <1>2, <1>3

\* Any other step of a loop ends it or leaves it alive, and loops do not begin.
LEMMA LoopStep ==
    ASSUME TypeOK, NEW l \in Starts, LoopRuns(l) \/ StreamError(l) \/ StreamEnds(l)
    PROVE  /\ Used' = Used
           /\ \E m \in Starts \cup {None} : Consuming' = Consuming \ {m}
<1>0. None \notin Consuming
  BY ConsumerAssumption DEF Consuming
<1>1. CASE LoopResets(l) \/ LoopDrops(l) \/ LoopCreates(l) \/ SetupPanics(l)
  <2>1. Consuming' \in {Consuming, Consuming \ {l}} /\ Used' = Used
    BY <1>1 DEF LoopResets, LoopDrops, LoopCreates, SetupPanics,
                TypeOK, LoopGoes, Used, Consuming, Active, Live
  <2> QED
    BY <1>0, <2>1
<1>2. CASE LoopReceives(l) \/ LoopPauses(l) \/ LoopParses(l) \/ LoopInserts(l) \/ InsertFails(l)
  <2>1. Consuming' = Consuming /\ Used' = Used
    BY <1>2 DEF LoopReceives, LoopPauses, LoopParses, LoopInserts, InsertFails,
                TypeOK, LoopGoes, Used, Consuming, Active, Live
  <2> QED
    BY <1>0, <2>1
<1>3. CASE StreamError(l) \/ StreamEnds(l) \/ Cancelled(l)
  <2>1. Consuming' \in {Consuming, Consuming \ {l}} /\ Used' = Used
    BY <1>3 DEF StreamError, StreamEnds, Cancelled, Waiting,
                TypeOK, LoopGoes, Used, Consuming, Active, Live
  <2> QED
    BY <1>0, <2>1
<1>4. CASE ErrorLock(l) \/ ErrorRelock(l) \/ ErrorClear(l)
  <2>1. Consuming' \in {Consuming, Consuming \ {l}} /\ Used' = Used
    BY <1>4 DEF ErrorLock, ErrorRelock, ErrorClear,
                TypeOK, LoopGoes, Used, Consuming, Active, Live
  <2> QED
    BY <1>0, <2>1
<1>5. CASE ErrorAbort(l)
  <2>1. Consuming' = Consuming \ {handle} /\ Used' = Used /\ handle \in Starts \cup {None}
    BY <1>5, ConsumerAssumption DEF ErrorAbort, AbortHandle,
                TypeOK, LoopGoes, Used, Consuming, Active, Live
  <2> QED
    BY <1>0, <2>1
<1> QED
  BY <1>1, <1>2, <1>3, <1>4, <1>5 DEF LoopRuns

\* The abort of a stop takes down what the handle refers to; every other step of a
\* command but the spawn leaves the loops and their aborts alone.
LEMMA CommandStep ==
    ASSUME TypeOK
    PROVE  /\ \A c \in Starts : Start(c) => StartSpawns(c) \/ UNCHANGED <<loop, aborted>>
           /\ \A c \in Stops : Stop(c) =>
                 UNCHANGED loop /\ (aborted' = aborted \/ aborted' = aborted \cup ({handle} \ {None}))
           /\ \A c \in Reads : GetState(c) => UNCHANGED <<loop, aborted>>
BY DEF Start, StartBegin, StartLock, StartRefused, StartAccepted, StartPanics,
   StoreLock, StoreHandle, Stop, StopBegin, StopLock, StopAbort, AbortHandle, StopRelock,
   StopClear, GetState, StateLock, StateRead

\* The refinement: whatever interleaves and fails, a loop is brought up beside another
\* one only if one of the two starts has raced, and what was taken down never consumes
\* again.
THEOREM ControlImplemented == Spec => ImplementsControl
<1> DEFINE
    Up(l) == /\ l \notin Used /\ Used' = Used \cup {l}
             /\ Consuming' = Consuming \cup {l}
             /\ l \in Mingled' \/ Consuming \subseteq Mingled'
    Down(m) == Consuming' = Consuming \ {m} /\ Used' = Used
<1>1. Init => Control!ControlInit
  BY DEF Init, Control!ControlInit, Active, Live, Mingled, Meeting, Between, Calls
<1>2. ASSUME TypeOK, CommandInv, SingleConsumer', [Next]_vars
      PROVE  \E l \in Starts \cup {None} : (Up(l) /\ l \in Starts) \/ Down(l)
  <2>1. ASSUME UNCHANGED <<loop, aborted>> PROVE Down(None)
    BY <2>1, ConsumerAssumption DEF Consuming, Used, Active, Live
  <2>2. ASSUME NEW c \in Starts, Start(c) PROVE Up(c) \/ Down(None)
    BY <1>2, <2>1, <2>2, CommandStep, SpawnStep
  <2>3. ASSUME NEW c \in Stops, Stop(c) PROVE Down(None) \/ Down(handle)
    <3>1. UNCHANGED loop /\ (aborted' = aborted \/ aborted' = aborted \cup ({handle} \ {None}))
      BY <1>2, <2>3, CommandStep
    <3> QED
      BY <2>1, <3>1, ConsumerAssumption DEF Consuming, Used, Active, Live
  <2>4. ASSUME NEW c \in Reads, GetState(c) PROVE Down(None)
    BY <1>2, <2>1, <2>4, CommandStep
  <2>5. ASSUME NEW l \in Starts, LoopRuns(l) \/ StreamError(l) \/ StreamEnds(l)
        PROVE  \E m \in Starts \cup {None} : Down(m)
    BY <1>2, <2>5, LoopStep
  <2>6. CASE UNCHANGED vars
    BY <2>1, <2>6 DEF vars, controlVars
  <2>7. handle \in Starts \cup {None}
    BY <1>2 DEF TypeOK
  <2> QED
    BY <1>2, <2>2, <2>3, <2>4, <2>5, <2>6, <2>7 DEF Next
<1>3. TypeOK /\ CommandInv /\ SingleConsumer' /\ [Next]_vars
         => [Control!ControlNext]_(Control!controlledVars)
  <2> SUFFICES ASSUME TypeOK, CommandInv, SingleConsumer', [Next]_vars
               PROVE  Control!ControlNext
    OBVIOUS
  <2>1. Control!Races
    BY StepRemembers DEF Control!Races
  <2>2. PICK l \in Starts \cup {None} : (Up(l) /\ l \in Starts) \/ Down(l)
    BY <1>2
  <2>3. CASE Up(l) /\ l \in Starts
    BY <2>1, <2>3 DEF Control!ControlNext, Control!BringUp, Consuming, Used
  <2>4. CASE Down(l) /\ l \in Consuming
    BY <2>1, <2>4 DEF Control!ControlNext, Control!TakeDown, Consuming, Used
  <2>5. CASE Down(l) /\ l \notin Consuming
    BY <2>1, <2>5 DEF Control!ControlNext, Control!Meet, Consuming, Used
  <2> QED
    BY <2>2, <2>3, <2>4, <2>5
<1> QED
  BY <1>1, <1>3, CommandInvariant, OneConsumer, PTL
  DEF Spec, ImplementsControl, Control!ControlSpec
-----------------------------------------------------------------------------
(* The records that the table has to hold *)

LEMMA WantedIsFinite ==
    ASSUME TypeOK, NEW l \in Starts, NEW i \in 0..Len(Log)
    PROVE  /\ IsFiniteSet(Wanted(l, i)) /\ Cardinality(Wanted(l, i)) \in Nat
           /\ Wanted(l, i) \subseteq 1..i
<1>1. config[l].from \in Nat
  BY ConsumerAssumption, LenIsNat DEF TypeOK
<1>2. Wanted(l, i) \subseteq 1..i
  BY <1>1 DEF Wanted
<1>3. IsFiniteSet(1..i)
  BY FS_Interval, LenIsNat
<1> QED
  BY <1>2, <1>3, FS_Subset, FS_CardinalityType

\* One more record that arrives
LEMMA WantedGrows ==
    ASSUME TypeOK, NEW l \in Starts, NEW i \in 1..Len(Log), config[l].from < i
    PROVE  /\ BeforeStop(l, i) => /\ Wanted(l, i) = Wanted(l, i - 1) \cup {i}
                                  /\ Cardinality(Wanted(l, i)) = Cardinality(Wanted(l, i - 1)) + 1
           /\ ~BeforeStop(l, i) => Wanted(l, i) = Wanted(l, i - 1)
<1>1. config[l].from \in Nat /\ i - 1 \in 0..Len(Log)
  BY ConsumerAssumption, LenIsNat DEF TypeOK
<1>2. \A j : j \in config[l].from + 1 .. i <=> j \in config[l].from + 1 .. i - 1 \/ j = i
  BY <1>1, LenIsNat
<1>3. BeforeStop(l, i) => Wanted(l, i) = Wanted(l, i - 1) \cup {i}
  BY <1>2 DEF Wanted
<1>4. ~BeforeStop(l, i) => Wanted(l, i) = Wanted(l, i - 1)
  BY <1>2 DEF Wanted
<1>5. i \notin Wanted(l, i - 1) /\ IsFiniteSet(Wanted(l, i - 1))
  <2>1. Wanted(l, i - 1) \subseteq 1..(i - 1) /\ IsFiniteSet(Wanted(l, i - 1))
    BY <1>1, WantedIsFinite
  <2>2. i \notin 1..(i - 1)
    BY LenIsNat
  <2> QED
    BY <2>1, <2>2
<1>6. Cardinality(Wanted(l, i - 1) \cup {i}) = Cardinality(Wanted(l, i - 1)) + 1
  BY <1>5, FS_AddElement
<1> QED
  BY <1>3, <1>4, <1>6

\* INSERT OR REPLACE leaves what is expected: the rows it removes are the superseded ones.
LEMMA InsertKeepsExpected ==
    ASSUME TypeOK, NEW l \in Starts, NEW i \in 1..Len(Log), i \in Wanted(l, i),
           rows = Expected(l, i - 1), compacted = config[l].compactify
    PROVE  (rows \ Conflicts(i)) \cup {i} = Expected(l, i)
<1>1. config[l].from \in Nat /\ config[l].from < i /\ BeforeStop(l, i)
      /\ config[l].compactify \in BOOLEAN
  BY ConsumerAssumption, LenIsNat DEF TypeOK, Wanted
<1>2. Wanted(l, i) = Wanted(l, i - 1) \cup {i}
  BY <1>1, WantedGrows
<1>3. \A j \in Wanted(l, i - 1) : j \in 1..(i - 1)
  BY WantedIsFinite, LenIsNat
<1>4. i \in Expected(l, i)
  <2>1. ~Superseded(i, Wanted(l, i))
    BY <1>2, <1>3, LenIsNat DEF Superseded
  <2> QED
    BY <2>1 DEF Expected
<1>5. ASSUME NEW j \in Wanted(l, i - 1)
      PROVE  j \in Expected(l, i) <=> j \in Expected(l, i - 1) /\ j \notin Conflicts(i)
  <2>1. j # i /\ i > j
    BY <1>3, <1>5, LenIsNat
  <2>2. Superseded(j, Wanted(l, i)) <=>
          Superseded(j, Wanted(l, i - 1)) \/ (Log[i].key = Log[j].key /\ Log[j].key # NoKey)
    BY <1>2, <2>1 DEF Superseded
  <2>3. j \in Expected(l, i) <=>
          ~(config[l].compactify /\ Superseded(j, Wanted(l, i)))
    BY <1>2 DEF Expected
  <2>4. j \in Expected(l, i - 1) <=>
          ~(config[l].compactify /\ Superseded(j, Wanted(l, i - 1)))
    BY DEF Expected
  <2>5. j \in Expected(l, i - 1) =>
          (j \in Conflicts(i) <=>
             config[l].compactify /\ Log[j].key = Log[i].key /\ Log[i].key # NoKey)
    BY <2>1 DEF Conflicts
  <2> QED
    BY <2>2, <2>3, <2>4, <2>5
<1>6. Expected(l, i - 1) \subseteq Wanted(l, i - 1) /\ Expected(l, i) \subseteq Wanted(l, i)
  BY DEF Expected
<1> QED
  BY <1>2, <1>4, <1>5, <1>6
-----------------------------------------------------------------------------
(* The table: the invariant *)

Reading == {"poll", "parse", "insert"}
Begun == {"store_lock", "store", "started"}

\* How far the run of loop l has come, and what its table and counter are by then.
RunInv(l) ==
    \* a configuration is given before its loop exists
    /\ loop[l] # "none" => call[l] \in Begun /\ config[l].from <= pos[l]
    /\ loop[l] \in {"spawned", "drop", "create"} => pos[l] = config[l].from
    /\ loop[l] \in {"drop", "create"} => counter = 0
    /\ loop[l] = "create" => rows = {}
    /\ loop[l] \in Reading => created /\ compacted = config[l].compactify
    /\ loop[l] \in {"parse", "insert"} => pos[l] \in Wanted(l, pos[l])

TableInv == TableIsExact /\ \A l \in Starts : RunInv(l)

\* The steps that do not concern the table
LEMMA TableStays ==
    ASSUME TableInv, NEW l \in Starts, \A m \in Starts : m = l,
           UNCHANGED <<storeVars, config, pos>>,
           loop'[l] \in {loop[l], "dead", "error_lock", "error_abort", "error_relock", "error_clear"},
           loop[l] # "none" \/ loop'[l] = "none",
           call[l] \in Begun => call'[l] \in Begun
    PROVE  TableInv'
<1> DEFINE S == Wanted(l, pos[l])
           T == Expected(l, pos[l])
           U == Expected(l, pos[l] - 1)
<1>1. S' = S /\ T' = T /\ U' = U
  BY DEF Wanted, Expected, BeforeStop, Superseded
<1>2. RunInv(l)'
  BY <1>1 DEF TableInv, RunInv, Reading, storeVars
<1>3. TableIsExact'
  BY <1>1 DEF TableInv, TableIsExact, storeVars
<1> QED
  BY <1>2, <1>3 DEF TableInv

LEMMA TableCommands ==
    ASSUME TypeOK, TableInv, \A l, m \in Starts : l = m,
           \/ \E c \in Starts : Start(c)
           \/ \E c \in Stops : Stop(c)
           \/ \E c \in Reads : GetState(c)
    PROVE  TableInv'
<1>1. ASSUME NEW c \in Starts, StartBegin(c) PROVE TableInv'
  <2>1. loop[c] = "none" /\ loop'[c] = "none"
    BY <1>1 DEF StartBegin, CallGoes, TableInv, RunInv, Begun
  <2> QED
    BY <2>1 DEF TableInv, TableIsExact, RunInv, Reading
<1>2. ASSUME NEW c \in Starts, StartSpawns(c) PROVE TableInv'
  <2>1. /\ loop' = [loop EXCEPT ![c] = "spawned"] /\ call' = [call EXCEPT ![c] = "store_lock"]
        /\ pos' = [pos EXCEPT ![c] = config[c].from] /\ config' = config
    BY <1>2 DEF StartSpawns, LoopGoes, CallGoes
  <2>2. loop'[c] = "spawned" /\ call'[c] = "store_lock" /\ pos'[c] = config[c].from
    BY <2>1 DEF TypeOK, Calls
  <2>3. config[c].from \in Nat
    BY ConsumerAssumption, LenIsNat DEF TypeOK
  <2> QED
    BY <2>1, <2>2, <2>3 DEF TableInv, TableIsExact, RunInv, Reading, Begun
<1>3. ASSUME NEW c \in Calls, NEW s, call' = [call EXCEPT ![c] = s],
             call[c] \in Begun => s \in Begun, UNCHANGED <<loop, readVars, storeVars>>
      PROVE  TableInv'
  <2>1. ASSUME NEW l \in Starts PROVE TableInv'
    <3>1. call[l] \in Begun => call'[l] \in Begun
      BY <1>3 DEF TypeOK
    <3> QED
      BY <1>3, <3>1, TableStays DEF readVars
  <2>2. CASE Starts = {}
    BY <2>2 DEF TableInv, TableIsExact
  <2> QED
    BY <2>1, <2>2
<1>4. ASSUME NEW c \in Starts,
             StartLock(c) \/ StartRefused(c) \/ StartAccepted(c) \/ StartPanics(c)
               \/ StoreLock(c) \/ StoreHandle(c)
      PROVE  TableInv'
  <2>1. c \in Calls
    BY DEF Calls
  <2> QED
    BY <1>3, <1>4, <2>1 DEF StartLock, StartRefused, StartAccepted, StartPanics, StoreLock,
                            StoreHandle, CallGoes, Begun, readVars
<1>5. ASSUME NEW c \in Stops, Stop(c) PROVE TableInv'
  <2>1. c \in Calls
    BY DEF Calls
  <2> QED
    BY <1>3, <1>5, <2>1 DEF Stop, StopBegin, StopLock, StopAbort, StopRelock, StopClear,
                            CallGoes, Begun, readVars
<1>6. ASSUME NEW c \in Reads, GetState(c) PROVE TableInv'
  <2>1. c \in Calls
    BY DEF Calls
  <2> QED
    BY <1>3, <1>6, <2>1 DEF GetState, StateLock, StateRead, CallGoes, Begun, readVars
<1> QED
  BY <1>1, <1>2, <1>4, <1>5, <1>6 DEF Start

LEMMA TableLoops ==
    ASSUME TypeOK, TableInv, \A l, m \in Starts : l = m, "insert" \notin Faults,
           NEW l \in Starts, LoopRuns(l) \/ StreamError(l) \/ StreamEnds(l)
    PROVE  TableInv'
<1>0. /\ pos[l] \in 0..Len(Log) /\ config[l].from \in Nat /\ Len(Log) \in Nat
      /\ RunInv(l) /\ l \in Calls
  BY ConsumerAssumption, LenIsNat DEF TypeOK, TableInv, Calls
<1>1. CASE LoopResets(l)
  <2>1. loop[l] = "spawned" /\ loop'[l] = "drop" /\ counter' = 0
        /\ UNCHANGED <<call, config, pos>>
    BY <1>1 DEF LoopResets, LoopGoes, ResetCounter, TypeOK, readVars
  <2> QED
    BY <1>0, <2>1 DEF TableInv, TableIsExact, RunInv, Reading
<1>2. CASE LoopDrops(l)
  <2>1. loop[l] = "drop" /\ loop'[l] = "create" /\ rows' = {}
        /\ UNCHANGED <<call, config, pos, counter>>
    BY <1>2 DEF LoopDrops, LoopGoes, DropTable, TypeOK, readVars
  <2> QED
    BY <1>0, <2>1 DEF TableInv, TableIsExact, RunInv, Reading
<1>3. CASE LoopCreates(l)
  <2>1. loop[l] = "create" /\ loop'[l] = "poll" /\ created' = TRUE
        /\ compacted' = config[l].compactify /\ UNCHANGED <<call, config, pos, counter, rows>>
    BY <1>3 DEF LoopCreates, LoopGoes, CreateTable, TypeOK, readVars
  <2>2. Wanted(l, pos[l]) = {}
    BY <1>0, <2>1 DEF RunInv, Wanted
  <2>3. Expected(l, pos[l]) = {} /\ Cardinality(Wanted(l, pos[l])) = 0
    BY <2>2, FS_EmptySet DEF Expected
  <2>4. Expected(l, pos[l])' = {} /\ Cardinality(Wanted(l, pos[l]))' = 0
    BY <2>1, <2>3 DEF Expected, Wanted, BeforeStop, Superseded
  <2> QED
    BY <1>0, <2>1, <2>4 DEF TableInv, TableIsExact, RunInv, Reading
<1>4. CASE SetupPanics(l)
  <2>1. loop[l] # "none" /\ loop'[l] = "dead" /\ UNCHANGED <<storeVars, call, config, pos>>
    BY <1>4 DEF SetupPanics, LoopGoes, CreateRefused, TypeOK, readVars
  <2> QED
    BY <2>1, TableStays
<1>5. CASE LoopReceives(l) \/ LoopPauses(l)
  <2> DEFINE i == pos[l] + 1
             grows == BeforeStop(l, i)
  <2>1. /\ loop[l] = "poll" /\ loop'[l] = IF grows THEN "parse" ELSE "poll"
        /\ pos'[l] = i /\ i \in 1..Len(Log)
        /\ counter' = IF grows THEN counter + 1 ELSE counter
        /\ UNCHANGED <<call, config, created, compacted, rows>>
    BY <1>0, <1>5 DEF LoopReceives, LoopPauses, LoopGoes, Delivered, CountRecord, TypeOK,
                      storeVars
  <2>2. config[l].from < i /\ i - 1 = pos[l]
    BY <1>0, <2>1 DEF RunInv
  <2>3. /\ rows = Expected(l, i - 1) /\ counter = Cardinality(Wanted(l, i - 1))
    BY <2>1, <2>2 DEF TableInv, TableIsExact
  <2>4. /\ Wanted(l, pos[l])' = Wanted(l, i)
        /\ Expected(l, pos[l])' = Expected(l, i)
        /\ Expected(l, pos[l] - 1)' = Expected(l, i - 1)
    BY <2>1 DEF Expected, Wanted, BeforeStop, Superseded
  <2>5. CASE grows
    <3>1. Wanted(l, i) = Wanted(l, i - 1) \cup {i}
          /\ Cardinality(Wanted(l, i)) = Cardinality(Wanted(l, i - 1)) + 1
      BY <2>1, <2>2, <2>5, WantedGrows
    <3>2. RunInv(l)'
      BY <1>0, <2>1, <2>2, <2>4, <2>5, <3>1 DEF RunInv, Reading
    <3>3. TableIsExact'
      BY <2>1, <2>3, <2>4, <2>5, <3>1 DEF TableIsExact
    <3> QED
      BY <3>2, <3>3 DEF TableInv
  <2>6. CASE ~grows
    <3>1. Wanted(l, i) = Wanted(l, i - 1) /\ Expected(l, i) = Expected(l, i - 1)
      BY <2>1, <2>2, <2>6, WantedGrows DEF Expected
    <3>2. RunInv(l)'
      BY <1>0, <2>1, <2>2, <2>4, <2>6 DEF RunInv, Reading
    <3>3. TableIsExact'
      BY <2>1, <2>3, <2>4, <2>6, <3>1 DEF TableIsExact
    <3> QED
      BY <3>2, <3>3 DEF TableInv
  <2> QED
    BY <2>5, <2>6
<1>6. CASE LoopParses(l)
  <2>1. loop[l] = "parse" /\ loop'[l] = "insert"
        /\ UNCHANGED <<call, config, pos, counter, created, compacted, rows>>
    BY <1>6 DEF LoopParses, LoopGoes, TypeOK, readVars, storeVars
  <2>2. /\ Wanted(l, pos[l])' = Wanted(l, pos[l])
        /\ Expected(l, pos[l] - 1)' = Expected(l, pos[l] - 1)
    BY <2>1 DEF Expected, Wanted, BeforeStop, Superseded
  <2>3. RunInv(l)'
    BY <1>0, <2>1, <2>2 DEF RunInv, Reading
  <2>4. TableIsExact'
    BY <2>1, <2>2 DEF TableInv, TableIsExact
  <2> QED
    BY <2>3, <2>4 DEF TableInv
<1>7. CASE LoopInserts(l)
  <2>1. loop[l] = "insert" /\ loop'[l] = "poll"
        /\ rows' = (rows \ Conflicts(pos[l])) \cup {pos[l]}
        /\ UNCHANGED <<call, config, pos, counter, created, compacted>>
    BY <1>7 DEF LoopInserts, InsertRow, LoopGoes, TypeOK, readVars
  <2>2. pos[l] \in Wanted(l, pos[l]) /\ compacted = config[l].compactify
        /\ rows = Expected(l, pos[l] - 1) /\ counter = Cardinality(Wanted(l, pos[l]))
    BY <1>0, <2>1 DEF RunInv, Reading, TableInv, TableIsExact
  <2>3. pos[l] \in 1..Len(Log)
    BY <1>0, <2>2 DEF Wanted
  <2>4. rows' = Expected(l, pos[l])
    BY <2>1, <2>2, <2>3, InsertKeepsExpected
  <2>5. /\ Wanted(l, pos[l])' = Wanted(l, pos[l])
        /\ Expected(l, pos[l])' = Expected(l, pos[l])
    BY <2>1 DEF Expected, Wanted, BeforeStop, Superseded
  <2>6. RunInv(l)'
    BY <1>0, <2>1 DEF RunInv, Reading
  <2>7. TableIsExact'
    BY <2>1, <2>2, <2>4, <2>5 DEF TableIsExact
  <2> QED
    BY <2>6, <2>7 DEF TableInv
<1>8. ~InsertFails(l)
  BY <1>0 DEF InsertFails, LoopGoes, InsertRefused, RunInv, Reading
<1>9. CASE \/ ErrorLock(l) \/ ErrorAbort(l) \/ ErrorRelock(l) \/ ErrorClear(l)
           \/ StreamError(l) \/ StreamEnds(l) \/ Cancelled(l)
  <2>1. /\ loop[l] # "none"
        /\ loop'[l] \in {"dead", "error_lock", "error_abort", "error_relock", "error_clear"}
        /\ UNCHANGED <<storeVars, call, config, pos>>
    BY <1>9 DEF ErrorLock, ErrorAbort, ErrorRelock, ErrorClear, StreamError, StreamEnds,
                Cancelled, Waiting, LoopGoes, TypeOK, readVars
  <2> QED
    BY <2>1, TableStays
<1> QED
  BY <1>1, <1>2, <1>3, <1>4, <1>5, <1>6, <1>7, <1>8, <1>9 DEF LoopRuns

\* While one loop fills the table and no row is refused, the table holds exactly the
\* records that were asked for and received, the last of each key if it is compacted,
\* and the counter has counted each of them once.
THEOREM TableExact ==
    ASSUME \A l, m \in Starts : l = m, "insert" \notin Faults
    PROVE  Spec => []TableIsExact
<1>1. Init => TableInv
  BY DEF Init, TableInv, TableIsExact, RunInv, Reading
<1>2. TypeOK /\ TableInv /\ [Next]_vars => TableInv'
  <2> SUFFICES ASSUME TypeOK, TableInv, [Next]_vars PROVE TableInv'
    OBVIOUS
  <2>1. CASE Next
    BY <2>1, TableCommands, TableLoops DEF Next
  <2>2. CASE UNCHANGED vars
    <3>1. ASSUME NEW l \in Starts PROVE TableInv'
      <4>1. UNCHANGED <<storeVars, config, pos, loop, call>>
        BY <2>2 DEF vars, controlVars, readVars
      <4> QED
        BY <4>1, TableStays
    <3>2. CASE Starts = {}
      BY <3>2 DEF TableInv, TableIsExact
    <3> QED
      BY <3>1, <3>2
  <2> QED
    BY <2>1, <2>2
<1>3. TableInv => TableIsExact
  BY DEF TableInv
<1> QED
  BY <1>1, <1>2, <1>3, TypeCorrect, PTL DEF Spec
=============================================================================
