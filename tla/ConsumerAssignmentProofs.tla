----------------------- MODULE ConsumerAssignmentProofs -----------------------
(***************************************************************************)
(* Proofs about ConsumerAssignment, for any partitions, timestamps and     *)
(* configurations: what each mode promises of the offsets it assigns holds *)
(* while the partitions grow and shrink, and a pause loses nothing.        *)
(***************************************************************************)
EXTENDS ConsumerAssignment, SequenceTheorems,
        WellFoundedInduction, TLAPS

-----------------------------------------------------------------------------
(* Type correctness *)

LEMMA NaturalMinimum ==
    ASSUME NEW S, S \subseteq Nat, S # {}
    PROVE  \E m \in S : \A n \in S : m <= n
<1>1. PICK m \in S : \A n \in S : <<n, m>> \notin OpToRel(<, Nat)
  BY NatLessThanWellFounded, WFMin
<1>2. \A n \in S : ~(n < m)
  BY <1>1 DEF OpToRel
<1> QED
  BY <1>2

\* What the question for a timestamp is answered.
LEMMA FirstSinceAnswers ==
    ASSUME NEW p \in Partitions, TypeOK, NEW t \in Nat
    PROVE  /\ FirstSince(p, t) = LogEnd => Since(p, t) = {}
           /\ FirstSince(p, t) # LogEnd =>
                 /\ FirstSince(p, t) \in Since(p, t)
                 /\ \A o \in Since(p, t) : FirstSince(p, t) <= o
           /\ Since(p, t) \subseteq Nat
<1>1. Since(p, t) \subseteq Nat
  BY DEF Since, Offsets, End, TypeOK
<1>2. CASE Since(p, t) = {}
  BY <1>1, <1>2 DEF FirstSince
<1>3. CASE Since(p, t) # {}
  <2>1. \E o \in Since(p, t) : \A q \in Since(p, t) : o <= q
    BY <1>1, <1>3, NaturalMinimum
  <2>2. FirstSince(p, t) = CHOOSE o \in Since(p, t) : \A q \in Since(p, t) : o <= q
    BY <1>3 DEF FirstSince
  <2>3. FirstSince(p, t) \in Since(p, t) /\ \A o \in Since(p, t) : FirstSince(p, t) <= o
    BY <2>1, <2>2
  <2>4. LogEnd \notin Since(p, t)
    BY <1>1, AssignmentAssumption
  <2> QED
    BY <1>1, <2>3, <2>4
<1> QED
  BY <1>2, <1>3

\* What is stored for the commit is one less than what was assigned.
GroupInv ==
    \A p \in Partitions : offsets[p] # None =>
        step \in {"store", "done", "failed"} /\ from[p] \in Nat /\ offsets[p] = from[p] - 1

TypeInv == TypeOK /\ GroupInv

LEMMA TypeInit == Init => TypeInv
<1> SUFFICES ASSUME Init PROVE TypeInv
  OBVIOUS
<1>1. (CHOOSE c \in Configs : TRUE) \in Configs
  BY AssignmentAssumption
<1>2. \A p \in Partitions : Len(log[p]) = 0
  BY DEF Init
<1> QED
  BY <1>1, <1>2, AssignmentAssumption DEF Init, TypeInv, TypeOK, GroupInv, Unknown,
        Steps, End

\* What is committed was assigned.
LEMMA CommittedIsAssigned ==
    ASSUME TypeInv, step = "store", Known(offsets)
    PROVE  Committing = from
BY AssignmentAssumption DEF TypeInv, TypeOK, GroupInv, Known, Committing

LEMMA TypeNext == TypeInv /\ [Next]_vars => TypeInv'
<1> SUFFICES ASSUME TypeInv, [Next]_vars PROVE TypeInv'
  OBVIOUS
<1> USE AssignmentAssumption DEF TypeInv, TypeOK, GroupInv, Steps, brokerVars, callVars, answerVars, clientVars,
        groupVars, Known, Unknown
<1>1. ASSUME NEW p \in Partitions, Arrives(p) PROVE TypeInv'
  <2>1. PICK t \in Times : log' = [log EXCEPT ![p] = Append(@, t)]
    BY <1>1 DEF Arrives
  <2>2. log' \in [Partitions -> Seq(Times)]
    BY <2>1
  <2>3. \A q \in Partitions : first[q] <= Len(log'[q])
    BY <2>1 DEF End
  <2> QED
    BY <1>1, <2>2, <2>3 DEF Arrives, End
<1>2. ASSUME NEW p \in Partitions, Expires(p) PROVE TypeInv'
  BY <1>2 DEF Expires, End
<1>3. CASE Begin
  BY <1>3 DEF Begin, End
<1>4. ASSUME NEW p \in Partitions, AskEnd(p) PROVE TypeInv'
  BY <1>4 DEF AskEnd, End
<1>5. ASSUME NEW p \in Partitions, AskTime(p) PROVE TypeInv'
  <2>1. config.start \in Nat
    BY DEF Configurations
  <2>2. FirstSince(p, config.start) \in Nat \cup {LogEnd}
    BY <2>1, FirstSinceAnswers
  <2> QED
    BY <1>5, <2>2 DEF AskTime, End
<1>6. CASE AskFails \/ StoreFails
  BY <1>6 DEF AskFails, StoreFails, End
<1>7. CASE Assign
  <2>1. \A p \in Partitions : StartOffset(p) \in Nat
    BY <1>7 DEF Assign, StartOffset, Configurations
  <2>2. /\ from' = [p \in Partitions |-> StartOffset(p)] /\ next' = from'
        /\ UNCHANGED <<brokerVars, callVars, answerVars, paused, stored, groupVars>>
        /\ step = "ask" /\ step' \in {"consume", "store"}
    BY <1>7 DEF Assign
  <2>3. \A p \in Partitions : offsets[p] = None
    BY <2>2
  <2>4. from' \in [Partitions -> Nat] /\ next' \in [Partitions -> Nat]
    BY <2>1, <2>2
  <2> QED
    BY <2>2, <2>3, <2>4 DEF End
<1>8. ASSUME NEW p \in Partitions, Resets(p) PROVE TypeInv'
  BY <1>8 DEF Resets, End
<1>9. ASSUME NEW p \in Partitions, StoresRecord(p) \/ PausesPartition(p) PROVE TypeInv'
  <2>1. next[p] \in Nat /\ next' = [next EXCEPT ![p] = @ + 1]
    BY <1>9 DEF StoresRecord, PausesPartition, Delivers
  <2>2. stored' \in [Partitions -> SUBSET Nat] /\ paused' \subseteq Partitions
    <3>1. CASE StoresRecord(p)
      BY <2>1, <3>1 DEF StoresRecord
    <3>2. CASE PausesPartition(p)
      BY <3>2 DEF PausesPartition
    <3> QED
      BY <1>9, <3>1, <3>2
  <2>3. UNCHANGED <<brokerVars, step, callVars, answerVars, from, groupVars>>
    BY <1>9 DEF StoresRecord, PausesPartition, Delivers
  <2>4. next' \in [Partitions -> Nat \cup {None}] /\ \A q \in Partitions : next'[q] # None <=> next[q] # None
    BY <2>1
  <2>5. TypeOK'
    BY <2>2, <2>3, <2>4 DEF End
  <2>6. GroupInv'
    BY <2>3
  <2> QED
    BY <2>5, <2>6
<1>10. ASSUME NEW p \in Partitions, StoresOffset(p) PROVE TypeInv'
  <2>1. from[p] \in Nat
    BY <1>10 DEF StoresOffset
  <2> QED
    BY <1>10, <2>1 DEF StoresOffset, End
<1>11. CASE Commits \/ CommitFails
  <2>1. Committing = from /\ from \in [Partitions -> Nat \cup {None}]
    BY <1>11, CommittedIsAssigned DEF Commits, CommitFails
  <2> QED
    BY <1>11, <2>1 DEF Commits, CommitFails, End
<1>12. CASE UNCHANGED vars
  BY <1>12 DEF vars, End
<1> QED
  BY <1>1, <1>2, <1>3, <1>4, <1>5, <1>6, <1>7, <1>8, <1>9, <1>10, <1>11, <1>12
     DEF Next, Broker, Call, Consumes

\* Every variable keeps its type, and no offset is used before it is known.
THEOREM TypeCorrect == Spec => []TypeOK
<1>1. TypeInv => TypeOK
  BY DEF TypeInv
<1> QED
  BY <1>1, TypeInit, TypeNext, PTL DEF Spec

\* A group is moved in one step to what was assigned, all partitions together.
THEOREM GroupsMoveAtOnce == Spec => GroupMovesAtOnce
<1>1. ASSUME TypeInv, [Next]_vars PROVE [committed' # committed => committed' = from]_vars
  <2>1. CASE Commits \/ CommitFails
    BY <1>1, <2>1, CommittedIsAssigned DEF Commits, CommitFails
  <2>2. CASE ~(Commits \/ CommitFails)
    BY <1>1, <2>2 DEF Next, Broker, Call, Consumes, Arrives, Expires, Begin, AskEnd, AskTime, AskFails,
       Assign, Resets, StoresRecord, PausesPartition, Delivers, StoresOffset, StoreFails, groupVars, vars
  <2> QED
    BY <2>1, <2>2
<1> QED
  BY <1>1, TypeInit, TypeNext, PTL DEF Spec, GroupMovesAtOnce

-----------------------------------------------------------------------------
(* The broker goes on meanwhile *)

\* The records of a partition stay where they are, and expire in order.
LogGrows ==
    \A p \in Partitions :
        /\ End(p) \in Nat /\ End(p)' \in Nat /\ End(p) <= End(p)'
        /\ first[p] \in Nat /\ first'[p] \in Nat /\ first[p] <= first'[p]
        /\ \A o \in Offsets(p) : Stamp(p, o) \in Nat /\ Stamp(p, o)' = Stamp(p, o)
        /\ \A o \in Offsets(p)' : Stamp(p, o)' \in Nat

\* Timestamps are numbers.
LEMMA StampsAreNumbers ==
    ASSUME NEW records \in Seq(Times)
    PROVE  Len(records) \in Nat /\ \A i \in 1..Len(records) : records[i] \in Nat
<1>1. Times \subseteq Nat
  BY AssignmentAssumption
<1>2. Len(records) \in Nat
  OBVIOUS
<1>3. \A i \in 1..Len(records) : records[i] \in Times
  BY ElementOfSeq
<1> QED
  BY <1>1, <1>2, <1>3

LEMMA LogStep ==
    ASSUME TypeOK, TypeOK', [Next]_vars
    PROVE  LogGrows
<1> DEFINE Kept(p) == /\ Len(log[p]) <= Len(log'[p]) /\ first[p] <= first'[p]
                      /\ \A i \in 1..Len(log[p]) : log'[p][i] = log[p][i]
<1>1. \A p \in Partitions :
          /\ log[p] \in Seq(Times) /\ log'[p] \in Seq(Times)
          /\ first[p] \in Nat /\ first'[p] \in Nat
  BY DEF TypeOK
<1>2. ASSUME NEW p \in Partitions
      PROVE  Kept(p)
  <2>1. ASSUME NEW q \in Partitions, Arrives(q) PROVE Kept(p)
    <3>1. PICK t \in Times : log' = [log EXCEPT ![q] = Append(@, t)]
      BY <2>1 DEF Arrives
    <3>2. log'[p] = log[p] \/ log'[p] = Append(log[p], t)
      BY <3>1 DEF TypeOK
    <3>3. first'[p] = first[p]
      BY <2>1 DEF Arrives
    <3> QED
      BY <1>1, <3>2, <3>3
  <2>2. ASSUME NEW q \in Partitions, Expires(q) PROVE Kept(p)
    BY <1>1, <2>2 DEF Expires, TypeOK
  <2>3. CASE UNCHANGED <<log, first>>
    BY <1>1, <2>3
  <2>4. CASE ~Broker
    BY <2>3, <2>4 DEF Next, Broker, Call, Consumes, Begin, AskEnd, AskTime, AskFails, Assign, Resets,
       StoresRecord, PausesPartition, Delivers, StoresOffset, StoreFails, Commits, CommitFails, brokerVars, vars
  <2> QED
    BY <2>1, <2>2, <2>4 DEF Broker
<1>3. \A p \in Partitions :
          /\ Len(log[p]) \in Nat /\ \A i \in 1..Len(log[p]) : log[p][i] \in Nat
          /\ Len(log'[p]) \in Nat /\ \A i \in 1..Len(log'[p]) : log'[p][i] \in Nat
  BY <1>1, StampsAreNumbers
<1> QED
  BY <1>1, <1>2, <1>3 DEF LogGrows, Offsets, Stamp, End

-----------------------------------------------------------------------------
(* What the modes promise of the offsets they assign *)

\* No retained record the start timestamp asks for lies before offset n.
NoneBefore(p, n) ==
    \A o \in Offsets(p) : first[p] <= o /\ Stamp(p, o) >= config.start => n <= o

EndAnswer(p) ==
    /\ begun[p] <= End(p)
    /\ ends[p] # None => begun[p] <= ends[p] /\ ends[p] <= End(p)

TimeAnswer(p) ==
    times[p] # None =>
        /\ config.mode = "Custom" /\ Known(ends)
        /\ NoneBefore(p, StartOffset(p))
        /\ times[p] # LogEnd => times[p] < End(p) /\ Stamp(p, times[p]) >= config.start

AnswersInv ==
    /\ step = "idle" => ends = Unknown /\ times = Unknown
    /\ \A p \in Partitions : EndAnswer(p) /\ TimeAnswer(p)

AssignedInv ==
    Assigned =>
        /\ Known(ends)
        /\ config.mode = "Custom" => Known(times)
        /\ \A p \in Partitions : from[p] = StartOffset(p)

LEMMA NoneBeforeKept ==
    ASSUME TypeOK, LogGrows, UNCHANGED config, NEW p \in Partitions,
           NEW n \in Nat, n <= End(p), NoneBefore(p, n)
    PROVE  NoneBefore(p, n)'
<1> SUFFICES ASSUME NEW o \in Offsets(p)', first'[p] <= o, Stamp(p, o)' >= config.start PROVE n <= o
  BY DEF NoneBefore
<1>1. o \in Nat /\ End(p) \in Nat
  BY DEF Offsets, LogGrows
<1>2. CASE o < End(p)
  <2>1. o \in Offsets(p)
    BY <1>1, <1>2 DEF Offsets
  <2>2. Stamp(p, o)' = Stamp(p, o) /\ first[p] <= o
    BY <1>1, <2>1 DEF LogGrows
  <2> QED
    BY <2>1, <2>2 DEF NoneBefore
<1>3. CASE o >= End(p)
  BY <1>1, <1>3
<1> QED
  BY <1>1, <1>2, <1>3

\* The answers stay right while the partitions change.
LEMMA AnswerKept ==
    ASSUME TypeOK, LogGrows, UNCHANGED <<config, begun>>, NEW p \in Partitions,
           ends'[p] = ends[p], times'[p] = times[p], Known(ends) => Known(ends'),
           EndAnswer(p), TimeAnswer(p)
    PROVE  EndAnswer(p)' /\ TimeAnswer(p)'
<1>1. EndAnswer(p)'
  <2>1. ends[p] \in Nat \cup {None} /\ begun[p] \in Nat /\ begun'[p] = begun[p]
    BY DEF TypeOK
  <2> QED
    BY <2>1 DEF EndAnswer, LogGrows
<1>2. CASE times[p] # None
  <2>1. config.mode = "Custom" /\ Known(ends')
    BY <1>2 DEF TimeAnswer
  <2>2. StartOffset(p)' = StartOffset(p)
    BY DEF StartOffset
  <2>3. PICK n : n = StartOffset(p)
    OBVIOUS
  <2>4. n \in Nat /\ n <= End(p)
    BY <1>2, <2>1, <2>3, AssignmentAssumption DEF StartOffset, EndAnswer, TimeAnswer, TypeOK, Known, LogGrows
  <2>5. NoneBefore(p, n)'
    BY <1>2, <2>3, <2>4, NoneBeforeKept DEF TimeAnswer
  <2>6. NoneBefore(p, StartOffset(p))'
    BY <2>2, <2>3, <2>5
  <2>7. ASSUME times[p] # LogEnd PROVE times[p] < End(p)' /\ Stamp(p, times[p])' >= config.start
    <3>1. times[p] \in Nat /\ times[p] < End(p) /\ Stamp(p, times[p]) >= config.start
      BY <1>2, <2>7 DEF TimeAnswer, TypeOK
    <3>2. times[p] \in Offsets(p)
      BY <3>1 DEF Offsets, LogGrows
    <3> QED
      BY <3>1, <3>2 DEF LogGrows
  <2> QED
    BY <1>1, <2>1, <2>6, <2>7 DEF TimeAnswer
<1> QED
  BY <1>1, <1>2 DEF TimeAnswer

LEMMA TimeAnswered ==
    ASSUME TypeOK, NEW p \in Partitions, AskTime(p)
    PROVE  TimeAnswer(p)'
<1>1. /\ config.mode = "Custom" /\ Known(ends)
      /\ times'[p] = FirstSince(p, config.start)
      /\ UNCHANGED <<log, first, config, ends>>
  BY DEF AskTime, TypeOK, brokerVars, callVars
<1>2. config.start \in Nat
  BY AssignmentAssumption DEF TypeOK, Configurations
<1>3. PICK a : a = times'[p]
  OBVIOUS
<1>4. /\ a = LogEnd => Since(p, config.start) = {}
      /\ a # LogEnd => a \in Since(p, config.start) /\ \A o \in Since(p, config.start) : a <= o
  BY <1>1, <1>2, <1>3, FirstSinceAnswers
<1>5. \A o \in Offsets(p) : first[p] <= o /\ Stamp(p, o) >= config.start => a # LogEnd /\ a <= o
  BY <1>4 DEF Since
<1>6. NoneBefore(p, StartOffset(p))'
  BY <1>1, <1>3, <1>5 DEF NoneBefore, StartOffset, Offsets, Stamp, End
<1>7. a # LogEnd => a < End(p) /\ Stamp(p, a) >= config.start
  BY <1>4 DEF Since, Offsets, End, TypeOK
<1> QED
  BY <1>1, <1>3, <1>6, <1>7 DEF TimeAnswer, Known, Stamp, End

LEMMA AnswersNext ==
    ASSUME TypeOK, TypeOK', AnswersInv, [Next]_vars
    PROVE  AnswersInv'
<1> USE DEF brokerVars, callVars, answerVars
<1>1. LogGrows
  BY LogStep
<1>2. CASE Begin
  <2>1. \A p \in Partitions : End(p) \in Nat
    BY <1>1 DEF LogGrows
  <2> QED
    BY <1>2, <2>1 DEF Begin, AnswersInv, EndAnswer, TimeAnswer, Unknown, End
<1>3. ASSUME NEW p \in Partitions, AskEnd(p) PROVE AnswersInv'
  <2>1. /\ ends[p] = None /\ ends' = [ends EXCEPT ![p] = End(p)] /\ step = "ask"
        /\ UNCHANGED <<log, first, step, config, begun, times>>
    BY <1>3 DEF AskEnd
  <2>2. ~Known(ends)
    BY <2>1 DEF Known
  <2>3. \A q \in Partitions : times[q] = None
    BY <2>2 DEF AnswersInv, TimeAnswer
  <2>4. \A q \in Partitions : End(q) \in Nat
    BY <1>1 DEF LogGrows
  <2>5. \A q \in Partitions : EndAnswer(q)'
    BY <2>1, <2>4 DEF AnswersInv, EndAnswer, End, TypeOK
  <2> QED
    BY <2>1, <2>3, <2>5 DEF AnswersInv, TimeAnswer
<1>4. ASSUME NEW p \in Partitions, AskTime(p) PROVE AnswersInv'
  <2>1. /\ step = "ask" /\ UNCHANGED <<log, first, step, config, begun, ends>>
        /\ \A q \in Partitions \ {p} : times'[q] = times[q]
    BY <1>4 DEF AskTime, TypeOK
  <2>2. TimeAnswer(p)'
    BY <1>4, TimeAnswered
  <2>3. EndAnswer(p)'
    BY <2>1 DEF AnswersInv, EndAnswer, End
  <2>4. ASSUME NEW q \in Partitions \ {p} PROVE EndAnswer(q)' /\ TimeAnswer(q)'
    BY <1>1, <2>1, AnswerKept DEF AnswersInv, Known
  <2> QED
    BY <2>1, <2>2, <2>3, <2>4 DEF AnswersInv
<1>5. CASE UNCHANGED <<callVars, answerVars>> /\ (step' = "idle" => step = "idle")
  <2>1. ASSUME NEW p \in Partitions PROVE EndAnswer(p)' /\ TimeAnswer(p)'
    BY <1>1, <1>5, AnswerKept DEF AnswersInv, Known
  <2> QED
    BY <1>5, <2>1 DEF AnswersInv, Unknown
<1>6. CASE ~(Begin \/ \E p \in Partitions : AskEnd(p) \/ AskTime(p))
  BY <1>5, <1>6 DEF Next, Broker, Call, Consumes, Arrives, Expires, AskFails, Assign, Resets,
     StoresRecord, PausesPartition, Delivers, StoresOffset, StoreFails, Commits, CommitFails, vars
<1> QED
  BY <1>2, <1>3, <1>4, <1>6

LEMMA AssignedNext ==
    ASSUME TypeOK, AssignedInv, [Next]_vars
    PROVE  AssignedInv'
<1> USE DEF brokerVars, callVars, answerVars
<1>1. CASE Assign
  <2>1. /\ Known(ends) /\ (config.mode = "Custom" => Known(times))
        /\ UNCHANGED <<config, ends, times>>
        /\ \A p \in Partitions : from'[p] = StartOffset(p)
    BY <1>1 DEF Assign
  <2> QED
    BY <2>1 DEF AssignedInv, Known, StartOffset
<1>2. CASE UNCHANGED <<config, ends, times, from>> /\ (Assigned' => Assigned)
  BY <1>2 DEF AssignedInv, Known, StartOffset
<1>3. CASE ~Assigned'
  BY <1>3 DEF AssignedInv
<1>4. CASE ~Assign
  BY <1>2, <1>3, <1>4 DEF Next, Broker, Call, Consumes, Arrives, Expires, Begin, AskEnd, AskTime,
     AskFails, Resets, StoresRecord, PausesPartition, Delivers, StoresOffset, StoreFails, Commits, CommitFails,
     Assigned, vars
<1> QED
  BY <1>1, <1>4

-----------------------------------------------------------------------------
(* What is stored and what a pause skips *)

StoredInv ==
    /\ step = "consume" => \A p \in Partitions : from[p] <= next[p]
    /\ \A p \in Partitions : \A o \in stored[p] :
           step = "consume" /\ o \in Offsets(p) /\ from[p] <= o

\* A partition is paused only behind a record that is late enough.
PausedInv ==
    \A p \in paused :
        /\ step = "consume"
        /\ \E o \in Offsets(p) : o < next[p] /\ ~BeforeStop(Stamp(p, o))

LEMMA StoredNext ==
    ASSUME TypeOK, TypeOK', StoredInv, [Next]_vars
    PROVE  StoredInv'
<1> USE DEF brokerVars, callVars, answerVars, clientVars
<1>1. LogGrows
  BY LogStep
<1>2. \A p \in Partitions : \A o \in Offsets(p) : o \in Offsets(p)'
  BY <1>1 DEF LogGrows, Offsets
<1>3. CASE Assign
  <2>1. step = "ask" /\ next' = from' /\ stored' = stored
    BY <1>3 DEF Assign
  <2>2. step' = "consume" => \A p \in Partitions : from'[p] <= next'[p]
    BY <2>1 DEF TypeOK, Known
  <2> QED
    BY <2>1, <2>2 DEF StoredInv
<1>4. ASSUME NEW p \in Partitions, Resets(p) PROVE StoredInv'
  <2>1. /\ step = "consume" /\ next[p] < first[p] /\ next' = [next EXCEPT ![p] = End(p)]
        /\ UNCHANGED <<log, step, from, stored>>
    BY <1>4 DEF Resets
  <2>2. from[p] \in Nat /\ next[p] \in Nat /\ first[p] \in Nat /\ End(p) \in Nat /\ first[p] <= End(p)
    BY <1>1, <2>1 DEF TypeOK, Known, LogGrows
  <2>3. \A q \in Partitions : from[q] <= next'[q]
    BY <2>1, <2>2 DEF StoredInv, TypeOK
  <2> QED
    BY <1>2, <2>1, <2>3 DEF StoredInv
<1>5. ASSUME NEW p \in Partitions, StoresRecord(p) \/ PausesPartition(p) PROVE StoredInv'
  <2>1. /\ step = "consume" /\ next[p] < End(p) /\ next' = [next EXCEPT ![p] = @ + 1]
        /\ UNCHANGED <<log, step, from>>
    BY <1>5 DEF StoresRecord, PausesPartition, Delivers
  <2>2. from[p] \in Nat /\ next[p] \in Nat /\ End(p) \in Nat /\ from[p] <= next[p]
    BY <1>1, <2>1 DEF TypeOK, Known, LogGrows, StoredInv
  <2>3. \A q \in Partitions : from[q] <= next'[q]
    BY <2>1, <2>2 DEF StoredInv, TypeOK
  <2>4. next[p] \in Offsets(p)
    BY <2>1, <2>2 DEF Offsets
  <2>5. \A q \in Partitions : \A o \in stored'[q] : o \in stored[q] \/ (q = p /\ o = next[p])
    BY <1>5 DEF StoresRecord, PausesPartition, TypeOK
  <2> QED
    BY <1>2, <2>1, <2>2, <2>3, <2>4, <2>5 DEF StoredInv
<1>6. CASE UNCHANGED <<from, next, stored>> /\ (step = "consume" <=> step' = "consume")
  BY <1>2, <1>6 DEF StoredInv
<1>7. CASE UNCHANGED stored /\ step # "consume" /\ step' # "consume"
  BY <1>7 DEF StoredInv
<1>8. CASE ~(Assign \/ \E p \in Partitions : Consumes(p))
  BY <1>6, <1>7, <1>8 DEF Next, Broker, Call, Arrives, Expires, Begin, AskEnd, AskTime, AskFails,
     StoresOffset, StoreFails, Commits, CommitFails, vars
<1> QED
  BY <1>3, <1>4, <1>5, <1>8 DEF Consumes

LEMMA PausedNext ==
    ASSUME TypeOK, TypeOK', PausedInv, [Next]_vars
    PROVE  PausedInv'
<1> USE DEF brokerVars, callVars, answerVars, clientVars
<1> DEFINE Late(p) == \E o \in Offsets(p) : o < next[p] /\ ~BeforeStop(Stamp(p, o))
<1>1. LogGrows
  BY LogStep
<1>2. ASSUME NEW p \in Partitions, Late(p), step = "consume", UNCHANGED <<step, config>>, next'[p] = next[p]
      PROVE  Late(p)'
  <2>1. PICK o \in Offsets(p) : o < next[p] /\ ~BeforeStop(Stamp(p, o))
    BY <1>2
  <2>2. o \in Offsets(p)' /\ Stamp(p, o)' = Stamp(p, o)
    BY <1>1 DEF LogGrows, Offsets
  <2> QED
    BY <1>2, <2>1, <2>2 DEF BeforeStop
<1>3. ASSUME NEW p \in Partitions, Consumes(p) PROVE PausedInv'
  <2>1. /\ step = "consume" /\ p \notin paused /\ UNCHANGED <<step, config>>
        /\ paused' \subseteq paused \cup {p}
        /\ \A q \in Partitions \ {p} : next'[q] = next[q]
    BY <1>3 DEF Consumes, Resets, StoresRecord, PausesPartition, Delivers, TypeOK
  <2>2. \A q \in paused : Late(q)' 
    BY <1>2, <2>1 DEF PausedInv, TypeOK
  <2>3. ASSUME p \in paused' PROVE Late(p)'
    <3>1. /\ next[p] < End(p) /\ next' = [next EXCEPT ![p] = @ + 1] /\ log' = log
          /\ ~BeforeStop(Stamp(p, next[p]))
      BY <1>3, <2>1, <2>3 DEF Consumes, Resets, StoresRecord, PausesPartition, Delivers
    <3>2. next[p] \in Offsets(p)' /\ next[p] < next'[p]
      BY <1>1, <2>1, <3>1 DEF TypeOK, Known, LogGrows, Offsets, End
    <3> QED
      BY <2>1, <3>1, <3>2 DEF BeforeStop, Stamp
  <2> QED
    BY <2>1, <2>2, <2>3 DEF PausedInv
<1>4. CASE UNCHANGED <<paused, next, step, config>>
  BY <1>2, <1>4 DEF PausedInv, TypeOK
<1>5. CASE UNCHANGED paused /\ step # "consume"
  BY <1>5 DEF PausedInv
<1>6. CASE ~\E p \in Partitions : Consumes(p)
  BY <1>4, <1>5, <1>6 DEF Next, Broker, Call, Arrives, Expires, Begin, AskEnd, AskTime, AskFails, Assign,
     StoresOffset, StoreFails, Commits, CommitFails, vars
<1> QED
  BY <1>3, <1>6

-----------------------------------------------------------------------------
(* The theorems *)

RangeInv == TypeInv /\ AnswersInv /\ AssignedInv /\ StoredInv /\ PausedInv

LEMMA RangeInit == Init => RangeInv
<1> SUFFICES ASSUME Init PROVE RangeInv
  OBVIOUS
<1>1. TypeInv
  BY TypeInit
<1> QED
  BY <1>1 DEF Init, RangeInv, AnswersInv, EndAnswer, TimeAnswer, AssignedInv, Assigned, StoredInv,
     PausedInv, Unknown, End

LEMMA RangeNext == RangeInv /\ [Next]_vars => RangeInv'
BY TypeNext, AnswersNext, AssignedNext, StoredNext, PausedNext DEF RangeInv, TypeInv

LEMMA RangeHolds == Spec => []RangeInv
BY RangeInit, RangeNext, PTL DEF Spec

\* Custom misses no record at or after its start timestamp: neither those that
\* arrive while the offsets are asked for nor those of a partition that had none.
THEOREM NothingIsMissed == Spec => []NoneMissed
<1>1. RangeInv => NoneMissed
  <2> SUFFICES ASSUME RangeInv, Assigned, config.mode = "Custom", NEW p \in Partitions,
                      NEW o \in Offsets(p), first[p] <= o, Stamp(p, o) >= config.start
               PROVE  from[p] <= o
    BY DEF NoneMissed
  <2>1. times[p] # None /\ from[p] = StartOffset(p)
    BY DEF RangeInv, AssignedInv, Known
  <2> QED
    BY <2>1 DEF RangeInv, AnswersInv, TimeAnswer, NoneBefore
<1> QED
  BY <1>1, RangeHolds, PTL

\* End means the end of the partition at some time during the call.
THEOREM EndIsNow == Spec => []EndMeansNow
<1>1. RangeInv => EndMeansNow
  BY DEF RangeInv, AnswersInv, AssignedInv, EndAnswer, EndMeansNow, Known, StartOffset
<1> QED
  BY <1>1, RangeHolds, PTL

\* An old record is stored only if it is new in the partition, or behind one
\* that is not old.
THEOREM OldRecordsAreNew == Spec => []OldOnesAreNew
<1>1. RangeInv => OldOnesAreNew
  <2> SUFFICES ASSUME RangeInv, config.mode = "Custom", NEW p \in Partitions, NEW o \in stored[p],
                      Stamp(p, o) < config.start
               PROVE  begun[p] <= o \/ \E q \in 0..o - 1 : Stamp(p, q) >= config.start
    BY DEF OldOnesAreNew
  <2>1. step = "consume" /\ o \in Offsets(p) /\ from[p] <= o
    BY DEF RangeInv, StoredInv
  <2>2. from[p] = StartOffset(p) /\ times[p] # None /\ Known(ends)
    BY <2>1 DEF RangeInv, AssignedInv, Assigned, Known
  <2>3. o \in Nat /\ begun[p] \in Nat /\ config.start \in Nat
    BY AssignmentAssumption DEF RangeInv, TypeInv, TypeOK, Configurations
  <2>4. CASE times[p] = LogEnd
    <3>1. from[p] = ends[p] /\ ends[p] \in Nat /\ begun[p] <= ends[p]
      BY <2>2, <2>4 DEF StartOffset, Known, RangeInv, AnswersInv, EndAnswer, TypeInv, TypeOK
    <3> QED
      BY <2>1, <2>3, <3>1
  <2>5. CASE times[p] # LogEnd
    <3>1. from[p] = times[p] /\ times[p] \in Nat /\ Stamp(p, times[p]) >= config.start
      BY <2>2, <2>5 DEF StartOffset, RangeInv, AnswersInv, TimeAnswer, TypeInv, TypeOK
    <3>2. Stamp(p, o) \in Nat
      BY <2>1, <2>3, StampsAreNumbers DEF Stamp, TypeInv, TypeOK, RangeInv, Offsets, End
    <3>3. times[p] # o
      BY <2>3, <3>1, <3>2
    <3> QED
      BY <2>1, <2>3, <3>1, <3>3
  <2> QED
    BY <2>4, <2>5
<1> QED
  BY <1>1, RangeHolds, PTL

\* A pause loses nothing of a partition whose timestamps are in order.
THEOREM PausesLoseNothing == Spec => []PauseLosesNothing
<1>1. RangeInv => PauseLosesNothing
  <2> SUFFICES ASSUME RangeInv, NEW p \in paused, Ordered(p), NEW o \in Offsets(p), next[p] <= o
               PROVE  ~BeforeStop(Stamp(p, o))
    BY DEF PauseLosesNothing
  <2>1. PICK late \in Offsets(p) : late < next[p] /\ ~BeforeStop(Stamp(p, late))
    BY DEF RangeInv, PausedInv
  <2>2. p \in Partitions /\ step = "consume" /\ next[p] \in Nat /\ Len(log[p]) \in Nat
    BY AssignmentAssumption DEF RangeInv, PausedInv, TypeInv, TypeOK, Known
  <2>3. late + 1 \in 1..Len(log[p]) /\ o + 1 \in 1..Len(log[p]) /\ late + 1 < o + 1
    BY <2>1, <2>2 DEF Offsets, End
  <2>4. Stamp(p, late) <= Stamp(p, o)
    BY <2>3 DEF Ordered, Stamp
  <2>5. config.stop \in Nat /\ Stamp(p, late) \in Nat /\ Stamp(p, o) \in Nat
    BY <2>2, <2>3, StampsAreNumbers, AssignmentAssumption
       DEF RangeInv, TypeInv, TypeOK, Configurations, Stamp
  <2> QED
    BY <2>1, <2>4, <2>5 DEF BeforeStop
<1> QED
  BY <1>1, RangeHolds, PTL
=============================================================================
