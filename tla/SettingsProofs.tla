---------------------------- MODULE SettingsProofs ----------------------------
(***************************************************************************)
(* Proofs about Settings, for any windows, clusters, files and bounds:     *)
(* what an unreadable file means, and that nobody writes settings that     *)
(* were never loaded.                                                      *)
(***************************************************************************)
EXTENDS Settings, FiniteSetTheorems, SequenceTheorems, TLAPS

-----------------------------------------------------------------------------
(* Sequences of anything *)

IsSequence(s) == \E S : s \in Seq(S)

LEMMA AppendAnything ==
    ASSUME NEW s, IsSequence(s), NEW e
    PROVE  /\ IsSequence(Append(s, e))
           /\ Append(s, e) # <<>>
           /\ \A n \in 1..Len(Append(s, e)) :
                 \/ n \in 1..Len(s) /\ Append(s, e)[n] = s[n]
                 \/ Append(s, e)[n] = e
           /\ s # <<>> => Head(Append(s, e)) = Head(s)
<1>1. PICK S : s \in Seq(S)
  BY DEF IsSequence
<1>2. s \in Seq(S \cup {e}) /\ e \in S \cup {e}
  BY <1>1, SeqMonotonic
<1>3. Append(s, e) \in Seq(S \cup {e}) /\ Len(Append(s, e)) = Len(s) + 1 /\ Len(s) \in Nat
  BY <1>2
<1>4. /\ \A n \in 1..Len(s) : Append(s, e)[n] = s[n]
      /\ Append(s, e)[Len(s) + 1] = e
  BY <1>2
<1>5. Append(s, e) # <<>>
  BY <1>2, <1>3
<1>6. s # <<>> => Head(Append(s, e)) = Head(s)
  <2>1. s # <<>> => 1 \in 1..Len(s) /\ Head(s) = s[1]
    BY <1>2
  <2>2. Head(Append(s, e)) = Append(s, e)[1]
    BY <1>3, <1>5
  <2> QED
    BY <1>4, <2>1, <2>2
<1>7. IsSequence(Append(s, e))
  BY <1>3 DEF IsSequence
<1>8. \A n \in 1..Len(Append(s, e)) : n \in 1..Len(s) \/ n = Len(s) + 1
  BY <1>3
<1> QED
  BY <1>4, <1>5, <1>6, <1>7, <1>8

LEMMA TailOfAnything ==
    ASSUME NEW s, IsSequence(s), s # <<>>
    PROVE  /\ IsSequence(Tail(s))
           /\ \A n \in 1..Len(Tail(s)) : n + 1 \in 1..Len(s) /\ Tail(s)[n] = s[n + 1]
           /\ 1 \in 1..Len(s) /\ Head(s) = s[1]
<1>1. PICK S : s \in Seq(S)
  BY DEF IsSequence
<1>2. Len(s) \in Nat /\ Len(s) # 0
  BY <1>1
<1>3. Tail(s) \in Seq(S) /\ Len(Tail(s)) = Len(s) - 1
      /\ \A n \in 1..Len(Tail(s)) : Tail(s)[n] = s[n + 1]
  BY <1>1, HeadTailProperties
<1> QED
  BY <1>1, <1>2, <1>3 DEF IsSequence
-----------------------------------------------------------------------------
(* An unreadable file *)

\* Nobody can read the file only while it is written or after the application has
\* stopped in a write, if the first start did not find an empty one.
THEOREM EmptyFilesAreExplained ==
    ASSUME \A f \in Files : f.kind # "empty"
    PROVE  Spec => []EmptyFileExplained
<1>1. Init => EmptyFileExplained
  BY DEF Init, EmptyFileExplained
<1>2. ASSUME EmptyFileExplained, [Next]_vars PROVE EmptyFileExplained'
  <2>1. CASE Truncates
    BY <2>1 DEF Truncates, EmptyFileExplained
  <2>2. CASE Writes
    BY <2>2 DEF Writes, EmptyFileExplained
  <2>3. CASE Stops
    BY <1>2, <2>3 DEF Stops, EmptyFileExplained
  <2>4. CASE UNCHANGED fileVars
    BY <1>2, <2>4 DEF fileVars, EmptyFileExplained
  <2>5. ASSUME NEW w \in Windows, NEW config, NEW knows, SetState(w, config, knows)
        PROVE  UNCHANGED fileVars
    BY <2>5 DEF SetState
  <2>6. ASSUME NEW w \in Windows,
               \/ Opens(w) \/ Loads(w) \/ Renders(w) \/ SetsTheme(w) \/ SetsTimeout(w)
               \/ TogglesFavorite(w) \/ DeletesCluster(w) \/ SubmitsForm(w) \/ EndsForm(w)
        PROVE  UNCHANGED fileVars
    BY <2>5, <2>6 DEF Opens, Loads, Renders, SetsTheme, SetsTimeout, TogglesFavorite, DeletesCluster,
                      SubmitsForm, EndsForm
  <2>7. CASE GetsConfiguration \/ WriteRefused \/ UNCHANGED vars
    BY <2>4, <2>7 DEF GetsConfiguration, WriteRefused, vars
  <2> QED
    BY <1>2, <2>1, <2>2, <2>3, <2>4, <2>6, <2>7 DEF Next
<1> QED
  BY <1>1, <1>2, PTL DEF Spec
-----------------------------------------------------------------------------
(* Settings that were loaded *)

IsConfig(c) == c = [clusters |-> c.clusters, theme |-> c.theme, kafka |-> c.kafka]

LEMMA ReadableIsConfig == \A config \in Readable : IsConfig(config)
<1>1. ASSUME NEW store, NEW config \in FromStore(store) PROVE IsConfig(config)
  <2>1. \E cs, theme, kafka : config = [clusters |-> cs, theme |-> theme, kafka |-> kafka]
    BY DEF FromStore
  <2> QED
    BY <2>1 DEF IsConfig
<1>2. ASSUME NEW old PROVE IsConfig(FromLegacy(old))
  <2>1. \A theme, cs : [DefaultConfig EXCEPT !.theme = theme, !.clusters = cs]
                       = [clusters |-> cs, theme |-> theme, kafka |-> 20]
    <3> SUFFICES ASSUME NEW theme, NEW cs
                 PROVE  [DefaultConfig EXCEPT !.theme = theme, !.clusters = cs]
                        = [clusters |-> cs, theme |-> theme, kafka |-> 20]
      OBVIOUS
    <3>1. [DefaultConfig EXCEPT !.theme = theme]
          = [clusters |-> <<>>, theme |-> theme, kafka |-> 20]
      BY DEF DefaultConfig
    <3>2. [[clusters |-> <<>>, theme |-> theme, kafka |-> 20] EXCEPT !.clusters = cs]
          = [clusters |-> cs, theme |-> theme, kafka |-> 20]
      OBVIOUS
    <3> QED
      BY <3>1, <3>2
  <2>2. \E cs : FromLegacy(old) = [DefaultConfig EXCEPT !.theme = old.theme, !.clusters = cs]
    BY DEF FromLegacy
  <2>3. \E cs : FromLegacy(old) = [clusters |-> cs, theme |-> old.theme, kafka |-> 20]
    BY <2>1, <2>2
  <2> QED
    BY <2>3 DEF IsConfig
<1>3. IsConfig(DefaultConfig)
  BY DEF DefaultConfig, IsConfig
<1> QED
  BY <1>1, <1>2, <1>3 DEF Readable

\* The copies of the windows: one with a Kafka timeout was loaded or changed knowingly.
WindowInv ==
    /\ known \in [Windows -> BOOLEAN]
    /\ state = [w \in Windows |-> state[w]]
    /\ reply = [w \in Windows |-> reply[w]]
    /\ \A w \in Windows : /\ IsConfig(state[w])
                          /\ state[w].kafka # 0 => known[w] = TRUE
                          /\ IsSequence(reply[w])
                          /\ \A n \in 1..Len(reply[w]) : IsConfig(reply[w][n])

\* A command that will not be refused is known.
CommandFits(command) ==
    command.op = "write" /\ command.config.kafka # 0 => command.known = TRUE

QueueInv ==
    /\ IsSequence(queue)
    /\ \A n \in 1..Len(queue) : CommandFits(queue[n])
    /\ writing => /\ queue # <<>>
                  /\ Head(queue).op = "write"
                  /\ Head(queue).config.kafka # 0

KnownInv == WindowInv /\ QueueInv

LEMMA KnownInit == Init => KnownInv
<1> SUFFICES ASSUME Init PROVE KnownInv
  OBVIOUS
<1>1. IsSequence(<<>>) /\ Len(<<>>) = 0
  BY EmptySeq DEF IsSequence
<1>2. IsConfig(DefaultAppState) /\ DefaultAppState.kafka = 0
  BY DEF DefaultAppState, IsConfig
<1>3. WindowInv
  BY <1>1, <1>2 DEF Init, WindowInv
<1>4. QueueInv
  BY <1>1 DEF Init, QueueInv
<1> QED
  BY <1>3, <1>4 DEF KnownInv

\* One more command that fits
LEMMA Invoked ==
    ASSUME QueueInv, NEW command, Invoke(command), CommandFits(command), UNCHANGED writing
    PROVE  QueueInv'
<1>1. queue' = Append(queue, command)
  BY DEF Invoke
<1> QED
  BY <1>1, AppendAnything DEF QueueInv

\* One command less
LEMMA IsDone ==
    ASSUME QueueInv, queue # <<>>, Done, ~writing'
    PROVE  QueueInv'
<1>1. queue' = Tail(queue)
  BY DEF Done
<1> QED
  BY <1>1, TailOfAnything DEF QueueInv

LEMMA StateIsSet ==
    ASSUME KnownInv, NEW w \in Windows, NEW config, NEW knows \in BOOLEAN,
           SetState(w, config, knows), IsConfig(config), config.kafka # 0 => knows = TRUE
    PROVE  KnownInv'
<1> DEFINE command == [window |-> w, op |-> "write", config |-> config, known |-> knows]
<1>1. /\ state' = [state EXCEPT ![w] = config] /\ known' = [known EXCEPT ![w] = knows]
      /\ UNCHANGED <<reply, writing>> /\ Invoke(command)
  BY DEF SetState, fileVars
<1>2. state'[w] = config /\ known'[w] = knows
      /\ \A v \in Windows \ {w} : state'[v] = state[v] /\ known'[v] = known[v]
  BY <1>1 DEF KnownInv, WindowInv
<1>3. state' = [v \in Windows |-> state'[v]] /\ known' \in [Windows -> BOOLEAN]
  BY <1>1 DEF KnownInv, WindowInv
<1>4. WindowInv'
  BY <1>1, <1>2, <1>3 DEF KnownInv, WindowInv
<1>5. CommandFits(command)
  BY DEF CommandFits
<1>6. QueueInv'
  BY <1>1, <1>5, Invoked DEF KnownInv
<1> QED
  BY <1>4, <1>6 DEF KnownInv

LEMMA KnownSets ==
    ASSUME KnownInv, NEW w \in Windows,
           SetsTheme(w) \/ SetsTimeout(w) \/ TogglesFavorite(w) \/ DeletesCluster(w) \/ EndsForm(w)
    PROVE  KnownInv'
<1>1. IsConfig(state[w]) /\ known[w] \in BOOLEAN /\ (state[w].kafka # 0 => known[w] = TRUE)
  BY DEF KnownInv, WindowInv
<1>2. ASSUME NEW x PROVE /\ IsConfig([state[w] EXCEPT !.theme = x])
                         /\ [state[w] EXCEPT !.theme = x].kafka = state[w].kafka
  BY <1>1 DEF IsConfig
<1>3. ASSUME NEW x PROVE /\ IsConfig([state[w] EXCEPT !.clusters = x])
                         /\ [state[w] EXCEPT !.clusters = x].kafka = state[w].kafka
  BY <1>1 DEF IsConfig
<1>4. IsConfig([state[w] EXCEPT !.kafka = 30])
  BY <1>1 DEF IsConfig
<1>5. ASSUME NEW x, SetState(w, [state[w] EXCEPT !.clusters = x], known[w]) PROVE KnownInv'
  BY <1>1, <1>3, <1>5, StateIsSet
<1>6. CASE SetsTheme(w)
  <2>1. PICK x : SetState(w, [state[w] EXCEPT !.theme = x], known[w])
    BY <1>6 DEF SetsTheme
  <2> QED
    BY <1>1, <1>2, <2>1, StateIsSet
<1>7. CASE SetsTimeout(w)
  BY <1>4, <1>7, StateIsSet DEF SetsTimeout
<1>8. CASE TogglesFavorite(w)
  <2>1. \A i, f : \E x : WithFavorites(w, i, f) = [state[w] EXCEPT !.clusters = x]
    BY DEF WithFavorites
  <2>2. \E i, f : SetState(w, WithFavorites(w, i, f), known[w])
    BY <1>8 DEF TogglesFavorite
  <2> QED
    BY <1>5, <2>1, <2>2
<1>9. CASE DeletesCluster(w)
  BY <1>5, <1>9 DEF DeletesCluster
<1>10. CASE EndsForm(w)
  <2>1. \A c : \E x : UpsertCluster(state[w], c) = [state[w] EXCEPT !.clusters = x]
    BY DEF UpsertCluster
  <2>2. \/ \E c : SetState(w, UpsertCluster(state[w], c), known[w])
        \/ UNCHANGED <<fileVars, state, known, reply, queue>>
    BY <1>10 DEF EndsForm
  <2>3. CASE UNCHANGED <<fileVars, state, known, reply, queue>>
    BY <2>3 DEF KnownInv, WindowInv, QueueInv, fileVars
  <2> QED
    BY <1>5, <2>1, <2>2, <2>3
<1> QED
  BY <1>6, <1>7, <1>8, <1>9, <1>10

LEMMA KnownLoads ==
    ASSUME KnownInv, NEW w \in Windows, Loads(w)
    PROVE  KnownInv'
<1>1. /\ state' = [state EXCEPT ![w] = Head(reply[w])] /\ known' = [known EXCEPT ![w] = TRUE]
      /\ reply' = [reply EXCEPT ![w] = Tail(@)] /\ reply[w] # <<>>
      /\ UNCHANGED <<writing, queue>>
  BY DEF Loads, fileVars
<1>2. state'[w] = Head(reply[w]) /\ known'[w] = TRUE /\ reply'[w] = Tail(reply[w])
      /\ \A v \in Windows \ {w} : /\ state'[v] = state[v] /\ known'[v] = known[v]
                                  /\ reply'[v] = reply[v]
  BY <1>1 DEF KnownInv, WindowInv
<1>3. /\ state' = [v \in Windows |-> state'[v]] /\ known' \in [Windows -> BOOLEAN]
      /\ reply' = [v \in Windows |-> reply'[v]]
  BY <1>1 DEF KnownInv, WindowInv
<1>4. /\ IsSequence(reply[w]) /\ \A n \in 1..Len(reply[w]) : IsConfig(reply[w][n])
  BY DEF KnownInv, WindowInv
<1>5. /\ IsConfig(Head(reply[w])) /\ IsSequence(Tail(reply[w]))
      /\ \A n \in 1..Len(Tail(reply[w])) : IsConfig(Tail(reply[w])[n])
  BY <1>1, <1>4, TailOfAnything
<1>6. WindowInv'
  BY <1>2, <1>3, <1>5 DEF KnownInv, WindowInv
<1>7. QueueInv'
  BY <1>1 DEF KnownInv, QueueInv
<1> QED
  BY <1>6, <1>7 DEF KnownInv

LEMMA KnownCommands ==
    ASSUME KnownInv, GetsConfiguration \/ Truncates \/ Writes \/ WriteRefused
    PROVE  KnownInv'
<1>1. CASE GetsConfiguration
  <2>1. queue # <<>> /\ Head(queue).op = "get" /\ Done /\ UNCHANGED <<state, known, writing>>
    BY <1>1 DEF GetsConfiguration, First, fileVars
  <2>2. QueueInv'
    BY <2>1, IsDone DEF KnownInv, QueueInv
  <2>3. \/ UNCHANGED reply
        \/ \E w, config : IsConfig(config) /\ reply' = [reply EXCEPT ![w] = Append(@, config)]
    BY <1>1, ReadableIsConfig DEF GetsConfiguration
  <2>4. WindowInv'
    <3>1. CASE UNCHANGED reply
      BY <2>1, <3>1 DEF KnownInv, WindowInv
    <3>2. ASSUME NEW w, NEW config, IsConfig(config),
                 reply' = [reply EXCEPT ![w] = Append(@, config)]
          PROVE  WindowInv'
      <4>1. reply' = [v \in Windows |-> reply'[v]]
            /\ \A v \in Windows : reply'[v] = IF v = w THEN Append(reply[v], config) ELSE reply[v]
        BY <3>2 DEF KnownInv, WindowInv
      <4>2. \A v \in Windows : /\ IsSequence(reply'[v])
                               /\ \A n \in 1..Len(reply'[v]) : IsConfig(reply'[v][n])
        BY <3>2, <4>1, AppendAnything DEF KnownInv, WindowInv
      <4> QED
        BY <2>1, <4>1, <4>2 DEF KnownInv, WindowInv
    <3> QED
      BY <2>3, <3>1, <3>2
  <2> QED
    BY <2>2, <2>4 DEF KnownInv
<1>2. CASE Truncates
  BY <1>2 DEF Truncates, First, Accepted, windowVars, KnownInv, WindowInv, QueueInv
<1>3. CASE Writes
  <2>1. WindowInv'
    BY <1>3 DEF Writes, windowVars, KnownInv, WindowInv
  <2>2. QueueInv'
    BY <1>3, IsDone DEF Writes, KnownInv, QueueInv
  <2> QED
    BY <2>1, <2>2 DEF KnownInv
<1>4. CASE WriteRefused
  <2>1. WindowInv'
    BY <1>4 DEF WriteRefused, windowVars, KnownInv, WindowInv
  <2>2. QueueInv'
    BY <1>4, IsDone DEF WriteRefused, First, fileVars, KnownInv
  <2> QED
    BY <2>1, <2>2 DEF KnownInv
<1> QED
  BY <1>1, <1>2, <1>3, <1>4

LEMMA KnownStep == KnownInv /\ [Next]_vars => KnownInv'
<1> SUFFICES ASSUME KnownInv, [Next]_vars PROVE KnownInv'
  OBVIOUS
<1>1. CASE GetsConfiguration \/ Truncates \/ Writes \/ WriteRefused
  BY <1>1, KnownCommands
<1>2. CASE Stops
  <2>1. /\ IsSequence(<<>>) /\ Len(<<>>) = 0
        /\ IsConfig(DefaultAppState) /\ DefaultAppState.kafka = 0
    BY EmptySeq DEF IsSequence, DefaultAppState, IsConfig
  <2>2. WindowInv'
    BY <1>2, <2>1 DEF Stops, WindowInv
  <2>3. QueueInv'
    BY <1>2, <2>1 DEF Stops, QueueInv
  <2> QED
    BY <2>2, <2>3 DEF KnownInv
<1>3. ASSUME NEW w \in Windows, Opens(w) PROVE KnownInv'
  <2>1. CommandFits([window |-> w, op |-> "get", config |-> DefaultAppState, known |-> FALSE])
    BY DEF CommandFits
  <2>2. QueueInv'
    BY <1>3, <2>1, Invoked DEF Opens, fileVars, KnownInv
  <2>3. WindowInv'
    BY <1>3 DEF Opens, KnownInv, WindowInv
  <2> QED
    BY <2>2, <2>3 DEF KnownInv
<1>4. ASSUME NEW w \in Windows, SubmitsForm(w) \/ Renders(w) PROVE KnownInv'
  BY <1>4 DEF SubmitsForm, Renders, fileVars, KnownInv, WindowInv, QueueInv
<1>5. CASE UNCHANGED vars
  BY <1>5 DEF vars, fileVars, windowVars, KnownInv, WindowInv, QueueInv
<1> QED
  BY <1>1, <1>2, <1>3, <1>4, <1>5, KnownLoads, KnownSets DEF Next

\* No window overwrites the file with settings that it has not loaded, unless the user has
\* set the Kafka timeout in it.
THEOREM UnknownIsNotSaved == Spec => []OnlyKnownIsSaved
<1>1. KnownInv => OnlyKnownIsSaved
  <2> SUFFICES ASSUME KnownInv, writing PROVE Head(queue).known
    BY DEF OnlyKnownIsSaved
  <2>1. queue # <<>> /\ Head(queue).op = "write" /\ Head(queue).config.kafka # 0
    BY DEF KnownInv, QueueInv
  <2>2. Head(queue) = queue[1] /\ 1 \in 1..Len(queue)
    BY <2>1, TailOfAnything DEF KnownInv, QueueInv
  <2>3. Head(queue).known = TRUE
    BY <2>1, <2>2 DEF KnownInv, QueueInv, CommandFits
  <2> QED
    BY <2>3
<1> QED
  BY <1>1, KnownInit, KnownStep, PTL DEF Spec
-----------------------------------------------------------------------------
(* Part of a sequence: what Filter keeps.  The places I are a set of numbers, and the n-th *)
(* of them is the one that has n - 1 below it. *)

Below(i, I) == {j \in I \ {i} : j < i}

\* Every rank is taken: as many ranks as places, no two places with the same one.
LEMMA RanksAreTaken ==
    ASSUME NEW I \in SUBSET Int, IsFiniteSet(I), NEW n \in 1..Cardinality(I)
    PROVE  \E i \in I : Cardinality(Below(i, I)) = n - 1
<1> DEFINE N == 1..Cardinality(I)
           rank == [i \in I |-> Cardinality(Below(i, I)) + 1]
<1>1. Cardinality(I) \in Nat
  BY FS_CardinalityType
<1>2. ASSUME NEW i \in I
      PROVE  /\ IsFiniteSet(Below(i, I)) /\ Cardinality(Below(i, I)) \in Nat
             /\ rank[i] \in N
  <2>1. Below(i, I) \in SUBSET I /\ Below(i, I) # I
    BY DEF Below
  <2>2. /\ IsFiniteSet(Below(i, I)) /\ Cardinality(Below(i, I)) <= Cardinality(I)
        /\ Cardinality(Below(i, I)) # Cardinality(I)
    BY <2>1, FS_Subset
  <2>3. Cardinality(Below(i, I)) \in Nat
    BY <2>2, FS_CardinalityType
  <2> QED
    BY <1>1, <2>2, <2>3
<1>3. ASSUME NEW i \in I, NEW k \in I, i < k
      PROVE  Cardinality(Below(i, I)) # Cardinality(Below(k, I))
  <2>1. i \in Int /\ k \in Int
    OBVIOUS
  <2>2. Below(i, I) \in SUBSET Below(k, I)
    <3> SUFFICES ASSUME NEW j \in I, j < i PROVE j # k /\ j < k
      BY DEF Below
    <3>1. j \in Int
      OBVIOUS
    <3> QED
      BY <1>3, <2>1, <3>1
  <2>3. i \in Below(k, I) /\ i \notin Below(i, I)
    BY <1>3, <2>1 DEF Below
  <2> QED
    BY <1>2, <2>2, <2>3, FS_Subset
<1>4. rank \in [I -> N]
  BY <1>2
<1>5. \A i, k \in I : rank[i] = rank[k] => i = k
  <2> SUFFICES ASSUME NEW i \in I, NEW k \in I, i # k PROVE rank[i] # rank[k]
    OBVIOUS
  <2>1. i \in Int /\ k \in Int
    OBVIOUS
  <2>2. i < k \/ k < i
    BY <2>1
  <2>3. Cardinality(Below(i, I)) # Cardinality(Below(k, I))
    BY <1>3, <2>2
  <2> QED
    BY <1>2, <2>3
<1>6. rank \in Injection(I, N)
  BY <1>4, <1>5 DEF Injection, IsInjective
<1>7. IsFiniteSet(N) /\ Cardinality(N) = Cardinality(I)
  BY <1>1, FS_Interval
<1>8. rank \in Surjection(I, N)
  BY <1>6, <1>7, FS_Injection
<1>9. PICK i \in I : rank[i] = n
  BY <1>8 DEF Surjection
<1> QED
  BY <1>2, <1>9

\* The places in their order: each once.
LEMMA PlacesInOrder ==
    ASSUME NEW I \in SUBSET Int, IsFiniteSet(I)
    PROVE  LET from == Ordered(I, <)
           IN  /\ from \in Seq(I) /\ Len(from) \in Nat
               /\ \A m, n \in DOMAIN from : from[m] = from[n] => m = n
               /\ \A i \in I : \E n \in DOMAIN from : from[n] = i
<1> DEFINE from == Ordered(I, <)
           N == 1..Cardinality(I)
<1>1. Cardinality(I) \in Nat
  BY FS_CardinalityType
<1>2. ASSUME NEW n \in N
      PROVE  from[n] \in I /\ Cardinality(Below(from[n], I)) = n - 1
  <2>1. \E i \in I : Cardinality(Below(i, I)) = n - 1
    BY RanksAreTaken
  <2>2. from[n] = CHOOSE i \in I : Cardinality(Below(i, I)) = n - 1
    BY DEF Ordered, Rank, Below
  <2> QED
    BY <2>1, <2>2
<1>3. from \in [N -> I]
  BY <1>2 DEF Ordered
<1> HIDE DEF from
<1>4. \A m, n \in N : from[m] = from[n] => m = n
  <2> SUFFICES ASSUME NEW m \in N, NEW n \in N, from[m] = from[n] PROVE m = n
    OBVIOUS
  <2>1. m - 1 = n - 1
    BY <1>2
  <2> QED
    BY <1>1, <2>1
<1>5. from \in Injection(N, I)
  BY <1>3, <1>4 DEF Injection, IsInjective
<1>6. IsFiniteSet(N) /\ Cardinality(N) = Cardinality(I)
  BY <1>1, FS_Interval
<1>7. from \in Surjection(N, I)
  BY <1>5, <1>6, FS_Injection
<1>8. from \in Seq(I) /\ Len(from) \in Nat /\ DOMAIN from = N
  BY <1>1, <1>3
<1>9. \A i \in I : \E n \in N : from[n] = i
  BY <1>7 DEF Surjection
<1> QED
  BY <1>4, <1>8, <1>9 DEF from

\* The elements of s at the places I, in their order.
At(s, I) == [n \in DOMAIN Ordered(I, <) |-> s[Ordered(I, <)[n]]]

\* They are elements of s, each from a place of its own.
LEMMA PartOfSequence ==
    ASSUME NEW S, NEW s \in Seq(S), NEW I \in SUBSET (1..Len(s))
    PROVE  /\ At(s, I) \in Seq(S)
           /\ \E from \in [DOMAIN At(s, I) -> I] :
                 /\ \A n \in DOMAIN At(s, I) : At(s, I)[n] = s[from[n]]
                 /\ \A m, n \in DOMAIN At(s, I) : from[m] = from[n] => m = n
                 /\ \A i \in I : \E n \in DOMAIN At(s, I) : from[n] = i
<1> DEFINE from == Ordered(I, <)
<1>1. Len(s) \in Nat /\ IsFiniteSet(1..Len(s))
  BY FS_Interval
<1>2. IsFiniteSet(I) /\ I \in SUBSET Int
  <2>1. IsFiniteSet(I)
    BY <1>1, FS_Subset
  <2>2. I \in SUBSET Int
    BY <1>1
  <2> QED
    BY <2>1, <2>2
<1>3. /\ from \in Seq(I) /\ Len(from) \in Nat
      /\ \A m, n \in DOMAIN from : from[m] = from[n] => m = n
      /\ \A i \in I : \E n \in DOMAIN from : from[n] = i
  BY <1>2, PlacesInOrder
<1> HIDE DEF from
<1>4. At(s, I) = [n \in DOMAIN from |-> s[from[n]]]
  BY DEF At, from
<1>5. DOMAIN from = 1..Len(from) /\ from \in [1..Len(from) -> I]
  BY <1>3
<1>6. At(s, I) \in [1..Len(from) -> S]
  <2>1. \A n \in 1..Len(from) : from[n] \in I
    BY <1>5
  <2>2. \A i \in 1..Len(s) : s[i] \in S
    OBVIOUS
  <2>3. \A n \in 1..Len(from) : s[from[n]] \in S
    BY <2>1, <2>2
  <2> QED
    BY <1>4, <1>5, <2>3
<1>7. At(s, I) \in Seq(S) /\ DOMAIN At(s, I) = DOMAIN from
  BY <1>3, <1>5, <1>6
<1> QED
  BY <1>3, <1>4, <1>5, <1>7
-----------------------------------------------------------------------------
(* Settings whose clusters can be told apart *)

Distinct(clusters) == \A m, n \in DOMAIN clusters : clusters[m].id = clusters[n].id => m = n

SoundConfigs == {config \in Configs : Distinct(config.clusters)}

\* What Settings assume of a place for a legacy file
LegacyFits == legacy = <<>> \/ (legacy = <<legacy[1]>> /\ IsLegacy(legacy[1]))

LEMMA DefaultsAreSound == DefaultConfig \in SoundConfigs /\ DefaultAppState \in SoundConfigs
<1>1. <<>> \in Seq(Clusters) /\ Distinct(<<>>)
  <2>1. <<>> \in Seq(Clusters) /\ Len(<<>>) = 0
    BY EmptySeq
  <2>2. DOMAIN <<>> = {}
    BY <2>1
  <2> QED
    BY <2>1, <2>2 DEF Distinct
<1>2. DefaultConfig \in Configs /\ DefaultAppState \in Configs
  BY <1>1 DEF DefaultConfig, DefaultAppState, Configs, Themes
<1>3. DefaultConfig.clusters = <<>> /\ DefaultAppState.clusters = <<>>
  BY DEF DefaultConfig, DefaultAppState
<1> QED
  BY <1>1, <1>2, <1>3 DEF SoundConfigs

\* Other clusters that can be told apart
LEMMA OtherClusters ==
    ASSUME NEW config \in SoundConfigs, NEW cs \in Seq(Clusters), Distinct(cs)
    PROVE  /\ [config EXCEPT !.clusters = cs] \in SoundConfigs
           /\ [config EXCEPT !.clusters = cs].clusters = cs
<1>1. config \in Configs
  BY DEF SoundConfigs
<1>2. [config EXCEPT !.clusters = cs] \in Configs
      /\ [config EXCEPT !.clusters = cs].clusters = cs
  BY <1>1 DEF Configs
<1> QED
  BY <1>2 DEF SoundConfigs

\* The clusters of some places
LEMMA SomeClusters ==
    ASSUME NEW cs \in Seq(Clusters), Distinct(cs), NEW I \in SUBSET (1..Len(cs))
    PROVE  At(cs, I) \in Seq(Clusters) /\ Distinct(At(cs, I))
<1>1. At(cs, I) \in Seq(Clusters)
  BY PartOfSequence
<1>2. PICK from \in [DOMAIN At(cs, I) -> I] :
         /\ \A n \in DOMAIN At(cs, I) : At(cs, I)[n] = cs[from[n]]
         /\ \A m, n \in DOMAIN At(cs, I) : from[m] = from[n] => m = n
  BY PartOfSequence
<1>3. DOMAIN cs = 1..Len(cs) /\ \A n \in DOMAIN At(cs, I) : from[n] \in I
  BY <1>2
<1>4. \A n \in DOMAIN At(cs, I) : from[n] \in DOMAIN cs
  BY <1>3
<1> QED
  BY <1>1, <1>2, <1>4 DEF Distinct
-----------------------------------------------------------------------------
(* The two formats *)

\* The settings that a file gives back: the clusters of its map, each once.
LEMMA FromStoreIsSound ==
    ASSUME NEW store, IsStore(store), NEW config \in FromStore(store)
    PROVE  /\ config \in SoundConfigs
           /\ config.theme = store.theme /\ config.kafka # 0
           /\ store.kafka # 0 => config.kafka = store.kafka
           /\ ToSet(config.clusters) =
                 {store_cluster_to_config(i, store.clusters[i]) : i \in DOMAIN store.clusters}
<1> DEFINE I == DOMAIN store.clusters
           of == [i \in I |-> store_cluster_to_config(i, store.clusters[i])]
           S == {store_cluster_to_config(i, store.clusters[i]) : i \in I}
           K == IF store.kafka = 0 THEN 15 ELSE store.kafka
<1>1. PICK cs \in SetToSeqs(S) :
         config = [clusters |-> cs, theme |-> store.theme, kafka |-> K]
  BY DEF FromStore
<1>2. store.theme \in Themes /\ store.kafka \in Nat /\ IsFiniteSet(I) /\ I \subseteq Ids
  BY DEF IsStore
<1>3. \A i \in I : of[i] \in Clusters /\ of[i].id = i
  <2> SUFFICES ASSUME NEW i \in I PROVE of[i] \in Clusters /\ of[i].id = i
    OBVIOUS
  <2>1. store.clusters[i] \in StoreClusters
    BY DEF IsStore
  <2>2. UNION store.clusters[i].favorites \in SUBSET Topics
    BY <2>1 DEF StoreClusters
  <2> QED
    BY <1>2, <2>1, <2>2 DEF store_cluster_to_config, Clusters, StoreClusters
<1>4. \A x : x \in S <=> \E i \in I : x = of[i]
  OBVIOUS
<1>5. IsFiniteSet(S) /\ Cardinality(S) \in Nat
  <2>1. of \in Surjection(I, S)
    BY <1>4 DEF Surjection
  <2> QED
    BY <1>2, <2>1, FS_Surjection, FS_CardinalityType
<1>6. cs \in [1..Cardinality(S) -> S]
      /\ \A m, n \in 1..Cardinality(S) : m # n => cs[m] # cs[n]
  BY <1>1 DEF SetToSeqs
<1> HIDE DEF S, of
<1>7. \A x \in S : \E n \in 1..Cardinality(S) : cs[n] = x
  <2>1. cs \in Injection(1..Cardinality(S), S)
    BY <1>6 DEF Injection, IsInjective
  <2>2. Cardinality(1..Cardinality(S)) = Cardinality(S)
    BY <1>5, FS_Interval
  <2>3. cs \in Surjection(1..Cardinality(S), S)
    BY <1>5, <2>1, <2>2, FS_Injection
  <2> QED
    BY <2>3 DEF Surjection
<1>8. \A x \in S : x \in Clusters
  BY <1>3, <1>4
<1>9. cs \in Seq(Clusters) /\ DOMAIN cs = 1..Cardinality(S)
  BY <1>5, <1>6, <1>8
<1>10. Distinct(cs)
  <2> SUFFICES ASSUME NEW m \in 1..Cardinality(S), NEW n \in 1..Cardinality(S),
                      cs[m].id = cs[n].id
               PROVE  m = n
    BY <1>9 DEF Distinct
  <2>1. PICK i \in I, j \in I : cs[m] = of[i] /\ cs[n] = of[j]
    BY <1>4, <1>6
  <2>2. i = j
    BY <1>3, <2>1
  <2> QED
    BY <1>6, <2>1, <2>2
<1>11. ToSet(cs) = S
  BY <1>6, <1>7, <1>9 DEF ToSet
<1>12. config \in Configs /\ config.clusters = cs
  BY <1>1, <1>2, <1>9 DEF Configs
<1>13. config.theme = store.theme /\ config.kafka = K
  BY <1>1
<1>14. K # 0 /\ (store.kafka # 0 => K = store.kafka)
  BY <1>2
<1> QED
  BY <1>10, <1>11, <1>12, <1>13, <1>14 DEF SoundConfigs, S

\* The file keeps every cluster under its id.
LEMMA ToStoreKeepsClusters ==
    ASSUME NEW config \in SoundConfigs
    PROVE  /\ IsStore(ToStore(config))
           /\ ToStore(config).theme = config.theme /\ ToStore(config).kafka = config.kafka
           /\ DOMAIN ToStore(config).clusters = {c.id : c \in ToSet(config.clusters)}
           /\ \A c \in ToSet(config.clusters) :
                 ToStore(config).clusters[c.id] = StoreCluster(c)
<1> DEFINE cs == config.clusters
           I == {c.id : c \in ToSet(cs)}
           map == [i \in I |-> StoreCluster(cs[SelectLastInSeq(cs, LAMBDA c : c.id = i)])]
<1>1. config \in Configs /\ Distinct(cs)
  BY DEF SoundConfigs
<1>2. /\ cs \in Seq(Clusters) /\ config.theme \in Themes /\ config.kafka \in Nat
      /\ Len(cs) \in Nat /\ DOMAIN cs = 1..Len(cs)
  BY <1>1 DEF Configs
<1>3. ToStore(config) = [clusters |-> map, theme |-> config.theme, kafka |-> config.kafka]
  BY DEF ToStore
<1>4. ASSUME NEW n \in DOMAIN cs
      PROVE  cs[n].id \in I /\ map[cs[n].id] = StoreCluster(cs[n])
  <2>1. cs[n].id \in I
    BY DEF ToSet
  <2>2. {m \in 1..Len(cs) : cs[m].id = cs[n].id} = {n}
    BY <1>1, <1>2 DEF Distinct
  <2>3. n \in Int
    BY <1>2
  <2>4. Max({n}) = n
    BY <2>3 DEF Max
  <2>5. SelectLastInSeq(cs, LAMBDA c : c.id = cs[n].id) = n
    BY <2>2, <2>4 DEF SelectLastInSeq
  <2> QED
    BY <2>1, <2>5
<1>5. \A n \in DOMAIN cs : cs[n] \in Clusters
  BY <1>2
<1>6. \A c \in Clusters : StoreCluster(c) \in StoreClusters /\ c.id \in Ids
  BY DEF StoreCluster, Clusters, StoreClusters
<1>7. DOMAIN map = I /\ map = [i \in I |-> map[i]]
  OBVIOUS
<1> HIDE DEF map
<1>8. \A i \in I : \E n \in DOMAIN cs : i = cs[n].id
  BY DEF ToSet
<1>9. \A i \in I : i \in Ids /\ map[i] \in StoreClusters
  BY <1>4, <1>5, <1>6, <1>8
<1>10. IsFiniteSet(I)
  <2> DEFINE id == [n \in DOMAIN cs |-> cs[n].id]
  <2>1. id \in Surjection(DOMAIN cs, I)
    BY <1>4, <1>8 DEF Surjection
  <2>2. IsFiniteSet(DOMAIN cs)
    BY <1>2, FS_Interval
  <2> QED
    BY <2>1, <2>2, FS_Surjection
<1> HIDE DEF I
<1>11. map \in [I -> StoreClusters]
  BY <1>7, <1>9
<1>12. IsStore(ToStore(config))
  BY <1>2, <1>3, <1>7, <1>9, <1>10, <1>11 DEF IsStore
<1>13. \A c \in ToSet(cs) : map[c.id] = StoreCluster(c)
  BY <1>4 DEF ToSet
<1> QED
  BY <1>3, <1>7, <1>12, <1>13 DEF I

\* What is read is what was written, if the Kafka timeout is there.
LEMMA RoundTrip ==
    ASSUME NEW config \in SoundConfigs, config.kafka # 0, NEW read \in FromStore(ToStore(config))
    PROVE  Content(read) = Content(config)
<1> DEFINE store == ToStore(config)
           I == {c.id : c \in ToSet(config.clusters)}
<1>1. /\ IsStore(store) /\ store.theme = config.theme /\ store.kafka = config.kafka
      /\ DOMAIN store.clusters = I
      /\ \A c \in ToSet(config.clusters) : store.clusters[c.id] = StoreCluster(c)
  BY ToStoreKeepsClusters
<1> HIDE DEF store
<1>2. /\ read \in SoundConfigs
      /\ read.theme = config.theme /\ read.kafka = config.kafka
      /\ ToSet(read.clusters) = {store_cluster_to_config(i, store.clusters[i]) : i \in I}
  BY <1>1, FromStoreIsSound DEF store
<1>3. \A c \in ToSet(config.clusters) : c \in Clusters
  BY DEF SoundConfigs, Configs, ToSet
<1>4. \A c \in ToSet(config.clusters) : store_cluster_to_config(c.id, store.clusters[c.id]) = c
  <2> SUFFICES ASSUME NEW c \in ToSet(config.clusters)
               PROVE  store_cluster_to_config(c.id, StoreCluster(c)) = c
    BY <1>1
  <2>1. c = [id |-> c.id, name |-> c.name, endpoint |-> c.endpoint,
             authentication |-> c.authentication, registry |-> c.registry,
             favorites |-> c.favorites]
    BY <1>3 DEF Clusters
  <2>2. UNION {c.favorites} = c.favorites
    OBVIOUS
  <2> QED
    BY <2>1, <2>2 DEF store_cluster_to_config, StoreCluster
<1>5. ToSet(read.clusters) = ToSet(config.clusters)
  BY <1>2, <1>4
<1>6. /\ read = [clusters |-> read.clusters, theme |-> read.theme, kafka |-> read.kafka]
      /\ config = [clusters |-> config.clusters, theme |-> config.theme, kafka |-> config.kafka]
  BY <1>2 DEF SoundConfigs, Configs
<1> QED
  BY <1>2, <1>5, <1>6 DEF Content

\* The authentications of Insulator 1 that are complete
IsComplete(c) == IF c.sasl = "absent" THEN c.ssl # "incomplete" ELSE c.sasl = "complete"

\* An import of Insulator 1 has no cluster twice either, and those with a complete
\* authentication.
LEMMA FromLegacyIsSound ==
    ASSUME NEW old, IsLegacy(old)
    PROVE  /\ FromLegacy(old) \in SoundConfigs
           /\ {c.id : c \in ToSet(FromLegacy(old).clusters)} =
                 {c.guid : c \in {d \in ToSet(old.clusters) : IsComplete(d)}}
<1> DEFINE I == {n \in DOMAIN old.clusters : LegacyAuthentication(old.clusters[n]) # "error"}
           valid == At(old.clusters, I)
           cs == [n \in DOMAIN valid |->
                    [id |-> valid[n].guid, name |-> valid[n].name,
                     endpoint |-> IF valid[n].endpoint = "http://" THEN ""
                                     ELSE valid[n].endpoint,
                     authentication |-> LegacyAuthentication(valid[n]),
                     registry |-> valid[n].registry, favorites |-> {}]]
<1>1. /\ old.clusters \in Seq(LegacyClusters) /\ old.theme \in Themes
      /\ \A m, n \in DOMAIN old.clusters : old.clusters[m].guid = old.clusters[n].guid => m = n
  BY DEF IsLegacy
<1>2. I \in SUBSET (1..Len(old.clusters))
  BY <1>1
<1>3. FromLegacy(old) = [clusters |-> cs, theme |-> old.theme, kafka |-> 20]
  <2>1. Filter(old.clusters, LAMBDA c : LegacyAuthentication(c) # "error") = valid
    BY DEF Filter, At
  <2> HIDE DEF valid
  <2>2. FromLegacy(old) = [DefaultConfig EXCEPT !.theme = old.theme, !.clusters = cs]
    BY <2>1 DEF FromLegacy
  <2> QED
    BY <2>2 DEF DefaultConfig
<1> HIDE DEF I
<1>4. valid \in Seq(LegacyClusters)
  BY <1>1, <1>2, PartOfSequence
<1>5. PICK from \in [DOMAIN valid -> I] :
         /\ \A n \in DOMAIN valid : valid[n] = old.clusters[from[n]]
         /\ \A m, n \in DOMAIN valid : from[m] = from[n] => m = n
         /\ \A i \in I : \E n \in DOMAIN valid : from[n] = i
  BY <1>1, <1>2, PartOfSequence
<1> HIDE DEF valid
<1>6. \A n \in DOMAIN valid : /\ valid[n] \in LegacyClusters
                              /\ LegacyAuthentication(valid[n]) # "error"
  BY <1>4, <1>5 DEF I
<1>7. \A c \in LegacyClusters : LegacyAuthentication(c) \in Authentications \cup {"error"}
  BY DEF LegacyAuthentication, Authentications, LegacyClusters, Parts
<1>8. \A n \in DOMAIN valid : cs[n] \in Clusters /\ cs[n].id = valid[n].guid
  BY <1>6, <1>7 DEF LegacyClusters, Clusters
<1>9. DOMAIN cs = DOMAIN valid /\ DOMAIN valid = 1..Len(valid) /\ Len(valid) \in Nat
  BY <1>4
<1> HIDE DEF cs
<1>10. cs \in Seq(Clusters)
  <2>1. cs = [n \in 1..Len(valid) |-> cs[n]]
    BY <1>9 DEF cs
  <2> QED
    BY <1>8, <1>9, <2>1
<1>11. Distinct(cs)
  <2> SUFFICES ASSUME NEW m \in DOMAIN valid, NEW n \in DOMAIN valid,
                      valid[m].guid = valid[n].guid
               PROVE  m = n
    BY <1>8, <1>9 DEF Distinct
  <2>1. from[m] \in DOMAIN old.clusters /\ from[n] \in DOMAIN old.clusters
    BY <1>5 DEF I
  <2>2. from[m] = from[n]
    BY <1>1, <1>5, <2>1
  <2> QED
    BY <1>5, <2>2
<1>12. FromLegacy(old) \in Configs /\ FromLegacy(old).clusters = cs
  BY <1>1, <1>3, <1>10 DEF Configs
<1>13. \A c \in LegacyClusters : LegacyAuthentication(c) # "error" <=> IsComplete(c)
  BY DEF LegacyAuthentication, LegacyClusters, Parts, IsComplete
<1>14. \A n \in DOMAIN old.clusters : old.clusters[n] \in LegacyClusters
  BY <1>1
<1>15. ASSUME NEW i
       PROVE  (\E n \in DOMAIN cs : cs[n].id = i) <=>
              \E n \in DOMAIN old.clusters : /\ IsComplete(old.clusters[n])
                                             /\ old.clusters[n].guid = i
  <2>1. ASSUME NEW n \in DOMAIN cs, cs[n].id = i
        PROVE  \E m \in DOMAIN old.clusters : /\ IsComplete(old.clusters[m])
                                              /\ old.clusters[m].guid = i
    BY <1>5, <1>8, <1>9, <1>13, <1>14, <2>1 DEF I
  <2>2. ASSUME NEW m \in DOMAIN old.clusters, IsComplete(old.clusters[m]),
               old.clusters[m].guid = i
        PROVE  \E n \in DOMAIN cs : cs[n].id = i
    <3>1. m \in I
      BY <1>13, <1>14, <2>2 DEF I
    <3> QED
      BY <1>5, <1>8, <1>9, <2>2, <3>1
  <2> QED
    BY <2>1, <2>2
<1>16. {c.id : c \in ToSet(cs)} = {c.guid : c \in {d \in ToSet(old.clusters) : IsComplete(d)}}
  <2> SUFFICES ASSUME NEW i
               PROVE  i \in {c.id : c \in ToSet(cs)} <=>
                      i \in {c.guid : c \in {d \in ToSet(old.clusters) : IsComplete(d)}}
    OBVIOUS
  <2>1. i \in {c.id : c \in ToSet(cs)} <=> \E n \in DOMAIN cs : cs[n].id = i
    BY DEF ToSet
  <2>2. i \in {c.guid : c \in {d \in ToSet(old.clusters) : IsComplete(d)}} <=>
        \E n \in DOMAIN old.clusters : IsComplete(old.clusters[n]) /\ old.clusters[n].guid = i
    BY DEF ToSet
  <2> QED
    BY <1>15, <2>1, <2>2
<1> QED
  BY <1>11, <1>12, <1>16 DEF SoundConfigs
-----------------------------------------------------------------------------
(* What the file gives back *)

Forms == [cluster : Clusters, seen : SUBSET Clusters]
SoundCommands ==
    [window : Windows, op : {"get", "write"}, config : SoundConfigs, known : BOOLEAN]

WindowsFit ==
    /\ window \in [Windows -> {"closed", "open"}]
    /\ state \in [Windows -> SoundConfigs]
    /\ rendered \in [Windows -> SUBSET Clusters]
    /\ known \in [Windows -> BOOLEAN]
    /\ reply \in [Windows -> Seq(SoundConfigs)]
    /\ form \in [Windows -> Seq(Forms)]
    /\ edits \in 0..MaxEdits

\* What is being written would not have been refused.
QueueFits ==
    /\ queue \in Seq(SoundCommands) /\ Len(queue) <= MaxQueue
    /\ writing \in BOOLEAN
    /\ writing => /\ file.kind = "empty" /\ queue # <<>> /\ Head(queue).op = "write"
                  /\ Accepted(Head(queue).config)

FileFits ==
    /\ IsFile(file)
    /\ LegacyFits
    /\ cut \in BOOLEAN
    /\ LoadsWhatWasSaved

FileInv == WindowsFit /\ QueueFits /\ FileFits

LEMMA ReadableIsSound ==
    ASSUME IsFile(file), LegacyFits
    PROVE  Readable \subseteq SoundConfigs
<1>1. CASE file.kind = "store"
  <2>1. IsStore(file.store)
    BY <1>1 DEF IsFile
  <2> QED
    BY <1>1, <2>1, FromStoreIsSound DEF Readable
<1>2. CASE file.kind = "absent"
  <2>1. legacy # <<>> => IsLegacy(legacy[1])
    BY DEF LegacyFits
  <2>2. Readable = IF legacy # <<>> THEN {FromLegacy(legacy[1])} ELSE {DefaultConfig}
    BY <1>2 DEF Readable
  <2> QED
    BY <2>1, <2>2, FromLegacyIsSound, DefaultsAreSound
<1>3. CASE file.kind = "empty"
  BY <1>3 DEF Readable
<1> QED
  BY <1>1, <1>2, <1>3 DEF IsFile

\* What can be read before anything is saved
LEMMA FirstAreRead ==
    ASSUME IsFile(file), LegacyFits, NEW config \in Readable
    PROVE  {c.id : c \in ToSet(config.clusters)} = FirstIds
<1>1. CASE file.kind = "store"
  <2> DEFINE store == file.store
  <2>1. IsStore(store) /\ config \in FromStore(store)
    BY <1>1 DEF IsFile, Readable
  <2>2. ToSet(config.clusters) =
           {store_cluster_to_config(i, store.clusters[i]) : i \in DOMAIN store.clusters}
    BY <2>1, FromStoreIsSound
  <2>3. \A i, c : store_cluster_to_config(i, c).id = i
    BY DEF store_cluster_to_config
  <2>4. FirstIds = DOMAIN store.clusters
    BY <1>1 DEF FirstIds
  <2> QED
    BY <2>2, <2>3, <2>4
<1>2. CASE file.kind = "absent" /\ legacy # <<>>
  <2>1. IsLegacy(legacy[1]) /\ config = FromLegacy(legacy[1])
    BY <1>2 DEF LegacyFits, Readable
  <2>2. FirstIds = {c.guid : c \in {d \in ToSet(legacy[1].clusters) : IsComplete(d)}}
    BY <1>2 DEF FirstIds, IsComplete
  <2> QED
    BY <2>1, <2>2, FromLegacyIsSound
<1>3. CASE file.kind = "absent" /\ legacy = <<>>
  <2>1. config = DefaultConfig /\ FirstIds = {}
    BY <1>3 DEF Readable, FirstIds
  <2>2. ToSet(DefaultConfig.clusters) = {}
    <3>1. DefaultConfig.clusters = <<>> /\ DOMAIN <<>> = {}
      BY EmptySeq DEF DefaultConfig
    <3> QED
      BY <3>1 DEF ToSet
  <2> QED
    BY <2>1, <2>2
<1>4. CASE file.kind = "empty"
  BY <1>4 DEF Readable
<1> QED
  BY <1>1, <1>2, <1>3, <1>4 DEF IsFile

LEMMA FileInit == Init => FileInv
<1> SUFFICES ASSUME Init PROVE FileInv
  OBVIOUS
<1>1. /\ <<>> \in Seq(SoundConfigs) /\ <<>> \in Seq(Forms)
      /\ <<>> \in Seq(SoundCommands) /\ Len(<<>>) = 0
  BY EmptySeq
<1>2. MaxEdits \in Nat /\ MaxQueue \in Nat
  BY SettingsAssumption
<1>3. WindowsFit
  BY <1>1, <1>2, DefaultsAreSound DEF Init, WindowsFit
<1>4. QueueFits
  <2>1. queue = <<>> /\ writing = FALSE
    BY DEF Init
  <2>2. queue \in Seq(SoundCommands) /\ Len(queue) <= MaxQueue
    BY <1>1, <1>2, <2>1
  <2> QED
    BY <2>1, <2>2 DEF QueueFits
<1>5. IsFile(file) /\ LegacyFits
  BY SettingsAssumption DEF Init, LegacyFits
<1>6. LoadsWhatWasSaved
  BY <1>5, FirstAreRead DEF Init, LoadsWhatWasSaved
<1>7. FileFits
  BY <1>5, <1>6 DEF Init, FileFits
<1> QED
  BY <1>3, <1>4, <1>7 DEF FileInv

\* A file that is not touched
LEMMA FileStays ==
    ASSUME FileFits, UNCHANGED <<file, legacy, saved>>, cut' \in BOOLEAN
    PROVE  FileFits'
<1>1. Readable' = Readable /\ FirstIds' = FirstIds
  BY DEF Readable, FirstIds
<1> QED
  BY <1>1 DEF FileFits, LegacyFits, LoadsWhatWasSaved

\* One more command
LEMMA QueueGrows ==
    ASSUME QueueFits, NEW command \in SoundCommands, Invoke(command), UNCHANGED <<file, writing>>
    PROVE  QueueFits'
<1>1. queue' = Append(queue, command) /\ Len(queue) < MaxQueue /\ queue \in Seq(SoundCommands)
  BY DEF Invoke, QueueFits
<1>2. /\ queue' \in Seq(SoundCommands) /\ queue' # <<>>
      /\ Len(queue') = Len(queue) + 1 /\ Len(queue) \in Nat
  BY <1>1, AppendProperties
<1>3. queue # <<>> => Head(queue') = Head(queue)
  BY <1>1, AppendAnything DEF IsSequence
<1>4. Len(queue') <= MaxQueue
  BY <1>1, <1>2, SettingsAssumption
<1> QED
  BY <1>2, <1>3, <1>4 DEF QueueFits, Accepted

\* One command less
LEMMA QueueShrinks ==
    ASSUME QueueFits, queue # <<>>, Done, ~writing', writing' \in BOOLEAN
    PROVE  QueueFits'
<1>1. queue' = Tail(queue) /\ queue \in Seq(SoundCommands)
  BY DEF Done, QueueFits
<1>2. queue' \in Seq(SoundCommands) /\ Len(queue') = Len(queue) - 1 /\ Len(queue) \in Nat
  BY <1>1, HeadTailProperties, LenProperties
<1>3. Len(queue') <= MaxQueue
  BY <1>2, SettingsAssumption DEF QueueFits
<1> QED
  BY <1>2, <1>3 DEF QueueFits

LEMMA FileSets ==
    ASSUME FileInv, NEW w \in Windows, NEW config \in SoundConfigs, NEW knows \in BOOLEAN,
           SetState(w, config, knows), form' \in [Windows -> Seq(Forms)]
    PROVE  FileInv'
<1> DEFINE command == [window |-> w, op |-> "write", config |-> config, known |-> knows]
<1>1. /\ edits < MaxEdits /\ edits' = edits + 1
      /\ state' = [state EXCEPT ![w] = config] /\ known' = [known EXCEPT ![w] = knows]
      /\ UNCHANGED <<file, legacy, writing, saved, cut, window, rendered, reply>>
      /\ Invoke(command)
  BY DEF SetState, fileVars
<1>2. edits' \in 0..MaxEdits
  BY <1>1, SettingsAssumption DEF FileInv, WindowsFit
<1>3. WindowsFit'
  BY <1>1, <1>2 DEF FileInv, WindowsFit
<1>4. command \in SoundCommands
  BY DEF SoundCommands
<1>5. QueueFits'
  BY <1>1, <1>4, QueueGrows DEF FileInv
<1>6. FileFits'
  BY <1>1, FileStays DEF FileInv, FileFits
<1> QED
  BY <1>3, <1>5, <1>6 DEF FileInv

\* One cluster in the place of the one of its id
LEMMA ReplacedIsSound ==
    ASSUME NEW config \in SoundConfigs, NEW cs,
           cs = [n \in DOMAIN config.clusters |-> cs[n]],
           \A n \in DOMAIN config.clusters :
              cs[n] \in Clusters /\ cs[n].id = config.clusters[n].id
    PROVE  [config EXCEPT !.clusters = cs] \in SoundConfigs
<1>1. config.clusters \in Seq(Clusters) /\ Distinct(config.clusters)
  BY DEF SoundConfigs, Configs
<1>2. DOMAIN config.clusters = 1..Len(config.clusters) /\ Len(config.clusters) \in Nat
  BY <1>1
<1>3. cs \in Seq(Clusters) /\ DOMAIN cs = DOMAIN config.clusters
  BY <1>2
<1>4. Distinct(cs)
  BY <1>1, <1>3 DEF Distinct
<1> QED
  BY <1>3, <1>4, OtherClusters

LEMMA WithIsSound ==
    ASSUME NEW w, state[w] \in SoundConfigs, NEW i, NEW favorites \in SUBSET Topics
    PROVE  WithFavorites(w, i, favorites) \in SoundConfigs
<1> DEFINE cs == [n \in DOMAIN state[w].clusters |->
                    IF state[w].clusters[n].id = i
                       THEN [state[w].clusters[n] EXCEPT !.favorites = favorites]
                       ELSE state[w].clusters[n]]
<1>1. state[w].clusters \in Seq(Clusters)
  BY DEF SoundConfigs, Configs
<1>2. \A n \in DOMAIN state[w].clusters : state[w].clusters[n] \in Clusters
  BY <1>1
<1>3. ASSUME NEW c \in Clusters
      PROVE  /\ [c EXCEPT !.favorites = favorites] \in Clusters
             /\ [c EXCEPT !.favorites = favorites].id = c.id
  BY DEF Clusters
<1>4. [state[w] EXCEPT !.clusters = cs] \in SoundConfigs
  BY <1>2, <1>3, ReplacedIsSound
<1> QED
  BY <1>4 DEF WithFavorites

LEMMA UpsertIsSound ==
    ASSUME NEW config \in SoundConfigs, NEW cluster \in Clusters
    PROVE  UpsertCluster(config, cluster) \in SoundConfigs
<1>1. config.clusters \in Seq(Clusters) /\ Distinct(config.clusters)
  BY DEF SoundConfigs, Configs
<1>2. \A n \in DOMAIN config.clusters : config.clusters[n] \in Clusters
  BY <1>1
<1>3. CASE \E c \in ToSet(config.clusters) : c.id = cluster.id
  <2> DEFINE cs == [n \in DOMAIN config.clusters |->
                      IF config.clusters[n].id = cluster.id
                         THEN [cluster EXCEPT !.favorites = config.clusters[n].favorites]
                         ELSE config.clusters[n]]
  <2>1. ASSUME NEW c \in Clusters
        PROVE  /\ [cluster EXCEPT !.favorites = c.favorites] \in Clusters
               /\ [cluster EXCEPT !.favorites = c.favorites].id = cluster.id
    BY DEF Clusters
  <2>2. [config EXCEPT !.clusters = cs] \in SoundConfigs
    BY <1>2, <2>1, ReplacedIsSound
  <2> QED
    BY <1>3, <2>2 DEF UpsertCluster
<1>4. CASE ~\E c \in ToSet(config.clusters) : c.id = cluster.id
  <2> DEFINE cs == Append(config.clusters, cluster)
             N == Len(config.clusters)
  <2>1. /\ cs \in Seq(Clusters) /\ Len(cs) = N + 1 /\ N \in Nat
        /\ \A n \in 1..N : cs[n] = config.clusters[n]
        /\ cs[N + 1] = cluster
    BY <1>1, AppendProperties, LenProperties
  <2>2. \A n \in 1..N : n \in DOMAIN config.clusters /\ config.clusters[n].id # cluster.id
    BY <1>1, <1>4 DEF ToSet
  <2> HIDE DEF cs
  <2>3. DOMAIN cs = 1..(N + 1)
    BY <2>1
  <2>4. Distinct(cs)
    <3> SUFFICES ASSUME NEW m \in 1..(N + 1), NEW n \in 1..(N + 1), cs[m].id = cs[n].id
                 PROVE  m = n
      BY <2>3 DEF Distinct
    <3>1. (m \in 1..N \/ m = N + 1) /\ (n \in 1..N \/ n = N + 1)
      BY <2>1
    <3> QED
      BY <1>1, <2>1, <2>2, <3>1 DEF Distinct
  <2>5. UpsertCluster(config, cluster) = [config EXCEPT !.clusters = cs]
    BY <1>4 DEF UpsertCluster, cs
  <2> QED
    BY <2>1, <2>4, <2>5, OtherClusters
<1> QED
  BY <1>3, <1>4

\* What a window does to its own copy
LEMMA FileEdits ==
    ASSUME FileInv, NEW w \in Windows,
           SetsTheme(w) \/ SetsTimeout(w) \/ TogglesFavorite(w) \/ DeletesCluster(w) \/ EndsForm(w)
    PROVE  FileInv'
<1>1. /\ state[w] \in SoundConfigs /\ known[w] \in BOOLEAN
      /\ form \in [Windows -> Seq(Forms)] /\ form[w] \in Seq(Forms)
  BY DEF FileInv, WindowsFit
<1>2. state[w] \in Configs /\ Distinct(state[w].clusters) /\ state[w].clusters \in Seq(Clusters)
  BY <1>1 DEF SoundConfigs, Configs
<1>3. CASE SetsTheme(w)
  <2>1. PICK theme \in Themes : SetState(w, [state[w] EXCEPT !.theme = theme], known[w])
    BY <1>3 DEF SetsTheme
  <2>2. [state[w] EXCEPT !.theme = theme] \in Configs
        /\ [state[w] EXCEPT !.theme = theme].clusters = state[w].clusters
    BY <1>2 DEF Configs
  <2>3. [state[w] EXCEPT !.theme = theme] \in SoundConfigs
    BY <1>2, <2>2 DEF SoundConfigs
  <2> QED
    BY <1>1, <1>3, <2>1, <2>3, FileSets DEF SetsTheme
<1>4. CASE SetsTimeout(w)
  <2>1. [state[w] EXCEPT !.kafka = 30] \in Configs
        /\ [state[w] EXCEPT !.kafka = 30].clusters = state[w].clusters
    BY <1>2 DEF Configs
  <2>2. [state[w] EXCEPT !.kafka = 30] \in SoundConfigs
    BY <1>2, <2>1 DEF SoundConfigs
  <2> QED
    BY <1>1, <1>4, <2>2, FileSets DEF SetsTimeout
<1>5. CASE TogglesFavorite(w)
  <2> DEFINE toggled(c, t) == IF t \in c.favorites THEN c.favorites \ {t}
                                                  ELSE c.favorites \cup {t}
  <2>1. PICK c \in rendered[w], t \in Topics :
           SetState(w, WithFavorites(w, c.id, toggled(c, t)), known[w])
    BY <1>5 DEF TogglesFavorite
  <2>2. c \in Clusters
    BY DEF FileInv, WindowsFit
  <2>3. toggled(c, t) \in SUBSET Topics
    BY <2>2 DEF Clusters
  <2> HIDE DEF toggled
  <2>4. WithFavorites(w, c.id, toggled(c, t)) \in SoundConfigs
    BY <1>1, <2>3, WithIsSound
  <2> QED
    BY <1>1, <1>5, <2>1, <2>4, FileSets DEF TogglesFavorite
<1>6. CASE DeletesCluster(w)
  <2>1. PICK c \in rendered[w] :
           SetState(w, [state[w] EXCEPT !.clusters = Filter(@, LAMBDA d : d.id # c.id)], known[w])
    BY <1>6 DEF DeletesCluster
  <2> DEFINE I == {n \in DOMAIN state[w].clusters : state[w].clusters[n].id # c.id}
  <2>2. Filter(state[w].clusters, LAMBDA d : d.id # c.id) = At(state[w].clusters, I)
    BY DEF Filter, At
  <2>3. I \in SUBSET (1..Len(state[w].clusters))
    BY <1>2
  <2> HIDE DEF I
  <2>4. At(state[w].clusters, I) \in Seq(Clusters) /\ Distinct(At(state[w].clusters, I))
    BY <1>2, <2>3, SomeClusters
  <2>5. [state[w] EXCEPT !.clusters = At(state[w].clusters, I)] \in SoundConfigs
    BY <1>1, <2>4, OtherClusters
  <2>6. SetState(w, [state[w] EXCEPT !.clusters = At(state[w].clusters, I)], known[w])
    BY <2>1, <2>2
  <2> QED
    BY <1>1, <1>6, <2>5, <2>6, FileSets DEF DeletesCluster
<1>7. CASE EndsForm(w)
  <2>1. form[w] # <<>> /\ form' = [form EXCEPT ![w] = <<>>]
    BY <1>7 DEF EndsForm
  <2>2. form' \in [Windows -> Seq(Forms)]
    <3>1. <<>> \in Seq(Forms)
      BY EmptySeq
    <3> QED
      BY <1>1, <2>1, <3>1
  <2>3. form[w][1].cluster \in Clusters
    <3>1. form[w][1] \in Forms
      BY <1>1, <2>1
    <3> QED
      BY <3>1 DEF Forms
  <2>4. \/ SetState(w, UpsertCluster(state[w], form[w][1].cluster), known[w])
        \/ UNCHANGED <<fileVars, window, state, rendered, known, reply, queue, edits>>
    BY <1>7 DEF EndsForm
  <2>5. CASE SetState(w, UpsertCluster(state[w], form[w][1].cluster), known[w])
    BY <1>1, <2>2, <2>3, <2>5, UpsertIsSound, FileSets
  <2>6. CASE UNCHANGED <<fileVars, window, state, rendered, known, reply, queue, edits>>
    <3>1. WindowsFit' /\ QueueFits'
      BY <2>2, <2>6 DEF FileInv, WindowsFit, QueueFits, Accepted, fileVars
    <3>2. FileFits'
      BY <2>6, FileStays DEF FileInv, FileFits, fileVars
    <3> QED
      BY <3>1, <3>2 DEF FileInv
  <2> QED
    BY <2>4, <2>5, <2>6
<1> QED
  BY <1>3, <1>4, <1>5, <1>6, <1>7

LEMMA FileCommands ==
    ASSUME FileInv, GetsConfiguration \/ Truncates \/ Writes \/ WriteRefused
    PROVE  FileInv'
<1>1. CASE GetsConfiguration
  <2>1. /\ queue # <<>> /\ Done /\ Head(queue).op = "get"
        /\ UNCHANGED <<file, legacy, writing, saved, cut, window, state, rendered, known, form, edits>>
    BY <1>1 DEF GetsConfiguration, First, fileVars
  <2>2. ~writing' /\ writing' \in BOOLEAN
    BY <2>1 DEF FileInv, QueueFits
  <2>3. reply' \in [Windows -> Seq(SoundConfigs)]
    <3>1. CASE UNCHANGED reply
      BY <3>1 DEF FileInv, WindowsFit
    <3>2. ASSUME NEW config \in Readable, NEW w, reply' = [reply EXCEPT ![w] = Append(@, config)]
          PROVE  reply' \in [Windows -> Seq(SoundConfigs)]
      <4>1. config \in SoundConfigs
        BY ReadableIsSound DEF FileInv, FileFits
      <4>2. ASSUME w \in Windows PROVE Append(reply[w], config) \in Seq(SoundConfigs)
        <5>1. reply[w] \in Seq(SoundConfigs)
          BY <4>2 DEF FileInv, WindowsFit
        <5> QED
          BY <4>1, <5>1, AppendProperties
      <4> QED
        BY <3>2, <4>2 DEF FileInv, WindowsFit
    <3> QED
      BY <1>1, <3>1, <3>2 DEF GetsConfiguration
  <2>4. WindowsFit'
    BY <2>1, <2>3 DEF FileInv, WindowsFit
  <2>5. QueueFits'
    BY <2>1, <2>2, QueueShrinks DEF FileInv
  <2>6. FileFits'
    BY <2>1, FileStays DEF FileInv, FileFits
  <2> QED
    BY <2>4, <2>5, <2>6 DEF FileInv
<1>2. CASE Truncates
  <2>1. /\ queue # <<>> /\ Head(queue).op = "write" /\ Accepted(Head(queue).config)
        /\ file' = [kind |-> "empty"] /\ writing' = TRUE
        /\ UNCHANGED <<legacy, saved, cut, window, state, rendered, known, reply, form, queue, edits>>
    BY <1>2 DEF Truncates, First, windowVars
  <2>2. WindowsFit' /\ QueueFits'
    BY <2>1 DEF FileInv, WindowsFit, QueueFits, Accepted
  <2>3. Readable' = {}
    BY <2>1 DEF Readable
  <2>4. IsFile(file')
    BY <2>1 DEF IsFile
  <2>5. FileFits'
    BY <2>1, <2>3, <2>4 DEF FileInv, FileFits, LegacyFits, LoadsWhatWasSaved
  <2> QED
    BY <2>2, <2>5 DEF FileInv
<1>3. CASE Writes
  <2> DEFINE config == Head(queue).config
  <2>1. /\ writing /\ file' = [kind |-> "store", store |-> ToStore(config)]
        /\ saved' = {Content(config)} /\ writing' = FALSE /\ cut' = FALSE /\ Done
        /\ UNCHANGED <<legacy, window, state, rendered, known, reply, form, edits>>
    BY <1>3 DEF Writes, windowVars
  <2>2. queue # <<>> /\ Accepted(config)
    BY <2>1 DEF FileInv, QueueFits
  <2>3. config \in SoundConfigs
    <3>1. Head(queue) \in SoundCommands
      BY <2>2, HeadTailProperties DEF FileInv, QueueFits
    <3> QED
      BY <3>1 DEF SoundCommands
  <2> HIDE DEF config
  <2>4. WindowsFit' /\ QueueFits'
    BY <2>1, <2>2, QueueShrinks DEF FileInv, WindowsFit
  <2>5. IsFile(file')
    BY <2>1, <2>3, ToStoreKeepsClusters DEF IsFile
  <2>6. Readable' = FromStore(ToStore(config))
    BY <2>1 DEF Readable
  <2>7. LoadsWhatWasSaved'
    BY <2>1, <2>2, <2>3, <2>6, RoundTrip DEF LoadsWhatWasSaved, Accepted
  <2>8. FileFits'
    BY <2>1, <2>5, <2>7 DEF FileInv, FileFits, LegacyFits
  <2> QED
    BY <2>4, <2>8 DEF FileInv
<1>4. CASE WriteRefused
  <2>1. /\ queue # <<>> /\ ~writing /\ Done
        /\ UNCHANGED <<file, legacy, writing, saved, cut, window, state, rendered, known, reply,
                     form, edits>>
    BY <1>4 DEF WriteRefused, First, fileVars, windowVars
  <2>2. WindowsFit'
    BY <2>1 DEF FileInv, WindowsFit
  <2>3. QueueFits'
    BY <2>1, QueueShrinks DEF FileInv, QueueFits
  <2>4. FileFits'
    BY <2>1, FileStays DEF FileInv, FileFits
  <2> QED
    BY <2>2, <2>3, <2>4 DEF FileInv
<1> QED
  BY <1>1, <1>2, <1>3, <1>4

LEMMA FileWindows ==
    ASSUME FileInv, NEW w \in Windows, Opens(w) \/ Loads(w) \/ Renders(w) \/ SubmitsForm(w)
    PROVE  FileInv'
<1>1. /\ UNCHANGED <<file, legacy, writing, saved, cut>>
  BY DEF Opens, Loads, Renders, SubmitsForm, fileVars
<1>2. FileFits'
  BY <1>1, FileStays DEF FileInv, FileFits
<1>3. CASE Opens(w)
  <2> DEFINE command == [window |-> w, op |-> "get", config |-> DefaultAppState, known |-> FALSE]
  <2>1. command \in SoundCommands /\ Invoke(command)
    BY <1>3, DefaultsAreSound DEF SoundCommands, Opens
  <2> HIDE DEF command
  <2>2. QueueFits'
    BY <1>1, <2>1, QueueGrows DEF FileInv
  <2>3. WindowsFit'
    BY <1>3 DEF Opens, FileInv, WindowsFit
  <2> QED
    BY <1>2, <2>2, <2>3 DEF FileInv
<1>4. CASE Loads(w)
  <2>1. reply[w] \in Seq(SoundConfigs) /\ reply[w] # <<>>
    BY <1>4 DEF Loads, FileInv, WindowsFit
  <2>2. Head(reply[w]) \in SoundConfigs /\ Tail(reply[w]) \in Seq(SoundConfigs)
    BY <2>1, HeadTailProperties
  <2>3. WindowsFit'
    BY <1>4, <2>2 DEF Loads, FileInv, WindowsFit
  <2>4. QueueFits'
    BY <1>1, <1>4 DEF Loads, FileInv, QueueFits, Accepted
  <2> QED
    BY <1>2, <2>3, <2>4 DEF FileInv
<1>5. CASE SubmitsForm(w)
  <2>1. PICK c \in Clusters :
           form' = [form EXCEPT ![w] = <<[cluster |-> c, seen |-> rendered[w]]>>]
    BY <1>5 DEF SubmitsForm
  <2>2. rendered[w] \in SUBSET Clusters
    BY DEF FileInv, WindowsFit
  <2>3. <<[cluster |-> c, seen |-> rendered[w]]>> \in Seq(Forms)
    <3>1. [cluster |-> c, seen |-> rendered[w]] \in Forms
      BY <2>2 DEF Forms
    <3> QED
      BY <3>1
  <2>4. WindowsFit'
    BY <1>5, <2>1, <2>3 DEF SubmitsForm, FileInv, WindowsFit
  <2>5. QueueFits'
    BY <1>1, <1>5 DEF SubmitsForm, FileInv, QueueFits, Accepted
  <2> QED
    BY <1>2, <2>4, <2>5 DEF FileInv
<1>6. CASE Renders(w)
  <2>1. ToSet(state[w].clusters) \in SUBSET Clusters
    <3>1. state[w].clusters \in Seq(Clusters)
      BY DEF FileInv, WindowsFit, SoundConfigs, Configs
    <3> QED
      BY <3>1 DEF ToSet
  <2>2. WindowsFit'
    BY <1>6, <2>1 DEF Renders, FileInv, WindowsFit
  <2>3. QueueFits'
    BY <1>1, <1>6 DEF Renders, FileInv, QueueFits, Accepted
  <2> QED
    BY <1>2, <2>2, <2>3 DEF FileInv
<1> QED
  BY <1>3, <1>4, <1>5, <1>6

LEMMA FileStep == FileInv /\ [Next]_vars => FileInv'
<1> SUFFICES ASSUME FileInv, [Next]_vars PROVE FileInv'
  OBVIOUS
<1>1. CASE GetsConfiguration \/ Truncates \/ Writes \/ WriteRefused
  BY <1>1, FileCommands
<1>2. CASE Stops
  <2>1. /\ <<>> \in Seq(SoundConfigs) /\ <<>> \in Seq(Forms)
        /\ <<>> \in Seq(SoundCommands) /\ Len(<<>>) = 0
    BY EmptySeq
  <2>2. /\ queue' = <<>> /\ writing' = FALSE /\ cut' = (cut \/ writing)
        /\ UNCHANGED <<file, legacy, saved>>
    BY <1>2 DEF Stops
  <2>3. WindowsFit'
    BY <1>2, <2>1, DefaultsAreSound DEF Stops, FileInv, WindowsFit
  <2>4. QueueFits'
    <3>1. queue' \in Seq(SoundCommands) /\ Len(queue') <= MaxQueue
      BY <2>1, <2>2, SettingsAssumption
    <3> QED
      BY <2>2, <3>1 DEF QueueFits
  <2>5. cut' \in BOOLEAN
    BY <2>2 DEF FileInv, FileFits, QueueFits
  <2>6. FileFits'
    BY <2>2, <2>5, FileStays DEF FileInv
  <2> QED
    BY <2>3, <2>4, <2>6 DEF FileInv
<1>3. CASE UNCHANGED vars
  <2>1. WindowsFit' /\ QueueFits'
    BY <1>3 DEF vars, fileVars, windowVars, FileInv, WindowsFit, QueueFits, Accepted
  <2>2. FileFits'
    BY <1>3, FileStays DEF vars, fileVars, FileInv, FileFits
  <2> QED
    BY <2>1, <2>2 DEF FileInv
<1> QED
  BY <1>1, <1>2, <1>3, FileEdits, FileWindows DEF Next

LEMMA FileHolds == Spec => []FileInv
<1> QED
  BY FileInit, FileStep, PTL DEF Spec

\* The copies, the answers and the commands are settings whose clusters have their own ids,
\* and a file is only half written on behalf of a command.
THEOREM SettingsTypeCorrect == Spec => []TypeOK
<1>1. FileInv => TypeOK
  <2> SUFFICES ASSUME FileInv PROVE TypeOK
    OBVIOUS
  <2>1. SoundConfigs \subseteq Configs /\ SoundCommands \subseteq Commands
    BY DEF SoundConfigs, SoundCommands, Commands
  <2>2. file.kind \in {"absent", "empty", "store"}
    BY DEF FileInv, FileFits, IsFile
  <2>3. /\ window \in [Windows -> {"closed", "open"}] /\ known \in [Windows -> BOOLEAN]
        /\ edits \in 0..MaxEdits /\ state \in [Windows -> Configs]
        /\ rendered \in [Windows -> SUBSET Clusters]
    BY <2>1 DEF FileInv, WindowsFit
  <2>4. \A w \in Windows : reply[w] \in Seq(Configs)
    <3> SUFFICES ASSUME NEW w \in Windows PROVE reply[w] \in Seq(Configs)
      OBVIOUS
    <3>1. reply[w] \in Seq(SoundConfigs)
      BY DEF FileInv, WindowsFit
    <3> QED
      BY <2>1, <3>1, SeqMonotonic
  <2>5. \A w \in Windows : form[w] \in Seq([cluster : Clusters, seen : SUBSET Clusters])
    BY DEF FileInv, WindowsFit, Forms
  <2>6. queue \in Seq(Commands) /\ Len(queue) <= MaxQueue
    BY <2>1, SeqMonotonic DEF FileInv, QueueFits
  <2>7. /\ writing \in BOOLEAN /\ cut \in BOOLEAN
        /\ writing => file.kind = "empty" /\ queue # <<>> /\ Head(queue).op = "write"
    BY DEF FileInv, QueueFits, FileFits
  <2>8. \A w \in Windows : \A m, n \in DOMAIN state[w].clusters :
           state[w].clusters[m].id = state[w].clusters[n].id => m = n
    BY DEF FileInv, WindowsFit, SoundConfigs, Distinct
  <2> QED
    BY <2>2, <2>3, <2>4, <2>5, <2>6, <2>7, <2>8 DEF TypeOK
<1> QED
  BY <1>1, FileHolds, PTL

\* Whoever can read the file gets all that was saved last, and before anything is saved
\* every cluster of the file, or of Insulator 1 if its authentication is complete.
THEOREM SavedIsLoaded == Spec => []LoadsWhatWasSaved
<1>1. FileInv => LoadsWhatWasSaved
  BY DEF FileInv, FileFits
<1> QED
  BY <1>1, FileHolds, PTL
=============================================================================
