------------------------------- MODULE Settings -------------------------------
(***************************************************************************)
(* The settings: the file in the home directory and its two formats        *)
(* (core/configuration/*.rs), the commands that read and write it          *)
(* (api/configuration.rs), and the copies that the windows keep            *)
(* (user-settings-provider.tsx and the pages that change them).            *)
(*                                                                         *)
(* A window asks for the settings once, when it opens.  Whatever it        *)
(* changes it writes whole, from its own copy.  Both commands run on the   *)
(* main thread, in the order in which they were invoked; a write first     *)
(* empties the file.  The application can stop at any time.                *)
(*                                                                         *)
(* The theme stands for the settings that are copied as they are: the      *)
(* theme, the notifications, the regex and the SQL timeout; "Sasl" and     *)
(* "Ssl" for an authentication with its fields.                            *)
(***************************************************************************)
EXTENDS Integers, Sequences, FiniteSets, SequencesExt, Orders

CONSTANTS
    Windows,
    Ids, Names,  \* of clusters
    Topics,      \* that can be favourites
    Files,       \* the files a first start can find
    Legacies,    \* the files of Insulator 1 it can find: none or one each
    Entered,     \* the authentications that the user enters
    Registries,  \* the schema registries that the user enters
    MaxEdits,    \* bound on the changes the user makes
    MaxQueue     \* bound on the commands that wait

VARIABLES
    file,     \* the file: absent, empty or with a StoreConfig
    legacy,   \* the file of Insulator 1: none or one
    window,   \* where each window is
    state,    \* its copy of the settings
    rendered, \* the clusters of that copy when its page was rendered last
    known,    \* it has loaded them, or the user has set the Kafka timeout in it
    reply,    \* the answers to get_configuration on their way to it
    form,     \* the cluster form it submits: none or one
    queue,    \* the commands that wait for the main thread
    writing,  \* the main thread is between emptying and filling the file
    saved,    \* the content that was written last: none or one
    cut,      \* the application has stopped between the two
    edits     \* how many changes have been made

fileVars == <<file, legacy, writing, saved, cut>>
windowVars == <<window, state, rendered, known, reply, form>>
vars == <<fileVars, windowVars, queue, edits>>

Themes == {"Light", "Dark"}
Authentications == {"None", "Sasl", "Ssl"}

\* A cluster has no schema registry, or one with or without an endpoint.
RegistryForms == {"none", "url", ""}
Clusters == [id : Ids, name : Names, endpoint : {"host", ""},
             authentication : Authentications, registry : RegistryForms,
             favorites : SUBSET Topics]

\* InsulatorConfig; a Kafka timeout of 0 is a field that is missing.
Configs == [clusters : Seq(Clusters), theme : Themes, kafka : Nat]

\* A StoreConfig: the clusters are in a map by id, and of one the favourites can be missing.
StoreClusters ==
    [name : Names, endpoint : {"host", ""}, authentication : Authentications,
     registry : RegistryForms, favorites : {{}} \cup {{f} : f \in SUBSET Topics}]
IsStore(store) ==
    /\ store = [clusters |-> store.clusters, theme |-> store.theme, kafka |-> store.kafka]
    /\ IsFiniteSet(DOMAIN store.clusters) /\ DOMAIN store.clusters \subseteq Ids
    /\ store.clusters \in [DOMAIN store.clusters -> StoreClusters]
    /\ store.theme \in Themes /\ store.kafka \in Nat

IsFile(f) ==
    \/ f \in [kind : {"absent", "empty"}]
    \/ f = [kind |-> "store", store |-> f.store] /\ IsStore(f.store)

\* What Insulator 1 has written: its clusters can be told apart by their guids.
Parts == {"absent", "incomplete", "complete"}
LegacyClusters ==
    [guid : Ids, name : Names, endpoint : {"host", "", "http://"}, sasl : Parts, ssl : Parts,
     registry : RegistryForms]
IsLegacy(l) ==
    /\ l \in [clusters : Seq(LegacyClusters), theme : Themes]
    /\ \A m, n \in DOMAIN l.clusters : l.clusters[m].guid = l.clusters[n].guid => m = n

ASSUME SettingsAssumption ==
    /\ MaxEdits \in Nat
    /\ MaxQueue \in Nat
    /\ Registries \subseteq {"none", "url"}
    /\ \A f \in Files : IsFile(f)
    /\ \A l \in Legacies : l = <<>> \/ (l = <<l[1]>> /\ IsLegacy(l[1]))

\* The same up to the order of the clusters, which the file does not keep.
Content(config) == [config EXCEPT !.clusters = ToSet(config.clusters)]

\* Default of InsulatorConfig
DefaultConfig == [clusters |-> <<>>, theme |-> "Dark", kafka |-> 20]

\* mutant of DefaultAppState: the missing default is added
DefaultAppStateWithTimeout == [clusters |-> <<>>, theme |-> "Light", kafka |-> 20]

\* defaultAppState of the frontend has no Kafka timeout.
DefaultAppState == [clusters |-> <<>>, theme |-> "Light", kafka |-> 0]
-----------------------------------------------------------------------------
(* The two formats *)

StoreCluster(c) == [name |-> c.name, endpoint |-> c.endpoint,
                    authentication |-> c.authentication, registry |-> c.registry,
                    favorites |-> {c.favorites}]

\* mutant of ToStore: a field is left out
ToStoreNoTimeout(config) ==
    [clusters |-> [i \in {c.id : c \in ToSet(config.clusters)} |->
                     StoreCluster(config.clusters[
                        SelectLastInSeq(config.clusters, LAMBDA c : c.id = i)])],
     theme |-> config.theme, kafka |-> 0]

\* The clusters are collected in a map by id: the last one of an id stays.
ToStore(config) ==
    [clusters |-> [i \in {c.id : c \in ToSet(config.clusters)} |->
                     StoreCluster(config.clusters[
                        SelectLastInSeq(config.clusters, LAMBDA c : c.id = i)])],
     theme |-> config.theme, kafka |-> config.kafka]

store_cluster_to_config(i, c) ==
    [id |-> i, name |-> c.name, endpoint |-> c.endpoint,
     authentication |-> c.authentication, registry |-> c.registry,
     favorites |-> UNION c.favorites]

\* The map gives its clusters in any order.
FromStore(store) ==
    {[clusters |-> cs, theme |-> store.theme,
      kafka |-> IF store.kafka = 0 THEN 15 ELSE store.kafka] :
        cs \in SetToSeqs({store_cluster_to_config(i, store.clusters[i]) :
                            i \in DOMAIN store.clusters})}

\* A cluster of Insulator 1: SASL comes before SSL, and what is incomplete is an error.
LegacyAuthentication(c) ==
    CASE c.sasl # "absent" -> IF c.sasl = "complete" THEN "Sasl" ELSE "error"
      [] c.sasl = "absent" /\ c.ssl # "absent" ->
            IF c.ssl = "complete" THEN "Ssl" ELSE "error"
      [] OTHER -> "None"

\* Clusters with an error are left out, and http:// is cut off the endpoints.
FromLegacy(old) ==
    LET valid == Filter(old.clusters, LAMBDA c : LegacyAuthentication(c) # "error")
    IN [DefaultConfig EXCEPT !.theme = old.theme, !.clusters =
          [n \in DOMAIN valid |->
             [id |-> valid[n].guid, name |-> valid[n].name,
              endpoint |-> IF valid[n].endpoint = "http://" THEN "" ELSE valid[n].endpoint,
              authentication |-> LegacyAuthentication(valid[n]),
              registry |-> valid[n].registry, favorites |-> {}]]]

\* get_configuration: what it can answer; nothing if the file is not readable.
Readable ==
    CASE file.kind = "store" -> FromStore(file.store)
      [] file.kind = "empty" -> {}
      [] file.kind = "absent" /\ legacy # <<>> -> {FromLegacy(legacy[1])}
      [] OTHER -> {DefaultConfig}
-----------------------------------------------------------------------------
Commands == [window : Windows, op : {"get", "write"}, config : Configs, known : BOOLEAN]

TypeOK ==
    /\ file.kind \in {"absent", "empty", "store"}
    /\ window \in [Windows -> {"closed", "open"}]
    /\ state \in [Windows -> Configs]
    /\ rendered \in [Windows -> SUBSET Clusters]
    /\ known \in [Windows -> BOOLEAN]
    /\ \A w \in Windows : reply[w] \in Seq(Configs)
    /\ \A w \in Windows : form[w] \in Seq([cluster : Clusters, seen : SUBSET Clusters])
    /\ queue \in Seq(Commands) /\ Len(queue) <= MaxQueue
    /\ writing \in BOOLEAN /\ cut \in BOOLEAN
    /\ edits \in 0..MaxEdits
    \* a file is half written only on behalf of a command
    /\ writing => file.kind = "empty" /\ queue # <<>> /\ Head(queue).op = "write"
    \* the clusters of a window can be told apart by their ids
    /\ \A w \in Windows : \A m, n \in DOMAIN state[w].clusters :
          state[w].clusters[m].id = state[w].clusters[n].id => m = n

Init ==
    /\ file \in Files
    /\ legacy \in Legacies
    /\ window = [w \in Windows |-> "closed"]
    /\ state = [w \in Windows |-> DefaultAppState]
    /\ rendered = [w \in Windows |-> {}]
    /\ known = [w \in Windows |-> FALSE]
    /\ reply = [w \in Windows |-> <<>>]
    /\ form = [w \in Windows |-> <<>>]
    /\ queue = <<>>
    /\ writing = FALSE
    /\ saved = {}
    /\ cut = FALSE
    /\ edits = 0
-----------------------------------------------------------------------------
(* The main thread *)

Invoke(command) == /\ Len(queue) < MaxQueue
                   /\ queue' = Append(queue, command)

Done == queue' = Tail(queue)

First(op) == queue # <<>> /\ Head(queue).op = op

\* The command get_configuration: a file that cannot be read is an error, and the
\* window hears of it and does nothing.
GetsConfiguration ==
    /\ First("get")
    /\ Done
    /\ LET w == Head(queue).window
       IN IF Readable = {} THEN UNCHANGED reply
             ELSE \E config \in Readable : reply' = [reply EXCEPT ![w] = Append(@, config)]
    /\ UNCHANGED <<fileVars, window, state, rendered, known, form, edits>>

\* The arguments can be read (kafka_timeout_secs is not optional), and no assertion fails.
Accepted(config) == /\ config.kafka # 0
                    /\ \A c \in ToSet(config.clusters) : c.endpoint # "" /\ c.registry # ""

\* mutant of Truncates: the file is opened before the settings are validated
TruncatesAnyway ==
    /\ First("write") /\ ~writing
    /\ IF Accepted(Head(queue).config) THEN writing' = TRUE /\ UNCHANGED queue
                                       ELSE writing' = FALSE /\ Done
    /\ file' = [kind |-> "empty"]
    /\ UNCHANGED <<legacy, saved, cut, windowVars, edits>>

\* write_configuration validates, converts, and then fs::write truncates
Truncates ==
    /\ First("write") /\ ~writing
    /\ Accepted(Head(queue).config)
    /\ file' = [kind |-> "empty"]
    /\ writing' = TRUE
    /\ UNCHANGED <<legacy, saved, cut, windowVars, queue, edits>>

\* and writes.
Writes ==
    /\ writing
    /\ file' = [kind |-> "store", store |-> ToStore(Head(queue).config)]
    /\ saved' = {Content(Head(queue).config)}
    /\ writing' = FALSE
    /\ cut' = FALSE
    /\ Done
    /\ UNCHANGED <<legacy, windowVars, edits>>

WriteRefused ==
    /\ First("write") /\ ~writing
    /\ ~Accepted(Head(queue).config)
    /\ Done
    /\ UNCHANGED <<fileVars, windowVars, edits>>

\* The application stops, and with it all its windows.
Stops ==
    /\ \E w \in Windows : window[w] = "open"
    /\ cut' = (cut \/ writing)
    /\ writing' = FALSE
    /\ queue' = <<>>
    /\ window' = [w \in Windows |-> "closed"]
    /\ state' = [w \in Windows |-> DefaultAppState]
    /\ rendered' = [w \in Windows |-> {}]
    /\ known' = [w \in Windows |-> FALSE]
    /\ reply' = [w \in Windows |-> <<>>]
    /\ form' = [w \in Windows |-> <<>>]
    /\ UNCHANGED <<file, legacy, saved, edits>>
-----------------------------------------------------------------------------
(* A window *)

\* The effect that runs once asks for the settings.
Opens(w) ==
    /\ window[w] = "closed"
    /\ Invoke([window |-> w, op |-> "get", config |-> DefaultAppState, known |-> FALSE])
    /\ window' = [window EXCEPT ![w] = "open"]
    /\ UNCHANGED <<fileVars, state, rendered, known, reply, form, edits>>

\* The answer replaces the copy of the window, whatever has been changed in it.
Loads(w) ==
    /\ reply[w] # <<>>
    /\ state' = [state EXCEPT ![w] = Head(reply[w])]
    /\ known' = [known EXCEPT ![w] = TRUE]
    /\ reply' = [reply EXCEPT ![w] = Tail(@)]
    /\ UNCHANGED <<fileVars, window, rendered, form, queue, edits>>

\* The page is rendered again, some time after the copy has changed.
Renders(w) ==
    /\ rendered[w] # ToSet(state[w].clusters)
    /\ rendered' = [rendered EXCEPT ![w] = ToSet(state[w].clusters)]
    /\ UNCHANGED <<fileVars, window, state, known, reply, form, queue, edits>>

\* setState: the copy is changed, and the whole of it is sent to be written.
SetState(w, config, knows) ==
    /\ window[w] = "open"
    /\ edits < MaxEdits
    /\ state' = [state EXCEPT ![w] = config]
    /\ known' = [known EXCEPT ![w] = knows]
    /\ Invoke([window |-> w, op |-> "write", config |-> config, known |-> knows])
    /\ edits' = edits + 1
    /\ UNCHANGED <<fileVars, window, rendered, reply>>

\* The page of the settings
SetsTheme(w) ==
    /\ \E theme \in Themes : theme # state[w].theme
                               /\ SetState(w, [state[w] EXCEPT !.theme = theme], known[w])
    /\ UNCHANGED form

SetsTimeout(w) ==
    /\ state[w].kafka # 30
    /\ SetState(w, [state[w] EXCEPT !.kafka = 30], TRUE)
    /\ UNCHANGED form

\* setFavorites, in the current copy
WithFavorites(w, id, favorites) == [state[w] EXCEPT !.clusters =
    [n \in DOMAIN @ |-> IF @[n].id = id THEN [@[n] EXCEPT !.favorites = favorites] ELSE @[n]]]

\* useFavorites: toggleFav starts from the favourites of the last render.
TogglesFavorite(w) ==
    /\ \E c \in rendered[w], t \in Topics :
          SetState(w, WithFavorites(w, c.id, IF t \in c.favorites THEN c.favorites \ {t}
                                                                 ELSE c.favorites \cup {t}),
                   known[w])
    /\ UNCHANGED form

DeletesCluster(w) ==
    /\ \E c \in rendered[w] :
          SetState(w, [state[w] EXCEPT !.clusters = Filter(@, LAMBDA d : d.id # c.id)],
                   known[w])
    /\ UNCHANGED form

\* The form of a new cluster, with an id nobody has, or of one that is edited: it is
\* checked against the clusters of the last render, when its keystores have been read.
\* A schema registry without an endpoint is submitted as none.
SubmitsForm(w) ==
    /\ window[w] = "open" /\ form[w] = <<>> /\ edits < MaxEdits
    /\ \E c \in Clusters :
          /\ c.endpoint = "host" /\ c.favorites = {}
          /\ c.authentication \in Entered /\ c.registry \in Registries
          /\ form' = [form EXCEPT ![w] = <<[cluster |-> c, seen |-> rendered[w]]>>]
          /\ \/ c.id \in {d.id : d \in rendered[w]}
             \/ \A v \in Windows : c.id \notin {d.id : d \in ToSet(state[v].clusters)}
    /\ UNCHANGED <<fileVars, window, state, rendered, known, reply, queue, edits>>

\* mutant of UpsertCluster: the cluster is added without looking for it
UpsertAdds(config, cluster) == [config EXCEPT !.clusters = Append(@, cluster)]

\* upsertCluster keeps the favourites, which the form does not have.
UpsertCluster(config, cluster) ==
    IF \E c \in ToSet(config.clusters) : c.id = cluster.id
       THEN [config EXCEPT !.clusters =
               [n \in DOMAIN @ |-> IF @[n].id = cluster.id
                                      THEN [cluster EXCEPT !.favorites =
                                              config.clusters[n].favorites]
                                      ELSE @[n]]]
       ELSE [config EXCEPT !.clusters = Append(@, cluster)]

\* addCluster and editCluster
EndsForm(w) ==
    /\ form[w] # <<>>
    /\ form' = [form EXCEPT ![w] = <<>>]
    /\ LET cluster == form[w][1].cluster
           seen == form[w][1].seen
       IN IF cluster.id \in {c.id : c \in seen} \/ cluster.name \notin {c.name : c \in seen}
             THEN SetState(w, UpsertCluster(state[w], cluster), known[w])
             ELSE UNCHANGED <<fileVars, window, state, rendered, known, reply, queue, edits>>
-----------------------------------------------------------------------------
Next ==
    \/ GetsConfiguration \/ Truncates \/ Writes \/ WriteRefused \/ Stops
    \/ \E w \in Windows :
          \/ Opens(w) \/ Loads(w) \/ Renders(w) \/ SetsTheme(w) \/ SetsTimeout(w)
          \/ TogglesFavorite(w) \/ DeletesCluster(w) \/ SubmitsForm(w) \/ EndsForm(w)

Spec == Init /\ [][Next]_vars
-----------------------------------------------------------------------------
(* Properties *)

\* The clusters before anything is saved: those of the file, or those of Insulator 1 but
\* the ones whose SASL configuration, or SSL configuration without SASL, is incomplete.
FirstIds ==
    CASE file.kind = "store" -> DOMAIN file.store.clusters
      [] file.kind = "absent" /\ legacy # <<>> ->
            {c.guid : c \in {d \in ToSet(legacy[1].clusters) :
                               IF d.sasl = "absent" THEN d.ssl # "incomplete"
                                                    ELSE d.sasl = "complete"}}
      [] OTHER -> {}

\* Whoever can read the file gets all that was saved last, whichever window saved it: what
\* write_configuration writes, get_configuration reads back, and no reader sees a part of
\* it.  Before anything is saved the clusters of the file are read, or those of Insulator 1
\* with a complete authentication: the import drops the others, and the next save with them.
LoadsWhatWasSaved ==
    \A config \in Readable :
       IF saved = {} THEN {c.id : c \in ToSet(config.clusters)} = FirstIds
                     ELSE Content(config) \in saved

\* The file cannot be read only while it is being written, or since the application has
\* stopped just then: no command that is refused has touched it.
EmptyFileExplained == file.kind = "empty" => writing \/ cut

\* A window that has not loaded the settings cannot overwrite them with its defaults,
\* unless the user sets the Kafka timeout there: the command is refused without one.
OnlyKnownIsSaved == writing => Head(queue).known
=============================================================================
