-------------------------------- MODULE Main --------------------------------
(***************************************************************************)
(* The life of the operator: run() of main.go and the goroutines that it   *)
(* starts.                                                                 *)
(*                                                                         *)
(* run reads the settings, makes up the metadata, connects to the service  *)
(* registry and creates the manager; an error on the way ends it.  Then a  *)
(* first goroutine, the starter, starts a second one for the event handler *)
(* (the watcher), creates the controllers and stays in the manager, while  *)
(* run waits for a signal.  On the signal it cancels the watcher and waits *)
(* for exitChan, which watcher and starter close, each at its end: the one *)
(* that comes second panics.                                               *)
(***************************************************************************)
EXTENDS Settings

VARIABLES
  platform,       \* what WhereAmIRunning has found (iAmIn), or Unset
  raw,            \* input: the settings in the config map, once they are read
  settings,       \* the settings after validation, or Unset
  meta,           \* persistentMeta
  registry,       \* the service registry that is connected, "nil" or Unset
  place,          \* the region and project it is used in, or Unset
  used,           \* history: what events were dealt with in (the values of registry)
                  \* before the manager failed
  controllers,    \* the options of the controllers that there are
  main,           \* where run is
  starter,        \* where the starter is
  watcher,        \* where the watcher is
  managerFailed,  \* history: whether manager.Start returned by itself
  signal,         \* whether a signal has come
  watchDone,      \* whether watchCtx is cancelled (with ctx or by itself)
  ctxDone,        \* whether ctx is cancelled
  exitClosed,     \* whether exitChan is closed
  panicked        \* history: where run was when a goroutine panicked, and why, or Unset

setupVars == <<platform, raw, settings, meta, registry, place, controllers>>
endVars   == <<signal, watchDone, ctxDone, exitClosed, panicked, used>>
vars == <<setupVars, main, starter, watcher, managerFailed, endVars>>

Over == main = "exited"

\* The process ends, and all its goroutines with it.
Ends == main' = "exited" /\ starter' = "none" /\ watcher' = "none"

\* What is dereferenced although it is nil, or what else goes wrong.
Reasons == {"session", "server", "network", "registry", "exitChan"}

Panics(why) ==
  /\ panicked' = [where |-> main, why |-> why]
  /\ Ends
  /\ UNCHANGED <<setupVars, managerFailed, signal, watchDone, ctxDone, exitClosed, used>>

\* run returns, with an error or with Success.
Return == main' = "closing"

Init ==
  /\ platform = Unset
  /\ raw = Unset
  /\ settings = Unset
  /\ meta = NoMetadata
  /\ registry = Unset
  /\ place = Unset
  /\ controllers = <<>>
  /\ main = "platform"
  /\ starter = "none"
  /\ watcher = "none"
  /\ managerFailed = FALSE
  /\ signal = FALSE
  /\ watchDone = FALSE
  /\ ctxDone = FALSE
  /\ exitClosed = FALSE
  /\ panicked = Unset
  /\ used = {}
-----------------------------------------------------------------------------
(***************************************************************************)
(* run, up to the signal.                                                  *)
(***************************************************************************)

\* The initialization of package cluster, before main: the platform is detected
\* once, and asked for later.
DetectPlatform ==
  /\ main = "platform"
  /\ \E inGKE, inEKS \in BOOLEAN : platform' = WhereAmIRunning(inGKE, inEKS)
  /\ main' = "settings"
  /\ UNCHANGED <<raw, settings, meta, registry, place, controllers, starter, watcher,
                 managerFailed, endVars>>

\* Outside of Google a session of AWS must be possible.
DetectPanics == main = "platform" /\ Panics("session")

\* The config map is read, is YAML, and its settings are valid.
LoadSettings ==
  /\ main = "settings"
  /\ raw' \in {given \in RawSettings : Valid(given) /\ ~DereferencesNil(given)}
  /\ settings' = Validated(raw')
  /\ main' = "metadata"
  /\ UNCHANGED <<platform, meta, registry, place, controllers, starter, watcher,
                 managerFailed, endVars>>

\* They are not valid, or the config map cannot be read.
LoadFails ==
  /\ main = "settings"
  /\ Return
  /\ UNCHANGED <<setupVars, starter, watcher, managerFailed, endVars>>

\* They are as far as that is looked at, and have a server that is null
\* (internal/utils/utils.go:148).
LoadPanics ==
  /\ main = "settings"
  /\ \E given \in RawSettings : DereferencesNil(given)
  /\ Panics("server")

\* The names of the networks are given or found out.
GetMetadata ==
  /\ main = "metadata"
  /\ HasCloudMetadata(settings)
  /\ Asks(settings) => platform = "GKE"
  /\ \E found \in FoundOnGKE : meta' = Metadata(settings, platform, found)
  /\ main' = "registry"
  /\ UNCHANGED <<platform, raw, settings, registry, place, controllers, starter, watcher,
                 managerFailed, endVars>>

\* They are not wanted, or cannot be found out.
SkipMetadata ==
  /\ main = "metadata"
  /\ ~HasCloudMetadata(settings) \/ (Asks(settings) /\ platform # "EKS")
  /\ main' = "registry"
  /\ UNCHANGED <<setupVars, starter, watcher, managerFailed, endVars>>

\* On EKS nothing is asked, and the answer is used all the same (utils.go:68).
MetadataPanics ==
  /\ main = "metadata"
  /\ Asks(settings) /\ platform = "EKS"
  /\ Panics("network")

Connected(to, where) ==
  /\ registry' = to
  /\ place' = where
  /\ main' = "manager"
  /\ UNCHANGED <<platform, raw, settings, meta, controllers, starter, watcher,
                 managerFailed, endVars>>

\* The etcd client refuses to be without endpoints.
ConnectEtcd ==
  /\ main = "registry"
  /\ settings.etcd # Unset /\ settings.etcd.endpoints # <<>>
  /\ Connected("etcd", Unset)

ConnectServiceDirectory ==
  /\ main = "registry"
  /\ settings.etcd = Unset /\ settings.sd # Unset
  /\ \E where \in GSDSettings(settings.sd, platform) : Connected("sd", where)

\* If the AWS configuration cannot be loaded then getAWSClient returns no client
\* and no error, and that there is no registry for it is not noticed here: see
\* FirstEventPanics.
ConnectCloudMap ==
  /\ main = "registry"
  /\ settings.etcd = Unset /\ settings.sd = Unset /\ settings.cm # Unset
  /\ CloudMapComplete(settings.cm)
  /\ \E to \in {"cm", "nil"} : Connected(to, settings.cm)

\* The secret is missing or empty, or has several entries (that of AWS may: any of
\* them is taken).
LoginMissing ==
  /\ main = "registry"
  /\ NeedsLogin(settings)
  /\ Return
  /\ UNCHANGED <<setupVars, starter, watcher, managerFailed, endVars>>

\* Clients or settings that are missing, or a lookup that fails.
ConnectFails ==
  /\ main = "registry"
  /\ Return
  /\ UNCHANGED <<setupVars, starter, watcher, managerFailed, endVars>>

ManagerMissing ==
  /\ main = "manager"
  /\ Return
  /\ UNCHANGED <<setupVars, starter, watcher, managerFailed, endVars>>

\* The manager is there; from now on signals are caught.
Serve ==
  /\ main = "manager"
  /\ main' = "stopChan"
  /\ starter' = "start"
  /\ UNCHANGED <<setupVars, watcher, managerFailed, endVars>>
-----------------------------------------------------------------------------
(***************************************************************************)
(* The two goroutines.                                                     *)
(***************************************************************************)

StartWatcher ==
  /\ starter = "start"
  /\ starter' = "controllers"
  /\ watcher' = "watch"
  /\ UNCHANGED <<setupVars, main, managerFailed, endVars>>

\* A controller that cannot be created is not missed, and no option says which
\* namespaces to watch by default.
CreateControllers ==
  /\ starter = "controllers"
  /\ \E created \in SUBSET {"namespace", "service"} :
       controllers' = [c \in created |-> [WatchNamespacesByDefault |-> FALSE]]
  /\ starter' = "manager"
  /\ UNCHANGED <<platform, raw, settings, meta, registry, place, main, watcher,
                 managerFailed, endVars>>

\* Mutant: the manager is started with the context of the watcher.
ManagerStopsWithWatcher ==
  /\ starter = "manager"
  /\ watchDone
  /\ starter' = "close"
  /\ UNCHANGED <<setupVars, main, watcher, managerFailed, endVars>>

\* manager.Start returns because ctx is done.
ManagerStops ==
  /\ starter = "manager"
  /\ ctxDone
  /\ starter' = "close"
  /\ UNCHANGED <<setupVars, main, watcher, managerFailed, endVars>>

\* manager.Start returns an error, which nobody looks at.
ManagerFails ==
  /\ starter = "manager"
  /\ ~ctxDone
  /\ starter' = "close"
  /\ managerFailed' = TRUE
  /\ UNCHANGED <<setupVars, main, watcher, endVars>>

StarterCloses ==
  /\ starter = "close"
  /\ ~exitClosed
  /\ starter' = "done"
  /\ exitClosed' = TRUE
  /\ UNCHANGED <<setupVars, main, watcher, managerFailed, signal, watchDone, ctxDone, panicked,
                 used>>

StarterPanics == starter = "close" /\ exitClosed /\ Panics("exitChan")

\* The watcher may get an event, once there is a controller at work.
EventsCome == watcher = "watch" /\ starter \in {"manager", "close", "done"} /\ DOMAIN controllers # {}

\* WatchForEvents returns after the cancellation (see EventHandler).
WatcherStops ==
  /\ watcher = "watch"
  /\ watchDone
  /\ watcher' = "close"
  /\ UNCHANGED <<setupVars, main, starter, managerFailed, endVars>>

\* Or it never returns: it is in a send to a worker that has gone (see StopReturns
\* of EventHandler).
WatcherBlocks ==
  /\ EventsCome /\ registry # "nil"
  /\ watchDone
  /\ watcher' = "blocked"
  /\ UNCHANGED <<setupVars, main, starter, managerFailed, endVars>>

\* Mutant: the watcher leaves it to the starter to close exitChan.
WatcherJustEnds ==
  /\ watcher = "close"
  /\ watcher' = "done"
  /\ UNCHANGED <<setupVars, main, starter, managerFailed, endVars>>

WatcherCloses ==
  /\ watcher = "close"
  /\ ~exitClosed
  /\ watcher' = "done"
  /\ exitClosed' = TRUE
  /\ UNCHANGED <<setupVars, main, starter, managerFailed, signal, watchDone, ctxDone, panicked,
                 used>>

WatcherPanics == watcher = "close" /\ exitClosed /\ Panics("exitChan")

\* An event is dispatched, and dealt with by a worker for which WatchForEvents waits.
DealWithEvent ==
  /\ EventsCome
  /\ registry # "nil"
  /\ used' = IF managerFailed THEN used ELSE used \cup {registry}
  /\ UNCHANGED <<setupVars, main, starter, watcher, managerFailed, signal, watchDone, ctxDone,
                 exitClosed, panicked>>

\* The first event: its worker is to get a namespace of the registry that is not
\* there (events_handler.go:141).
FirstEventPanics == EventsCome /\ registry = "nil" /\ Panics("registry")
-----------------------------------------------------------------------------
(***************************************************************************)
(* The end.                                                                *)
(***************************************************************************)

\* SIGINT or SIGTERM, before signal.Notify.
Kill ==
  /\ main \in {"platform", "settings", "metadata", "registry", "manager"}
  /\ signal' = TRUE
  /\ Ends
  /\ UNCHANGED <<setupVars, managerFailed, watchDone, ctxDone, exitClosed, panicked, used>>

\* After it stopChan keeps the first signal, and further ones have no effect.
Signal ==
  /\ ~signal
  /\ main \in {"stopChan", "exitChan", "closing", "cancelling", "returned"}
  /\ signal' = TRUE
  /\ UNCHANGED <<setupVars, main, starter, watcher, managerFailed, watchDone, ctxDone,
                 exitClosed, panicked, used>>

\* Mutant: run does not wait for exitChan.
StopWithoutWaiting ==
  /\ main = "stopChan"
  /\ signal
  /\ watchDone' = TRUE
  /\ main' = "closing"
  /\ UNCHANGED <<setupVars, starter, watcher, managerFailed, signal, ctxDone, exitClosed,
                 panicked, used>>

\* <-stopChan; watchCanc()
Stop ==
  /\ main = "stopChan"
  /\ signal
  /\ watchDone' = TRUE
  /\ main' = "exitChan"
  /\ UNCHANGED <<setupVars, starter, watcher, managerFailed, signal, ctxDone, exitClosed,
                 panicked, used>>

\* <-exitChan; return Success
ExitChanClosed ==
  /\ main = "exitChan"
  /\ exitClosed
  /\ Return
  /\ UNCHANGED <<setupVars, starter, watcher, managerFailed, endVars>>

\* The deferred calls, last first: the client of the registry is closed (Cloud
\* Map's needs no closing).
CloseClient ==
  /\ main = "closing"
  /\ registry' = IF registry \in {"etcd", "sd"} THEN Unset ELSE registry
  /\ main' = "cancelling"
  /\ UNCHANGED <<platform, raw, settings, meta, place, controllers, starter, watcher,
                 managerFailed, endVars>>

CancelContext ==
  /\ main = "cancelling"
  /\ ctxDone' = TRUE
  /\ watchDone' = TRUE
  /\ main' = "returned"
  /\ UNCHANGED <<setupVars, starter, watcher, managerFailed, signal, exitClosed, panicked,
                 used>>

\* main returns or calls os.Exit.
Exit ==
  /\ main = "returned"
  /\ Ends
  /\ UNCHANGED <<setupVars, managerFailed, endVars>>

Terminated == Over /\ UNCHANGED vars
-----------------------------------------------------------------------------
Run ==
  \/ DetectPlatform \/ DetectPanics
  \/ LoadSettings \/ LoadFails \/ LoadPanics
  \/ GetMetadata \/ SkipMetadata \/ MetadataPanics
  \/ ConnectEtcd \/ ConnectServiceDirectory \/ ConnectCloudMap \/ LoginMissing \/ ConnectFails
  \/ ManagerMissing \/ Serve
  \/ Stop \/ ExitChanClosed \/ CloseClient \/ CancelContext \/ Exit

Starter == StartWatcher \/ CreateControllers \/ ManagerStops \/ StarterCloses \/ StarterPanics
Watcher == WatcherStops \/ WatcherBlocks \/ WatcherCloses \/ WatcherPanics

Event == DealWithEvent \/ FirstEventPanics

Next == Run \/ Starter \/ Watcher \/ Event \/ ManagerFails \/ Kill \/ Signal \/ Terminated

Spec == Init /\ [][Next]_vars

\* Every goroutine that can go on does, but events need not come, nor the manager fail.
FairSpec == Spec /\ WF_vars(Run) /\ WF_vars(Starter) /\ WF_vars(Watcher)
-----------------------------------------------------------------------------
TypeOK ==
  /\ platform \in Platforms \cup {Unset}
  /\ raw \in RawSettings \cup {Unset}
  /\ settings \in FinalSettings \cup {Unset}
  /\ meta.platform \in Platforms \cup {Unset}
  /\ {meta.network, meta.subNetwork} \subseteq {"found"} \cup Fields
  /\ registry \in Registries \cup {"nil", Unset}
  /\ DOMAIN controllers \subseteq {"namespace", "service"}
  /\ main \in {"platform", "settings", "metadata", "registry", "manager", "stopChan", "exitChan",
               "closing", "cancelling", "returned", "exited"}
  /\ starter \in {"none", "start", "controllers", "manager", "close", "done"}
  /\ watcher \in {"none", "watch", "blocked", "close", "done"}
  /\ {managerFailed, signal, watchDone, ctxDone, exitClosed} \subseteq BOOLEAN
  /\ panicked \in {Unset} \cup
       [where : {"platform", "settings", "metadata", "stopChan", "exitChan", "closing",
                 "cancelling", "returned"},
        why : Reasons]
  /\ used \subseteq Registries \cup {Unset}

Serving == main \in {"stopChan", "exitChan"}

\* As long as the manager does not fail, run returns, and closes the client of
\* the registry, only after WatchForEvents has returned.
EndsAfterWatcher ==
  main \in {"closing", "cancelling", "returned"} /\ starter # "none" /\ ~managerFailed
    => watcher \in {"close", "done"}

\* While the operator serves, or closes the client of the registry, exitChan is not
\* closed twice, unless the manager has failed: only when run is over, where its
\* deferred cancellation ends the manager, and the starter closes exitChan once more
\* if the process is still there.  Nothing else panics by then but the first event
\* without a client of Cloud Map.
ClosesOnceWhileServing ==
  panicked # Unset /\ ~managerFailed =>
    \/ panicked.where \in {"platform", "settings", "metadata", "returned"}
    \/ panicked.why = "registry" /\ registry = "nil"

\* All events are dealt with in the one service registry that the settings name,
\* as long as the manager does not fail: never in one of several, never after its
\* client is closed, and never without a client (the missing one of Cloud Map does not
\* get as far).  Service Directory is used in the region and project that are given;
\* where one is not, it is the one the operator runs in, and never an empty one.
UsesTheRegistrySet ==
  used # {} =>
    /\ used = Named(raw)
    /\ "sd" \in used =>
         \A field \in {"region", "project"} :
           /\ raw.sd[field] = "given" => place[field] = "given"
           /\ raw.sd[field] = "" => place[field] = "found" /\ platform = "GKE"
    /\ "cm" \in used => place.region = "given"

\* No server of etcd gets lost in the validation and none is made up; a server
\* appears a second time only after another one of its host; and the operator
\* does not serve without any.
KeepsEtcdServers ==
  settings # Unset /\ settings.etcd # Unset =>
    LET given == raw.etcd.endpoints
        kept  == settings.etcd.endpoints
    IN  /\ Range(kept) = {WithPort(e) : e \in {x \in Range(given) : x.host # ""}}
        /\ \A i, j \in DOMAIN kept : i < j /\ kept[i] = kept[j] =>
             \E k \in (i + 1)..(j - 1) : kept[k].host = kept[i].host
        /\ Serving => kept # <<>>

\* What is registered for "auto" is what was found out on GKE, and a name that was
\* given is registered as it is, if at all; a network is not registered under a name
\* if it is not set, nor a sub-network.  A network that was given is left out only with
\* a sub-network that was to be found out, and was not.  (What becomes of a
\* sub-network alone, or of a network alone, is left open: see the README.)
MetadataNamesNetworks ==
  /\ meta # NoMetadata =>
       /\ "auto" \notin {meta.network, meta.subNetwork}
       /\ "found" \in {meta.network, meta.subNetwork} => platform = "GKE"
       /\ settings.network = "given" => meta.network = "given"
       /\ settings.network = Unset => meta.network = Unset
       /\ settings.subNetwork = "given" => meta.subNetwork \in {"given", Unset}
       /\ settings.subNetwork = Unset => meta.subNetwork \in {"", Unset}
  /\ Serving /\ meta.network = Unset => settings.network = Unset \/ Asks(settings)

\* The watcher never returns, and run waits for it.
Stuck == watcher = "blocked" /\ starter = "manager" /\ main = "exitChan"

\* A signal ends the operator, whether or not its manager has failed and whatever
\* controllers it has; but it may get stuck with a watcher that does not return.
SignalEndsRun == signal ~> (Over \/ Stuck)
-----------------------------------------------------------------------------
\* "watchNamespacesByDefault will tell the operator what to do when such label is
\* not found" (docs/configuration.md:45): the controllers have the option as it is
\* set.
WatchesAsSet ==
  \A c \in DOMAIN controllers :
    controllers[c].WatchNamespacesByDefault = settings.watchNamespacesByDefault
=============================================================================
