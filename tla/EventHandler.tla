---------------------------- MODULE EventHandler ----------------------------
(***************************************************************************)
(* The event dispatcher of pkg/serviceregistry (events_handler.go) and the *)
(* loop of its namespace workers (namespace_worker.go).                    *)
(*                                                                         *)
(* One goroutine, WatchForEvents, takes events from a buffered channel     *)
(* that the Kubernetes controllers fill and passes each to the worker of   *)
(* the event's namespace, starting that worker on first use.  A ticker     *)
(* makes it retire the workers that were given nothing for a while, and    *)
(* the cancellation of its context makes it stop them all.  A worker is a  *)
(* goroutine with a buffered channel of its own; it handles one event at a *)
(* time, by calls to the service registry that a timeout bounds.           *)
(*                                                                         *)
(* An event is its rank in the order in which the controllers sent it; its *)
(* payload does not influence the dispatcher, its namespace does.  What a  *)
(* handler does to the registry is the matter of NamespaceWorker.tla.      *)
(* A worker is named after the event it was started for.                   *)
(***************************************************************************)
EXTENDS Integers, Sequences, FiniteSets

CONSTANTS
  Namespaces,   \* the names of namespaces
  NoName,       \* what getNamespaceNameFromEventObject returns for an object
                \* it does not know
  MaxEvents,    \* how many events the controllers send (bounds the model)
  ChanCap,      \* capacity of the events channel (100, main.go:227)
  WorkerCap,    \* capacity of a worker's channel (25)
  IdleLimit,    \* maximumIdleDuration, in ticks of the ticker (5)
  CallLimit,    \* the timeout of a handler, in ticks (1)
  Prompt        \* whether time is known to leave a free worker no event
                \* waiting: FALSE assumes nothing about scheduling

ASSUME EventHandlerAssumption ==
  /\ NoName \notin Namespaces
  /\ MaxEvents \in Nat
  /\ ChanCap \in Nat \ {0}
  /\ WorkerCap \in Nat \ {0}
  /\ IdleLimit \in Nat
  /\ CallLimit \in Nat
  /\ Prompt \in BOOLEAN

VARIABLES
  nsOf,           \* input: the namespace of each event the controllers send
  sent,           \* how many events the controllers have sent
  eventsChannel,  \* the channel between controllers and dispatcher
  pc,             \* where WatchForEvents is
  event,          \* the event WatchForEvents is passing on, or None
  workers,        \* e.workers: the registered worker of a namespace, or None
  age,            \* ticks since a registered worker's lastEvent (saturating)
  ticker,         \* whether the ticker's channel holds a tick
  ctxDone,        \* whether mainCtx is cancelled
  running,        \* the worker goroutines alive, i.e. what waitGroup counts
  canceled,       \* the workers whose own context was cancelled with canc()
  queue,          \* a worker's eventsChan
  handling,       \* the event a worker is handling, or None
  spent,          \* ticks since that handling began
  served          \* history: last event of a namespace whose handler was
                  \* started under a live context

dispatcherVars == <<pc, event, workers, age, ticker>>
workerVars     == <<running, canceled, queue, handling, spent, served>>
vars == <<nsOf, sent, eventsChannel, ctxDone, dispatcherVars, workerVars>>

Ids  == 1..MaxEvents
None == 0

\* A worker's context derives from mainCtx (events_handler.go:147).
Cancelled(w) == ctxDone \/ w \in canceled

\* The worker that receives the current event; only the dispatcher writes the
\* map, so it is the nsWorker of the code until the send is over.
Target == workers[nsOf[event]]

Elements(s) == {s[i] : i \in 1..Len(s)}
-----------------------------------------------------------------------------
Init ==
  /\ nsOf \in [Ids -> Namespaces \cup {NoName}]
  /\ sent = 0
  /\ eventsChannel = <<>>
  /\ pc = "select"
  /\ event = None
  /\ workers = [n \in Namespaces |-> None]
  /\ age = [n \in Namespaces |-> 0]
  /\ ticker = FALSE
  /\ ctxDone = FALSE
  /\ running = {}
  /\ canceled = {}
  /\ queue = [w \in Ids |-> <<>>]
  /\ handling = [w \in Ids |-> None]
  /\ spent = [w \in Ids |-> 0]
  /\ served = [n \in Namespaces |-> 0]

(***************************************************************************)
(* The environment: the controllers, the signal, and time.                 *)
(***************************************************************************)

\* A controller's send blocks while the channel is full; the controllers are
\* not told of the cancellation, so they keep sending after it.
Send ==
  /\ sent < MaxEvents
  /\ Len(eventsChannel) < ChanCap
  /\ sent' = sent + 1
  /\ eventsChannel' = Append(eventsChannel, sent + 1)
  /\ UNCHANGED <<nsOf, ctxDone, dispatcherVars, workerVars>>

\* main calls watchCanc on SIGINT or SIGTERM.
Cancel ==
  /\ ~ctxDone
  /\ ctxDone' = TRUE
  /\ UNCHANGED <<nsOf, sent, eventsChannel, dispatcherVars, workerVars>>

\* One minute: a tick is offered (the ticker drops it if the last one was not
\* taken).  Handlers give up after CallLimit, so time does not pass beyond it
\* while one is at work.
Tick ==
  /\ \A w \in running : handling[w] # None => spent[w] < CallLimit
  /\ Prompt => \A w \in running : handling[w] = None => queue[w] = <<>>
  /\ ticker' = TRUE
  /\ age' = [n \in Namespaces |->
               IF workers[n] # None /\ age[n] <= IdleLimit
               THEN age[n] + 1 ELSE age[n]]
  /\ spent' = [w \in Ids |-> IF handling[w] # None THEN spent[w] + 1 ELSE 0]
  /\ UNCHANGED <<nsOf, sent, eventsChannel, ctxDone, pc, event, workers,
                 running, canceled, queue, handling, served>>
-----------------------------------------------------------------------------
(***************************************************************************)
(* WatchForEvents.  Its select takes any of the cases that are ready.      *)
(***************************************************************************)

\* case event := <-eventsChannel, for an object without a namespace name.
SkipNameless ==
  /\ pc = "select"
  /\ eventsChannel # <<>>
  /\ nsOf[Head(eventsChannel)] = NoName
  /\ eventsChannel' = Tail(eventsChannel)
  /\ UNCHANGED <<nsOf, sent, ctxDone, dispatcherVars, workerVars>>

\* Mutant: the worker is registered, its goroutine is not started.
GetOrCreateNotStarted(e) ==
  LET n == nsOf[e] IN
  /\ workers' = [workers EXCEPT ![n] = IF @ = None THEN e ELSE @]
  /\ UNCHANGED <<age, running>>

\* getOrCreateNamespaceWorker for event e: the map's worker, or a new one that
\* is entered in the map and in the wait group and started.
GetOrCreateNamespaceWorker(e) ==
  LET n == nsOf[e] IN
  IF workers[n] # None
  THEN UNCHANGED <<workers, age, running>>
  ELSE /\ workers' = [workers EXCEPT ![n] = e]
       /\ age' = [age EXCEPT ![n] = 0]
       /\ running' = running \cup {e}

\* case event := <-eventsChannel, up to the send to the worker.
TakeEvent ==
  /\ pc = "select"
  /\ eventsChannel # <<>>
  /\ LET e == Head(eventsChannel) IN
       /\ nsOf[e] # NoName
       /\ event' = e
       /\ GetOrCreateNamespaceWorker(e)
  /\ pc' = "send"
  /\ eventsChannel' = Tail(eventsChannel)
  /\ UNCHANGED <<nsOf, sent, ctxDone, ticker, canceled, queue, handling, spent,
                 served>>

\* Mutant: the worker's channel is taken for an unbounded one.
DispatchUnbounded ==
  /\ pc = "send"
  /\ queue' = [queue EXCEPT ![Target] = Append(@, event)]
  /\ age' = [age EXCEPT ![nsOf[event]] = 0]
  /\ pc' = "select"
  /\ event' = None
  /\ UNCHANGED <<nsOf, sent, eventsChannel, ctxDone, workers, ticker, running,
                 canceled, handling, spent, served>>

\* Mutant: a send that does not block, the event is dropped if there is no room.
DispatchOrDrop ==
  /\ pc = "send"
  /\ queue' = IF Len(queue[Target]) < WorkerCap
              THEN [queue EXCEPT ![Target] = Append(@, event)] ELSE queue
  /\ age' = [age EXCEPT ![nsOf[event]] = 0]
  /\ pc' = "select"
  /\ event' = None
  /\ UNCHANGED <<nsOf, sent, eventsChannel, ctxDone, workers, ticker, running,
                 canceled, handling, spent, served>>

\* nsWorker.worker.eventsChan <- event: blocks while the channel is full.
\* lastEvent is set once the send is over.
Dispatch ==
  /\ pc = "send"
  /\ Len(queue[Target]) < WorkerCap
  /\ queue' = [queue EXCEPT ![Target] = Append(@, event)]
  /\ age' = [age EXCEPT ![nsOf[event]] = 0]
  /\ pc' = "select"
  /\ event' = None
  /\ UNCHANGED <<nsOf, sent, eventsChannel, ctxDone, workers, ticker, running,
                 canceled, handling, spent, served>>

\* The namespaces that now.Sub(worker.lastEvent) > maximumIdleDuration selects.
\* Ages are whole ticks: one beyond the limit is past it for sure, one equal to
\* it may be past it, since the tick may be taken late.
ExpiredSets ==
  LET registered == {n \in Namespaces : workers[n] # None} IN
  {S \in SUBSET {n \in registered : age[n] >= IdleLimit} :
     {n \in registered : age[n] > IdleLimit} \subseteq S}

\* Mutant: the worker is cancelled and stays registered.
CleanUpKeepsEntry ==
  /\ pc = "select"
  /\ ticker
  /\ ticker' = FALSE
  /\ \E expired \in ExpiredSets :
       canceled' = canceled \cup {workers[n] : n \in expired}
  /\ UNCHANGED <<nsOf, sent, eventsChannel, ctxDone, pc, event, workers, age,
                 running, queue, handling, spent, served>>

\* Mutant: the worker is forgotten and not cancelled.
CleanUpWithoutCancel ==
  /\ pc = "select"
  /\ ticker
  /\ ticker' = FALSE
  /\ \E expired \in ExpiredSets :
       /\ workers' = [n \in Namespaces |-> IF n \in expired THEN None ELSE workers[n]]
       /\ age' = [n \in Namespaces |-> IF n \in expired THEN 0 ELSE age[n]]
  /\ UNCHANGED <<nsOf, sent, eventsChannel, ctxDone, pc, event, canceled, running,
                 queue, handling, spent, served>>

\* case <-cleanUpTicker.C: cancel the expired workers and forget them.
CleanUp ==
  /\ pc = "select"
  /\ ticker
  /\ ticker' = FALSE
  /\ \E expired \in ExpiredSets :
       /\ canceled' = canceled \cup {workers[n] : n \in expired}
       /\ workers' = [n \in Namespaces |-> IF n \in expired THEN None ELSE workers[n]]
       /\ age' = [n \in Namespaces |-> IF n \in expired THEN 0 ELSE age[n]]
  /\ UNCHANGED <<nsOf, sent, eventsChannel, ctxDone, pc, event, running, queue,
                 handling, spent, served>>

\* Mutant: the workers are told to stop and not waited for.
StopWithoutWaiting ==
  /\ pc = "select"
  /\ ctxDone
  /\ pc' = "returned"
  /\ canceled' = canceled \cup {workers[n] : n \in {m \in Namespaces : workers[m] # None}}
  /\ UNCHANGED <<nsOf, sent, eventsChannel, ctxDone, event, workers, age, ticker,
                 running, queue, handling, spent, served>>

\* case <-mainCtx.Done(): return at once if no worker is registered, else wait
\* for the wait group.
Stop ==
  /\ pc = "select"
  /\ ctxDone
  /\ pc' = IF \A n \in Namespaces : workers[n] = None THEN "returned" ELSE "wait"
  /\ canceled' = canceled \cup {workers[n] : n \in {m \in Namespaces : workers[m] # None}}
  /\ UNCHANGED <<nsOf, sent, eventsChannel, ctxDone, event, workers, age, ticker,
                 running, queue, handling, spent, served>>

\* Mutant: the workers are to drain their channels first.
WaitOverWhenDrained ==
  /\ pc = "wait"
  /\ running = {}
  /\ \A w \in Ids : queue[w] = <<>>
  /\ pc' = "returned"
  /\ UNCHANGED <<nsOf, sent, eventsChannel, ctxDone, event, workers, age, ticker,
                 workerVars>>

\* e.waitGroup.Wait() returns when no worker goroutine is left.
WaitOver ==
  /\ pc = "wait"
  /\ running = {}
  /\ pc' = "returned"
  /\ UNCHANGED <<nsOf, sent, eventsChannel, ctxDone, event, workers, age, ticker,
                 workerVars>>
-----------------------------------------------------------------------------
(***************************************************************************)
(* handleNamespacedEvents.  With the context done and an event ready, the  *)
(* select may still take the event; its handler then starts under a dead   *)
(* context.                                                                *)
(***************************************************************************)

\* case event := <-n.eventsChan: the handler starts.
BeginHandling(w) ==
  /\ w \in running
  /\ handling[w] = None
  /\ queue[w] # <<>>
  /\ handling' = [handling EXCEPT ![w] = Head(queue[w])]
  /\ spent' = [spent EXCEPT ![w] = 0]
  /\ queue' = [queue EXCEPT ![w] = Tail(queue[w])]
  /\ served' = IF Cancelled(w) THEN served
               ELSE [served EXCEPT ![nsOf[w]] = Head(queue[w])]
  /\ UNCHANGED <<nsOf, sent, eventsChannel, ctxDone, dispatcherVars, running,
                 canceled>>

\* Mutant: a handler that fails puts its event back into the channel.
EndHandlingRequeues(w) ==
  /\ w \in running
  /\ handling[w] # None
  /\ queue' = IF Len(queue[w]) < WorkerCap
              THEN [queue EXCEPT ![w] = Append(@, handling[w])] ELSE queue
  /\ handling' = [handling EXCEPT ![w] = None]
  /\ spent' = [spent EXCEPT ![w] = 0]
  /\ UNCHANGED <<nsOf, sent, eventsChannel, ctxDone, dispatcherVars, running,
                 canceled, served>>

\* The handler returns, done or timed out or cancelled.
EndHandling(w) ==
  /\ w \in running
  /\ handling[w] # None
  /\ handling' = [handling EXCEPT ![w] = None]
  /\ spent' = [spent EXCEPT ![w] = 0]
  /\ UNCHANGED <<nsOf, sent, eventsChannel, ctxDone, dispatcherVars, running,
                 canceled, queue, served>>

\* Mutant: the context is only looked at when an event arrives.
ExitAtNextEvent(w) ==
  /\ w \in running
  /\ handling[w] = None
  /\ queue[w] # <<>>
  /\ Cancelled(w)
  /\ running' = running \ {w}
  /\ UNCHANGED <<nsOf, sent, eventsChannel, ctxDone, dispatcherVars, canceled,
                 queue, handling, spent, served>>

\* case <-ctx.Done(): the goroutine ends and leaves the wait group.
Exit(w) ==
  /\ w \in running
  /\ handling[w] = None
  /\ Cancelled(w)
  /\ running' = running \ {w}
  /\ UNCHANGED <<nsOf, sent, eventsChannel, ctxDone, dispatcherVars, canceled,
                 queue, handling, spent, served>>
-----------------------------------------------------------------------------
Environment == Send \/ Cancel \/ Tick
Dispatcher  == SkipNameless \/ TakeEvent \/ Dispatch \/ CleanUp \/ Stop \/ WaitOver
Worker(w)   == BeginHandling(w) \/ EndHandling(w) \/ Exit(w)

Next == Environment \/ Dispatcher \/ \E w \in Ids : Worker(w)

Spec == Init /\ [][Next]_vars

\* What Go's scheduler and the handlers' timeouts give.  A select that is ready
\* in several cases picks one uniformly at random, so a case that is ready each
\* time the loop comes round is taken in the end: strong fairness for the two
\* cancellation cases, which compete with arriving events.
Fairness ==
  /\ WF_vars(SkipNameless) /\ WF_vars(TakeEvent) /\ WF_vars(Dispatch)
  /\ WF_vars(WaitOver) /\ SF_vars(Stop)
  /\ \A w \in Ids :
       WF_vars(BeginHandling(w)) /\ WF_vars(EndHandling(w)) /\ SF_vars(Exit(w))

FairSpec == Spec /\ Fairness
-----------------------------------------------------------------------------
\* Every variable has its type, and no channel exceeds its capacity.
TypeOK ==
  /\ nsOf \in [Ids -> Namespaces \cup {NoName}]
  /\ sent \in 0..MaxEvents
  /\ eventsChannel \in Seq(Ids) /\ Len(eventsChannel) <= ChanCap
  /\ pc \in {"select", "send", "wait", "returned"}
  /\ event \in Ids \cup {None}
  /\ workers \in [Namespaces -> Ids \cup {None}]
  /\ age \in [Namespaces -> 0..(IdleLimit + 1)]
  /\ ticker \in BOOLEAN
  /\ ctxDone \in BOOLEAN
  /\ running \in SUBSET Ids
  /\ canceled \in SUBSET Ids
  /\ queue \in [Ids -> Seq(Ids)] /\ \A w \in Ids : Len(queue[w]) <= WorkerCap
  /\ handling \in [Ids -> Ids \cup {None}]
  /\ spent \in [Ids -> 0..CallLimit]
  /\ served \in [Namespaces -> 0..MaxEvents]

\* A namespace has one worker at work at most, the registered one: a running
\* worker whose context is alive is its namespace's entry in the map, and an
\* entry is a running worker of that namespace that was not told to stop, until
\* the dispatcher's own context is cancelled.
OneLiveWorker ==
  /\ \A w \in running : ~Cancelled(w) => workers[nsOf[w]] = w
  /\ \A n \in Namespaces : workers[n] # None =>
       /\ nsOf[workers[n]] = n
       /\ ~ctxDone => workers[n] \in running \ canceled

\* WatchForEvents returns after its workers ("so we can successfully wait for it
\* to finish", events_handler.go:150), but for those that it had retired before:
\* if no worker is registered it does not wait (events_handler.go:76).
ReturnsAfterRegisteredWorkers ==
  pc = "returned" =>
    /\ running \subseteq canceled
    /\ \A n \in Namespaces : workers[n] \notin running

\* Whatever is retired and started in between, the events of a namespace are
\* handled in the order in which they were sent, each at most once.
ServedInOrder ==
  [][\A n \in Namespaces : served'[n] # served[n] => served'[n] > served[n]]_vars

\* The events of a namespace that are on their way to its registered worker.
Backlog(n) ==
  IF ctxDone THEN {}
  ELSE {i \in Elements(eventsChannel) \cup (IF pc = "send" THEN {event} ELSE {}) :
          nsOf[i] = n}
       \cup IF workers[n] = None THEN {} ELSE Elements(queue[workers[n]])

\* An accepted event is only dropped unhandled when the operator stops or when
\* the worker of its namespace is retired.
LostOnlyByRetirementOrStop ==
  [][\A n \in Namespaces : \A i \in Backlog(n) \ Backlog(n)' :
       \/ served'[n] = i
       \/ ctxDone'
       \/ workers[n] # None /\ workers'[n] = None]_vars

\* The handler implements a lossy first-in first-out queue per namespace.
Delivery == INSTANCE EventDelivery WITH
  accepted <- sent, backlog <- [n \in Namespaces |-> Backlog(n)]

DeliverySpec == Delivery!Spec
-----------------------------------------------------------------------------
\* No event waits for ever: a slow or full worker of another namespace delays
\* the dispatcher, it does not block it.  Events are finitely many and do not
\* come back, so each leaves its backlog iff in the end all backlogs are empty.
BacklogDrains == <>[](\A n \in Namespaces : Backlog(n) = {})

\* After the cancellation every worker goroutine ends, also those that the
\* dispatcher starts when it takes more events before it sees the cancellation.
WorkersStop == ctxDone ~> [](running = {})

\* The dispatcher waits for room in the channel of a worker that has gone.
Stuck == pc = "send" /\ Len(queue[Target]) = WorkerCap /\ Target \notin running

\* After the cancellation WatchForEvents returns, whatever is in the channels and
\* whoever is retired or started at that time; the one thing that may keep it is a
\* send to a full worker that has gone before (StopReturns below).
ReturnsUnlessStuck == ctxDone ~> [](pc = "returned" \/ Stuck)
-----------------------------------------------------------------------------
(***************************************************************************)
(* What comments and log messages of the code say and the code does not do.*)
(***************************************************************************)

\* "worker exceeded maximum idle time" (events_handler.go:116): a worker that
\* is retired has no event waiting for it, so retiring it loses none.
RetiresOnlyIdleWorkers ==
  [][\A w \in canceled' \ canceled :
       ~ctxDone => queue[w] = <<>>]_vars

\* "all namespace workers exited: goodbye!" (events_handler.go:88): after the
\* cancellation WatchForEvents ends.
StopReturns == ctxDone ~> pc = "returned"
=============================================================================
