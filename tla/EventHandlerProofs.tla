------------------------- MODULE EventHandlerProofs -------------------------
(***************************************************************************)
(* Theorems about EventHandler, for all values of its constants.           *)
(***************************************************************************)
EXTENDS EventHandler, TLAPS

\* Only a running worker handles an event.
HandlerRuns == \A w \in Ids : handling[w] # None => w \in running

\* The dispatcher sends an event that has a namespace.
SendsAnEvent == pc = "send" => event \in Ids /\ nsOf[event] \in Namespaces

\* The types, and what keeps them: the time spent is bounded for the workers
\* that run, and what is put into a channel is an event.
TypeInv == TypeOK /\ HandlerRuns /\ SendsAnEvent
-----------------------------------------------------------------------------
LEMMA TypeInit == Init => TypeInv
<1> SUFFICES ASSUME Init PROVE TypeInv
  OBVIOUS
<1> USE EventHandlerAssumption DEF EventHandlerAssumption, Init, None
<1>1. eventsChannel \in Seq(Ids) /\ Len(eventsChannel) <= ChanCap
  OBVIOUS
<1>2. queue \in [Ids -> Seq(Ids)] /\ \A w \in Ids : Len(queue[w]) <= WorkerCap
  OBVIOUS
<1>3. sent \in 0..MaxEvents /\ served \in [Namespaces -> 0..MaxEvents]
  OBVIOUS
<1>4. age \in [Namespaces -> 0..(IdleLimit + 1)] /\ spent \in [Ids -> 0..CallLimit]
  OBVIOUS
<1> QED
  BY <1>1, <1>2, <1>3, <1>4 DEF TypeInv, TypeOK, HandlerRuns, SendsAnEvent

\* The numbers keep to their ranges.
LEMMA Ranges ==
  /\ \A i \in Ids : i \in 0..MaxEvents
  /\ 0 \in 0..(IdleLimit + 1) /\ 0 \in 0..CallLimit
  /\ \A k \in 0..(IdleLimit + 1) : k <= IdleLimit => k + 1 \in 0..(IdleLimit + 1)
  /\ \A k \in 0..CallLimit : k < CallLimit => k + 1 \in 0..CallLimit
BY EventHandlerAssumption DEF EventHandlerAssumption, Ids

LEMMA TypeStep == TypeInv /\ [Next]_vars => TypeInv'
<1> SUFFICES ASSUME TypeInv, [Next]_vars PROVE TypeInv'
  OBVIOUS
<1> USE EventHandlerAssumption
    DEF EventHandlerAssumption, TypeInv, TypeOK, HandlerRuns, SendsAnEvent, None
<1>0. Ids \subseteq Nat /\ None \notin Ids
  BY DEF Ids
<1>1. CASE Send
  <2>1. sent + 1 \in Ids /\ sent' \in 0..MaxEvents
    BY <1>1 DEF Send, Ids
  <2>2. eventsChannel' \in Seq(Ids) /\ Len(eventsChannel') <= ChanCap
    BY <1>1, <2>1 DEF Send
  <2> QED
    BY <1>1, <2>1, <2>2 DEF Send, dispatcherVars, workerVars
<1>2. CASE Cancel
  BY <1>2 DEF Cancel, dispatcherVars, workerVars
<1>3. CASE Tick
  <2> HIDE DEF TypeInv, TypeOK, HandlerRuns, SendsAnEvent, None
  <2>1. age \in [Namespaces -> 0..(IdleLimit + 1)] /\ spent \in [Ids -> 0..CallLimit] /\ HandlerRuns
    BY DEF TypeInv, TypeOK
  <2>2. age' \in [Namespaces -> 0..(IdleLimit + 1)]
    BY <1>3, <2>1, Ranges DEF Tick
  <2>3. \A w \in Ids : handling[w] # None => spent[w] < CallLimit
    BY <1>3, <2>1 DEF Tick, HandlerRuns
  <2>4. spent' \in [Ids -> 0..CallLimit]
    BY <1>3, <2>1, <2>3, Ranges DEF Tick
  <2>5. /\ ticker' = TRUE
        /\ UNCHANGED <<nsOf, sent, eventsChannel, ctxDone, pc, event, workers,
                       running, canceled, queue, handling, served>>
    BY <1>3 DEF Tick
  <2> QED
    BY <2>2, <2>4, <2>5 DEF TypeInv, TypeOK, HandlerRuns, SendsAnEvent
<1>4. CASE SkipNameless
  BY <1>4 DEF SkipNameless, dispatcherVars, workerVars
<1>5. CASE TakeEvent
  <2> DEFINE e == Head(eventsChannel)
  <2>1. e \in Ids /\ Tail(eventsChannel) \in Seq(Ids)
        /\ Len(Tail(eventsChannel)) <= ChanCap
    BY <1>5 DEF TakeEvent
  <2>2. nsOf[e] \in Namespaces
    BY <1>5, <2>1 DEF TakeEvent
  <2>3. workers' \in [Namespaces -> Ids \cup {None}]
    BY <1>5, <2>1, <2>2 DEF TakeEvent, GetOrCreateNamespaceWorker
  <2>4. age' \in [Namespaces -> 0..(IdleLimit + 1)]
    <3>1. age' \in {age, [age EXCEPT ![nsOf[e]] = 0]}
      BY <1>5 DEF TakeEvent, GetOrCreateNamespaceWorker
    <3>2. 0 \in 0..(IdleLimit + 1)
      OBVIOUS
    <3> QED
      BY <3>1, <3>2
  <2>5. running \subseteq running' /\ running' \in SUBSET Ids
    <3>1. running' \in {running, running \cup {e}}
      BY <1>5 DEF TakeEvent, GetOrCreateNamespaceWorker
    <3>2. running \in SUBSET Ids
      OBVIOUS
    <3> QED
      BY <2>1, <3>1, <3>2
  <2> QED
    BY <1>5, <2>1, <2>2, <2>3, <2>4, <2>5 DEF TakeEvent
<1>6. CASE Dispatch
  <2>1. ASSUME NEW w \in Ids
        PROVE  queue'[w] \in Seq(Ids) /\ Len(queue'[w]) <= WorkerCap
    <3>1. event \in Ids
      BY <1>6 DEF Dispatch
    <3>2. CASE w = Target
      BY <1>6, <3>1, <3>2 DEF Dispatch
    <3>3. CASE w # Target
      BY <1>6, <3>3 DEF Dispatch
    <3> QED
      BY <3>2, <3>3
  <2>2. queue' \in [Ids -> Seq(Ids)]
    BY <1>6, <2>1 DEF Dispatch
  <2>3. age' \in [Namespaces -> 0..(IdleLimit + 1)]
    <3>1. 0 \in 0..(IdleLimit + 1)
      OBVIOUS
    <3> QED
      BY <1>6, <3>1 DEF Dispatch
  <2> QED
    BY <1>6, <2>1, <2>2, <2>3 DEF Dispatch
<1>7. CASE CleanUp
  <2> PICK expired \in ExpiredSets :
        /\ canceled' = canceled \cup {workers[n] : n \in expired}
        /\ workers' = [n \in Namespaces |-> IF n \in expired THEN None ELSE workers[n]]
        /\ age' = [n \in Namespaces |-> IF n \in expired THEN 0 ELSE age[n]]
    BY <1>7 DEF CleanUp
  <2>1. \A n \in expired : workers[n] \in Ids
    BY DEF ExpiredSets
  <2>2. canceled' \in SUBSET Ids
    BY <2>1
  <2>3. workers' \in [Namespaces -> Ids \cup {None}]
    OBVIOUS
  <2>4. age' \in [Namespaces -> 0..(IdleLimit + 1)]
    OBVIOUS
  <2> QED
    BY <1>7, <2>2, <2>3, <2>4 DEF CleanUp
<1>8. CASE Stop
  <2>1. canceled' \in SUBSET Ids
    BY <1>8 DEF Stop
  <2>2. pc' \in {"select", "send", "wait", "returned"}
    BY <1>8 DEF Stop
  <2> QED
    BY <1>8, <2>1, <2>2 DEF Stop
<1>9. CASE WaitOver
  BY <1>9 DEF WaitOver, workerVars
<1>10. ASSUME NEW w \in Ids, BeginHandling(w) PROVE TypeInv'
  <2>1. Head(queue[w]) \in Ids /\ Tail(queue[w]) \in Seq(Ids)
        /\ Len(Tail(queue[w])) <= WorkerCap
    BY <1>10 DEF BeginHandling
  <2>2. queue' \in [Ids -> Seq(Ids)] /\ \A v \in Ids : Len(queue'[v]) <= WorkerCap
    BY <1>10, <2>1 DEF BeginHandling
  <2>3. handling' \in [Ids -> Ids \cup {None}]
    BY <1>10, <2>1 DEF BeginHandling
  <2>4. spent' \in [Ids -> 0..CallLimit]
    BY <1>10, Ranges DEF BeginHandling
  <2>5. served' \in [Namespaces -> 0..MaxEvents]
    <3> HIDE DEF TypeInv
    <3>1. Head(queue[w]) \in 0..MaxEvents
      BY <2>1, Ranges
    <3>2. served \in [Namespaces -> 0..MaxEvents]
      BY DEF TypeInv
    <3> QED
      BY <1>10, <3>1, <3>2 DEF BeginHandling
  <2>6. \A v \in Ids : handling'[v] # None => v \in running'
    BY <1>10 DEF BeginHandling
  <2> QED
    BY <1>10, <2>2, <2>3, <2>4, <2>5, <2>6 DEF BeginHandling, dispatcherVars
<1>11. ASSUME NEW w \in Ids, EndHandling(w) PROVE TypeInv'
  BY <1>11 DEF EndHandling, dispatcherVars
<1>12. ASSUME NEW w \in Ids, Exit(w) PROVE TypeInv'
  BY <1>12 DEF Exit, dispatcherVars
<1>13. CASE UNCHANGED vars
  BY <1>13 DEF vars, dispatcherVars, workerVars
<1> QED
  BY <1>1, <1>2, <1>3, <1>4, <1>5, <1>6, <1>7, <1>8, <1>9, <1>10, <1>11, <1>12, <1>13
  DEF Next, Environment, Dispatcher, Worker

\* Every variable keeps its type, no channel overflows and no handler outlives
\* its timeout, for any number of namespaces and events and any capacities.
THEOREM TypeCorrect == Spec => []TypeOK
<1>1. TypeInv => TypeOK
  BY DEF TypeInv
<1> QED
  BY TypeInit, TypeStep, <1>1, PTL DEF Spec
-----------------------------------------------------------------------------
(***************************************************************************)
(* Who runs for whom, and in which order: the inductive invariants.        *)
(***************************************************************************)

\* The events channel is sorted and holds only what was sent.
ChannelSorted ==
  \A k \in 1..Len(eventsChannel) :
    /\ eventsChannel[k] <= sent
    /\ \A j \in 1..(k - 1) : eventsChannel[j] < eventsChannel[k]

\* Event i was sent before every event that the channel holds.
TakenBefore(i) ==
  /\ i <= sent
  /\ \A k \in 1..Len(eventsChannel) : i < eventsChannel[k]

\* A running worker that was not told to stop is in the map.
RunningRegistered ==
  \A w \in running \ canceled : nsOf[w] \in Namespaces /\ workers[nsOf[w]] = w

\* An entry of the map is a worker of its namespace and, before the
\* cancellation, one that runs and was not told to stop.
EntriesRun ==
  \A n \in Namespaces : workers[n] # None =>
    /\ nsOf[workers[n]] = n
    /\ ~ctxDone => workers[n] \in running \ canceled

\* A worker is named after an event that was taken, so no name is used twice.
WorkersTaken ==
  \A w \in Ids :
    w \in running \cup canceled \/ (\E n \in Namespaces : workers[n] = w)
      => TakenBefore(w)

WorkerInv == ChannelSorted /\ RunningRegistered /\ EntriesRun /\ WorkersTaken

Increasing(s) == \A k \in 1..Len(s) : \A j \in 1..(k - 1) : s[j] < s[k]

\* The channel of a worker holds events of its namespace in the order in which
\* they were sent, and all of them were sent before the one on its way to it.
QueuesSorted ==
  \A w \in Ids :
    /\ Increasing(queue[w])
    /\ \A i \in Elements(queue[w]) :
         /\ TakenBefore(w) /\ TakenBefore(i)
         /\ nsOf[i] = nsOf[w]
         /\ pc = "send" => i < event

\* What was served is older than what is still on its way to a live worker.
ServedBehind ==
  /\ \A n \in Namespaces : \A i \in Nat : served[n] = i => TakenBefore(i)
  /\ pc = "send" =>
       /\ \A i \in Ids : event = i => TakenBefore(i)
       /\ \A n \in Namespaces : served[n] < event
  /\ \A w \in running \ canceled :
       \A i \in Elements(queue[w]) : served[nsOf[w]] < i

OrderInv == QueuesSorted /\ ServedBehind

\* The strengthening of OneLiveWorker and ServedInOrder that is inductive.
IInv == TypeInv /\ WorkerInv /\ OrderInv
-----------------------------------------------------------------------------
LEMMA OrderInit == Init => WorkerInv /\ OrderInv
BY EventHandlerAssumption
   DEF EventHandlerAssumption, Init, None, WorkerInv, ChannelSorted, RunningRegistered,
       EntriesRun, WorkersTaken, OrderInv, QueuesSorted, ServedBehind, TakenBefore,
       Increasing, Elements

\* The channel stays sorted, and what was taken stays taken.
LEMMA ChannelStep ==
  ASSUME TypeInv, ChannelSorted, [Next]_vars
  PROVE  ChannelSorted' /\ \A i \in Nat : TakenBefore(i) => TakenBefore(i)'
<1>0. Ids \subseteq Nat /\ sent \in Nat /\ eventsChannel \in Seq(Ids)
  BY DEF TypeInv, TypeOK, Ids
<1>1. CASE Send
  <2>1. sent' = sent + 1 /\ Len(eventsChannel') = Len(eventsChannel) + 1
    BY <1>0, <1>1 DEF Send
  <2>2. \A k \in 1..Len(eventsChannel') :
          \/ k \in 1..Len(eventsChannel) /\ eventsChannel'[k] = eventsChannel[k]
          \/ k = Len(eventsChannel) + 1 /\ eventsChannel'[k] = sent + 1
    BY <1>0, <1>1 DEF Send
  <2>3. \A k \in 1..Len(eventsChannel) : eventsChannel[k] \in Nat
    <3>1. \A k \in 1..Len(eventsChannel) : eventsChannel[k] \in Ids
      BY <1>0
    <3> QED
      BY <1>0, <3>1
  <2>4. \A i \in Nat : TakenBefore(i) => TakenBefore(i)'
    BY <1>0, <2>1, <2>2 DEF TakenBefore
  <2>5. ChannelSorted'
    <3> SUFFICES ASSUME NEW k \in 1..Len(eventsChannel')
                 PROVE  /\ eventsChannel'[k] <= sent'
                        /\ \A j \in 1..(k - 1) : eventsChannel'[j] < eventsChannel'[k]
      BY DEF ChannelSorted
    <3>1. \A j \in 1..(k - 1) : j \in 1..Len(eventsChannel)
      BY <1>0, <2>1
    <3> QED
      BY <1>0, <2>1, <2>2, <2>3, <3>1 DEF ChannelSorted
  <2> QED
    BY <2>4, <2>5
<1>2. CASE SkipNameless \/ TakeEvent
  <2>1. eventsChannel # <<>> /\ eventsChannel' = Tail(eventsChannel) /\ sent' = sent
    BY <1>2 DEF SkipNameless, TakeEvent
  <2>2. Len(eventsChannel') = Len(eventsChannel) - 1
        /\ \A k \in 1..Len(eventsChannel') : eventsChannel'[k] = eventsChannel[k + 1]
    BY <1>0, <2>1
  <2> QED
    BY <1>0, <2>1, <2>2 DEF ChannelSorted, TakenBefore
<1>3. CASE UNCHANGED <<eventsChannel, sent>>
  BY <1>3 DEF ChannelSorted, TakenBefore
<1> QED
  BY <1>1, <1>2, <1>3
  DEF Next, Environment, Dispatcher, Worker, Cancel, Tick, Dispatch, CleanUp, Stop,
      WaitOver, BeginHandling, EndHandling, Exit, vars

\* The event that the dispatcher takes is newer than all that were taken.
LEMMA TakeEventTakes ==
  ASSUME TypeInv, ChannelSorted, TakeEvent
  PROVE  /\ event' = Head(eventsChannel) /\ event' \in Ids
         /\ nsOf[event'] \in Namespaces
         /\ TakenBefore(event)'
         /\ \A i \in Nat : TakenBefore(i) => i < event'
<1>0. Ids \subseteq Nat /\ sent \in Nat /\ eventsChannel \in Seq(Ids)
  BY DEF TypeInv, TypeOK, Ids
<1>1. eventsChannel # <<>> /\ eventsChannel' = Tail(eventsChannel) /\ sent' = sent
      /\ event' = Head(eventsChannel) /\ nsOf[Head(eventsChannel)] # NoName
  BY DEF TakeEvent
<1>2. Len(eventsChannel') = Len(eventsChannel) - 1
      /\ \A k \in 1..Len(eventsChannel') : eventsChannel'[k] = eventsChannel[k + 1]
  BY <1>0, <1>1
<1>3. event' = eventsChannel[1] /\ 1 \in 1..Len(eventsChannel) /\ event' \in Ids
  BY <1>0, <1>1
<1>4. nsOf[event'] \in Namespaces
  BY <1>1, <1>3 DEF TypeInv, TypeOK
<1>5. TakenBefore(event)'
  <2>1. event' <= sent'
    BY <1>1, <1>3 DEF ChannelSorted
  <2>2. ASSUME NEW k \in 1..Len(eventsChannel')
        PROVE  event' < eventsChannel'[k]
    <3>1. k + 1 \in 1..Len(eventsChannel) /\ 1 \in 1..((k + 1) - 1)
      BY <1>0, <1>2
    <3> QED
      BY <1>2, <1>3, <3>1 DEF ChannelSorted
  <2> QED
    BY <2>1, <2>2 DEF TakenBefore
<1>6. \A i \in Nat : TakenBefore(i) => i < event'
  BY <1>3 DEF TakenBefore
<1> QED
  BY <1>1, <1>3, <1>4, <1>5, <1>6

LEMMA WorkerStep ==
  ASSUME TypeInv, WorkerInv, [Next]_vars
  PROVE  WorkerInv'
<1>0. /\ Ids \subseteq Nat /\ None \notin Ids /\ running \subseteq Ids /\ canceled \subseteq Ids
      /\ workers \in [Namespaces -> Ids \cup {None}]
      /\ nsOf \in [Ids -> Namespaces \cup {NoName}] /\ NoName \notin Namespaces
  BY EventHandlerAssumption DEF EventHandlerAssumption, TypeInv, TypeOK, Ids, None
<1>1. ChannelSorted' /\ \A i \in Nat : TakenBefore(i) => TakenBefore(i)'
  BY ChannelStep DEF WorkerInv
<1>2. nsOf' = nsOf
  BY DEF Next, Environment, Dispatcher, Worker, Send, Cancel, Tick, SkipNameless,
         TakeEvent, Dispatch, CleanUp, Stop, WaitOver, BeginHandling, EndHandling,
         Exit, vars
<1>3. CASE TakeEvent
  <2>1. /\ event' = Head(eventsChannel) /\ event' \in Ids
        /\ nsOf[event'] \in Namespaces
        /\ TakenBefore(event)'
        /\ \A i \in Nat : TakenBefore(i) => i < event'
    BY <1>3, TakeEventTakes DEF WorkerInv
  <2>2. event' \notin running \cup canceled
    BY <1>0, <2>1 DEF WorkerInv, WorkersTaken
  <2>3. canceled' = canceled /\ ctxDone' = ctxDone
    BY <1>3 DEF TakeEvent
  <2>4. CASE workers[nsOf[event']] # None
    <3>1. workers' = workers /\ running' = running
      BY <1>3, <2>1, <2>4 DEF TakeEvent, GetOrCreateNamespaceWorker
    <3> QED
      BY <1>0, <1>1, <1>2, <2>3, <3>1
      DEF WorkerInv, RunningRegistered, EntriesRun, WorkersTaken
  <2>5. CASE workers[nsOf[event']] = None
    <3>1. /\ workers' = [workers EXCEPT ![nsOf[event']] = event']
          /\ running' = running \cup {event'}
      BY <1>3, <2>1, <2>5 DEF TakeEvent, GetOrCreateNamespaceWorker
    <3>2. RunningRegistered'
      BY <1>0, <1>2, <2>1, <2>3, <2>5, <3>1 DEF WorkerInv, RunningRegistered
    <3>3. EntriesRun'
      BY <1>0, <1>2, <2>1, <2>2, <2>3, <3>1 DEF WorkerInv, EntriesRun
    <3>4. WorkersTaken'
      BY <1>0, <1>1, <2>1, <2>3, <3>1 DEF WorkerInv, WorkersTaken
    <3> QED
      BY <1>1, <3>2, <3>3, <3>4 DEF WorkerInv
  <2> QED
    BY <2>4, <2>5
<1>4. CASE CleanUp
  <2> PICK expired \in ExpiredSets :
        /\ canceled' = canceled \cup {workers[n] : n \in expired}
        /\ workers' = [n \in Namespaces |-> IF n \in expired THEN None ELSE workers[n]]
    BY <1>4 DEF CleanUp
  <2>1. \A n \in expired : n \in Namespaces /\ workers[n] # None
    BY DEF ExpiredSets
  <2>2. running' = running /\ ctxDone' = ctxDone
    BY <1>4 DEF CleanUp
  <2>3. RunningRegistered'
    BY <1>0, <1>2, <2>1, <2>2 DEF WorkerInv, RunningRegistered
  <2>4. EntriesRun'
    BY <1>0, <1>2, <2>1, <2>2 DEF WorkerInv, EntriesRun
  <2>5. WorkersTaken'
    BY <1>0, <1>1, <2>1, <2>2 DEF WorkerInv, WorkersTaken
  <2> QED
    BY <1>1, <2>3, <2>4, <2>5 DEF WorkerInv
<1>5. CASE Stop
  <2>1. /\ ctxDone /\ ctxDone' = ctxDone /\ workers' = workers /\ running' = running
        /\ canceled' = canceled \cup {workers[n] : n \in {m \in Namespaces : workers[m] # None}}
    BY <1>5 DEF Stop
  <2> QED
    BY <1>0, <1>1, <1>2, <2>1 DEF WorkerInv, RunningRegistered, EntriesRun, WorkersTaken
<1>6. ASSUME NEW w \in Ids, Exit(w) PROVE WorkerInv'
  <2>1. /\ running' = running \ {w} /\ canceled' = canceled /\ ctxDone' = ctxDone
        /\ workers' = workers /\ (ctxDone \/ w \in canceled)
    BY <1>6 DEF Exit, Cancelled, dispatcherVars
  <2> QED
    BY <1>0, <1>1, <1>2, <2>1
    DEF WorkerInv, RunningRegistered, EntriesRun, WorkersTaken
<1>7. CASE UNCHANGED <<workers, running, canceled>> /\ (ctxDone' = ctxDone \/ ctxDone')
  BY <1>0, <1>1, <1>2, <1>7
  DEF WorkerInv, RunningRegistered, EntriesRun, WorkersTaken
<1> QED
  BY <1>3, <1>4, <1>5, <1>6, <1>7
  DEF Next, Environment, Dispatcher, Worker, Send, Cancel, Tick, SkipNameless, Dispatch,
      WaitOver, BeginHandling, EndHandling, vars, dispatcherVars, workerVars

\* For any number of namespaces: a namespace never has two workers that may
\* still take events under a live context, and the map never points to a worker
\* that was retired or that serves another namespace.
THEOREM OneLiveWorkerAlways == Spec => []OneLiveWorker
<1>1. Init => TypeInv /\ WorkerInv
  BY TypeInit, OrderInit
<1>2. TypeInv /\ WorkerInv /\ [Next]_vars => (TypeInv /\ WorkerInv)'
  BY TypeStep, WorkerStep
<1>3. WorkerInv => OneLiveWorker
  BY DEF WorkerInv, RunningRegistered, EntriesRun, OneLiveWorker, Cancelled
<1> QED
  BY <1>1, <1>2, <1>3, PTL DEF Spec

LEMMA ReturnStep ==
  ASSUME TypeInv, WorkerInv, ReturnsAfterRegisteredWorkers, [Next]_vars
  PROVE  ReturnsAfterRegisteredWorkers'
<1>0. /\ None \notin Ids /\ running \subseteq Ids
      /\ workers \in [Namespaces -> Ids \cup {None}]
  BY EventHandlerAssumption DEF EventHandlerAssumption, TypeInv, TypeOK, Ids, None
<1>1. CASE Stop
  <2>1. /\ canceled \subseteq canceled' /\ workers' = workers /\ running' = running
        /\ pc' = "returned" => \A n \in Namespaces : workers[n] = None
    BY <1>1 DEF Stop
  <2>2. pc' = "returned" => running \subseteq canceled
    BY <1>0, <2>1 DEF WorkerInv, RunningRegistered
  <2> QED
    BY <1>0, <2>1, <2>2 DEF ReturnsAfterRegisteredWorkers
<1>2. CASE WaitOver
  BY <1>2 DEF WaitOver, ReturnsAfterRegisteredWorkers, workerVars
<1>3. ASSUME NEW w \in Ids, Worker(w) PROVE ReturnsAfterRegisteredWorkers'
  BY <1>3 DEF Worker, BeginHandling, EndHandling, Exit, dispatcherVars,
              ReturnsAfterRegisteredWorkers
<1>4. CASE TakeEvent \/ Dispatch \/ SkipNameless \/ CleanUp
  BY <1>4 DEF TakeEvent, Dispatch, SkipNameless, CleanUp, dispatcherVars,
              ReturnsAfterRegisteredWorkers
<1>5. CASE UNCHANGED <<pc, workers, running, canceled>>
  BY <1>5 DEF ReturnsAfterRegisteredWorkers
<1> QED
  BY <1>1, <1>2, <1>3, <1>4, <1>5
  DEF Next, Environment, Dispatcher, Send, Cancel, Tick, vars, dispatcherVars, workerVars

\* For any number of namespaces and workers: WatchForEvents returns after every
\* worker that is still in its map, and leaves only retired ones behind.
THEOREM ReturnsAfterRegisteredWorkersAlways == Spec => []ReturnsAfterRegisteredWorkers
<1>1. Init => TypeInv /\ WorkerInv /\ ReturnsAfterRegisteredWorkers
  BY TypeInit, OrderInit DEF Init, ReturnsAfterRegisteredWorkers
<1>2. TypeInv /\ WorkerInv /\ ReturnsAfterRegisteredWorkers /\ [Next]_vars
        => (TypeInv /\ WorkerInv /\ ReturnsAfterRegisteredWorkers)'
  BY TypeStep, WorkerStep, ReturnStep
<1> QED
  BY <1>1, <1>2, PTL DEF Spec
-----------------------------------------------------------------------------
(***************************************************************************)
(* Sequences of events.                                                    *)
(***************************************************************************)

LEMMA ElementsAppend ==
  ASSUME NEW S, NEW s \in Seq(S), NEW e \in S
  PROVE  Elements(Append(s, e)) = Elements(s) \cup {e}
BY DEF Elements

LEMMA ElementsTail ==
  ASSUME NEW S, NEW s \in Seq(S), s # <<>>
  PROVE  Elements(s) = {Head(s)} \cup Elements(Tail(s))
BY DEF Elements

LEMMA IncreasingAppend ==
  ASSUME NEW S \in SUBSET Nat, NEW s \in Seq(S), NEW e \in S, Increasing(s),
         \A i \in Elements(s) : i < e
  PROVE  Increasing(Append(s, e))
BY DEF Increasing, Elements

LEMMA IncreasingTail ==
  ASSUME NEW S \in SUBSET Nat, NEW s \in Seq(S), s # <<>>, Increasing(s)
  PROVE  Increasing(Tail(s)) /\ \A i \in Elements(Tail(s)) : Head(s) < i
BY DEF Increasing, Elements
-----------------------------------------------------------------------------
LEMMA OrderStep ==
  ASSUME TypeInv, WorkerInv, OrderInv, [Next]_vars
  PROVE  OrderInv'
<1>0. /\ Ids \subseteq Nat /\ None \notin Ids /\ running \subseteq Ids /\ canceled \subseteq Ids
      /\ workers \in [Namespaces -> Ids \cup {None}]
      /\ nsOf \in [Ids -> Namespaces \cup {NoName}] /\ NoName \notin Namespaces
      /\ queue \in [Ids -> Seq(Ids)] /\ served \in [Namespaces -> Nat]
  BY EventHandlerAssumption DEF EventHandlerAssumption, TypeInv, TypeOK, Ids, None
<1>1. \A i \in Nat : TakenBefore(i) => TakenBefore(i)'
  BY ChannelStep DEF WorkerInv
<1>2. nsOf' = nsOf
  BY DEF Next, Environment, Dispatcher, Worker, Send, Cancel, Tick, SkipNameless,
         TakeEvent, Dispatch, CleanUp, Stop, WaitOver, BeginHandling, EndHandling,
         Exit, vars
<1>3. \A w \in Ids : Elements(queue[w]) \subseteq Ids
  BY <1>0 DEF Elements
<1>4. CASE TakeEvent
  <2>1. /\ event' \in Ids /\ pc' = "send" /\ TakenBefore(event)'
        /\ \A i \in Nat : TakenBefore(i) => i < event'
        /\ queue' = queue /\ served' = served /\ canceled' = canceled
        /\ running' \subseteq running \cup {event'}
    BY <1>4, TakeEventTakes
    DEF WorkerInv, TakeEvent, GetOrCreateNamespaceWorker
  <2>2. QueuesSorted'
    BY <1>0, <1>1, <1>2, <1>3, <2>1 DEF OrderInv, QueuesSorted
  <2>3. Elements(queue[event']) = {}
    BY <1>0, <2>1 DEF OrderInv, QueuesSorted
  <2>4. ServedBehind'
    BY <1>0, <1>1, <1>2, <2>1, <2>3 DEF OrderInv, ServedBehind
  <2> QED
    BY <2>2, <2>4 DEF OrderInv
<1>5. CASE Dispatch
  <2>1. /\ pc = "send" /\ pc' = "select" /\ event \in Ids /\ nsOf[event] \in Namespaces
        /\ queue' = [queue EXCEPT ![Target] = Append(@, event)]
        /\ served' = served /\ running' = running /\ canceled' = canceled
    BY <1>5 DEF Dispatch, TypeInv, SendsAnEvent, workerVars
  <2>2. ASSUME NEW w \in Ids
        PROVE  \/ queue'[w] = queue[w]
               \/ /\ w = Target
                  /\ queue'[w] = Append(queue[w], event)
                  /\ Elements(queue'[w]) = Elements(queue[w]) \cup {event}
    BY <1>0, <2>1, ElementsAppend
  <2>3. ASSUME NEW w \in Ids, w = Target
        PROVE  nsOf[w] = nsOf[event] /\ TakenBefore(w)
    BY <1>0, <2>1, <2>3 DEF Target, WorkerInv, EntriesRun, WorkersTaken
  <2>4. TakenBefore(event) /\ \A n \in Namespaces : served[n] < event
    BY <2>1 DEF OrderInv, ServedBehind
  <2>5. ASSUME NEW w \in Ids
        PROVE  Increasing(queue'[w])
    <3>1. \A i \in Elements(queue[w]) : i < event
      BY <2>1 DEF OrderInv, QueuesSorted
    <3> QED
      BY <1>0, <2>1, <2>2, <3>1, IncreasingAppend DEF OrderInv, QueuesSorted
  <2>6. QueuesSorted'
    <3>1. ASSUME NEW w \in Ids, NEW i \in Elements(queue'[w])
          PROVE  TakenBefore(w)' /\ TakenBefore(i)' /\ nsOf[i] = nsOf[w]
      <4>1. CASE i \in Elements(queue[w])
        BY <1>0, <1>1, <1>3, <4>1 DEF OrderInv, QueuesSorted
      <4>2. CASE i \notin Elements(queue[w])
        <5>1. w = Target /\ i = event
          BY <2>2, <3>1, <4>2
        <5> QED
          BY <1>0, <1>1, <2>1, <2>3, <2>4, <5>1
      <4> QED
        BY <4>1, <4>2
    <3> QED
      BY <1>2, <2>1, <2>5, <3>1 DEF QueuesSorted
  <2>7. ServedBehind'
    <3>1. ASSUME NEW w \in running \ canceled, NEW i \in Elements(queue'[w])
          PROVE  served[nsOf[w]] < i
      BY <1>0, <2>2, <2>4 DEF OrderInv, ServedBehind, WorkerInv, RunningRegistered
    <3> QED
      BY <1>1, <1>2, <2>1, <3>1, <1>0 DEF OrderInv, ServedBehind
  <2> QED
    BY <2>6, <2>7 DEF OrderInv
<1>6. ASSUME NEW w \in Ids, BeginHandling(w) PROVE OrderInv'
  <2> DEFINE e == Head(queue[w])
  <2>1. /\ w \in running /\ queue[w] # <<>>
        /\ queue' = [queue EXCEPT ![w] = Tail(queue[w])]
        /\ served' = IF Cancelled(w) THEN served ELSE [served EXCEPT ![nsOf[w]] = e]
        /\ running' = running /\ canceled' = canceled /\ pc' = pc /\ event' = event
    BY <1>6 DEF BeginHandling, dispatcherVars
  <2>2. Elements(queue[w]) = {e} \cup Elements(Tail(queue[w]))
    BY <1>0, <2>1, ElementsTail
  <2>3. Increasing(Tail(queue[w])) /\ \A i \in Elements(Tail(queue[w])) : e < i
    <3>1. Increasing(queue[w])
      BY DEF OrderInv, QueuesSorted
    <3> QED
      BY <1>0, <2>1, <3>1, IncreasingTail
  <2>4. \A v \in Ids : Increasing(queue'[v]) /\ Elements(queue'[v]) \subseteq Elements(queue[v])
    BY <1>0, <2>1, <2>2, <2>3 DEF OrderInv, QueuesSorted
  <2>5. QueuesSorted'
    BY <1>0, <1>1, <1>2, <1>3, <2>1, <2>4 DEF OrderInv, QueuesSorted
  <2>6. ServedBehind'
    <3>1. CASE Cancelled(w)
      BY <1>0, <1>1, <1>2, <1>3, <2>1, <2>4, <3>1 DEF OrderInv, ServedBehind
    <3>2. CASE ~Cancelled(w)
      <4>1. w \in running \ canceled /\ nsOf[w] \in Namespaces
        BY <2>1, <3>2 DEF Cancelled, WorkerInv, RunningRegistered
      <4>2. served' = [served EXCEPT ![nsOf[w]] = e] /\ e \in Ids /\ TakenBefore(e)
            /\ (pc = "send" => e < event)
        BY <1>3, <2>1, <2>2, <3>2 DEF OrderInv, QueuesSorted
      <4>3. ASSUME NEW v \in running \ canceled, NEW i \in Elements(queue'[v])
            PROVE  served'[nsOf[v]] < i
        <5>1. CASE v = w
          BY <1>0, <2>1, <2>3, <4>1, <4>2, <5>1
        <5>2. CASE v # w
          <6>1. nsOf[v] # nsOf[w]
            BY <4>1, <5>2 DEF WorkerInv, RunningRegistered
          <6>2. served'[nsOf[v]] = served[nsOf[v]]
            BY <4>2, <6>1
          <6>3. i \in Elements(queue[v])
            BY <1>0, <2>4, <4>3
          <6> QED
            BY <6>2, <6>3 DEF OrderInv, ServedBehind
        <5> QED
          BY <5>1, <5>2
      <4> QED
        BY <1>0, <1>1, <1>2, <2>1, <4>1, <4>2, <4>3 DEF OrderInv, ServedBehind
    <3> QED
      BY <3>1, <3>2
  <2> QED
    BY <2>5, <2>6 DEF OrderInv
<1>7. CASE /\ UNCHANGED <<queue, served, event>>
           /\ (pc' = pc \/ pc' # "send")
           /\ running' \ canceled' \subseteq running \ canceled
  BY <1>0, <1>1, <1>2, <1>3, <1>7 DEF OrderInv, QueuesSorted, ServedBehind
<1> QED
  BY <1>4, <1>5, <1>6, <1>7
  DEF Next, Environment, Dispatcher, Worker, Send, Cancel, Tick, SkipNameless, CleanUp,
      Stop, WaitOver, EndHandling, Exit, vars, dispatcherVars, workerVars

LEMMA IInvAlways == Spec => []IInv
<1>1. Init => IInv
  BY TypeInit, OrderInit DEF IInv
<1>2. IInv /\ [Next]_vars => IInv'
  BY TypeStep, WorkerStep, OrderStep DEF IInv
<1> QED
  BY <1>1, <1>2, PTL DEF Spec

\* Whatever is retired, started, cancelled and delayed, no event of a namespace
\* is handled after a later one of that namespace, and none is handled twice.
THEOREM ServedInOrderAlways == Spec => ServedInOrder
<1>1. ASSUME IInv, [Next]_vars
      PROVE  [\A n \in Namespaces : served'[n] # served[n] => served'[n] > served[n]]_vars
  <2>0. /\ Ids \subseteq Nat /\ running \subseteq Ids
        /\ queue \in [Ids -> Seq(Ids)] /\ served \in [Namespaces -> Nat]
    BY <1>1, EventHandlerAssumption DEF EventHandlerAssumption, IInv, TypeInv, TypeOK, Ids
  <2>1. ASSUME NEW w \in Ids, BeginHandling(w), NEW n \in Namespaces,
               served'[n] # served[n]
        PROVE  served'[n] > served[n]
    <3>1. /\ w \in running \ canceled /\ queue[w] # <<>>
          /\ served' = [served EXCEPT ![nsOf[w]] = Head(queue[w])]
      BY <2>1 DEF BeginHandling, Cancelled
    <3>2. Head(queue[w]) \in Elements(queue[w]) /\ Head(queue[w]) \in Ids
      BY <2>0, <3>1, ElementsTail
    <3>3. served[nsOf[w]] < Head(queue[w])
      <4>1. \A v \in running \ canceled : \A i \in Elements(queue[v]) : served[nsOf[v]] < i
        BY <1>1 DEF IInv, OrderInv, ServedBehind
      <4> QED
        BY <3>1, <3>2, <4>1
    <3> QED
      BY <2>0, <2>1, <3>1, <3>2, <3>3
  <2>2. CASE UNCHANGED served
    BY <2>2
  <2> QED
    BY <1>1, <2>1, <2>2
    DEF Next, Environment, Dispatcher, Worker, Send, Cancel, Tick, SkipNameless,
        TakeEvent, Dispatch, CleanUp, Stop, WaitOver, EndHandling, Exit, vars, workerVars
<1> QED
  BY <1>1, IInvAlways, PTL DEF Spec, ServedInOrder
=============================================================================
