------------------------ MODULE EventDeliveryProofs ------------------------
(***************************************************************************)
(* EventHandler implements EventDelivery: proved for any number of         *)
(* namespaces and events, any capacities and any limits.                   *)
(***************************************************************************)
EXTENDS EventHandlerProofs

\* The dispatcher sends to a worker that it has registered.
TargetRegistered == pc = "send" => workers[nsOf[event]] # None

\* Nothing has been retired between the registration and the send.
DeliveryInv == IInv /\ TargetRegistered

\* The three places where an event waits for its worker to take it.
Waiting(n)  == {i \in Elements(eventsChannel) : nsOf[i] = n}
OnItsWay(n) == IF pc = "send" /\ nsOf[event] = n THEN {event} ELSE {}
Queued(n)   == IF workers[n] = None THEN {} ELSE Elements(queue[workers[n]])

Unserved(n) == Waiting(n) \cup OnItsWay(n) \cup Queued(n)
-----------------------------------------------------------------------------
\* What the types say of the places of events.
LEMMA Types ==
  ASSUME TypeInv
  PROVE  /\ Ids \subseteq Nat /\ None \notin Ids /\ sent \in Nat
         /\ eventsChannel \in Seq(Ids) /\ queue \in [Ids -> Seq(Ids)]
         /\ nsOf \in [Ids -> Namespaces \cup {NoName}] /\ NoName \notin Namespaces
         /\ workers \in [Namespaces -> Ids \cup {None}]
         /\ pc = "send" => event \in Ids /\ nsOf[event] \in Namespaces
BY EventHandlerAssumption
DEF EventHandlerAssumption, TypeInv, TypeOK, SendsAnEvent, Ids, None

LEMMA TargetStep ==
  ASSUME TypeInv, TargetRegistered, [Next]_vars
  PROVE  TargetRegistered'
<1>0. None \notin Ids /\ eventsChannel \in Seq(Ids)
      /\ nsOf \in [Ids -> Namespaces \cup {NoName}] /\ NoName \notin Namespaces
      /\ workers \in [Namespaces -> Ids \cup {None}]
  BY EventHandlerAssumption DEF EventHandlerAssumption, TypeInv, TypeOK, Ids, None
<1>1. CASE TakeEvent
  <2> DEFINE e == Head(eventsChannel)
  <2>1. e \in Ids /\ event' = e /\ nsOf' = nsOf /\ nsOf[e] \in Namespaces
    BY <1>0, <1>1 DEF TakeEvent
  <2>2. workers'[nsOf[e]] # None
    BY <1>0, <1>1, <2>1 DEF TakeEvent, GetOrCreateNamespaceWorker
  <2> QED
    BY <2>1, <2>2 DEF TargetRegistered
<1>2. CASE UNCHANGED <<pc, event, nsOf, workers>>
  BY <1>2 DEF TargetRegistered
<1>3. CASE pc' # "send"
  BY <1>3 DEF TargetRegistered
<1> QED
  BY <1>1, <1>2, <1>3
  DEF Next, Environment, Dispatcher, Worker, Send, Cancel, Tick, SkipNameless, Dispatch,
      CleanUp, Stop, WaitOver, BeginHandling, EndHandling, Exit, vars, dispatcherVars,
      workerVars

LEMMA DeliveryInvAlways == Spec => []DeliveryInv
<1>1. Init => TargetRegistered
  BY DEF Init, TargetRegistered
<1>2. IInv /\ TargetRegistered /\ [Next]_vars => TargetRegistered'
  BY TargetStep DEF IInv
<1> QED
  BY <1>1, <1>2, IInvAlways, PTL DEF Spec, DeliveryInv
-----------------------------------------------------------------------------
LEMMA BacklogIsUnserved ==
  ASSUME NEW n \in Namespaces
  PROVE  /\ Backlog(n) = IF ctxDone THEN {} ELSE Unserved(n)
         /\ Backlog(n)' = IF ctxDone' THEN {} ELSE Unserved(n)'
<1>1. {i \in Elements(eventsChannel) \cup (IF pc = "send" THEN {event} ELSE {}) : nsOf[i] = n}
        = Waiting(n) \cup OnItsWay(n)
  BY DEF Waiting, OnItsWay
<1>2. {i \in Elements(eventsChannel)' \cup (IF pc' = "send" THEN {event'} ELSE {}) : nsOf'[i] = n}
        = Waiting(n)' \cup OnItsWay(n)'
  BY DEF Waiting, OnItsWay
<1> QED
  BY <1>1, <1>2 DEF Backlog, Unserved, Queued
-----------------------------------------------------------------------------
(***************************************************************************)
(* What each step does to the backlogs.                                    *)
(***************************************************************************)

\* The events that wait are numbers.
LEMMA UnservedTyped ==
  ASSUME TypeInv, NEW n \in Namespaces
  PROVE  Unserved(n) \subseteq Ids /\ Backlog(n) \subseteq Ids
<1>1. /\ eventsChannel \in Seq(Ids) /\ queue \in [Ids -> Seq(Ids)]
      /\ workers \in [Namespaces -> Ids \cup {None}] /\ (pc = "send" => event \in Ids)
  BY DEF TypeInv, TypeOK, SendsAnEvent
<1>2. Waiting(n) \subseteq Ids /\ OnItsWay(n) \subseteq Ids /\ Queued(n) \subseteq Ids
  BY <1>1 DEF Waiting, OnItsWay, Queued, Elements
<1> QED
  BY <1>2, BacklogIsUnserved DEF Unserved

\* What waits for a worker of a namespace in the channel comes after all that is
\* on its way, and this after all that is queued, which is in order.
LEMMA UnservedInOrder ==
  ASSUME DeliveryInv, NEW n \in Namespaces
  PROVE  /\ \A i \in Waiting(n) : i <= sent /\ \A j \in OnItsWay(n) \cup Queued(n) : j < i
         /\ \A i \in OnItsWay(n) : i <= sent /\ \A j \in Queued(n) : j < i
         /\ \A i \in Queued(n) : i <= sent /\ nsOf[i] = n
<1>0. /\ Ids \subseteq Nat /\ sent \in Nat /\ eventsChannel \in Seq(Ids)
      /\ queue \in [Ids -> Seq(Ids)] /\ workers \in [Namespaces -> Ids \cup {None}]
      /\ (pc = "send" => event \in Ids)
  BY DEF DeliveryInv, IInv, TypeInv, TypeOK, SendsAnEvent, Ids
<1>1. \A i \in Elements(eventsChannel) : i <= sent
  BY <1>0 DEF DeliveryInv, IInv, WorkerInv, ChannelSorted, Elements
<1>2. \A j \in Nat : TakenBefore(j) => j <= sent /\ \A i \in Elements(eventsChannel) : j < i
  BY <1>0 DEF TakenBefore, Elements
<1>3. \A j \in OnItsWay(n) : TakenBefore(j) /\ j \in Nat
  BY <1>0 DEF OnItsWay, DeliveryInv, IInv, OrderInv, ServedBehind
<1>4. \A j \in Queued(n) :
        TakenBefore(j) /\ j \in Nat /\ nsOf[j] = n /\ (pc = "send" => j < event)
  <2> SUFFICES ASSUME NEW j \in Queued(n)
               PROVE  TakenBefore(j) /\ j \in Nat /\ nsOf[j] = n /\ (pc = "send" => j < event)
    OBVIOUS
  <2>1. workers[n] # None /\ workers[n] \in Ids /\ j \in Elements(queue[workers[n]])
    BY <1>0 DEF Queued
  <2>2. nsOf[workers[n]] = n
    BY <2>1 DEF DeliveryInv, IInv, WorkerInv, EntriesRun
  <2>3. TakenBefore(j) /\ nsOf[j] = nsOf[workers[n]] /\ (pc = "send" => j < event)
    BY <2>1 DEF DeliveryInv, IInv, OrderInv, QueuesSorted
  <2>4. j \in Nat
    BY <1>0, <2>1 DEF Elements
  <2> QED
    BY <2>2, <2>3, <2>4
<1> QED
  BY <1>1, <1>2, <1>3, <1>4 DEF Waiting, OnItsWay

\* Send: the event joins the backlog of its namespace.
LEMMA SendBacklog ==
  ASSUME TypeInv, Send, NEW n \in Namespaces
  PROVE  Backlog(n)' = IF ~ctxDone /\ nsOf[sent + 1] = n
                       THEN Backlog(n) \cup {sent + 1} ELSE Backlog(n)
<1>1. sent + 1 \in Ids /\ eventsChannel \in Seq(Ids)
  BY EventHandlerAssumption DEF EventHandlerAssumption, TypeInv, TypeOK, Send, Ids
<1>2. Elements(eventsChannel)' = Elements(eventsChannel) \cup {sent + 1}
  BY <1>1, ElementsAppend DEF Send
<1>3. Waiting(n)' = IF nsOf[sent + 1] = n THEN Waiting(n) \cup {sent + 1} ELSE Waiting(n)
  BY <1>2 DEF Send, Waiting
<1>4. OnItsWay(n)' = OnItsWay(n) /\ Queued(n)' = Queued(n) /\ ctxDone' = ctxDone
  BY DEF Send, OnItsWay, Queued, dispatcherVars, workerVars, Elements
<1> QED
  BY <1>3, <1>4, BacklogIsUnserved DEF Unserved

\* SkipNameless, TakeEvent: the event that leaves the channel is on its way, or it
\* is of no namespace.  A new worker has nothing in its queue.
LEMMA TakeBacklog ==
  ASSUME DeliveryInv, SkipNameless \/ TakeEvent, NEW n \in Namespaces
  PROVE  Backlog(n)' = Backlog(n)
<1> DEFINE e == Head(eventsChannel)
<1>0. /\ eventsChannel # <<>> /\ eventsChannel' = Tail(eventsChannel) /\ pc = "select"
      /\ UNCHANGED <<nsOf, ctxDone, queue>>
  BY DEF SkipNameless, TakeEvent, workerVars
<1> USE Types DEF DeliveryInv, IInv
<1>e. e \in Ids
  BY <1>0
<1>1. Elements(eventsChannel) = {e} \cup Elements(eventsChannel')
  BY <1>0, ElementsTail
<1>2. Waiting(n) = Waiting(n)' \cup (IF nsOf[e] = n THEN {e} ELSE {})
  BY <1>0, <1>1 DEF Waiting, Elements
<1>3. OnItsWay(n) = {}
  BY <1>0 DEF OnItsWay
<1>4. CASE SkipNameless
  <2>1. nsOf[e] # n /\ OnItsWay(n)' = {} /\ Queued(n)' = Queued(n)
    BY <1>0, <1>4 DEF SkipNameless, dispatcherVars, workerVars, OnItsWay, Queued, Elements
  <2> QED
    BY <1>0, <1>2, <1>3, <2>1, BacklogIsUnserved DEF Unserved
<1>5. CASE TakeEvent
  <2>1. OnItsWay(n)' = IF nsOf[e] = n THEN {e} ELSE {}
    BY <1>0, <1>5 DEF TakeEvent, OnItsWay
  <2>2. Elements(queue[e]) = {}
    <3>1. ~TakenBefore(e)
      <4>1. 1 \in 1..Len(eventsChannel) /\ eventsChannel[1] = e /\ ~(e < e)
        BY <1>0, <1>e
      <4> QED
        BY <4>1 DEF TakenBefore
    <3> QED
      BY <1>0, <3>1 DEF DeliveryInv, IInv, OrderInv, QueuesSorted
  <2>3. Queued(n)' = Queued(n)
    <3>1. CASE workers' = workers
      BY <1>0, <3>1 DEF Queued, Elements
    <3>2. CASE workers' # workers
      <4>1. workers[nsOf[e]] = None /\ workers' = [workers EXCEPT ![nsOf[e]] = e]
        BY <1>5, <3>2 DEF TakeEvent, GetOrCreateNamespaceWorker
      <4>2. nsOf[e] \in Namespaces
        BY <1>5, <1>e DEF TakeEvent
      <4>3. CASE nsOf[e] = n
        <5>1. workers'[n] = e /\ workers[n] = None /\ queue' = queue /\ e # None
          BY <1>0, <1>e, <4>1, <4>2, <4>3
        <5>2. Queued(n)' = IF workers'[n] = None THEN {} ELSE Elements(queue'[workers'[n]])
          BY DEF Queued, Elements
        <5> QED
          BY <2>2, <5>1, <5>2 DEF Queued
      <4>4. CASE nsOf[e] # n
        BY <1>0, <4>1, <4>2, <4>4 DEF Queued, Elements
      <4> QED
        BY <4>3, <4>4
    <3> QED
      BY <3>1, <3>2
  <2> QED
    BY <1>0, <1>2, <1>3, <2>1, <2>3, BacklogIsUnserved DEF Unserved
<1> QED
  BY <1>4, <1>5

\* Dispatch: the event on its way goes to the queue of its namespace's worker.
LEMMA DispatchBacklog ==
  ASSUME DeliveryInv, Dispatch, NEW n \in Namespaces
  PROVE  Backlog(n)' = Backlog(n)
<1> USE Types DEF DeliveryInv, IInv
<1>0. /\ pc = "send" /\ pc' = "select"
      /\ queue' = [queue EXCEPT ![Target] = Append(@, event)]
      /\ UNCHANGED <<nsOf, ctxDone, eventsChannel, workers>>
  BY DEF Dispatch
<1>t. Target \in Ids
  BY <1>0 DEF Target, TargetRegistered
<1>1. Waiting(n)' = Waiting(n)
  BY <1>0 DEF Waiting, Elements
<1>2. CASE nsOf[event] = n
  <2>1. Queued(n)' = Queued(n) \cup {event}
    <3>1. Elements(queue'[Target]) = Elements(queue[Target]) \cup {event}
      BY <1>0, <1>t, ElementsAppend
    <3>2. Target = workers[n] /\ workers[n] # None /\ workers'[n] = Target
      BY <1>0, <1>2 DEF Target, TargetRegistered
    <3>3. Queued(n)' = IF workers'[n] = None THEN {} ELSE Elements(queue'[workers'[n]])
      BY DEF Queued, Elements
    <3> QED
      BY <3>1, <3>2, <3>3 DEF Queued
  <2>2. OnItsWay(n) = {event} /\ OnItsWay(n)' = {}
    BY <1>0, <1>2 DEF OnItsWay
  <2>3. Unserved(n)' = Unserved(n)
    BY <1>1, <2>1, <2>2 DEF Unserved
  <2> QED
    BY <1>0, <2>3, BacklogIsUnserved
<1>3. CASE nsOf[event] # n
  <2>1. workers[n] # Target
    <3>1. nsOf[Target] = nsOf[event]
      <4>1. \A m \in Namespaces : workers[m] # None => nsOf[workers[m]] = m
        BY DEF WorkerInv, EntriesRun
      <4> QED
        BY <1>0, <4>1 DEF Target, TargetRegistered
    <3>2. workers[n] # None => nsOf[workers[n]] = n
      BY DEF DeliveryInv, IInv, WorkerInv, EntriesRun
    <3> QED
      BY <1>0, <1>t, <1>3, <3>1, <3>2
  <2>2. Queued(n)' = Queued(n)
    BY <1>0, <1>t, <2>1 DEF Queued, Elements
  <2>3. OnItsWay(n) = {} /\ OnItsWay(n)' = {}
    BY <1>0, <1>3 DEF OnItsWay
  <2> QED
    BY <1>0, <1>1, <2>2, <2>3, BacklogIsUnserved DEF Unserved
<1> QED
  BY <1>2, <1>3

\* CleanUp: what is queued for the workers that are retired is lost, which comes
\* before all else of their namespaces.
LEMMA CleanUpBacklog ==
  ASSUME DeliveryInv, CleanUp, NEW n \in Namespaces
  PROVE  \/ Backlog(n)' = Backlog(n)
         \/ /\ workers[n] # None /\ workers'[n] = None
            /\ \E last \in 0..sent : Backlog(n)' = {i \in Backlog(n) : i > last}
<1>0. /\ Ids \subseteq Nat /\ sent \in Nat /\ workers \in [Namespaces -> Ids \cup {None}]
      /\ queue \in [Ids -> Seq(Ids)] /\ pc = "select" /\ pc' = pc /\ None \notin Ids
      /\ UNCHANGED <<nsOf, ctxDone, eventsChannel, queue>>
      /\ workers'[n] \in {workers[n], None}
  BY EventHandlerAssumption
  DEF EventHandlerAssumption, DeliveryInv, IInv, TypeInv, TypeOK, Ids, None, CleanUp
<1>1. Waiting(n)' = Waiting(n) /\ OnItsWay(n) = {} /\ OnItsWay(n)' = {}
  BY <1>0 DEF Waiting, OnItsWay, Elements
<1>2. CASE workers'[n] = workers[n]
  <2>1. Queued(n)' = Queued(n)
    BY <1>0, <1>2 DEF Queued, Elements
  <2> QED
    BY <1>0, <1>1, <2>1, BacklogIsUnserved DEF Unserved
<1>3. CASE workers'[n] # workers[n]
  <2>1. workers[n] # None /\ workers'[n] = None /\ workers[n] \in Ids
    BY <1>0, <1>3
  <2>2. Queued(n)' = {} /\ Unserved(n)' = Waiting(n) /\ Unserved(n) = Waiting(n) \cup Queued(n)
    BY <1>1, <2>1 DEF Queued, Unserved
  <2>3. \E last \in 0..sent : /\ \A i \in Queued(n) : i <= last
                              /\ \A i \in Waiting(n) : i > last
    <3>1. CASE Queued(n) = {}
      <4>1. \A i \in Waiting(n) : i > 0
        BY UnservedTyped DEF DeliveryInv, IInv, Unserved, Ids
      <4> QED
        BY <1>0, <3>1, <4>1
    <3>2. CASE Queued(n) # {}
      <4> DEFINE q == queue[workers[n]]
                 last == q[Len(q)]
      <4>1. q \in Seq(Ids) /\ Len(q) > 0 /\ Queued(n) = Elements(q) /\ last \in Queued(n)
        <5>1. Queued(n) = Elements(q)
          BY <2>1 DEF Queued
        <5>2. q \in Seq(Ids)
          BY <1>0, <2>1
        <5>3. Len(q) \in Nat /\ Len(q) > 0
          BY <3>2, <5>1, <5>2 DEF Elements
        <5>4. Len(q) \in 1..Len(q)
          BY <5>3
        <5> QED
          BY <5>1, <5>2, <5>3, <5>4 DEF Elements
      <4>2. Increasing(q)
        BY <2>1 DEF DeliveryInv, IInv, OrderInv, QueuesSorted
      <4>3. \A i \in Queued(n) : i <= last
        <5>1. ASSUME NEW k \in 1..Len(q)
              PROVE  q[k] <= last
          <6>1. q[k] \in Nat /\ last \in Nat
            <7>1. q[k] \in Ids /\ last \in Ids
              BY <4>1
            <7> QED
              BY <1>0, <7>1
          <6>2. k # Len(q) => k \in 1..(Len(q) - 1) /\ Len(q) \in 1..Len(q)
            BY <4>1
          <6> QED
            BY <4>2, <6>1, <6>2 DEF Increasing
        <5> QED
          BY <4>1, <5>1 DEF Elements
      <4>4. last \in 0..sent /\ \A i \in Waiting(n) : last < i
        <5>1. last \in Nat
          BY <1>0, <4>1, UnservedTyped DEF DeliveryInv, IInv, Unserved
        <5>2. last <= sent /\ \A i \in Waiting(n) : last < i
          BY <4>1, UnservedInOrder
        <5> QED
          BY <1>0, <5>1, <5>2
      <4>5. \A i \in Waiting(n) : i \in Nat
        BY <1>0, UnservedTyped DEF DeliveryInv, IInv, Unserved
      <4> HIDE DEF last
      <4> QED
        BY <1>0, <4>3, <4>4, <4>5
    <3> QED
      BY <3>1, <3>2
  <2>4. Unserved(n) \subseteq Nat
    BY <1>0, UnservedTyped DEF DeliveryInv, IInv
  <2>5. \E last \in 0..sent : Unserved(n)' = {i \in Unserved(n) : i > last}
    BY <1>0, <2>2, <2>3, <2>4
  <2> QED
    BY <1>0, <2>1, <2>5, BacklogIsUnserved
<1> QED
  BY <1>2, <1>3

\* BeginHandling: the worker of a live context takes the oldest event of its
\* namespace; what a retired one takes was lost before.
LEMMA BeginBacklog ==
  ASSUME DeliveryInv, NEW w \in Ids, BeginHandling(w)
  PROVE  \/ /\ served' = served
            /\ \A n \in Namespaces : Backlog(n)' = Backlog(n)
         \/ \E m \in Namespaces : \E e \in Backlog(m) :
              /\ \A i \in Backlog(m) : e <= i
              /\ served' = [served EXCEPT ![m] = e]
              /\ \A n \in Namespaces :
                   Backlog(n)' = IF n = m THEN Backlog(n) \ {e} ELSE Backlog(n)
<1> DEFINE e == Head(queue[w])
<1> USE Types DEF DeliveryInv, IInv
<1>0. /\ w \in running /\ queue[w] # <<>> /\ queue' = [queue EXCEPT ![w] = Tail(queue[w])]
      /\ UNCHANGED <<nsOf, ctxDone, eventsChannel, pc, event, workers>>
  BY DEF BeginHandling, dispatcherVars
<1>e. e \in Ids
  BY <1>0
<1>1. \A n \in Namespaces : Waiting(n)' = Waiting(n) /\ OnItsWay(n)' = OnItsWay(n)
  BY <1>0 DEF Waiting, OnItsWay, Elements
<1>2. \A n \in Namespaces : workers[n] # w => Queued(n)' = Queued(n)
  BY <1>0 DEF Queued, Elements
<1>3. \A n \in Namespaces : workers[n] # w => Backlog(n)' = Backlog(n)
  BY <1>0, <1>1, <1>2, BacklogIsUnserved DEF Unserved
<1>4. CASE Cancelled(w)
  <2>1. served' = served
    BY <1>4 DEF BeginHandling
  <2>2. CASE ctxDone
    BY <1>0, <2>1, <2>2, BacklogIsUnserved
  <2>3. CASE w \in canceled /\ ~ctxDone
    <3>1. \A n \in Namespaces : workers[n] # w
      BY <1>0, <2>3 DEF DeliveryInv, IInv, WorkerInv, EntriesRun
    <3> QED
      BY <1>3, <2>1, <3>1
  <2> QED
    BY <1>4, <2>2, <2>3 DEF Cancelled
<1>5. CASE ~Cancelled(w)
  <2> PICK m \in Namespaces : nsOf[w] = m
    BY <1>0, <1>5 DEF Cancelled, WorkerInv, RunningRegistered
  <2>1. workers[m] = w /\ ~ctxDone /\ served' = [served EXCEPT ![m] = e]
    BY <1>0, <1>5
    DEF Cancelled, BeginHandling, DeliveryInv, IInv, WorkerInv, RunningRegistered
  <2>2. \A n \in Namespaces : workers[n] = w => n = m
    BY <1>0 DEF DeliveryInv, IInv, WorkerInv, EntriesRun
  <2>3. Elements(queue[w]) = {e} \cup Elements(Tail(queue[w]))
    BY <1>0, ElementsTail
  <2>4. \A i \in Elements(Tail(queue[w])) : e < i
    <3>1. Increasing(queue[w])
      BY DEF DeliveryInv, IInv, OrderInv, QueuesSorted
    <3> QED
      BY <1>0, <3>1, IncreasingTail
  <2>5. Queued(m) = {e} \cup Queued(m)' /\ \A i \in Queued(m)' : e < i
    <3>1. Queued(m) = Elements(queue[w]) /\ Queued(m)' = Elements(Tail(queue[w]))
      BY <1>0, <2>1 DEF Queued, Elements
    <3> QED
      BY <2>3, <2>4, <3>1
  <2>6. \A i \in Waiting(m) \cup OnItsWay(m) : e < i
    BY <2>1, <2>5, UnservedInOrder
  <2>7. Unserved(m)' = Unserved(m) \ {e} /\ e \in Unserved(m)
    BY <1>0, <1>1, <2>1, <2>5, <2>6 DEF Unserved
  <2>8. Backlog(m)' = Backlog(m) \ {e} /\ e \in Backlog(m)
    BY <1>0, <2>1, <2>7, BacklogIsUnserved
  <2>9. ASSUME NEW i \in Backlog(m)
        PROVE  e <= i
    <3>1. \A j \in Unserved(m) : j = e \/ e < j
      BY <2>5, <2>6 DEF Unserved
    <3>2. i \in Unserved(m) /\ i \in Nat /\ e \in Nat
      BY <1>e, <2>1, BacklogIsUnserved, UnservedTyped
    <3>3. i = e \/ e < i
      BY <3>1, <3>2
    <3> HIDE DEF e
    <3> QED
      BY <3>2, <3>3
  <2>10. \A n \in Namespaces : Backlog(n)' = IF n = m THEN Backlog(n) \ {e} ELSE Backlog(n)
    <3> SUFFICES ASSUME NEW n \in Namespaces
                 PROVE  Backlog(n)' = IF n = m THEN Backlog(n) \ {e} ELSE Backlog(n)
      OBVIOUS
    <3>1. CASE n = m
      BY <2>8, <3>1
    <3>2. CASE n # m
      BY <1>3, <2>2, <3>2
    <3> QED
      BY <3>1, <3>2
  <2> QED
    BY <2>1, <2>8, <2>9, <2>10
<1> QED
  BY <1>4, <1>5
-----------------------------------------------------------------------------
(***************************************************************************)
(* The theorems.                                                           *)
(***************************************************************************)

\* The steps that leave every backlog as it is.
Internal ==
  Tick \/ SkipNameless \/ TakeEvent \/ Dispatch \/ Stop \/ WaitOver
    \/ \E w \in Ids : EndHandling(w) \/ Exit(w)

LEMMA InternalBacklog ==
  ASSUME DeliveryInv, Internal \/ UNCHANGED vars
  PROVE  UNCHANGED <<sent, served>> /\ \A n \in Namespaces : Backlog(n)' = Backlog(n)
<1>1. CASE SkipNameless \/ TakeEvent
  BY <1>1, TakeBacklog DEF SkipNameless, TakeEvent, workerVars
<1>2. CASE Dispatch
  BY <1>2, DispatchBacklog DEF Dispatch
<1>3. CASE /\ UNCHANGED <<nsOf, sent, eventsChannel, event, workers, ctxDone, queue, served>>
           /\ (pc = pc' \/ "send" \notin {pc, pc'})
  BY <1>3 DEF Backlog, Elements
<1> QED
  BY <1>1, <1>2, <1>3
  DEF Internal, Tick, Stop, WaitOver, EndHandling, Exit, vars, dispatcherVars, workerVars

\* A step is one of these, of which all but the first four keep the backlogs.
LEMMA NextCases ==
  ASSUME [Next]_vars
  PROVE  \/ Send \/ Cancel \/ CleanUp
         \/ \E w \in Ids : BeginHandling(w)
         \/ Internal
         \/ UNCHANGED vars
BY DEF Next, Environment, Dispatcher, Worker, Internal

\* For any number of namespaces and events and any capacities: an event that was
\* accepted is served, or lost with the retirement of its worker or the end.
THEOREM LostOnlyByRetirementOrStopAlways == Spec => LostOnlyByRetirementOrStop
<1>1. ASSUME DeliveryInv, [Next]_vars
      PROVE  [\A n \in Namespaces : \A i \in Backlog(n) \ Backlog(n)' :
                \/ served'[n] = i
                \/ ctxDone'
                \/ workers[n] # None /\ workers'[n] = None]_vars
  <2> DEFINE Leaves(n, i) ==
               served'[n] = i \/ ctxDone' \/ (workers[n] # None /\ workers'[n] = None)
  <2> SUFFICES ASSUME NEW n \in Namespaces, NEW i \in Backlog(n) \ Backlog(n)'
               PROVE  Leaves(n, i)
    OBVIOUS
  <2> USE <1>1
  <2>1. CASE Send
    BY <2>1, SendBacklog DEF DeliveryInv, IInv
  <2>2. CASE Cancel
    BY <2>2 DEF Cancel
  <2>3. CASE CleanUp
    BY <2>3, CleanUpBacklog
  <2>4. ASSUME NEW w \in Ids, BeginHandling(w)
        PROVE  Leaves(n, i)
    <3>1. served \in [Namespaces -> 0..MaxEvents]
      BY DEF DeliveryInv, IInv, TypeInv, TypeOK
    <3> QED
      BY <2>4, <3>1, BeginBacklog
  <2>5. CASE Internal \/ UNCHANGED vars
    BY <2>5, InternalBacklog
  <2> QED
    BY <2>1, <2>2, <2>3, <2>4, <2>5, NextCases
<1> QED
  BY <1>1, DeliveryInvAlways, PTL DEF Spec, LostOnlyByRetirementOrStop

\* The backlogs of all namespaces, as the refinement maps them.
Backlogs == [n \in Namespaces |-> Backlog(n)]

LEMMA DeliveryInit == Init => Delivery!Init
<1> SUFFICES ASSUME Init PROVE Delivery!Init
  OBVIOUS
<1>1. \A n \in Namespaces : Backlog(n) = {}
  BY DEF Init, Backlog, Elements
<1> QED
  BY <1>1 DEF Init, Delivery!Init

\* A step of the dispatcher, of a worker or of the environment is a step of the
\* queues or none.
LEMMA DeliveryStep ==
  ASSUME DeliveryInv, [Next]_vars
  PROVE  [Delivery!Next]_(Delivery!vars)
<1>0. served \in [Namespaces -> 0..MaxEvents] /\ sent \in Nat
  BY DEF DeliveryInv, IInv, TypeInv, TypeOK
<1>1. CASE Send
  <2>1. sent' = sent + 1 /\ served' = served
    BY <1>1 DEF Send, workerVars
  <2>2. CASE ~ctxDone /\ nsOf[sent + 1] \in Namespaces
    <3> DEFINE m == nsOf[sent + 1]
    <3>1. Backlogs' = [Backlogs EXCEPT ![m] = @ \cup {sent + 1}]
      BY <1>1, <2>2, SendBacklog DEF Backlogs, DeliveryInv, IInv
    <3> QED
      BY <2>1, <2>2, <3>1 DEF Backlogs, Delivery!Next, Delivery!Accept
  <2>3. CASE ctxDone \/ nsOf[sent + 1] \notin Namespaces
    <3>1. Backlogs' = Backlogs
      BY <1>1, <2>3, SendBacklog DEF Backlogs, DeliveryInv, IInv
    <3> QED
      BY <2>1, <3>1 DEF Backlogs, Delivery!Next, Delivery!Ignore
  <2> QED
    BY <2>2, <2>3
<1>2. CASE Cancel
  <2>1. sent' = sent /\ served' = served /\ \A n \in Namespaces : Backlog(n)' = {}
    BY <1>2 DEF Cancel, workerVars, Backlog
  <2>2. \A n \in Namespaces : \A i \in Backlog(n) : i \in Nat /\ i <= sent
    BY Types, UnservedTyped, UnservedInOrder, BacklogIsUnserved DEF DeliveryInv, IInv, Unserved
  <2> DEFINE cut == [n \in Namespaces |-> sent]
  <2>3. cut \in [Namespaces -> 0..sent]
    BY <1>0
  <2>4. Backlogs' = [n \in Namespaces |-> {i \in Backlogs[n] : i > cut[n]}]
    BY <1>0, <2>1, <2>2 DEF Backlogs
  <2> QED
    BY <2>1, <2>3, <2>4 DEF Backlogs, Delivery!Next, Delivery!Lose
<1>3. CASE CleanUp
  <2>1. sent' = sent /\ served' = served
    BY <1>3 DEF CleanUp
  <2>2. ASSUME NEW n \in Namespaces
        PROVE  \E last \in 0..sent : Backlog(n)' = {i \in Backlog(n) : i > last}
    <3>1. \A i \in Backlog(n) : i > 0
      BY UnservedTyped DEF DeliveryInv, IInv, Ids
    <3>2. 0 \in 0..sent /\ Backlog(n) = {i \in Backlog(n) : i > 0}
      BY <1>0, <3>1
    <3> QED
      BY <1>3, <3>2, CleanUpBacklog
  <2> DEFINE cut == [n \in Namespaces |->
                       CHOOSE last \in 0..sent : Backlog(n)' = {i \in Backlog(n) : i > last}]
  <2>3. cut \in [Namespaces -> 0..sent]
        /\ \A n \in Namespaces : Backlog(n)' = {i \in Backlog(n) : i > cut[n]}
    BY <2>2
  <2>4. Backlogs' = [n \in Namespaces |-> {i \in Backlogs[n] : i > cut[n]}]
    BY <2>3 DEF Backlogs
  <2> QED
    BY <2>1, <2>3, <2>4 DEF Backlogs, Delivery!Next, Delivery!Lose
<1>4. ASSUME NEW w \in Ids, BeginHandling(w)
      PROVE  [Delivery!Next]_(Delivery!vars)
  <2>1. sent' = sent
    BY <1>4 DEF BeginHandling
  <2>2. CASE served' = served /\ \A n \in Namespaces : Backlog(n)' = Backlog(n)
    <3>1. Backlogs' = Backlogs
      BY <2>2 DEF Backlogs
    <3> QED
      BY <2>1, <2>2, <3>1 DEF Backlogs, Delivery!vars
  <2>3. ASSUME NEW m \in Namespaces, NEW e \in Backlog(m),
               \A i \in Backlog(m) : e <= i,
               served' = [served EXCEPT ![m] = e],
               \A n \in Namespaces :
                 Backlog(n)' = IF n = m THEN Backlog(n) \ {e} ELSE Backlog(n)
        PROVE  Delivery!Next
    <3>1. Backlogs' = [Backlogs EXCEPT ![m] = @ \ {e}] /\ Backlogs[m] = Backlog(m)
      BY <2>3 DEF Backlogs
    <3> QED
      BY <2>1, <2>3, <3>1 DEF Backlogs, Delivery!Next, Delivery!Serve
  <2> QED
    BY <1>4, <2>2, <2>3, BeginBacklog
<1>5. CASE Internal \/ UNCHANGED vars
  <2>1. UNCHANGED <<sent, served>> /\ Backlogs' = Backlogs
    BY <1>5, InternalBacklog DEF Backlogs
  <2> QED
    BY <2>1 DEF Backlogs, Delivery!vars
<1> QED
  BY <1>1, <1>2, <1>3, <1>4, <1>5, NextCases

\* The event handler implements a lossy first-in first-out queue per namespace,
\* whatever is retired, cancelled and delayed.
THEOREM HandlerDelivers == Spec => DeliverySpec
<1>1. Init => Delivery!Init
  BY DeliveryInit
<1>2. DeliveryInv /\ [Next]_vars => [Delivery!Next]_(Delivery!vars)
  BY DeliveryStep
<1> QED
  BY <1>1, <1>2, DeliveryInvAlways, PTL DEF Spec, DeliverySpec, Delivery!Spec
=============================================================================
