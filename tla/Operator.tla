------------------------------ MODULE Operator ------------------------------
(***************************************************************************)
(* The operator as a whole, for one namespace: the controllers, the        *)
(* delivery of their events and the service registry.                      *)
(*                                                                         *)
(* Delivery is what EventDelivery promises of EventHandler, and a handler  *)
(* is the one step that NamespaceWorker proves it to be; all that is in    *)
(* the registry is the operator's.  A limited number of faults may happen: *)
(* an event is lost or its call fails, or the cache of the cluster cannot  *)
(* be read.                                                                *)
(***************************************************************************)
EXTENDS Controllers

CONSTANT MaxFaults   \* how many faults may happen (bounds the model)

ASSUME OperatorAssumption == MaxFaults \in Nat

VARIABLES
  registry,   \* the metadata of the objects in the service registry
  faults,     \* how many faults have happened
  whole       \* history: since the operator has last been told of all services,
              \* no change and no fault has made it miss what it should register

vars == <<clusterVars, controllerVars, registry, faults, whole>>

Parent(o) == Front(o)

Present == DOMAIN registry

\* Register creates or updates an object if its parent is there; it is to have the
\* metadata that are given, and no others.
Registered(o, md) ==
  IF o # <<>> /\ Parent(o) \notin Present THEN registry
  ELSE [x \in Present \cup {o} |-> IF x = o THEN md ELSE registry[x]]

\* The delete handlers leave a service or a namespace that is not empty.
Deregistered(o) ==
  IF \E c \in Present : c # <<>> /\ Parent(c) = o THEN registry
  ELSE Restrict(registry, Present \ {o})

Handle ==
  /\ channel # <<>>
  /\ Receive(Head(channel))
  /\ LET e == Head(channel) IN
       registry' = IF e.type = "delete" THEN Deregistered(e.object)
                   ELSE Registered(e.object, e.metadata)
  /\ UNCHANGED <<faults, whole>>

\* A cluster change or a step of a controller after which the registry is as whole
\* as before, if a condition is met.
KeepsWholeIf(cond) == whole' = (whole /\ cond) /\ UNCHANGED <<registry, faults>>

Fault == faults < MaxFaults /\ faults' = faults + 1 /\ whole' = FALSE /\ UNCHANGED registry

\* The event is lost, or a call fails: nobody tries again.
Lose == channel # <<>> /\ Receive(Head(channel)) /\ Fault

\* No lookup of a name fails while the service controller looks at a change.
LookupsSucceed(note) ==
  "names" \in Troubles => svcOut' \in ServiceEvents(note, FALSE)

\* The operator is told of all services.
Told == whole' = NamespaceControllerIdle' /\ UNCHANGED <<registry, faults>>

OperatorInit ==
  /\ Init
  /\ registry = <<>>
  /\ faults = 0
  /\ whole = TRUE

Settled == NamespaceControllerIdle /\ ServiceControllerIdle /\ channel = <<>>

\* Nothing is left to be done.
Done == Settled /\ changes = MaxChanges /\ UNCHANGED vars

Next ==
  \/ \E s \in Services : \E new \in Service :
       ApplyService(s, new) /\ KeepsWholeIf(~Grows(s, new) /\ NamespaceControllerIdle)
  \/ \E s \in Services : MarkService(s) /\ KeepsWholeIf(TRUE)
  \/ \E s \in Services : RemoveService(s) /\ KeepsWholeIf(TRUE)
  \/ \E new \in Labels \cup {Absent} :
       ChangeNamespace(new) /\ KeepsWholeIf(~Enables(new) /\ ServiceControllerIdle)
  \/ \E new \in SUBSET Addresses : ChangeNames(new) /\ KeepsWholeIf(FALSE)
  \/ Resync /\ Told
  \/ Restart /\ Told
  \/ HandleService /\ KeepsWholeIf(LookupsSucceed(Head(svcNotes)))
  \/ HandleNamespace /\ KeepsWholeIf(TRUE)
  \/ HandleServiceFails /\ Fault
  \/ HandleNamespaceFails /\ Fault
  \/ SendService /\ KeepsWholeIf(TRUE)
  \/ SendNamespace /\ KeepsWholeIf(TRUE)
  \/ Handle
  \/ Lose
  \/ Done

Spec == OperatorInit /\ [][Next]_vars
-----------------------------------------------------------------------------
TypeOK ==
  /\ namespace \in Labels \cup {Absent}
  /\ services \in [Services -> Service \cup {Absent}]
  /\ dns \subseteq Addresses
  /\ nsNotes \in Seq([old : Labels \cup {Absent}, new : Labels \cup {Absent}])
  /\ svcNotes \in Seq([name : Services, old : Service \cup {Absent}, new : Service \cup {Absent}])
  /\ nsOut \in Seq(Events) /\ svcOut \in Seq(Events)
  /\ channel \in Seq(Events) /\ Len(channel) <= ChanCap
  /\ changes \in 0..MaxChanges /\ faults \in 0..MaxFaults /\ whole \in BOOLEAN
  /\ Present \subseteq Objects /\ Range(registry) \subseteq Metadata

Wants(s) == WatchedNow /\ Published(services[s]) /\ ~services[s].deleting

\* The services and endpoints that are to be found in the registry.
Wanted ==
  UNION {{<<s>>} \cup EndpointsOf(s, Check(services[s])) : s \in {s \in Services : Wants(s)}}

\* The endpoints among them have the annotations of their service that the
\* documentation allows.
MetadataReflected ==
  \A o \in Wanted : Len(o) = 2 =>
    registry[o] = AllowedOf(services[o[1]].annotations, ServiceAnnotations)

\* Once all changes are dealt with the registry shows the cluster: the services
\* that are published, with their addresses and the annotations that may be shown,
\* and nothing else; the namespace is there with them and goes when it is not
\* watched any more.
ReflectsCluster ==
  Settled =>
    /\ Present \ {<<>>} = Wanted
    /\ ~WatchedNow => Present = {}
    /\ MetadataReflected

\* Half of it: nothing stays that should not be there, even if what should be there
\* is not (an address more, a namespace that becomes watched).
NothingLeft ==
  Settled =>
    /\ Present \ {<<>>} \subseteq Wanted
    /\ ~WatchedNow => Present = {}

\* The worker refuses to create an object whose parent is missing, and to delete one
\* that something is below: it logs that, and nobody sends the event again.
Refused(e) ==
  IF e.type = "delete" THEN \E c \in Present : c # <<>> /\ Parent(c) = e.object
  ELSE e.object # <<>> /\ Parent(e.object) \notin Present

\* Of the events that the two controllers send, through one channel and through
\* changes of services, of their namespace and of what is on the way, none is ever
\* refused: parents come first and go last.
NoneRefused == channel # <<>> => ~Refused(Head(channel))

\* Whatever has been missed in these ways, the next restart or resync makes up for it.
ReflectsWhenWhole == whole => ReflectsCluster

\* Whatever went wrong before (lost events, failed calls and lookups, changes that
\* the controllers do not follow, a restart in the midst of work): once the
\* operator has been told of all services, by its restart or the next resync, and
\* has dealt with it, all that is to be in the registry is there, with its
\* metadata.  What should not be there may have stayed.
RestartRestores ==
  Settled /\ whole => Wanted \subseteq Present /\ MetadataReflected

\* No annotation that serviceAnnotations does not allow gets into the registry, not
\* even for a while and whatever fails.
ExposesOnlyAllowed ==
  LET allowed == AllowedOf(UNION AnnotationSets, ServiceAnnotations)
  IN  \A md \in Range(registry) : md \subseteq allowed

\* What is still to be done: the changes to be looked at, and the events to be sent
\* and to be handled.
Work ==
  [notes |-> Len(nsNotes) + Len(svcNotes),
   events |-> 2 * (Len(nsOut) + Len(svcOut)) + Len(channel)]

\* The operator makes no work for itself: while the cluster does not change each step
\* leaves less to be done, so that it comes to rest in the end, whatever fails.
WorkDiminishes ==
  [][changes' = changes =>
       \/ Work'.notes < Work.notes
       \/ Work'.notes = Work.notes /\ Work'.events < Work.events]_vars
=============================================================================
