----------------------------- MODULE Controllers -----------------------------
(***************************************************************************)
(* The service and the namespace controller of pkg/controllers for one     *)
(* namespace of the cluster, and the events channel that they share.       *)
(*                                                                         *)
(* Kubernetes tells a controller of each change of its objects, with their *)
(* old and new state, and a controller looks at one change after the       *)
(* other.  The service controller reads the namespace from the cache, and  *)
(* the namespace controller the services, as they are by then.  Out of     *)
(* what it finds a controller makes a list of events, which it sends one   *)
(* by one into a channel of limited capacity.                              *)
(*                                                                         *)
(* An object is named by its path: <<>> is the namespace, <<s>> a service  *)
(* and <<s, a>> the endpoint of that service at address a (IP and port,    *)
(* which the endpoint's name hashes).                                      *)
(***************************************************************************)
EXTENDS ServiceChecks, Naturals, Sequences, FiniteSets, SequencesExt

CONSTANTS
  Services,    \* the names of services
  Addresses,   \* the addresses at which a service may be reached
  Absent,      \* the state of what is not in the cluster
  AnnotationSets,            \* the annotations that services have
  ServiceAnnotations,        \* as in the options of the controllers
  WatchNamespacesByDefault,  \* as in the options of the controllers
  ChanCap,     \* capacity of the events channel
  MaxChanges,  \* how often the cluster changes (bounds the model)
  Troubles     \* what the cluster does beyond the changes that the
               \* controllers follow: see AllTroubles

AllTroubles ==
  {"grow",     \* a published service gets an address more
   "enable",   \* a namespace with published services becomes watched
   "dying",    \* it does while services are being deleted
   "remove",   \* a published service disappears without a finalizer
   "overlap",  \* services and namespace change at the same time
   "names",    \* services have host names, which may change their addresses
               \* and whose lookup may fail
   "restart"}  \* the operator starts while it has work to do or while
               \* services are being deleted

\* The keys of annotations are texts with a prefix and a name.
ASSUME ControllersAssumption ==
  /\ IsFiniteSet(Services)
  /\ IsFiniteSet(Addresses)
  /\ \A annotations \in AnnotationSets \cup {ServiceAnnotations} :
       annotations \subseteq [prefix : STRING, name : STRING]
  /\ WatchNamespacesByDefault \in BOOLEAN
  /\ ChanCap \in Nat \ {0}
  /\ MaxChanges \in Nat
  /\ Troubles \subseteq AllTroubles

VARIABLES
  namespace,   \* the watch label of the namespace, or Absent
  services,    \* the state of each service, or Absent
  dns,         \* the addresses that the host name of services stands for
  nsNotes,     \* the changes the namespace controller is to look at
  svcNotes,    \* the changes the service controller is to look at
  nsOut,       \* the events the namespace controller is still to send
  svcOut,      \* the events the service controller is still to send
  channel,     \* the events channel
  changes      \* how often the cluster has changed

clusterVars    == <<namespace, services, dns, changes>>
controllerVars == <<nsNotes, svcNotes, nsOut, svcOut, channel>>

Labels == {"enabled", "disabled", "none"}

\* What the operator looks at in a service: its annotations, the addresses (IPs,
\* each with the ports) that it names itself, and whether it has a host name too.
\* A service that is no load balancer is refused as one without annotations is.
Service ==
  [annotations : AnnotationSets, addresses : SUBSET Addresses,
   byName : IF "names" \in Troubles THEN BOOLEAN ELSE {FALSE}, deleting : BOOLEAN]

\* What is not there is not a service.
ASSUME AbsentAssumption == Absent \notin Service

Objects == {<<>>} \cup {<<s>> : s \in Services} \cup (Services \X Addresses)
Metadata == SUBSET UNION AnnotationSets
Events == [type : {"create", "update", "delete"}, object : Objects, metadata : Metadata]

Create(o, md) == [type |-> "create", object |-> o, metadata |-> md]
Update(o, md) == [type |-> "update", object |-> o, metadata |-> md]
\* Those who handle it look at the name only.
Delete(o) == [type |-> "delete", object |-> o, metadata |-> {}]

\* checkNsLabels
Watches(label) ==
  \/ label = "enabled"
  \/ label = "none" /\ WatchNamespacesByDefault

\* checkParentNamespace: an error if the namespace is not in the cache.
WatchedNow == namespace # Absent /\ Watches(namespace)

Nothing == [passed |-> FALSE, addresses |-> {}, metadata |-> {}]

\* getIPsFromService, if the lookups succeed.
AllAddresses(v) == v.addresses \cup IF v.byName THEN dns ELSE {}

\* tryResolveHostnames gives up, after ten attempts: for one host name that is
\* not found all the addresses are dropped.
NotFound(v) == v.byName /\ dns = {}

\* checkService, if the lookups do not fail by chance.
Check(v) ==
  LET kept == FilterAnnotations(v.annotations, ServiceAnnotations) IN
  IF v = Absent \/ NotFound(v) \/ kept = {} \/ AllAddresses(v) = {} THEN Nothing
  ELSE [passed |-> TRUE, addresses |-> AllAddresses(v), metadata |-> kept]

Published(v) == Check(v).passed

\* What checkService may find: lookups are made anew each time, and may fail.
Checks(v, mayFail) ==
  {Check(v)} \cup IF mayFail /\ v # Absent /\ v.byName THEN {Nothing} ELSE {}

EndpointsOf(s, check) == {<<s, a>> : a \in check.addresses}
-----------------------------------------------------------------------------
(***************************************************************************)
(* The lists of events.  Go's maps and the API return their elements in    *)
(* any order: each operator gives the set of the lists that may be sent.   *)
(***************************************************************************)

\* All lists that have one event for each object of a set.
Each(eventOf(_), S) == {[i \in DOMAIN q |-> eventOf(q[i])] : q \in SetToSeqs(S)}

\* The namespace, the service and its endpoints, parents first.
Creation(s, check) ==
  {<<Create(<<>>, {}), Create(<<s>>, {})>> \o q :
     q \in Each(LAMBDA e : Create(e, check.metadata), EndpointsOf(s, check))}

\* Mutant: the service goes before its endpoints.
DeletionParentFirst(s, check) ==
  {<<Delete(<<s>>)>> \o q : q \in Each(Delete, EndpointsOf(s, check))}

\* The endpoints and their service, children first.
Deletion(s, check) == {q \o <<Delete(<<s>>)>> : q \in Each(Delete, EndpointsOf(s, check))}

\* Of a service that stays published the endpoints that it had are updated or
\* deleted.  Those it did not have are looked for in the wrong map, its own
\* (service.go:273), so that no event is sent for them.
Modification(s, old, new) ==
  {<<Create(<<>>, {}), Create(<<s>>, {})>> \o q :
     q \in Each(LAMBDA e : IF e \in EndpointsOf(s, new) THEN Update(e, new.metadata)
                            ELSE Delete(e),
                EndpointsOf(s, old))}

\* Mutant: a change that changes nothing is passed over.
OnUpdateIfChanged(s, old, new) ==
  CASE ~old.passed /\ ~new.passed -> {<<>>}
    [] old.passed /\ ~new.passed  -> Deletion(s, old)
    [] ~old.passed /\ new.passed  -> Creation(s, new)
    [] old.passed /\ new.passed   -> IF old = new THEN {<<>>} ELSE Modification(s, old, new)

\* serviceEventHandler.Update, for a service that is not being deleted.
OnUpdate(s, old, new) ==
  CASE ~old.passed /\ ~new.passed -> {<<>>}
    [] old.passed /\ ~new.passed  -> Deletion(s, old)
    [] ~old.passed /\ new.passed  -> Creation(s, new)
    [] old.passed /\ new.passed   -> Modification(s, old, new)

\* The lists that serviceEventHandler may send on a change.  handleDelete sends the
\* deletion of a service even if its endpoints are not known.
ServiceEvents(note, mayFail) ==
  LET s == note.name IN
  IF ~WatchedNow \/ note.new = Absent \* Delete sends nothing at all
  THEN {<<>>}
  ELSE UNION {
    CASE note.old = Absent -> IF new.passed THEN Creation(s, new) ELSE {<<>>}
      [] note.old # Absent /\ note.new.deleting ->
           IF note.old.deleting THEN {<<>>} ELSE Deletion(s, new)
      [] note.old # Absent /\ ~note.new.deleting -> OnUpdate(s, old, new) :
    old \in Checks(note.old, mayFail), new \in Checks(note.new, mayFail)}

\* handleUpdateEvent for one service of the namespace: the endpoints are sent
\* as deleted in any case (namespace.go:193).
OfService(kind, s) ==
  IF kind = "create"
  THEN {<<Create(<<s>>, {})>> \o q : q \in Each(Delete, EndpointsOf(s, Check(services[s])))}
  ELSE Deletion(s, Check(services[s]))

\* The concatenations of one list out of each set of a sequence of sets.
Concatenations(sets) ==
  {FlattenSeq(q) : q \in {f \in [DOMAIN sets -> UNION Range(sets)] :
                            \A i \in DOMAIN sets : f[i] \in sets[i]}}

\* handleUpdateEvent: the namespace comes before its services if it is created
\* and after them if it is deleted.
NamespaceAndServices(kind) ==
  UNION {
    {IF kind = "create" THEN <<Create(<<>>, {})>> \o q ELSE q \o <<Delete(<<>>)>> :
       q \in UNION {Concatenations([i \in DOMAIN p |-> OfService(kind, p[i])]) :
                      p \in SetToSeqs(found)}} :
    found \in {f \in SUBSET {s \in Services : Published(services[s])} :
                \A s \in Services : Published(services[s]) /\ ~services[s].byName => s \in f}}

\* The lists that namespaceEventHandler may send on a change.
NamespaceEvents(note) ==
  CASE note.old = Absent -> {<<>>}
    [] note.new = Absent ->
         IF Watches(note.old) THEN NamespaceAndServices("delete") ELSE {<<>>}
    [] note.old # Absent /\ note.new # Absent ->
         CASE Watches(note.old) = Watches(note.new) -> {<<>>}
           [] Watches(note.old) /\ ~Watches(note.new) -> NamespaceAndServices("delete")
           [] ~Watches(note.old) /\ Watches(note.new) -> NamespaceAndServices("create")
-----------------------------------------------------------------------------
\* Each controller has nothing to look at and nothing to send.
NamespaceControllerIdle == nsNotes = <<>> /\ nsOut = <<>>
ServiceControllerIdle == svcNotes = <<>> /\ svcOut = <<>>

NoteOf(s, old, new) == [name |-> s, old |-> old, new |-> new]

\* The list of all services with which Kubernetes begins, in any order.
InitialNotes(state) ==
  {[i \in DOMAIN q |-> NoteOf(q[i], Absent, state[q[i]])] :
     q \in SetToSeqs({s \in Services : state[s] # Absent})}

\* No service is being deleted.
NoneDeleting(state) == \A s \in Services : state[s] # Absent => ~state[s].deleting

Init ==
  /\ namespace \in Labels
  /\ services \in [Services -> Service \cup {Absent}]
  /\ dns \in IF "names" \in Troubles THEN SUBSET Addresses ELSE {{}}
  /\ "restart" \in Troubles \/ NoneDeleting(services)
  /\ svcNotes \in InitialNotes(services)
  /\ nsNotes = <<>>
  /\ nsOut = <<>>
  /\ svcOut = <<>>
  /\ channel = <<>>
  /\ changes = 0

(***************************************************************************)
(* The cluster.                                                            *)
(***************************************************************************)

Changing ==
  /\ changes < MaxChanges
  /\ changes' = changes + 1

\* One service changes; the namespace controller is idle then, unless the
\* changes overlap.
ServiceChange(s, new) ==
  /\ Changing
  /\ "overlap" \in Troubles \/ NamespaceControllerIdle
  /\ services' = [services EXCEPT ![s] = new]
  /\ svcNotes' = Append(svcNotes, NoteOf(s, services[s], new))
  /\ UNCHANGED <<namespace, dns, nsNotes, nsOut, svcOut, channel>>

\* A published service gets an address that it did not have.
Grows(s, new) ==
  /\ WatchedNow /\ Published(services[s]) /\ Published(new)
  /\ ~(AllAddresses(new) \subseteq AllAddresses(services[s]))

\* A service is created, or its type, its annotations or its addresses change.
ApplyService(s, new) ==
  /\ ~new.deleting
  /\ services[s] # Absent => ~services[s].deleting
  /\ "grow" \in Troubles \/ ~Grows(s, new)
  /\ ServiceChange(s, new)

\* A service that has a finalizer is marked for deletion.
MarkService(s) ==
  /\ services[s] # Absent
  /\ ServiceChange(s, [services[s] EXCEPT !.deleting = TRUE])

\* A service is gone: marked before, or because it has no finalizer.
RemoveService(s) ==
  /\ services[s] # Absent
  /\ "remove" \in Troubles \/ services[s].deleting \/ ~Published(services[s])
  /\ ServiceChange(s, Absent)

\* A namespace that has published services becomes a watched one.
Enables(new) ==
  /\ ~WatchedNow /\ new # Absent /\ Watches(new)
  /\ \E s \in Services : Published(services[s])

\* handleUpdateEvent registers a service even if it is being deleted.
EnablesDying(new) == Enables(new) /\ ~NoneDeleting(services)

\* The namespace is labelled, or created, or gone: to Kubernetes after its services,
\* but the caches of the two kinds of objects tell of that in any order.
ChangeNamespace(new) ==
  /\ Changing
  /\ "overlap" \in Troubles \/ ServiceControllerIdle
  /\ new # namespace
  /\ \/ "overlap" \in Troubles
     \/ Absent \in {new, namespace} => \A s \in Services : services[s] = Absent
  /\ "enable" \in Troubles \/ ~Enables(new)
  /\ "dying" \in Troubles \/ ~EnablesDying(new)
  /\ namespace' = new
  /\ nsNotes' = Append(nsNotes, [old |-> namespace, new |-> new])
  /\ UNCHANGED <<services, dns, svcNotes, nsOut, svcOut, channel>>

\* The host names of services get other addresses, or are not found any more: the
\* controllers are not told.
ChangeNames(new) ==
  /\ Changing
  /\ "names" \in Troubles
  /\ dns' = new
  /\ UNCHANGED <<namespace, services, controllerVars>>

\* Every ten hours the controllers are told of all services again, as of changes
\* that change nothing.  (Of the namespaces too, from which nothing follows.)
Resync ==
  /\ Changing
  /\ "overlap" \in Troubles \/ NamespaceControllerIdle
  /\ \E q \in InitialNotes(services) :
       svcNotes' = svcNotes \o [i \in DOMAIN q |-> [q[i] EXCEPT !.old = q[i].new]]
  /\ UNCHANGED <<namespace, services, dns, nsNotes, nsOut, svcOut, channel>>

(***************************************************************************)
(* The controllers.                                                        *)
(***************************************************************************)

\* Mutant: a change of which nothing follows is put back, to be looked at again.
HandleServiceAgain ==
  /\ svcOut = <<>>
  /\ svcNotes # <<>>
  /\ svcOut' \in ServiceEvents(Head(svcNotes), TRUE)
  /\ svcNotes' = IF svcOut' = <<>> THEN Append(Tail(svcNotes), Head(svcNotes)) ELSE Tail(svcNotes)
  /\ UNCHANGED <<clusterVars, nsNotes, nsOut, channel>>

HandleService ==
  /\ svcOut = <<>>
  /\ svcNotes # <<>>
  /\ svcOut' \in ServiceEvents(Head(svcNotes), TRUE)
  /\ svcNotes' = Tail(svcNotes)
  /\ UNCHANGED <<clusterVars, nsNotes, nsOut, channel>>

HandleNamespace ==
  /\ nsOut = <<>>
  /\ nsNotes # <<>>
  /\ nsOut' \in NamespaceEvents(Head(nsNotes))
  /\ nsNotes' = Tail(nsNotes)
  /\ UNCHANGED <<clusterVars, svcNotes, svcOut, channel>>

\* The namespace cannot be read: the change is forgotten.
HandleServiceFails ==
  /\ svcOut = <<>>
  /\ svcNotes # <<>>
  /\ svcNotes' = Tail(svcNotes)
  /\ UNCHANGED <<clusterVars, nsNotes, nsOut, svcOut, channel>>

\* The services cannot be listed: the change is forgotten.
HandleNamespaceFails ==
  /\ nsOut = <<>>
  /\ nsNotes # <<>>
  /\ nsNotes' = Tail(nsNotes)
  /\ UNCHANGED <<clusterVars, svcNotes, nsOut, svcOut, channel>>

\* Mutant: the channel is taken for an unbounded one.
SendServiceUnbounded ==
  /\ svcOut # <<>>
  /\ channel' = Append(channel, Head(svcOut))
  /\ svcOut' = Tail(svcOut)
  /\ UNCHANGED <<clusterVars, nsNotes, svcNotes, nsOut>>

SendService ==
  /\ svcOut # <<>>
  /\ Len(channel) < ChanCap
  /\ channel' = Append(channel, Head(svcOut))
  /\ svcOut' = Tail(svcOut)
  /\ UNCHANGED <<clusterVars, nsNotes, svcNotes, nsOut>>

SendNamespace ==
  /\ nsOut # <<>>
  /\ Len(channel) < ChanCap
  /\ channel' = Append(channel, Head(nsOut))
  /\ nsOut' = Tail(nsOut)
  /\ UNCHANGED <<clusterVars, nsNotes, svcNotes, svcOut>>

\* The event handler takes an event.
Receive(e) ==
  /\ channel # <<>>
  /\ e = Head(channel)
  /\ channel' = Tail(channel)
  /\ UNCHANGED <<clusterVars, nsNotes, svcNotes, nsOut, svcOut>>

\* The operator starts anew: what was on its way is gone, and it is told of the
\* services that there are.
Restart ==
  /\ Changing
  /\ \/ "restart" \in Troubles
     \/ /\ NamespaceControllerIdle /\ ServiceControllerIdle /\ channel = <<>>
        /\ NoneDeleting(services)
  /\ svcNotes' \in InitialNotes(services)
  /\ nsNotes' = <<>>
  /\ nsOut' = <<>>
  /\ svcOut' = <<>>
  /\ channel' = <<>>
  /\ UNCHANGED <<namespace, services, dns>>
=============================================================================
