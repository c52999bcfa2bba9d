--------------------------- MODULE NamespaceWorker ---------------------------
(***************************************************************************)
(* The event handlers of a namespace worker (namespace_worker.go) and the  *)
(* part of the service registry that they touch: a namespace, its services *)
(* and their endpoints, each with the owner that its metadata tell.        *)
(*                                                                         *)
(* A handler is a sequence of calls.  To create or update an object it     *)
(* registers it.  To delete one it gets the object, checks that the        *)
(* operator owns it, lists what is below it (for a service or a namespace) *)
(* and only then deregisters it; any error on the way ends the handler.    *)
(* The registry changes between the calls if others use it too.            *)
(*                                                                         *)
(* The registry is external.  A call takes effect at one moment; its       *)
(* caller may have given up by then (timeout of the handler or             *)
(* cancellation of the worker), so that a write may be carried out late.   *)
(***************************************************************************)
EXTENDS Naturals, FiniteSets

CONSTANTS
  Namespace,  \* the namespace of this worker
  Services,   \* its services
  Endpoints,  \* the endpoints of its services
  ServiceOf,  \* the service of an endpoint
  Absent,     \* the owner of an object that is not in the registry
  MaxLate     \* how many abandoned writes may be under way (bounds the model)

Objects == {Namespace} \cup Services \cup Endpoints

ASSUME NamespaceWorkerAssumption ==
  /\ Namespace \notin Services \cup Endpoints
  /\ Services \cap Endpoints = {}
  /\ ServiceOf \in [Endpoints -> Services]
  /\ Absent \notin {"operator", "other"}
  /\ MaxLate \in Nat

VARIABLES
  owner,      \* the owner of an object, or Absent
  createdBy,  \* history: who brought a present object into the registry
  by,         \* history: who made the last change
  cascades,   \* whether this registry removes an object with all below it
              \* (Service Directory does) or refuses (Cloud Map does)
  pc,         \* the call the handler waits for, or "idle"
  event,      \* the event that is being handled
  late,       \* writes that were given up and may still be carried out
  raced       \* history: whether others have changed the registry while a
              \* handler was at work, or a write was given up

vars == <<owner, createdBy, by, cascades, pc, event, late, raced>>
registryVars == <<owner, createdBy, by>>

Events == [type : {"create", "update", "delete"}, object : Objects]
Owners == {"operator", "other"}

Children == [o \in Objects |->
  IF o = Namespace THEN Services
  ELSE {e \in Endpoints : ServiceOf[e] = o}]

Present(o) == owner[o] # Absent
Empty(o) == \A c \in Children[o] : ~Present(c)

\* An object is registered under one that is there.
Placeable(o) == \A p \in Objects : o \in Children[p] => Present(p)

\* An object and all that is below it.
Tree(o) == {o} \cup Children[o] \cup UNION {Children[c] : c \in Children[o]}
-----------------------------------------------------------------------------
Init ==
  /\ owner \in [Objects -> Owners \cup {Absent}]
  /\ \A o \in Objects : Present(o) => Placeable(o)
  /\ createdBy = owner
  /\ by = "other"
  /\ cascades \in BOOLEAN
  /\ pc = "idle"
  /\ event \in Events
  /\ late = {}
  /\ raced = FALSE

\* The effect of Register: the object is there with the given owner, created
\* or updated.
Register(o, who) ==
  /\ Placeable(o)
  /\ owner' = [owner EXCEPT ![o] = who]
  /\ createdBy' = [createdBy EXCEPT ![o] = IF Present(o) THEN @ ELSE who]
  /\ by' = who

\* The effect of Deregister.
Deregister(o, who) ==
  /\ Present(o)
  /\ cascades \/ Empty(o)
  /\ owner' = [x \in Objects |-> IF x \in Tree(o) THEN Absent ELSE owner[x]]
  /\ createdBy' = [x \in Objects |-> IF x \in Tree(o) THEN Absent ELSE createdBy[x]]
  /\ by' = who
-----------------------------------------------------------------------------
(***************************************************************************)
(* The worker.                                                             *)
(***************************************************************************)

\* Mutant: a create or an update event goes to no handler that there is.
BeginMistyped(e) ==
  /\ pc = "idle"
  /\ event' = e
  /\ pc' = IF e.type = "delete" THEN "get" ELSE e.type
  /\ UNCHANGED <<registryVars, cascades, late, raced>>

\* handleNamespacedEvents takes an event: create and update go to one handler.
Begin(e) ==
  /\ pc = "idle"
  /\ event' = e
  /\ pc' = IF e.type = "delete" THEN "get" ELSE "register"
  /\ UNCHANGED <<registryVars, cascades, late, raced>>

\* Register with the persistent metadata, which name the operator as owner.
RegisterDone ==
  /\ pc = "register"
  /\ Register(event.object, "operator")
  /\ pc' = "idle"
  /\ UNCHANGED <<cascades, event, late, raced>>

\* Mutant: the answer of Get is not asked for the owner.
GetDoneUnchecked ==
  /\ pc = "get"
  /\ Present(event.object)
  /\ pc' = IF event.object \in Endpoints THEN "deregister" ELSE "list"
  /\ UNCHANGED <<registryVars, cascades, event, late, raced>>

\* Get finds an object that the operator owns.
GetDone ==
  /\ pc = "get"
  /\ owner[event.object] = "operator"
  /\ pc' = IF event.object \in Endpoints THEN "deregister" ELSE "list"
  /\ UNCHANGED <<registryVars, cascades, event, late, raced>>

\* Get finds an object of someone else: isOwnedByOperator is false.
NotOwned ==
  /\ pc = "get"
  /\ owner[event.object] = "other"
  /\ pc' = "idle"
  /\ UNCHANGED <<registryVars, cascades, event, late, raced>>

\* List(Any).Next says that the iterator is done: there is nothing below.
ListDone ==
  /\ pc = "list"
  /\ Empty(event.object)
  /\ pc' = "deregister"
  /\ UNCHANGED <<registryVars, cascades, event, late, raced>>

\* List(Any).Next returns an object: not empty.
NotEmpty ==
  /\ pc = "list"
  /\ ~Empty(event.object)
  /\ pc' = "idle"
  /\ UNCHANGED <<registryVars, cascades, event, late, raced>>

DeregisterDone ==
  /\ pc = "deregister"
  /\ Deregister(event.object, "operator")
  /\ pc' = "idle"
  /\ UNCHANGED <<cascades, event, late, raced>>

\* Mutant: a call that failed is made again until it succeeds.
FailRetries ==
  /\ pc # "idle"
  /\ UNCHANGED vars

\* A call returns an error, of the registry (an object that is not there among
\* them), of the timeout or of the cancellation; the handler logs it and ends.
Fail ==
  /\ pc # "idle"
  /\ pc' = "idle"
  /\ UNCHANGED <<registryVars, cascades, event, late, raced>>

\* The context ends while a write is under way.
GiveUp ==
  /\ pc \in {"register", "deregister"}
  /\ Cardinality(late) < MaxLate
  /\ late' = late \cup {[op |-> pc, object |-> event.object]}
  /\ raced' = TRUE
  /\ pc' = "idle"
  /\ UNCHANGED <<registryVars, cascades, event>>

Worker ==
  \/ RegisterDone \/ GetDone \/ NotOwned \/ ListDone \/ NotEmpty \/ DeregisterDone
  \/ Fail \/ GiveUp
-----------------------------------------------------------------------------
(***************************************************************************)
(* The rest of the world.                                                  *)
(***************************************************************************)

\* The registry carries out a write whose caller has given up.
LateWrite ==
  /\ \E w \in late :
       /\ late' = late \ {w}
       /\ \/ w.op = "register" /\ Register(w.object, "operator")
          \/ w.op = "deregister" /\ Deregister(w.object, "operator")
  /\ UNCHANGED <<cascades, pc, event, raced>>

\* Other users of the registry create what is not there and remove their own.
OtherRegisters(o) ==
  /\ ~Present(o)
  /\ Register(o, "other")
  /\ raced' = (raced \/ pc # "idle")
  /\ UNCHANGED <<cascades, pc, event, late>>

OtherDeregisters(o) ==
  /\ createdBy[o] = "other"
  /\ Deregister(o, "other")
  /\ raced' = (raced \/ pc # "idle")
  /\ UNCHANGED <<cascades, pc, event, late>>

Others == \E o \in Objects : OtherRegisters(o) \/ OtherDeregisters(o)

Next == (\E e \in Events : Begin(e)) \/ Worker \/ LateWrite \/ Others

Spec == Init /\ [][Next]_vars

\* Every call returns, at the latest when the timeout of the handler expires.
FairSpec == Spec /\ WF_vars(Worker)
-----------------------------------------------------------------------------
TypeOK ==
  /\ owner \in [Objects -> Owners \cup {Absent}]
  /\ createdBy \in [Objects -> Owners \cup {Absent}]
  /\ by \in Owners
  /\ cascades \in BOOLEAN
  /\ pc \in {"idle", "register", "get", "list", "deregister"}
  /\ event \in Events
  /\ late \subseteq [op : {"register", "deregister"}, object : Objects]
  /\ raced \in BOOLEAN

\* As long as nothing has raced with a handler, the calls of a handler amount to
\* one step that checks and removes: what the operator removes is its own and
\* empty at that very moment, whatever the registry does with objects that are
\* not empty.  From the first race on nothing is claimed.
Owned == INSTANCE OwnedRegistry WITH
  owner <- IF raced THEN [o \in Objects |-> Absent] ELSE owner,
  by <- IF raced THEN "other" ELSE by

AtomicHandlers == Owned!Spec

\* A handler ends (the fairness that EventHandler assumes of EndHandling).
HandlersEnd == pc # "idle" ~> pc = "idle"
-----------------------------------------------------------------------------
\* "This will make the operator skip all those resources that have been created
\* by someone else" (docs/concepts.md:77): even if nothing races, whoever did not
\* use the operator to create an object does not lose it to the operator.
SkipsWhatOthersCreated ==
  [][\A o \in Objects :
       ~raced /\ createdBy[o] = "other" /\ by' = "operator" => createdBy'[o] = "other"]_vars
=============================================================================
