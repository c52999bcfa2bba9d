------------------------ MODULE NamespaceWorkerProofs ------------------------
(***************************************************************************)
(* Theorems about NamespaceWorker, for all namespaces, services and        *)
(* endpoints.                                                              *)
(***************************************************************************)
EXTENDS NamespaceWorker, TLAPS

\* What is in the registry is under something that is in the registry.
Rooted == \A o \in Objects : Present(o) => Placeable(o)

\* What the calls of a handler have found out still holds when the next call is
\* made: the object is the operator's, and nothing is below it.
Checked ==
  /\ pc \in {"list", "deregister"} => owner[event.object] = "operator"
  /\ pc = "deregister" => Empty(event.object)

\* The inductive invariant; it says nothing of the handlers after a race.
QuietInv == TypeOK /\ Rooted /\ (~raced => late = {} /\ Checked)
-----------------------------------------------------------------------------
LEMMA TypeInit == Init => TypeOK
BY NamespaceWorkerAssumption DEF NamespaceWorkerAssumption, Init, TypeOK, Owners, Events

LEMMA TypeStep == TypeOK /\ [Next]_vars => TypeOK'
<1> SUFFICES ASSUME TypeOK, [Next]_vars PROVE TypeOK'
  OBVIOUS
<1> USE DEF TypeOK, Owners
<1>1. ASSUME NEW o \in Objects, NEW who \in Owners, Register(o, who)
      PROVE  /\ owner' \in [Objects -> Owners \cup {Absent}]
             /\ createdBy' \in [Objects -> Owners \cup {Absent}]
             /\ by' \in Owners
  BY <1>1 DEF Register
<1>2. ASSUME NEW o \in Objects, NEW who \in Owners, Deregister(o, who)
      PROVE  /\ owner' \in [Objects -> Owners \cup {Absent}]
             /\ createdBy' \in [Objects -> Owners \cup {Absent}]
             /\ by' \in Owners
  BY <1>2 DEF Deregister
<1>3. event.object \in Objects
  BY DEF Events
<1>4. ASSUME NEW e \in Events, Begin(e) PROVE TypeOK'
  BY <1>4 DEF Begin, registryVars
<1>5. CASE RegisterDone
  BY <1>1, <1>3, <1>5 DEF RegisterDone
<1>6. CASE GetDone \/ NotOwned \/ ListDone \/ NotEmpty \/ Fail
  BY <1>6 DEF GetDone, NotOwned, ListDone, NotEmpty, Fail, registryVars
<1>7. CASE DeregisterDone
  BY <1>2, <1>3, <1>7 DEF DeregisterDone
<1>8. CASE GiveUp
  BY <1>3, <1>8 DEF GiveUp, registryVars
<1>9. CASE LateWrite
  <2> PICK w \in late :
        /\ late' = late \ {w}
        /\ \/ w.op = "register" /\ Register(w.object, "operator")
           \/ w.op = "deregister" /\ Deregister(w.object, "operator")
    BY <1>9 DEF LateWrite
  <2>1. w.object \in Objects
    OBVIOUS
  <2> QED
    BY <1>1, <1>2, <1>9, <2>1 DEF LateWrite
<1>10. ASSUME NEW o \in Objects, OtherRegisters(o) PROVE TypeOK'
  BY <1>1, <1>10 DEF OtherRegisters
<1>11. ASSUME NEW o \in Objects, OtherDeregisters(o) PROVE TypeOK'
  BY <1>2, <1>11 DEF OtherDeregisters
<1>12. CASE UNCHANGED vars
  BY <1>12 DEF vars
<1> QED
  BY <1>4, <1>5, <1>6, <1>7, <1>8, <1>9, <1>10, <1>11, <1>12 DEF Next, Worker, Others

\* Every variable keeps its type, with or without races.
THEOREM TypeCorrect == Spec => []TypeOK
BY TypeInit, TypeStep, PTL DEF Spec
-----------------------------------------------------------------------------
(***************************************************************************)
(* Without races, a handler is one step.                                   *)
(***************************************************************************)

LEMMA RootedStep ==
  ASSUME TypeOK, Rooted, [Next]_vars
  PROVE  Rooted'
<1>1. ASSUME NEW o \in Objects, NEW who \in Owners, Register(o, who) PROVE Rooted'
  BY <1>1, NamespaceWorkerAssumption
  DEF NamespaceWorkerAssumption, Register, Rooted, Placeable, Present, TypeOK, Owners
<1>2. ASSUME NEW o \in Objects, NEW who \in Owners, Deregister(o, who) PROVE Rooted'
  <2>1. owner' = [x \in Objects |-> IF x \in Tree(o) THEN Absent ELSE owner[x]]
    BY <1>2 DEF Deregister
  <2> SUFFICES ASSUME NEW x \in Objects, Present(x)', NEW p \in Objects, x \in Children[p]
               PROVE  Present(p)'
    BY DEF Rooted, Placeable
  <2>2. x \notin Tree(o) /\ Present(x)
    BY <2>1 DEF Present
  <2>3. Present(p)
    BY <2>2 DEF Rooted, Placeable
  <2>4. p \notin Tree(o)
    <3>1. p # o /\ p \notin Children[o]
      BY <2>2 DEF Tree
    <3>2. \A c \in Children[o] : p \notin Children[c]
      BY NamespaceWorkerAssumption DEF NamespaceWorkerAssumption, Children, Objects
    <3> QED
      BY <3>1, <3>2 DEF Tree
  <2> QED
    BY <2>1, <2>3, <2>4 DEF Present
<1>3. event.object \in Objects /\ "operator" \in Owners /\ "other" \in Owners
  BY DEF TypeOK, Events, Owners
<1>4. CASE LateWrite
  <2>1. PICK w \in late :
          \/ Register(w.object, "operator")
          \/ Deregister(w.object, "operator")
    BY <1>4 DEF LateWrite
  <2>2. w.object \in Objects
    BY DEF TypeOK
  <2> QED
    BY <1>1, <1>2, <1>3, <2>1, <2>2
<1>5. CASE RegisterDone \/ DeregisterDone
  BY <1>1, <1>2, <1>3, <1>5 DEF RegisterDone, DeregisterDone
<1>6. CASE Others
  BY <1>1, <1>2, <1>3, <1>6 DEF Others, OtherRegisters, OtherDeregisters
<1>7. CASE UNCHANGED owner
  BY <1>7 DEF Rooted, Placeable, Present
<1> QED
  BY <1>4, <1>5, <1>6, <1>7
  DEF Next, Worker, Begin, GetDone, NotOwned, ListDone, NotEmpty, Fail, GiveUp, vars,
      registryVars

\* An endpoint has nothing below it.
LEMMA EndpointsEmpty == \A e \in Endpoints : Empty(e)
BY NamespaceWorkerAssumption DEF NamespaceWorkerAssumption, Empty, Children, Objects

LEMMA QuietInit == Init => QuietInv
BY TypeInit DEF Init, QuietInv, Rooted, Checked

LEMMA QuietStep ==
  ASSUME QuietInv, [Next]_vars
  PROVE  QuietInv'
<1>1. TypeOK' /\ Rooted'
  BY TypeStep, RootedStep DEF QuietInv
<1>2. SUFFICES ASSUME ~raced' PROVE late' = {} /\ Checked'
  BY <1>1 DEF QuietInv
<1>3. ~raced /\ ~GiveUp
  BY <1>2
  DEF GiveUp, LateWrite, Next, Worker, Others, Begin, RegisterDone, GetDone, NotOwned,
      ListDone, NotEmpty, DeregisterDone, Fail, OtherRegisters, OtherDeregisters, vars,
      TypeOK, QuietInv
<1>4. late = {} /\ Checked
  BY <1>3 DEF QuietInv
<1>5. ~LateWrite
  BY <1>4 DEF LateWrite
<1>6. late' = {}
  BY <1>3, <1>4, <1>5
  DEF Next, Worker, Others, Begin, RegisterDone, GetDone, NotOwned, ListDone, NotEmpty,
      DeregisterDone, Fail, OtherRegisters, OtherDeregisters, vars
<1>7. Checked'
  <2>1. CASE pc' = "idle" \/ pc' = "register" \/ pc' = "get"
    BY <2>1 DEF Checked
  <2>2. CASE GetDone
    BY <2>2, EndpointsEmpty DEF GetDone, registryVars, Checked, Empty, Present
  <2>3. CASE ListDone
    BY <1>4, <2>3 DEF ListDone, registryVars, Checked, Empty, Present
  <2>4. CASE UNCHANGED vars
    BY <1>4, <2>4 DEF vars, Checked, Empty, Present
  <2>5. CASE Others
    <3>1. pc' = "idle"
      BY <1>2, <1>3, <2>5 DEF Others, OtherRegisters, OtherDeregisters, QuietInv, TypeOK
    <3> QED
      BY <2>1, <3>1
  <2> QED
    BY <1>1, <1>3, <1>5, <2>1, <2>2, <2>3, <2>4, <2>5
    DEF Next, Worker, Begin, RegisterDone, NotOwned, NotEmpty, DeregisterDone, Fail
<1> QED
  BY <1>6, <1>7

\* Deregistering an empty object removes it and nothing else.
LEMMA DeregisterEmpty ==
  ASSUME TypeOK, Rooted, NEW o \in Objects, Empty(o), Deregister(o, "operator")
  PROVE  owner' = [owner EXCEPT ![o] = Absent]
<1>0. \A p \in Objects : Children[p] \subseteq Objects
  BY DEF Children, Objects
<1>1. ASSUME NEW x \in Tree(o), x # o PROVE ~Present(x)
  <2>1. CASE x \in Children[o]
    BY <2>1 DEF Empty
  <2>2. CASE \E c \in Children[o] : x \in Children[c]
    <3>1. PICK c \in Children[o] : x \in Children[c]
      BY <2>2
    <3>2. c \in Objects /\ x \in Objects /\ ~Present(c)
      BY <1>0, <3>1 DEF Empty
    <3> QED
      BY <3>1, <3>2 DEF Rooted, Placeable
  <2> QED
    BY <1>1, <2>1, <2>2 DEF Tree
<1>2. owner' = [x \in Objects |-> IF x \in Tree(o) THEN Absent ELSE owner[x]]
      /\ o \in Tree(o)
  BY DEF Deregister, Tree
<1> QED
  BY <1>1, <1>2 DEF TypeOK, Present

\* As long as nobody has changed the registry while a handler was at work and
\* no write was given up, the operator only removes what it owns and what has
\* nothing below it, and each handler is one step to all others: the calls for
\* Get, List and Deregister cannot be told from a single conditional removal.
THEOREM HandlersAreAtomic == Spec => AtomicHandlers
<1> DEFINE qowner == IF raced THEN [o \in Objects |-> Absent] ELSE owner
           qby == IF raced THEN "other" ELSE by
<1>1. Init => Owned!Init
  BY DEF Init, Owned!Init, Owners
<1>2. ASSUME QuietInv, [Next]_vars
      PROVE  [Owned!Next]_(Owned!vars)
  <2>0. TypeOK /\ Rooted /\ TypeOK'
    BY <1>2, TypeStep DEF QuietInv
  <2>1. event.object \in Objects
    BY <2>0 DEF TypeOK, Events
  <2>2. CASE raced
    <3>1. raced'
      BY <1>2, <2>2
      DEF Next, Worker, Others, Begin, RegisterDone, GetDone, NotOwned, ListDone, NotEmpty,
          DeregisterDone, Fail, GiveUp, LateWrite, OtherRegisters, OtherDeregisters, vars
    <3> QED
      BY <2>2, <3>1 DEF Owned!vars
  <2>3. CASE ~raced /\ raced'
    <3>1. qowner' \in [Objects -> {"operator", "other", Absent}] /\ qby' = "other"
      BY <2>3
    <3> QED
      BY <3>1 DEF Owned!Next, Owned!OthersAct
  <2>4. CASE ~raced /\ ~raced'
    <3>0. Checked /\ late = {}
      BY <1>2, <2>4 DEF QuietInv
    <3>1. CASE RegisterDone
      <4>1. Owned!OperatorRegisters(event.object)
        BY <2>1, <2>4, <3>1
        DEF RegisterDone, Register, Placeable, Present, Owned!OperatorRegisters, Owned!Present
      <4> QED
        BY <2>1, <4>1 DEF Owned!Next
    <3>2. CASE DeregisterDone
      <4>1. owner[event.object] = "operator" /\ Empty(event.object)
            /\ Deregister(event.object, "operator")
        BY <3>0, <3>2 DEF DeregisterDone, Checked
      <4>2. owner' = [owner EXCEPT ![event.object] = Absent] /\ by' = "operator"
        BY <2>0, <2>1, <4>1, DeregisterEmpty DEF Deregister
      <4>3. Owned!OperatorRemoves(event.object)
        BY <2>4, <4>1, <4>2 DEF Empty, Present, Owned!OperatorRemoves, Owned!Present
      <4> QED
        BY <2>1, <4>3 DEF Owned!Next
    <3>3. CASE Others
      <4>1. by' = "other"
        BY <3>3 DEF Others, OtherRegisters, OtherDeregisters, Register, Deregister
      <4>2. owner' \in [Objects -> {"operator", "other", Absent}]
        BY <2>0 DEF TypeOK, Owners
      <4> QED
        BY <2>4, <4>1, <4>2 DEF Owned!Next, Owned!OthersAct
    <3>4. CASE UNCHANGED registryVars
      BY <2>4, <3>4 DEF registryVars, Owned!vars
    <3> QED
      BY <1>2, <2>4, <3>0, <3>1, <3>2, <3>3, <3>4
      DEF Next, Worker, Begin, GetDone, NotOwned, ListDone, NotEmpty, Fail, GiveUp,
          LateWrite, vars, registryVars
  <2> QED
    BY <2>2, <2>3, <2>4
<1>3. QuietInv /\ [Next]_vars => QuietInv'
  BY QuietStep
<1> QED
  BY <1>1, <1>2, <1>3, QuietInit, PTL DEF Spec, AtomicHandlers, Owned!Spec
=============================================================================
