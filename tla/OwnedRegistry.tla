---------------------------- MODULE OwnedRegistry ----------------------------
(***************************************************************************)
(* What the operator promises to those who share the service registry with *)
(* it (docs/concepts.md, Ownership): it removes an object only if it owns  *)
(* it and nothing is below it, and each of its changes is one indivisible  *)
(* step.  Nothing is promised of what others do.                           *)
(***************************************************************************)
CONSTANTS
  Objects,    \* the namespace, its services and their endpoints
  Children,   \* the objects right below an object
  Absent      \* the owner of an object that is not in the registry

VARIABLES
  owner,      \* who owns an object
  by          \* who made the last change

vars == <<owner, by>>

Present(o) == owner[o] # Absent

Init ==
  /\ owner \in [Objects -> {"operator", "other", Absent}]
  /\ by = "other"

\* An object needs the object above it.
OperatorRegisters(o) ==
  /\ \A p \in Objects : o \in Children[p] => Present(p)
  /\ owner' = [owner EXCEPT ![o] = "operator"]
  /\ by' = "operator"

OperatorRemoves(o) ==
  /\ owner[o] = "operator"
  /\ \A c \in Children[o] : ~Present(c)
  /\ owner' = [owner EXCEPT ![o] = Absent]
  /\ by' = "operator"

OthersAct ==
  /\ owner' \in [Objects -> {"operator", "other", Absent}]
  /\ by' = "other"

Next ==
  \/ \E o \in Objects : OperatorRegisters(o) \/ OperatorRemoves(o)
  \/ OthersAct

Spec == Init /\ [][Next]_vars
=============================================================================
