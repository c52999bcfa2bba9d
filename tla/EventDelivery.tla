---------------------------- MODULE EventDelivery ----------------------------
(***************************************************************************)
(* What the event handler promises to the controllers: every namespace has *)
(* a lossy first-in first-out queue of its own.                            *)
(*                                                                         *)
(* Events are numbered in the order in which they are accepted.  An        *)
(* accepted event joins the backlog of its namespace or is ignored.  The   *)
(* backlog is served from its oldest event on, and an event leaves it once *)
(* and for ever.  Events may be lost, but the oldest first: as long as an  *)
(* event is to be served, so are all the later ones of its namespace.      *)
(***************************************************************************)
EXTENDS Naturals

CONSTANT Namespaces

VARIABLES
  accepted,   \* how many events were accepted
  backlog,    \* the events of a namespace that are still to be served
  served      \* the last event served of a namespace

vars == <<accepted, backlog, served>>

Init ==
  /\ accepted = 0
  /\ backlog = [n \in Namespaces |-> {}]
  /\ served = [n \in Namespaces |-> 0]

Accept(n) ==
  /\ accepted' = accepted + 1
  /\ backlog' = [backlog EXCEPT ![n] = @ \cup {accepted + 1}]
  /\ UNCHANGED served

Ignore ==
  /\ accepted' = accepted + 1
  /\ UNCHANGED <<backlog, served>>

Serve(n) ==
  /\ \E i \in backlog[n] :
       /\ \A j \in backlog[n] : i <= j
       /\ served' = [served EXCEPT ![n] = i]
       /\ backlog' = [backlog EXCEPT ![n] = @ \ {i}]
  /\ UNCHANGED accepted

\* Every namespace loses its events up to one of its own.
Lose ==
  /\ \E cut \in [Namespaces -> 0..accepted] :
       backlog' = [n \in Namespaces |-> {i \in backlog[n] : i > cut[n]}]
  /\ UNCHANGED <<accepted, served>>

Next == Ignore \/ Lose \/ \E n \in Namespaces : Accept(n) \/ Serve(n)

Spec == Init /\ [][Next]_vars
=============================================================================
