------------------------- MODULE MCNamespaceWorker -------------------------
(***************************************************************************)
(* Instances of NamespaceWorker for TLC.                                   *)
(***************************************************************************)
EXTENDS NamespaceWorker

CONSTANTS s1, e1, e2

\* Both endpoints belong to the service.
TwoOfOne == [e \in {e1, e2} |-> s1]
=============================================================================
