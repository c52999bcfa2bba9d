--------------------------- MODULE MCEventHandler ---------------------------
(***************************************************************************)
(* Instances of EventHandler for TLC.                                      *)
(***************************************************************************)
EXTENDS EventHandler, TLC

\* Namespaces are told apart by identity only.  Used where no temporal
\* property is checked beyond action properties.
Symmetry == Permutations(Namespaces)
=============================================================================
