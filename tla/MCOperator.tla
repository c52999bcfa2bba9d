----------------------------- MODULE MCOperator -----------------------------
(***************************************************************************)
(* Instances of Operator for TLC.                                          *)
(***************************************************************************)
EXTENDS Operator

\* Services and addresses are told apart by identity only.
Symmetry == Permutations(Services) \cup Permutations(Addresses)

\* "p/*" and "n" are allowed: two annotations of the first set, one of the second.
SomeAllowed == {Key("p", "*"), Key("", "n")}
TwoSets == {{Key("p", "n"), Key("x", "n"), Key("", "n")}, {Key("p", "m"), Key("x", "n")}}

\* "*/n" is allowed, which is for keys with a prefix: one annotation of three.
AnyPrefixAllowed == {Key("*", "n")}
OneSet == {{Key("x", "n"), Key("x", "m"), Key("", "n")}}
=============================================================================
