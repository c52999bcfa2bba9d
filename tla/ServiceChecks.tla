---------------------------- MODULE ServiceChecks ----------------------------
(***************************************************************************)
(* What makes a service one to be registered, and with which annotations:  *)
(* filterAnnotations of pkg/controllers/utils.go.                          *)
(*                                                                         *)
(* The key of an annotation is a prefix, "" if it has none, and a name.    *)
(* The setting serviceAnnotations lists the keys that are allowed; these   *)
(* may have "*" for the prefix, the name or both.                          *)
(***************************************************************************)

Key(prefix, name) == [prefix |-> prefix, name |-> name]

Everything      == Key("*", "*")
AnyNameOf(key)   == Key(key.prefix, "*")
AnyPrefixOf(key) == Key("*", key.name)

\* Mutant: a wildcard is looked up with the other half of the key.
FilterAnnotationsBySuffix(annotations, filter) ==
  IF Everything \in filter THEN annotations
  ELSE {key \in annotations :
          \/ key \in filter
          \/ key.prefix # "" /\ \E allowed \in filter : "*" \in {allowed.prefix, allowed.name}}

\* The three lookups of the code, of which the last two are for keys of the form
\* prefix/name only.
FilterAnnotations(annotations, filter) ==
  IF Everything \in filter THEN annotations
  ELSE {key \in annotations :
          \/ key \in filter
          \/ key.prefix # "" /\ {AnyNameOf(key), AnyPrefixOf(key)} \cap filter # {}}

\* What the documentation says of one entry of the setting
\* (docs/configuration.md:69): each half is the key's or a wildcard.  A key
\* without a prefix is allowed by its own name or by "*/*".
Allows(allowed, key) ==
  /\ allowed.prefix \in {"*", key.prefix}
  /\ allowed.name \in {"*", key.name}
  /\ key.prefix = "" => allowed \in {key, Everything}

AllowedOf(annotations, filter) ==
  {key \in annotations : \E allowed \in filter : Allows(allowed, key)}
=============================================================================
