------------------------------ MODULE Settings ------------------------------
(***************************************************************************)
(* What the operator makes of its settings before it starts: the           *)
(* validation of internal/utils/utils.go, the network configuration and    *)
(* the settings of the service registries of utils.go, and the persistent  *)
(* metadata of main.go.                                                    *)
(*                                                                         *)
(* A text is told apart from others only if it is empty, asks for "auto"   *)
(* or is given; a pointer that is nil is Unset.                            *)
(***************************************************************************)
EXTENDS Naturals, Sequences, FiniteSets, SequencesExt

CONSTANTS
  Unset,        \* nil
  Hosts,        \* the host names of etcd servers
  Ports,        \* the ports that are given for them
  MaxEndpoints, \* how many etcd servers are given (bounds the model)
  Defaults      \* what watchNamespacesByDefault is given as

Auths == {"nothing", "password", "tls", "other"}

\* Nil is no text, no number and no structure.
ASSUME SettingsAssumption ==
  /\ Hosts \subseteq STRING \ {""}
  /\ Ports \subseteq Nat
  /\ Unset \notin {"", "auto", "given", "found"} \cup Nat
  /\ Unset \notin [auth : Auths, endpoints : Seq([host : STRING, port : Nat])]
  /\ MaxEndpoints \in Nat
  /\ Defaults \subseteq BOOLEAN

DefaultPort == 2379
Fields == {Unset, "", "auto", "given"}
Texts == {"", "given"}

\* The port of a server without a host name is never looked at.
EtcdServers ==
  [host : Hosts, port : Ports \cup {Unset}] \cup {[host |-> "", port |-> Unset]}

\* The list in the config map may have an element that is null.
EtcdEndpoints == EtcdServers \cup {Unset}

EtcdSettings ==
  [auth : Auths,
   endpoints : BoundedSeq(EtcdEndpoints, MaxEndpoints)]
ServiceDirectorySettings == [region : Texts, project : Texts]
CloudMapSettings == [region : Texts]

\* The settings as the config map has them.
RawSettings ==
  [watchNamespacesByDefault : Defaults,
   network : Fields, subNetwork : Fields,
   etcd : EtcdSettings \cup {Unset},
   sd : ServiceDirectorySettings \cup {Unset},
   cm : CloudMapSettings \cup {Unset}]

Registries == {"etcd", "sd", "cm"}

\* The service registries that the settings name.
Named(raw) == {r \in Registries : raw[r] # Unset}
-----------------------------------------------------------------------------
(***************************************************************************)
(* ParseAndValidateSettings and parseEtcdSettings.                         *)
(***************************************************************************)

ValidEtcd(etcd) ==
  /\ etcd.endpoints # <<>>
  /\ etcd.auth \in {"nothing", "password"}

\* Mutant: the number of service registries is not checked.
ValidIfAny(raw) ==
  /\ Named(raw) # {}
  /\ raw.etcd # Unset => ValidEtcd(raw.etcd)

\* The settings name one service registry; etcd's are checked here.
Valid(raw) ==
  /\ Cardinality(Named(raw)) = 1
  /\ raw.etcd # Unset => ValidEtcd(raw.etcd)

\* A server that is null is dereferenced, once the other checks have passed.
DereferencesNil(raw) ==
  /\ Valid(raw)
  /\ raw.etcd # Unset /\ Unset \in Range(raw.etcd.endpoints)

WithPort(endp) ==
  [host |-> endp.host, port |-> IF endp.port = Unset THEN DefaultPort ELSE endp.port]

\* Mutant: a server is skipped if its host is there, whatever its port.
RepeatsHost(kept, endp) == \E i \in DOMAIN kept : kept[i].host = endp.host

\* dups holds, for each host, the port of its last endpoint that was kept.
Repeats(kept, endp) ==
  \E i \in DOMAIN kept :
    /\ kept[i] = endp
    /\ \A j \in (i + 1)..Len(kept) : kept[j].host # endp.host

\* A server is kept if it has a host name and does not repeat.
Keep(kept, endp) ==
  IF endp.host = "" \/ Repeats(kept, WithPort(endp)) THEN kept
  ELSE Append(kept, WithPort(endp))

\* The servers that are kept of a list without null, one after the other.
ParseEndpoints(list) ==
  LET kept[i \in 0..Len(list)] == IF i = 0 THEN <<>> ELSE Keep(kept[i - 1], list[i])
  IN  kept[Len(list)]

\* Mutant: an empty text is taken for a name.
NonBlankIgnored(field) == field

NonBlank(field) == IF field = "" THEN Unset ELSE field

ValidatedEtcd(etcd) == [etcd EXCEPT !.endpoints = ParseEndpoints(@)]

\* The final settings, for those that are valid and have no server that is null.
Validated(raw) ==
  [raw EXCEPT !.network = NonBlank(@), !.subNetwork = NonBlank(@),
              !.etcd = IF @ = Unset THEN Unset ELSE ValidatedEtcd(@)]

\* What the final settings may be.
FinalSettings ==
  [watchNamespacesByDefault : Defaults,
   network : Fields \ {""}, subNetwork : Fields \ {""},
   etcd : [auth : {"nothing", "password"},
           endpoints : BoundedSeq([host : Hosts, port : Ports \cup {DefaultPort}], MaxEndpoints)]
          \cup {Unset},
   sd : ServiceDirectorySettings \cup {Unset},
   cm : CloudMapSettings \cup {Unset}]

HasCloudMetadata(settings) == settings.network # Unset \/ settings.subNetwork # Unset
-----------------------------------------------------------------------------
(***************************************************************************)
(* getNetworkCfg and the persistent metadata.                              *)
(***************************************************************************)

Platforms == {"GKE", "EKS", "UNKNOWN"}

\* Google is asked first, and Amazon only if the answer is no.
WhereAmIRunning(inGKE, inEKS) ==
  CASE inGKE            -> "GKE"
    [] ~inGKE /\ inEKS  -> "EKS"
    [] ~inGKE /\ ~inEKS -> "UNKNOWN"

NoMetadata == [platform |-> Unset, network |-> Unset, subNetwork |-> Unset]

Asks(settings) == "auto" \in {settings.network, settings.subNetwork}

\* What GetNetworkFromGKE may find: not every network has sub-networks.
FoundOnGKE == [network : {"found"}, subNetwork : {"found", ""}]

\* The name of a network that is given, or found out, or none.
NetworkName(field, found) ==
  CASE field = Unset -> ""
    [] field = "auto" -> found
    [] field = "given" -> "given"

\* Mutant: what was found out is left out, the setting is taken as it is.
MetadataAsSet(settings, platform, found) ==
  [platform   |-> IF platform = "UNKNOWN" THEN Unset ELSE platform,
   network    |-> settings.network,
   subNetwork |-> settings.subNetwork]

\* persistentMeta, besides the owner.  The name of the network decides on both
\* names (main.go:150).
Metadata(settings, platform, found) ==
  LET network    == NetworkName(settings.network, found.network)
      subNetwork == NetworkName(settings.subNetwork, found.subNetwork)
  IN  [platform   |-> IF platform = "UNKNOWN" THEN Unset ELSE platform,
       network    |-> IF network # "" THEN network ELSE Unset,
       subNetwork |-> IF network # "" THEN subNetwork ELSE Unset]
-----------------------------------------------------------------------------
(***************************************************************************)
(* parseAndResetGSDSettings and parseAndResetAWSCloudMapSettings.          *)
(***************************************************************************)

\* Nothing is looked up for Service Directory.
GSDComplete(sd) == sd.region # "" /\ sd.project # ""

\* Mutant: what is looked up takes the place of what is given.
GSDFromGoogleOnly(sd, platform) ==
  IF GSDComplete(sd) THEN {sd}
  ELSE IF platform = "GKE" THEN {[region |-> "found", project |-> "found"]} ELSE {}

\* Where Service Directory may be used: what is not given is looked up, on GKE only.
\* (The lookup fails without the metadata server, or for a zone with no "-".)
GSDSettings(sd, platform) ==
  LET OrFound(text) == IF text = "" THEN "found" ELSE text
  IN  IF GSDComplete(sd) THEN {sd}
      ELSE IF platform = "GKE"
      THEN {[region |-> OrFound(sd.region), project |-> OrFound(sd.project)]}
      ELSE {}

CloudMapComplete(cm) == cm.region # ""

\* Whether there must be a secret for the service registry that is set.
NeedsLogin(settings) == settings.etcd # Unset => settings.etcd.auth = "password"
=============================================================================
