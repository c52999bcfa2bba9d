----------------------------- MODULE MainProofs -----------------------------
(***************************************************************************)
(* The life of the process, proved for all settings and platforms.  How it *)
(* ends: run returns after the event handler, and exitChan is closed twice *)
(* only when run is over, as long as the manager does not fail.  What it   *)
(* works with: the servers and the metadata that are set.  And what it     *)
(* deals with events in: the one registry that is set.                     *)
(***************************************************************************)
EXTENDS Main, SequenceLemmas

(***************************************************************************)
(* What the validation makes of any settings: the servers of etcd that it  *)
(* keeps, and the type of the final settings.                              *)
(***************************************************************************)

LEMMA NumbersTyped == MaxEndpoints \in Nat /\ Ports \subseteq Nat
BY SettingsAssumption, Zenon

LEMMA UnsetIsNoText == Unset \notin {"", "auto", "given", "found"}
BY SettingsAssumption, Zenon

\* An etcd server as it is kept.
KeptEndpoints == [host : Hosts, port : Ports \cup {DefaultPort}]

\* f lists what is kept of the first servers of a list.
IsKept(f, list, n) == f = [i \in 0..n |-> IF i = 0 THEN <<>> ELSE Keep(f[i - 1], list[i])]

LEMMA KeptExist ==
  ASSUME NEW list, NEW n \in Nat
  PROVE  \E f : IsKept(f, list, n)
<1> DEFINE T == {k \in Nat : \E f : IsKept(f, list, k)}
<1>1. 0 \in T
  <2>1. IsKept([i \in 0..0 |-> <<>>], list, 0)
    BY DEF IsKept
  <2> QED
    BY <2>1
<1>2. ASSUME NEW k \in Nat, k \in T
      PROVE  k + 1 \in T
  <2>1. PICK f : IsKept(f, list, k)
    BY <1>2
  <2> DEFINE g == [i \in 0..(k + 1) |-> IF i # k + 1 THEN f[i] ELSE Keep(f[k], list[i])]
  <2>2. \A i \in 0..k : f[i] = IF i = 0 THEN <<>> ELSE Keep(f[i - 1], list[i])
    BY <2>1 DEF IsKept
  <2>3. \A i \in 0..(k + 1) : g[i] = IF i = 0 THEN <<>> ELSE Keep(g[i - 1], list[i])
    BY <2>2
  <2>4. g = [i \in 0..(k + 1) |-> IF i = 0 THEN <<>> ELSE Keep(g[i - 1], list[i])]
    BY <2>3
  <2>5. IsKept(g, list, k + 1)
    <3> HIDE DEF g
    <3> QED
      BY <2>4, Zenon DEF IsKept
  <2> QED
    BY <2>5
<1>3. \A k \in Nat : k \in T
  <2> HIDE DEF T
  <2> QED
    BY <1>1, <1>2, SetInduction
<1>4. n \in T
  <2> HIDE DEF T
  <2> QED
    BY <1>3
<1> QED
  BY <1>4

\* ParseEndpoints is the last of what is kept.
LEMMA ParseIsKept ==
  ASSUME NEW list, NEW n \in Nat, Len(list) = n
  PROVE  \E f : IsKept(f, list, n) /\ ParseEndpoints(list) = f[n]
<1> DEFINE f == CHOOSE g : IsKept(g, list, n)
<1>1. IsKept(f, list, n)
  BY KeptExist, Zenon
<1>2. ParseEndpoints(list) = f[n]
  BY DEF ParseEndpoints, IsKept
<1> QED
  BY <1>1, <1>2
-----------------------------------------------------------------------------
\* The servers among the first ones of a list that have a host name.
NamedFirst(list, n) == {WithPort(list[k]) : k \in {k \in 1..n : list[k].host # ""}}

\* A server appears a second time only after another one of its host.
NoneRepeats(kept) ==
  \A i, j \in DOMAIN kept : i < j /\ kept[i] = kept[j] =>
    \E k \in (i + 1)..(j - 1) : kept[k].host = kept[i].host

KeptOf(kept, list, n) ==
  /\ kept \in Seq(KeptEndpoints)
  /\ Len(kept) <= n
  /\ Range(kept) = NamedFirst(list, n)
  /\ NoneRepeats(kept)

LEMMA WithPortTyped ==
  ASSUME NEW endp \in EtcdServers, endp.host # ""
  PROVE  WithPort(endp) \in KeptEndpoints
<1>1. endp \in [host : Hosts, port : Ports \cup {Unset}]
  <2>1. [host |-> "", port |-> Unset].host = ""
    OBVIOUS
  <2> QED
    BY <2>1 DEF EtcdServers
<1>2. endp.host \in Hosts /\ endp.port \in Ports \cup {Unset}
  BY <1>1
<1>3. (IF endp.port = Unset THEN DefaultPort ELSE endp.port) \in Ports \cup {DefaultPort}
  BY <1>2
<1> QED
  BY <1>2, <1>3 DEF WithPort, KeptEndpoints

LEMMA AppendRange ==
  ASSUME NEW S, NEW q \in Seq(S), NEW e \in S
  PROVE  Range(Append(q, e)) = Range(q) \cup {e}
<1> DEFINE r == Append(q, e)
<1>1. DOMAIN r = 1..(Len(q) + 1) /\ DOMAIN q = 1..Len(q) /\ Len(q) \in Nat
  OBVIOUS
<1>2. (\A i \in 1..Len(q) : r[i] = q[i]) /\ r[Len(q) + 1] = e
  OBVIOUS
<1>3. 1..(Len(q) + 1) = 1..Len(q) \cup {Len(q) + 1}
  BY <1>1
<1> HIDE DEF r
<1>4. Range(r) = Range(q) \cup {e}
  BY <1>1, <1>2, <1>3 DEF Range
<1> QED
  BY <1>4 DEF r

\* One server more is kept, or is passed over for a reason.
LEMMA KeepStep ==
  ASSUME NEW list, NEW n \in Nat, NEW kept, KeptOf(kept, list, n),
         list[n + 1] \in EtcdServers
  PROVE  KeptOf(Keep(kept, list[n + 1]), list, n + 1)
<1> DEFINE e == list[n + 1]
           w == WithPort(e)
<1>1. NamedFirst(list, n + 1) = NamedFirst(list, n) \cup IF e.host = "" THEN {} ELSE {w}
  <2>1. 1..(n + 1) = 1..n \cup {n + 1}
    OBVIOUS
  <2> QED
    BY <2>1 DEF NamedFirst
<1>0. \A q \in Seq(KeptEndpoints) : Len(q) <= n => Len(q) <= n + 1
  OBVIOUS
<1>2. CASE e.host = ""
  <2>1. NamedFirst(list, n + 1) = NamedFirst(list, n) /\ Keep(kept, e) = kept
    BY <1>1, <1>2 DEF Keep
  <2> QED
    BY <1>0, <2>1 DEF KeptOf
<1>3. CASE e.host # "" /\ Repeats(kept, w)
  <2>1. w \in Range(kept)
    BY <1>3 DEF Repeats, Range
  <2>2. NamedFirst(list, n + 1) = NamedFirst(list, n) /\ Keep(kept, e) = kept
    BY <1>1, <1>3, <2>1 DEF Keep, KeptOf
  <2> QED
    BY <1>0, <2>2 DEF KeptOf
<1>4. CASE e.host # "" /\ ~Repeats(kept, w)
  <2> DEFINE new == Append(kept, w)
  <2>1. Keep(kept, e) = new
    BY <1>4 DEF Keep
  <2>2. w \in KeptEndpoints /\ kept \in Seq(KeptEndpoints) /\ Len(kept) <= n
    BY <1>4, WithPortTyped DEF KeptOf
  <2>3. /\ new \in Seq(KeptEndpoints) /\ Len(new) <= n + 1
        /\ DOMAIN new = 1..(Len(kept) + 1) /\ DOMAIN kept = 1..Len(kept)
        /\ \A i \in 1..Len(kept) : new[i] = kept[i]
        /\ new[Len(kept) + 1] = w
        /\ Len(kept) \in Nat
    <3> HIDE DEF w
    <3> QED
      BY <2>2
  <2>4. Range(new) = NamedFirst(list, n + 1)
    <3>1. Range(new) = Range(kept) \cup {w}
      <4> HIDE DEF w
      <4> QED
        BY <2>2, AppendRange
    <3> QED
      BY <1>1, <1>4, <3>1 DEF KeptOf
  <2>5. ASSUME NEW i \in DOMAIN new, NEW j \in DOMAIN new, i < j, new[i] = new[j]
        PROVE  \E k \in (i + 1)..(j - 1) : new[k].host = new[i].host
    <3> HIDE DEF w, new
    <3>1. i \in 1..Len(kept) /\ new[i] = kept[i]
      BY <2>3, <2>5
    <3>2. CASE j \in 1..Len(kept)
      <4>1. PICK k \in (i + 1)..(j - 1) : kept[k].host = kept[i].host
        BY <2>3, <2>5, <3>1, <3>2 DEF KeptOf, NoneRepeats
      <4>2. new[k] = kept[k]
        BY <2>3, <3>1, <3>2
      <4> QED
        BY <3>1, <4>1, <4>2
    <3>3. CASE j = Len(kept) + 1
      <4>1. kept[i] = w
        BY <2>3, <2>5, <3>1, <3>3
      <4>2. PICK k \in (i + 1)..Len(kept) : kept[k].host = w.host
        BY <1>4, <2>3, <3>1, <4>1 DEF Repeats
      <4>3. new[k] = kept[k] /\ k \in (i + 1)..(j - 1)
        BY <2>3, <3>1, <3>3
      <4> QED
        BY <3>1, <4>1, <4>2, <4>3
    <3> QED
      BY <2>3, <2>5, <3>2, <3>3
  <2>6. NoneRepeats(new)
    <3> HIDE DEF new
    <3> QED
      BY <2>5 DEF NoneRepeats
  <2> HIDE DEF new
  <2> QED
    BY <2>1, <2>3, <2>4, <2>6 DEF KeptOf
<1> QED
  BY <1>2, <1>3, <1>4

\* The validation of the servers that are given.
LEMMA ParseKeeps ==
  ASSUME NEW n \in Nat, NEW list \in [1..n -> EtcdServers]
  PROVE  KeptOf(ParseEndpoints(list), list, n)
<1>1. Len(list) = n
  OBVIOUS
<1>2. PICK f : IsKept(f, list, n) /\ ParseEndpoints(list) = f[n]
  BY <1>1, ParseIsKept
<1>3. \A i \in 0..n : f[i] = IF i = 0 THEN <<>> ELSE Keep(f[i - 1], list[i])
  BY <1>2 DEF IsKept
<1> DEFINE T == {k \in Nat : k <= n => KeptOf(f[k], list, k)}
<1>4. 0 \in T
  <2>1. f[0] = <<>> /\ NamedFirst(list, 0) = {}
    BY <1>3 DEF NamedFirst
  <2>2. Range(<<>>) = {} /\ NoneRepeats(<<>>)
    BY DEF Range, NoneRepeats
  <2>3. <<>> \in Seq(KeptEndpoints) /\ Len(<<>>) <= 0
    OBVIOUS
  <2> QED
    BY <2>1, <2>2, <2>3 DEF KeptOf
<1>5. ASSUME NEW k \in Nat, k \in T
      PROVE  k + 1 \in T
  <2> SUFFICES ASSUME k + 1 <= n
               PROVE  KeptOf(f[k + 1], list, k + 1)
    OBVIOUS
  <2>1. f[k + 1] = Keep(f[k], list[k + 1])
    BY <1>3
  <2>2. KeptOf(f[k], list, k) /\ list[k + 1] \in EtcdServers
    BY <1>5
  <2> QED
    BY <2>1, <2>2, KeepStep
<1>6. n \in T
  <2> HIDE DEF T
  <2> QED
    BY <1>4, <1>5, SetInduction
<1> QED
  BY <1>2, <1>6

\* What the operator promises of the servers of etcd that it is given.
LEMMA ServersKept ==
  ASSUME NEW list \in BoundedSeq(EtcdServers, MaxEndpoints)
  PROVE  /\ ParseEndpoints(list) \in BoundedSeq(KeptEndpoints, MaxEndpoints)
         /\ ParseEndpoints(list) \in Seq(KeptEndpoints)
         /\ Range(ParseEndpoints(list)) = {WithPort(e) : e \in {x \in Range(list) : x.host # ""}}
         /\ NoneRepeats(ParseEndpoints(list))
<1>1. PICK n \in 0..MaxEndpoints : list \in [1..n -> EtcdServers]
  BY DEF BoundedSeq, SeqOf
<1>2. n \in Nat /\ n <= MaxEndpoints /\ MaxEndpoints \in Nat
  BY NumbersTyped
<1> DEFINE kept == ParseEndpoints(list)
<1>3. KeptOf(kept, list, n)
  BY <1>1, <1>2, ParseKeeps
<1>4. NamedFirst(list, n) = {WithPort(e) : e \in {x \in Range(list) : x.host # ""}}
  BY <1>1 DEF NamedFirst, Range
<1> HIDE DEF kept
<1>5. kept \in [1..Len(kept) -> KeptEndpoints] /\ Len(kept) \in 0..MaxEndpoints
  BY <1>2, <1>3 DEF KeptOf
<1>6. kept \in BoundedSeq(KeptEndpoints, MaxEndpoints)
  BY <1>5 DEF BoundedSeq, SeqOf
<1> QED
  BY <1>3, <1>4, <1>6 DEF KeptOf, kept
-----------------------------------------------------------------------------
\* The final settings are of their type, if the settings are valid; and they name
\* the same service registry.

\* A list without null is one of servers.
LEMMA ServersOnly ==
  ASSUME NEW list \in BoundedSeq(EtcdEndpoints, MaxEndpoints), Unset \notin Range(list)
  PROVE  list \in BoundedSeq(EtcdServers, MaxEndpoints)
<1>1. PICK n \in 0..MaxEndpoints : list \in [1..n -> EtcdEndpoints]
  BY DEF BoundedSeq, SeqOf
<1>2. ASSUME NEW i \in 1..n
      PROVE  list[i] \in EtcdServers
  BY <1>1 DEF Range, EtcdEndpoints
<1>3. list \in [1..n -> EtcdServers]
  BY <1>1, <1>2
<1> QED
  BY <1>3 DEF BoundedSeq, SeqOf

LEMMA FinalEtcdTyped ==
  ASSUME NEW etcd \in EtcdSettings, ValidEtcd(etcd), Unset \notin Range(etcd.endpoints)
  PROVE  ValidatedEtcd(etcd)
           \in [auth : {"nothing", "password"}, endpoints : BoundedSeq(KeptEndpoints, MaxEndpoints)]
<1>1. etcd.endpoints \in BoundedSeq(EtcdServers, MaxEndpoints) /\ etcd.auth \in {"nothing", "password"}
  BY ServersOnly DEF EtcdSettings, ValidEtcd
<1>2. ParseEndpoints(etcd.endpoints) \in BoundedSeq(KeptEndpoints, MaxEndpoints)
  BY <1>1, ServersKept
<1>3. ValidatedEtcd(etcd)
        = [auth |-> etcd.auth, endpoints |-> ParseEndpoints(etcd.endpoints)]
  BY DEF EtcdSettings, ValidatedEtcd
<1> QED
  BY <1>1, <1>2, <1>3

LEMMA ValidatedFields ==
  ASSUME NEW given \in RawSettings
  PROVE  /\ Validated(given).watchNamespacesByDefault = given.watchNamespacesByDefault
         /\ Validated(given).network = NonBlank(given.network)
         /\ Validated(given).subNetwork = NonBlank(given.subNetwork)
         /\ Validated(given).etcd =
              IF given.etcd = Unset THEN Unset ELSE ValidatedEtcd(given.etcd)
         /\ Validated(given).sd = given.sd
         /\ Validated(given).cm = given.cm
BY DEF Validated, RawSettings

LEMMA ValidatedTyped ==
  ASSUME NEW given \in RawSettings, Valid(given), ~DereferencesNil(given)
  PROVE  Validated(given) \in FinalSettings
<1> DEFINE final == Validated(given)
           E == [auth : {"nothing", "password"}, endpoints : BoundedSeq(KeptEndpoints, MaxEndpoints)]
           All == [watchNamespacesByDefault : Defaults, network : Fields, subNetwork : Fields,
                   etcd : EtcdSettings \cup {Unset} \cup E,
                   sd : ServiceDirectorySettings \cup {Unset}, cm : CloudMapSettings \cup {Unset}]
<1>1. /\ given.network \in Fields /\ given.subNetwork \in Fields
      /\ given.etcd \in EtcdSettings \cup {Unset}
  BY DEF RawSettings
<1>2. NonBlank(given.network) \in Fields \ {""} /\ NonBlank(given.subNetwork) \in Fields \ {""}
  BY <1>1, UnsetIsNoText DEF NonBlank, Fields
<1>3. (IF given.etcd = Unset THEN Unset ELSE ValidatedEtcd(given.etcd)) \in E \cup {Unset}
  BY <1>1, FinalEtcdTyped DEF Valid, DereferencesNil
<1>4. final \in All
  <2>1. given \in All
    BY DEF RawSettings
  <2>2. \A n \in Fields : \A m \in Fields : \A x \in EtcdSettings \cup {Unset} \cup E :
          [given EXCEPT !.network = n, !.subNetwork = m, !.etcd = x] \in All
    <3> HIDE DEF E
    <3> QED
      BY <2>1
  <2>3. final = [given EXCEPT !.network = NonBlank(given.network),
                              !.subNetwork = NonBlank(given.subNetwork),
                              !.etcd = IF given.etcd = Unset THEN Unset
                                       ELSE ValidatedEtcd(given.etcd)]
    BY DEF Validated, RawSettings
  <2> HIDE DEF final, All, E
  <2> QED
    BY <1>2, <1>3, <2>2, <2>3
<1>5. /\ final.network \in Fields \ {""} /\ final.subNetwork \in Fields \ {""}
      /\ final.etcd \in E \cup {Unset}
  BY <1>2, <1>3, ValidatedFields
<1> HIDE DEF final
<1>6. final \in FinalSettings
  BY <1>4, <1>5 DEF FinalSettings, KeptEndpoints
<1> QED
  BY <1>6 DEF final

\* Valid settings name one service registry, and no other.
LEMMA OneIsNamed ==
  ASSUME NEW given, Valid(given), NEW r \in Registries, given[r] # Unset
  PROVE  Named(given) = {r}
<1>1. IsFiniteSet(Registries)
  <2>1. Registries = {"etcd"} \cup {"sd"} \cup {"cm"}
    BY DEF Registries
  <2> QED
    BY <2>1, FS_Singleton, FS_Union
<1>2. IsFiniteSet(Named(given))
  BY <1>1, FS_Subset DEF Named
<1>3. PICK x : Named(given) = {x}
  BY <1>2, FS_Singleton DEF Valid
<1>4. r \in Named(given)
  BY DEF Named
<1> QED
  BY <1>3, <1>4
-----------------------------------------------------------------------------
(***************************************************************************)
(* How the process ends.                                                   *)
(***************************************************************************)

Early == {"platform", "settings", "metadata", "registry", "manager"}
Ending == {"closing", "cancelling", "returned"}

\* Before run serves, and after the end, there are no goroutines; the starter starts
\* the watcher.
GoroutinesWhileServing ==
  /\ main \in Early \cup {"exited"} => starter = "none" /\ watcher = "none"
  /\ starter = "start" => watcher = "none"

\* Each goroutine comes to its end for a reason.
EndsForAReason ==
  /\ starter \in {"close", "done"} => ctxDone \/ managerFailed
  /\ watcher \in {"blocked", "close", "done"} => watchDone

\* The contexts are cancelled where run has got to: the watcher's after the
\* signal, ctx at the very end.
CancelledBehind ==
  /\ watchDone => main \in {"exitChan", "exited"} \cup Ending
  /\ ctxDone => main \in {"returned", "exited"}

\* exitChan was closed by one of the goroutines, unless these are no more.
ClosedBy == exitClosed => "done" \in {starter, watcher} \/ main = "exited"

\* That run is on its way out means that the watcher has closed exitChan: the
\* starter cannot have done so before ctx is cancelled.
WatcherFirst ==
  main \in Ending /\ starter # "none" /\ ~managerFailed => watcher = "done"

\* Nothing is dealt with, and no panic survived, before run serves.
NothingYet ==
  /\ main \in Early => used = {}
  /\ panicked # Unset => main = "exited"

EndInv ==
  /\ GoroutinesWhileServing
  /\ EndsForAReason
  /\ CancelledBehind
  /\ ClosedBy
  /\ WatcherFirst
  /\ NothingYet
  /\ ClosesOnceWhileServing

USE DEF Early, Ending

\* Nothing is started yet.
LEMMA EndInvInit == Init => EndInv
BY DEF Init, EndInv, GoroutinesWhileServing, EndsForAReason, CancelledBehind, ClosedBy,
       WatcherFirst, NothingYet, ClosesOnceWhileServing

\* A panic ends the process; it is allowed where run is not serving, after a failure of
\* the manager, or for the missing client.
LEMMA PanicsKeepEndInv ==
  ASSUME EndInv, NEW why, Panics(why),
         \/ managerFailed
         \/ main \in {"platform", "settings", "metadata", "returned"}
         \/ why = "registry" /\ registry = "nil"
  PROVE  EndInv'
BY DEF Panics, Ends, setupVars, EndInv, GoroutinesWhileServing, EndsForAReason,
       CancelledBehind, ClosedBy, WatcherFirst, NothingYet, ClosesOnceWhileServing

\* What run does before it serves.
LEMMA SetupKeepsEndInv ==
  ASSUME EndInv,
         \/ DetectPlatform \/ LoadSettings \/ LoadFails \/ GetMetadata \/ SkipMetadata
         \/ ConnectEtcd \/ ConnectServiceDirectory \/ ConnectCloudMap
         \/ LoginMissing \/ ConnectFails \/ ManagerMissing \/ Serve
  PROVE  EndInv'
<1>1. /\ main \in Early
      /\ main' \in (Early \ {main}) \cup {"closing", "stopChan"}
      /\ main' # "stopChan" => starter' = starter
      /\ UNCHANGED <<watcher, managerFailed, endVars>>
  BY DEF DetectPlatform, LoadSettings, LoadFails, GetMetadata, SkipMetadata, ConnectEtcd,
         ConnectServiceDirectory, ConnectCloudMap, Connected, LoginMissing, ConnectFails,
         ManagerMissing, Serve, Return
<1>2. main' = "stopChan" => starter' = "start"
  BY DEF DetectPlatform, LoadSettings, LoadFails, GetMetadata, SkipMetadata, ConnectEtcd,
         ConnectServiceDirectory, ConnectCloudMap, Connected, LoginMissing, ConnectFails,
         ManagerMissing, Serve, Return
<1> QED
  BY <1>1, <1>2 DEF endVars, EndInv, GoroutinesWhileServing, EndsForAReason, CancelledBehind,
                    ClosedBy, WatcherFirst, NothingYet, ClosesOnceWhileServing

\* The steps of the two goroutines, but for their panics.
LEMMA GoroutinesKeepEndInv ==
  ASSUME EndInv,
         \/ StartWatcher \/ CreateControllers \/ ManagerStops \/ ManagerFails
         \/ StarterCloses \/ WatcherStops \/ WatcherBlocks \/ WatcherCloses \/ DealWithEvent
  PROVE  EndInv'
<1> USE DEF setupVars, endVars, EndInv, GoroutinesWhileServing, EndsForAReason,
            CancelledBehind, ClosedBy, WatcherFirst, NothingYet, ClosesOnceWhileServing
<1>1. CASE StartWatcher
  BY <1>1 DEF StartWatcher
<1>2. CASE CreateControllers
  BY <1>2 DEF CreateControllers
<1>3. CASE ManagerStops
  BY <1>3 DEF ManagerStops
<1>4. CASE ManagerFails
  BY <1>4 DEF ManagerFails
<1>5. CASE StarterCloses
  BY <1>5 DEF StarterCloses
<1>6. CASE WatcherStops
  BY <1>6 DEF WatcherStops
<1>7. CASE WatcherBlocks
  BY <1>7 DEF WatcherBlocks, EventsCome
<1>8. CASE WatcherCloses
  BY <1>8 DEF WatcherCloses
<1>9. CASE DealWithEvent
  BY <1>9 DEF DealWithEvent, EventsCome
<1> QED
  BY <1>1, <1>2, <1>3, <1>4, <1>5, <1>6, <1>7, <1>8, <1>9

\* Signals, and what run does after one.
LEMMA EndingKeepsEndInv ==
  ASSUME EndInv,
         \/ Kill \/ Signal \/ Stop \/ ExitChanClosed \/ CloseClient \/ CancelContext \/ Exit
  PROVE  EndInv'
<1> USE DEF setupVars, endVars, EndInv, GoroutinesWhileServing, EndsForAReason,
            CancelledBehind, ClosedBy, WatcherFirst, NothingYet, ClosesOnceWhileServing
<1>1. CASE Kill
  BY <1>1 DEF Kill, Ends
<1>2. CASE Signal
  BY <1>2 DEF Signal
<1>3. CASE Stop
  BY <1>3 DEF Stop
<1>4. CASE ExitChanClosed
  BY <1>4 DEF ExitChanClosed, Return
<1>5. CASE CloseClient
  BY <1>5 DEF CloseClient
<1>6. CASE CancelContext
  BY <1>6 DEF CancelContext
<1>7. CASE Exit
  BY <1>7 DEF Exit, Ends
<1> QED
  BY <1>1, <1>2, <1>3, <1>4, <1>5, <1>6, <1>7

\* Every step keeps the invariant; the panics are where it is needed.
LEMMA EndInvStep == EndInv /\ [Next]_vars => EndInv'
<1> SUFFICES ASSUME EndInv, [Next]_vars
             PROVE  EndInv'
  OBVIOUS
<1>1. CASE StarterPanics
  <2>1. managerFailed \/ main = "returned"
    BY <1>1 DEF StarterPanics, EndInv, GoroutinesWhileServing, EndsForAReason, CancelledBehind
  <2> QED
    BY <1>1, <2>1, PanicsKeepEndInv DEF StarterPanics
<1>2. CASE WatcherPanics
  <2>1. starter = "done"
    BY <1>2 DEF WatcherPanics, EndInv, GoroutinesWhileServing, ClosedBy
  <2>2. managerFailed \/ main = "returned"
    BY <1>2, <2>1 DEF WatcherPanics, EndInv, GoroutinesWhileServing, EndsForAReason,
                      CancelledBehind
  <2> QED
    BY <1>2, <2>2, PanicsKeepEndInv DEF WatcherPanics
<1>3. CASE DetectPanics \/ LoadPanics \/ MetadataPanics \/ FirstEventPanics
  BY <1>3, PanicsKeepEndInv DEF DetectPanics, LoadPanics, MetadataPanics, FirstEventPanics
<1>4. CASE UNCHANGED vars
  BY <1>4 DEF vars, setupVars, endVars, EndInv, GoroutinesWhileServing, EndsForAReason,
              CancelledBehind, ClosedBy, WatcherFirst, NothingYet, ClosesOnceWhileServing
<1> QED
  BY <1>1, <1>2, <1>3, <1>4, SetupKeepsEndInv, GoroutinesKeepEndInv, EndingKeepsEndInv
     DEF Next, Run, Starter, Watcher, Event, Terminated

\* As long as the manager does not fail, run closes the client of the registry and
\* returns only after WatchForEvents has returned.
THEOREM EndsAfterWatcherAlways == Spec => []EndsAfterWatcher
<1>1. EndInv => EndsAfterWatcher
  BY DEF EndInv, WatcherFirst, EndsAfterWatcher
<1> QED
  BY EndInvInit, EndInvStep, <1>1, PTL DEF Spec

\* As long as the manager does not fail, no goroutine closes exitChan again while run
\* serves or waits, only when its deferred calls are done; and nothing else panics by
\* then but the first event, for want of a client of Cloud Map.
THEOREM ClosesOnceWhileServingAlways == Spec => []ClosesOnceWhileServing
<1>1. EndInv => ClosesOnceWhileServing
  BY DEF EndInv
<1> QED
  BY EndInvInit, EndInvStep, <1>1, PTL DEF Spec
-----------------------------------------------------------------------------
(***************************************************************************)
(* What run makes of the settings: each part of the state is, from the     *)
(* step on that sets it, what that step has made of the parts before.      *)
(***************************************************************************)

Connecting == {"registry", "manager", "stopChan", "exitChan"}
Served == {"manager", "stopChan", "exitChan"}

PlatformKnown ==
  /\ platform \in Platforms \cup {Unset}
  /\ main \in {"settings", "metadata"} \cup Connecting => platform \in Platforms

\* The settings are those of a valid config map.
SettingsLoaded ==
  raw \in RawSettings /\ Valid(raw) /\ ~DereferencesNil(raw) /\ settings = Validated(raw)

Loaded ==
  \/ SettingsLoaded
  \/ raw = Unset /\ settings = Unset /\ main \notin {"metadata"} \cup Connecting

\* The metadata are what GetMetadata makes of the settings, or there are none for
\* one of the reasons of SkipMetadata.
MetadataMade ==
  /\ SettingsLoaded
  /\ platform \in Platforms
  /\ HasCloudMetadata(settings)
  /\ Asks(settings) => platform = "GKE"
  /\ \E found \in FoundOnGKE : meta = Metadata(settings, platform, found)

MetadataSkipped ==
  /\ meta = NoMetadata
  /\ main \in Connecting => ~HasCloudMetadata(settings) \/ Asks(settings)

MetadataOf ==
  /\ MetadataMade \/ MetadataSkipped
  /\ main \in {"platform", "settings", "metadata"} => meta = NoMetadata

\* A registry is the one that is set, in its place; it is Cloud Map's that may be nil.
IsSet(r) ==
  \/ r = "etcd" /\ settings.etcd # Unset /\ settings.etcd.endpoints # <<>>
  \/ r = "sd" /\ settings.sd # Unset /\ place \in GSDSettings(settings.sd, platform)
  \/ /\ r \in {"cm", "nil"} /\ settings.cm # Unset
     /\ CloudMapComplete(settings.cm) /\ place = settings.cm

ConnectedToSet == main \in Served => IsSet(registry)

SetupInv == PlatformKnown /\ Loaded /\ MetadataOf /\ ConnectedToSet

USE DEF Connecting, Served, IsSet

LEMMA SetupInvInit == Init => SetupInv
BY DEF Init, SetupInv, PlatformKnown, Loaded, MetadataOf, MetadataSkipped, ConnectedToSet

\* What leaves the results of the setup alone keeps the invariant.
LEMMA OthersKeepSetupInv ==
  ASSUME SetupInv, UNCHANGED <<platform, raw, settings, meta, place>>,
         \/ main' = main /\ registry' = registry
         \/ main' \in Ending \cup {"exited"}
         \/ main = "metadata" /\ main' = "registry"
              /\ (~HasCloudMetadata(settings) \/ Asks(settings))
         \/ main \in Served /\ main' \in Served /\ registry' = registry
  PROVE  SetupInv'
<1>1. PlatformKnown' /\ Loaded'
  BY DEF SetupInv, PlatformKnown, Loaded, SettingsLoaded
<1>2. ConnectedToSet'
  BY DEF SetupInv, ConnectedToSet
<1>3. MetadataOf'
  <2>1. CASE MetadataMade
    BY <2>1 DEF SetupInv, MetadataOf, MetadataMade, SettingsLoaded
  <2>2. CASE MetadataSkipped
    BY <2>2 DEF SetupInv, MetadataOf, MetadataSkipped, HasCloudMetadata, Asks
  <2> QED
    BY <2>1, <2>2 DEF SetupInv, MetadataOf
<1> QED
  BY <1>1, <1>2, <1>3 DEF SetupInv

\* The steps of the setup.
LEMMA SetupKeepsSetupInv ==
  ASSUME SetupInv,
         \/ DetectPlatform \/ LoadSettings \/ GetMetadata
         \/ ConnectEtcd \/ ConnectServiceDirectory \/ ConnectCloudMap
  PROVE  SetupInv'
<1>1. CASE DetectPlatform
  <2>1. platform' \in Platforms
    BY <1>1 DEF DetectPlatform, WhereAmIRunning, Platforms
  <2>2. meta = NoMetadata /\ meta' = NoMetadata
    BY <1>1 DEF DetectPlatform, SetupInv, MetadataOf
  <2> QED
    BY <1>1, <2>1, <2>2
    DEF DetectPlatform, SetupInv, PlatformKnown, Loaded, SettingsLoaded, MetadataOf,
        MetadataSkipped, ConnectedToSet
<1>2. CASE LoadSettings
  <2>1. SettingsLoaded'
    BY <1>2 DEF LoadSettings, SettingsLoaded
  <2>2. meta = NoMetadata /\ meta' = NoMetadata /\ platform \in Platforms
    BY <1>2 DEF LoadSettings, SetupInv, MetadataOf, PlatformKnown
  <2> QED
    BY <1>2, <2>1, <2>2
    DEF LoadSettings, SetupInv, PlatformKnown, Loaded, MetadataOf, MetadataSkipped,
        ConnectedToSet
<1>3. CASE GetMetadata
  <2>1. SettingsLoaded /\ SettingsLoaded' /\ platform \in Platforms
    BY <1>3 DEF GetMetadata, SetupInv, Loaded, SettingsLoaded, PlatformKnown
  <2>2. MetadataMade'
    BY <1>3, <2>1 DEF GetMetadata, MetadataMade, HasCloudMetadata, Asks
  <2> QED
    BY <1>3, <2>1, <2>2
    DEF GetMetadata, SetupInv, PlatformKnown, Loaded, MetadataOf, ConnectedToSet
<1>4. CASE ConnectEtcd \/ ConnectServiceDirectory \/ ConnectCloudMap
  <2>1. /\ main = "registry" /\ main' = "manager"
        /\ UNCHANGED <<platform, raw, settings, meta>>
    BY <1>4 DEF ConnectEtcd, ConnectServiceDirectory, ConnectCloudMap, Connected
  <2>2. ConnectedToSet'
    BY <1>4, <2>1
    DEF ConnectEtcd, ConnectServiceDirectory, ConnectCloudMap, Connected, ConnectedToSet
  <2>3. MetadataOf'
    <3>1. CASE MetadataMade
      BY <2>1, <3>1 DEF SetupInv, MetadataOf, MetadataMade, SettingsLoaded
    <3>2. CASE MetadataSkipped
      BY <2>1, <3>2 DEF SetupInv, MetadataOf, MetadataSkipped, HasCloudMetadata, Asks
    <3> QED
      BY <3>1, <3>2 DEF SetupInv, MetadataOf
  <2> QED
    BY <2>1, <2>2, <2>3 DEF SetupInv, PlatformKnown, Loaded, SettingsLoaded
<1> QED
  BY <1>1, <1>2, <1>3, <1>4

LEMMA SetupInvStep == SetupInv /\ [Next]_vars => SetupInv'
<1> SUFFICES ASSUME SetupInv, [Next]_vars
             PROVE  SetupInv'
  OBVIOUS
<1> USE OthersKeepSetupInv DEF setupVars
<1>1. CASE LoadFails \/ LoginMissing \/ ConnectFails \/ ManagerMissing
  BY <1>1 DEF LoadFails, LoginMissing, ConnectFails, ManagerMissing, Return
<1>2. CASE SkipMetadata
  BY <1>2 DEF SkipMetadata
<1>3. CASE Serve \/ Stop
  BY <1>3 DEF Serve, Stop
<1>4. CASE ExitChanClosed \/ CloseClient \/ CancelContext \/ Exit \/ Kill
  BY <1>4 DEF ExitChanClosed, Return, CloseClient, CancelContext, Exit, Kill, Ends
<1>5. ASSUME NEW why, Panics(why)
      PROVE  SetupInv'
  BY <1>5 DEF Panics, Ends
<1>6. CASE StartWatcher \/ CreateControllers \/ ManagerStops \/ ManagerFails \/ StarterCloses
  BY <1>6 DEF StartWatcher, CreateControllers, ManagerStops, ManagerFails, StarterCloses
<1>7. CASE WatcherStops \/ WatcherBlocks \/ WatcherCloses \/ DealWithEvent \/ Signal
  BY <1>7 DEF WatcherStops, WatcherBlocks, WatcherCloses, DealWithEvent, Signal
<1>8. CASE UNCHANGED vars
  BY <1>8 DEF vars
<1> QED
  BY <1>1, <1>2, <1>3, <1>4, <1>5, <1>6, <1>7, <1>8, SetupKeepsSetupInv
  DEF Next, Run, Starter, Watcher, Event, Terminated, DetectPanics, LoadPanics,
      MetadataPanics, StarterPanics, WatcherPanics, FirstEventPanics

\* Of the servers of etcd that are given none is lost, none is made up, and the
\* operator does not serve without any.
THEOREM KeepsEtcdServersAlways == Spec => []KeepsEtcdServers
<1>1. SetupInv => KeepsEtcdServers
  <2> SUFFICES ASSUME SetupInv, settings # Unset, settings.etcd # Unset
               PROVE  KeepsEtcdServers
    BY DEF KeepsEtcdServers
  <2>1. raw \in RawSettings /\ Valid(raw) /\ ~DereferencesNil(raw) /\ settings = Validated(raw)
    BY DEF SetupInv, Loaded, SettingsLoaded
  <2>2. raw.etcd \in EtcdSettings /\ settings.etcd = ValidatedEtcd(raw.etcd)
    BY <2>1, ValidatedFields DEF RawSettings
  <2>3. settings.etcd.endpoints = ParseEndpoints(raw.etcd.endpoints)
    BY <2>2 DEF EtcdSettings, ValidatedEtcd
  <2>4. raw.etcd.endpoints \in BoundedSeq(EtcdServers, MaxEndpoints)
    BY <2>1, <2>2, ServersOnly, ValidatedFields DEF EtcdSettings, DereferencesNil
  <2>5. Serving => settings.etcd.endpoints # <<>>
    <3>1. Serving => registry = "etcd"
      <4>1. settings.sd = raw.sd /\ settings.cm = raw.cm
        BY <2>1, ValidatedFields
      <4>2. raw.etcd # Unset
        BY <2>1, ValidatedFields
      <4>3. raw.sd = Unset /\ raw.cm = Unset
        BY <2>1, <4>2, OneIsNamed DEF Registries, Named
      <4> QED
        BY <4>1, <4>3 DEF SetupInv, ConnectedToSet, Serving
    <3> QED
      BY <3>1 DEF SetupInv, ConnectedToSet, Serving
  <2> DEFINE given == raw.etcd.endpoints
             kept  == settings.etcd.endpoints
  <2>6. /\ Range(kept) = {WithPort(e) : e \in {x \in Range(given) : x.host # ""}}
        /\ NoneRepeats(kept)
    BY <2>3, <2>4, ServersKept
  <2> HIDE DEF given, kept
  <2>7. /\ \A i, j \in DOMAIN kept : i < j /\ kept[i] = kept[j] =>
             \E k \in (i + 1)..(j - 1) : kept[k].host = kept[i].host
    BY <2>6 DEF NoneRepeats
  <2>8. Serving => kept # <<>>
    BY <2>5 DEF kept
  <2> QED
    BY <2>6, <2>7, <2>8, Zenon DEF KeepsEtcdServers, given, kept
<1> QED
  BY SetupInvInit, SetupInvStep, <1>1, PTL DEF Spec

\* The names of networks that are registered are those that are given or, on GKE,
\* found; a name that is not given is not made up, and that of the network is left out
\* only if it is not given or if a name was to be found out.
THEOREM MetadataNamesNetworksAlways == Spec => []MetadataNamesNetworks
<1>1. ASSUME SetupInv, MetadataMade
      PROVE  /\ MetadataNamesNetworks
             /\ meta.network = Unset => settings.network = Unset
  <2>1. PICK found \in FoundOnGKE : meta = Metadata(settings, platform, found)
    BY <1>1 DEF MetadataMade
  <2>2. /\ settings.network \in {Unset, "auto", "given"}
        /\ settings.subNetwork \in {Unset, "auto", "given"}
    BY <1>1, ValidatedTyped DEF MetadataMade, SettingsLoaded, FinalSettings, Fields
  <2>3. found.network = "found" /\ found.subNetwork \in {"found", ""}
    BY DEF FoundOnGKE
  <2> DEFINE n == NetworkName(settings.network, found.network)
             m == NetworkName(settings.subNetwork, found.subNetwork)
  <2>4. meta.network = (IF n # "" THEN n ELSE Unset) /\ meta.subNetwork = (IF n # "" THEN m ELSE Unset)
    BY <2>1 DEF Metadata
  <2>5. /\ n \in {"", "found", "given"} /\ m \in {"", "found", "given"}
        /\ n = "" <=> settings.network = Unset
        /\ n = "given" <=> settings.network = "given"
        /\ n = "found" => settings.network = "auto"
        /\ m = "found" => settings.subNetwork = "auto"
        /\ settings.subNetwork = "given" => m = "given"
        /\ settings.subNetwork = Unset => m = ""
    BY <2>2, <2>3, UnsetIsNoText DEF NetworkName
  <2> HIDE DEF n, m
  <2>6. "found" \in {meta.network, meta.subNetwork} => platform = "GKE"
    BY <1>1, <2>4, <2>5, UnsetIsNoText DEF MetadataMade, Asks
  <2> QED
    BY <2>4, <2>5, <2>6, UnsetIsNoText DEF MetadataNamesNetworks
<1>2. ASSUME SetupInv, MetadataSkipped
      PROVE  MetadataNamesNetworks
  BY <1>2 DEF MetadataSkipped, MetadataNamesNetworks, Serving, HasCloudMetadata
<1>3. SetupInv => MetadataNamesNetworks
  BY <1>1, <1>2 DEF SetupInv, MetadataOf
<1> QED
  BY SetupInvInit, SetupInvStep, <1>3, PTL DEF Spec
-----------------------------------------------------------------------------
(***************************************************************************)
(* The type of the state.                                                  *)
(***************************************************************************)
GoroutinesTyped ==
  /\ registry \in Registries \cup {"nil", Unset}
  /\ DOMAIN controllers \subseteq {"namespace", "service"}
  /\ main \in Early \cup {"stopChan", "exitChan", "exited"} \cup Ending
  /\ starter \in {"none", "start", "controllers", "manager", "close", "done"}
  /\ watcher \in {"none", "watch", "blocked", "close", "done"}
  /\ {managerFailed, signal, watchDone, ctxDone, exitClosed} \subseteq BOOLEAN
  /\ panicked \in {Unset} \cup
       [where : {"platform", "settings", "metadata", "stopChan", "exitChan"} \cup Ending,
        why : Reasons]
  /\ used \subseteq Registries \cup {Unset}

LEMMA GoroutinesTypedInit == Init => GoroutinesTyped
<1>1. DOMAIN <<>> = {}
  OBVIOUS
<1> QED
  BY <1>1, Zenon DEF Init, GoroutinesTyped

LEMMA GoroutinesTypedStep ==
  GoroutinesTyped /\ EndInv /\ [Next]_vars => GoroutinesTyped'
<1> SUFFICES ASSUME GoroutinesTyped, EndInv, [Next]_vars
             PROVE  GoroutinesTyped'
  OBVIOUS
<1> USE DEF setupVars, endVars, GoroutinesTyped
<1>1. CASE LoadFails
  BY <1>1 DEF LoadFails, Return
<1>2. CASE LoginMissing
  BY <1>2 DEF LoginMissing, Return
<1>3. CASE ConnectFails
  BY <1>3 DEF ConnectFails, Return
<1>4. CASE ManagerMissing
  BY <1>4 DEF ManagerMissing, Return
<1>5. CASE SkipMetadata
  BY <1>5 DEF SkipMetadata
<1>6. CASE DetectPlatform
  BY <1>6 DEF DetectPlatform
<1>7. CASE LoadSettings
  BY <1>7 DEF LoadSettings
<1>8. CASE GetMetadata
  BY <1>8 DEF GetMetadata
<1>9. CASE ConnectEtcd
  BY <1>9 DEF ConnectEtcd, Connected, Registries
<1>10. CASE ConnectServiceDirectory
  BY <1>10 DEF ConnectServiceDirectory, Connected, Registries
<1>11. CASE ConnectCloudMap
  BY <1>11 DEF ConnectCloudMap, Connected, Registries
<1>12. CASE Serve
  BY <1>12 DEF Serve
<1>13. CASE Stop
  BY <1>13 DEF Stop
<1>14. CASE ExitChanClosed
  BY <1>14 DEF ExitChanClosed, Return
<1>15. CASE CloseClient
  BY <1>15 DEF CloseClient
<1>16. CASE CancelContext
  BY <1>16 DEF CancelContext
<1>17. CASE Exit
  BY <1>17 DEF Exit, Ends
<1>18. CASE Kill
  BY <1>18 DEF Kill, Ends
<1>19. CASE Signal
  BY <1>19 DEF Signal
<1>20. CASE StartWatcher
  BY <1>20 DEF StartWatcher
<1>21. CASE ManagerStops
  BY <1>21 DEF ManagerStops
<1>22. CASE ManagerFails
  BY <1>22 DEF ManagerFails
<1>23. CASE StarterCloses
  BY <1>23 DEF StarterCloses
<1>24. CASE CreateControllers
  BY <1>24 DEF CreateControllers
<1>25. CASE WatcherStops
  BY <1>25 DEF WatcherStops
<1>26. CASE WatcherBlocks
  BY <1>26 DEF WatcherBlocks
<1>27. CASE WatcherCloses
  BY <1>27 DEF WatcherCloses
<1>28. CASE DetectPanics \/ LoadPanics \/ MetadataPanics \/ StarterPanics \/ WatcherPanics
            \/ FirstEventPanics
  <2>1. main \in {"platform", "settings", "metadata", "stopChan", "exitChan"} \cup Ending
    BY <1>28 DEF DetectPanics, LoadPanics, MetadataPanics, StarterPanics, WatcherPanics,
                 FirstEventPanics, EventsCome, EndInv, GoroutinesWhileServing
  <2>2. \E why \in Reasons : Panics(why)
    BY <1>28 DEF DetectPanics, LoadPanics, MetadataPanics, StarterPanics, WatcherPanics,
                 FirstEventPanics, Reasons
  <2> QED
    BY <2>1, <2>2 DEF Panics, Ends
<1>29. CASE DealWithEvent
  BY <1>29 DEF DealWithEvent
<1>30. CASE UNCHANGED vars
  BY <1>30 DEF vars
<1> QED
  BY <1>1, <1>2, <1>3, <1>4, <1>5, <1>6, <1>7, <1>8, <1>9, <1>10, <1>11, <1>12, <1>13,
     <1>14, <1>15, <1>16, <1>17, <1>18, <1>19, <1>20, <1>21, <1>22, <1>23, <1>24, <1>25,
     <1>26, <1>27, <1>28, <1>29, <1>30
  DEF Next, Run, Starter, Watcher, Event, Terminated

\* What the state may be, for all settings, platforms and failures.
THEOREM TypeCorrect == Spec => []TypeOK
<1>1. SetupInv => meta.platform \in Platforms \cup {Unset}
                  /\ {meta.network, meta.subNetwork} \subseteq {"found"} \cup Fields
  <2>1. CASE MetadataMade
    <3>1. PICK found \in FoundOnGKE : meta = Metadata(settings, platform, found)
      BY <2>1 DEF MetadataMade
    <3>2. settings.network \in Fields \ {""} /\ settings.subNetwork \in Fields \ {""}
      BY <2>1, ValidatedTyped DEF MetadataMade, SettingsLoaded, FinalSettings
    <3>3. found.network \in {"found"} /\ found.subNetwork \in {"found", ""}
      BY DEF FoundOnGKE
    <3>4. /\ NetworkName(settings.network, found.network) \in {"found"} \cup Fields
          /\ NetworkName(settings.subNetwork, found.subNetwork) \in {"found"} \cup Fields
      BY <3>2, <3>3 DEF NetworkName, Fields
    <3> QED
      BY <2>1, <3>1, <3>4 DEF Metadata, MetadataMade, Fields
  <2>2. CASE meta = NoMetadata
    BY <2>2 DEF NoMetadata, Fields
  <2> QED
    BY <2>1, <2>2 DEF SetupInv, MetadataOf, MetadataSkipped
<1>2. SetupInv => /\ platform \in Platforms \cup {Unset}
                  /\ raw \in RawSettings \cup {Unset}
                  /\ settings \in FinalSettings \cup {Unset}
  BY ValidatedTyped DEF SetupInv, PlatformKnown, Loaded, SettingsLoaded
<1>3. SetupInv /\ GoroutinesTyped => TypeOK
  BY <1>1, <1>2 DEF TypeOK, GoroutinesTyped
<1> QED
  BY EndInvInit, EndInvStep, SetupInvInit, SetupInvStep, GoroutinesTypedInit,
     GoroutinesTypedStep, <1>3, PTL DEF Spec
-----------------------------------------------------------------------------
(***************************************************************************)
(* What events are dealt with in.                                          *)
(***************************************************************************)

\* What events have been dealt with in is a registry that is set, and there.
UsedInv == \A r \in used : SettingsLoaded /\ IsSet(r) /\ r # "nil"

\* As long as the manager does not fail the watcher has gone before run lets go of the
\* registry.
LEMMA ServesWhenEventsCome ==
  ASSUME EndInv, GoroutinesTyped, EventsCome, ~managerFailed
  PROVE  Serving
BY DEF EndInv, GoroutinesTyped, GoroutinesWhileServing, WatcherFirst, EventsCome, Serving

\* Only an event is dealt with, and only before it serves does run set anything up.
LEMMA OthersKeepUsed ==
  ASSUME [Next]_vars, ~DealWithEvent
  PROVE  /\ used' = used
         /\ main \notin Early => UNCHANGED <<platform, raw, settings, place>>
<1> USE DEF setupVars, endVars
<1>1. CASE DetectPlatform \/ LoadSettings \/ LoadFails \/ GetMetadata \/ SkipMetadata
  BY <1>1 DEF DetectPlatform, LoadSettings, LoadFails, GetMetadata, SkipMetadata
<1>2. CASE ConnectEtcd \/ ConnectServiceDirectory \/ ConnectCloudMap
  BY <1>2 DEF ConnectEtcd, ConnectServiceDirectory, ConnectCloudMap, Connected
<1>3. CASE LoginMissing \/ ConnectFails \/ ManagerMissing \/ Serve
  BY <1>3 DEF LoginMissing, ConnectFails, ManagerMissing, Serve
<1>4. CASE Stop \/ ExitChanClosed \/ CloseClient \/ CancelContext \/ Exit \/ Kill \/ Signal
  BY <1>4 DEF Stop, ExitChanClosed, CloseClient, CancelContext, Exit, Kill, Signal
<1>5. CASE StartWatcher \/ CreateControllers \/ ManagerStops \/ ManagerFails \/ StarterCloses
  BY <1>5 DEF StartWatcher, CreateControllers, ManagerStops, ManagerFails, StarterCloses
<1>6. CASE WatcherStops \/ WatcherBlocks \/ WatcherCloses
  BY <1>6 DEF WatcherStops, WatcherBlocks, WatcherCloses
<1>7. ASSUME NEW why, Panics(why)
      PROVE  UNCHANGED <<used, platform, raw, settings, place>>
  BY <1>7 DEF Panics
<1>8. CASE UNCHANGED vars
  BY <1>8 DEF vars
<1> QED
  BY <1>1, <1>2, <1>3, <1>4, <1>5, <1>6, <1>7, <1>8
  DEF Next, Run, Starter, Watcher, Event, Terminated, DetectPanics, LoadPanics,
      MetadataPanics, StarterPanics, WatcherPanics, FirstEventPanics

LEMMA UsedInvStep ==
  UsedInv /\ SetupInv /\ EndInv /\ GoroutinesTyped /\ [Next]_vars => UsedInv'
<1> SUFFICES ASSUME UsedInv, SetupInv, EndInv, GoroutinesTyped, [Next]_vars
             PROVE  UsedInv'
  OBVIOUS
<1>1. CASE DealWithEvent
  <2>1. UNCHANGED <<platform, raw, settings, place>>
    BY <1>1 DEF DealWithEvent, setupVars
  <2>2. CASE managerFailed
    BY <1>1, <2>1, <2>2 DEF DealWithEvent, UsedInv, SettingsLoaded
  <2>3. CASE ~managerFailed
    <3>1. Serving
      BY <1>1, <2>3, ServesWhenEventsCome DEF DealWithEvent
    <3>2. SettingsLoaded /\ IsSet(registry) /\ registry # "nil"
      BY <1>1, <3>1 DEF DealWithEvent, Serving, SetupInv, Loaded, ConnectedToSet
    <3>3. used' = used \cup {registry}
      BY <1>1, <2>3 DEF DealWithEvent
    <3> QED
      BY <2>1, <3>2, <3>3 DEF UsedInv, SettingsLoaded
  <2> QED
    BY <2>2, <2>3
<1>2. CASE ~DealWithEvent
  <2>1. CASE main \in Early
    <3>1. used = {} /\ used' = used
      BY <1>2, <2>1, OthersKeepUsed DEF EndInv, NothingYet
    <3> QED
      BY <3>1 DEF UsedInv
  <2>2. CASE main \notin Early
    <3>1. used' = used /\ UNCHANGED <<platform, raw, settings, place>>
      BY <1>2, <2>2, OthersKeepUsed
    <3> QED
      BY <3>1 DEF UsedInv, SettingsLoaded
  <2> QED
    BY <2>1, <2>2
<1> QED
  BY <1>1, <1>2

\* Events are dealt with in the registry that the settings name, and in no other, in
\* the region and project that are given or, on GKE, found.
THEOREM UsesTheRegistrySetAlways == Spec => []UsesTheRegistrySet
<1>1. ASSUME SettingsLoaded, NEW r, IsSet(r), r # "nil"
      PROVE  /\ Named(raw) = {r}
             /\ r = "sd" => place \in GSDSettings(raw.sd, platform) /\ raw.sd # Unset
             /\ r = "cm" => place.region # "" /\ place = raw.cm /\ raw.cm # Unset
             /\ raw \in RawSettings
  <2>1. raw \in RawSettings /\ Valid(raw) /\ settings = Validated(raw)
    BY <1>1 DEF SettingsLoaded
  <2>2. settings.sd = raw.sd /\ settings.cm = raw.cm /\ (settings.etcd # Unset => raw.etcd # Unset)
    BY <2>1, ValidatedFields
  <2>3. /\ raw.etcd # Unset => Named(raw) = {"etcd"}
        /\ raw.sd # Unset => Named(raw) = {"sd"}
        /\ raw.cm # Unset => Named(raw) = {"cm"}
    BY <2>1, OneIsNamed DEF Registries
  <2> QED
    BY <1>1, <2>1, <2>2, <2>3 DEF CloudMapComplete
<1>2. ASSUME NEW sd \in ServiceDirectorySettings, NEW on, NEW where \in GSDSettings(sd, on),
             NEW field \in {"region", "project"}
      PROVE  /\ sd[field] = "given" => where[field] = "given"
             /\ sd[field] = "" => where[field] = "found" /\ on = "GKE"
  <2>1. sd.region \in {"", "given"} /\ sd.project \in {"", "given"}
    BY <1>2 DEF ServiceDirectorySettings, Texts
  <2>2. \/ GSDComplete(sd) /\ where = sd
        \/ /\ on = "GKE"
           /\ where = [region |-> IF sd.region = "" THEN "found" ELSE sd.region,
                       project |-> IF sd.project = "" THEN "found" ELSE sd.project]
    BY <1>2 DEF GSDSettings
  <2>3. /\ sd.region = "given" => where.region = "given"
        /\ sd.region = "" => where.region = "found" /\ on = "GKE"
        /\ sd.project = "given" => where.project = "given"
        /\ sd.project = "" => where.project = "found" /\ on = "GKE"
    <3>1. CASE GSDComplete(sd) /\ where = sd
      BY <3>1 DEF GSDComplete
    <3>2. CASE ~(GSDComplete(sd) /\ where = sd)
      <4>1. /\ on = "GKE"
            /\ where.region = IF sd.region = "" THEN "found" ELSE sd.region
            /\ where.project = IF sd.project = "" THEN "found" ELSE sd.project
        <5> DEFINE r == IF sd.region = "" THEN "found" ELSE sd.region
                   p == IF sd.project = "" THEN "found" ELSE sd.project
        <5>1. on = "GKE" /\ where = [region |-> r, project |-> p]
          BY <2>2, <3>2
        <5> HIDE DEF r, p
        <5>2. where.region = r /\ where.project = p
          BY <5>1
        <5> QED
          BY <5>1, <5>2 DEF r, p
      <4> QED
        BY <4>1
    <3> QED
      BY <3>1, <3>2
  <2> QED
    BY <1>2, <2>3, Zenon
<1>3. UsedInv => UsesTheRegistrySet
  <2> SUFFICES ASSUME UsedInv, used # {}
               PROVE  UsesTheRegistrySet
    BY DEF UsesTheRegistrySet
  <2>1. \A r \in used : Named(raw) = {r}
    BY <1>1 DEF UsedInv
  <2>2. used = Named(raw)
    BY <2>1
  <2>3. "sd" \in used => raw.sd \in ServiceDirectorySettings /\ place \in GSDSettings(raw.sd, platform)
    BY <1>1 DEF UsedInv, RawSettings
  <2>4. "cm" \in used => place.region = "given"
    BY <1>1 DEF UsedInv, RawSettings, CloudMapSettings, Texts
  <2> QED
    BY <1>2, <2>2, <2>3, <2>4 DEF UsesTheRegistrySet
<1>4. Init => UsedInv
  BY DEF Init, UsedInv
<1> QED
  BY SetupInvInit, SetupInvStep, EndInvInit, EndInvStep, GoroutinesTypedInit,
     GoroutinesTypedStep, UsedInvStep, <1>3, <1>4, PTL DEF Spec
=============================================================================
