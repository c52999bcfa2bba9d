--------------------------- MODULE OperatorProofs ---------------------------
(***************************************************************************)
(* Proofs about Operator, for any services, addresses, annotations and     *)
(* setting of what is allowed, any capacity of the channel, any number of  *)
(* changes and faults, and all that may go wrong.                          *)
(***************************************************************************)
EXTENDS Operator, SequenceLemmas, TLAPS

(***************************************************************************)
(* The lookups of filterAnnotations find what the documentation allows.    *)
(***************************************************************************)

\* The keys that are made of some texts.
Keys(T) == [prefix : T, name : T]

\* A key is made up of its prefix and its name.
LEMMA KeyIsPair ==
  ASSUME NEW T, NEW key \in Keys(T)
  PROVE  key = Key(key.prefix, key.name)
BY DEF Keys, Key

\* The prefix and the name of a key are those it was made of.
LEMMA KeyFields ==
  ASSUME NEW p, NEW n
  PROVE  Key(p, n).prefix = p /\ Key(p, n).name = n
BY DEF Key

\* For a key that has a prefix the three lookups and the check for "*/*" are the
\* four ways in which an entry of the setting may allow it.
LEMMA AllowedWithPrefix ==
  ASSUME NEW T, NEW key \in Keys(T), NEW allowed \in Keys(T), key.prefix # ""
  PROVE  Allows(allowed, key)
           <=> allowed \in {Everything, key, AnyNameOf(key), AnyPrefixOf(key)}
<1>1. Allows(allowed, key)
        <=> allowed.prefix \in {"*", key.prefix} /\ allowed.name \in {"*", key.name}
  BY DEF Allows
<1>2. key = Key(key.prefix, key.name) /\ allowed = Key(allowed.prefix, allowed.name)
  BY KeyIsPair
<1>3. allowed.prefix = "*" /\ allowed.name = "*" <=> allowed = Everything
  BY <1>2, KeyFields DEF Everything
<1>4. allowed.prefix = key.prefix /\ allowed.name = key.name <=> allowed = key
  BY <1>2
<1>5. allowed.prefix = key.prefix /\ allowed.name = "*" <=> allowed = AnyNameOf(key)
  <2>1. AnyNameOf(key).prefix = key.prefix /\ AnyNameOf(key).name = "*"
    BY KeyFields DEF AnyNameOf
  <2>2. ASSUME allowed.prefix = key.prefix, allowed.name = "*"
        PROVE  allowed = Key(key.prefix, "*")
    BY <1>2, <2>2
  <2> QED
    BY <2>1, <2>2 DEF AnyNameOf
<1>6. allowed.prefix = "*" /\ allowed.name = key.name <=> allowed = AnyPrefixOf(key)
  <2>1. AnyPrefixOf(key).prefix = "*" /\ AnyPrefixOf(key).name = key.name
    BY KeyFields DEF AnyPrefixOf
  <2>2. ASSUME allowed.prefix = "*", allowed.name = key.name
        PROVE  allowed = Key("*", key.name)
    BY <1>2, <2>2
  <2> QED
    BY <2>1, <2>2 DEF AnyPrefixOf
<1> QED
  BY <1>1, <1>3, <1>4, <1>5, <1>6

\* A key without a prefix is allowed as it is or by "*/*".
LEMMA AllowedWithoutPrefix ==
  ASSUME NEW T, NEW key \in Keys(T), NEW allowed \in Keys(T), key.prefix = ""
  PROVE  Allows(allowed, key) <=> allowed \in {Everything, key}
<1>1. Everything.prefix = "*" /\ Everything.name = "*"
  BY KeyFields DEF Everything
<1>2. key = Key(key.prefix, key.name) /\ allowed = Key(allowed.prefix, allowed.name)
  BY KeyIsPair
<1> QED
  BY <1>1, <1>2 DEF Allows, Everything

\* Whatever the annotations of a service and the setting are, the annotations that
\* are kept are those that the documentation allows (docs/configuration.md:69):
\* no wildcard exposes more, none is without effect.
THEOREM FilterKeepsWhatIsAllowed ==
  ASSUME NEW T, NEW annotations \in SUBSET Keys(T), NEW filter \in SUBSET Keys(T)
  PROVE  FilterAnnotations(annotations, filter) = AllowedOf(annotations, filter)
<1> SUFFICES ASSUME NEW key \in annotations
             PROVE  key \in FilterAnnotations(annotations, filter)
                      <=> \E allowed \in filter : Allows(allowed, key)
  BY DEF FilterAnnotations, AllowedOf
<1>1. CASE key.prefix # ""
  <2>1. (\E allowed \in filter : Allows(allowed, key))
          <=> {Everything, key, AnyNameOf(key), AnyPrefixOf(key)} \cap filter # {}
    <3>1. key \in Keys(T) /\ \A allowed \in filter : allowed \in Keys(T)
      OBVIOUS
    <3>2. \A allowed \in filter :
            Allows(allowed, key)
              <=> allowed \in {Everything, key, AnyNameOf(key), AnyPrefixOf(key)}
      BY <1>1, <3>1, AllowedWithPrefix
    <3> QED
      BY <3>2
  <2> QED
    BY <1>1, <2>1 DEF FilterAnnotations
<1>2. CASE key.prefix = ""
  <2>1. (\E allowed \in filter : Allows(allowed, key))
          <=> {Everything, key} \cap filter # {}
    <3>1. key \in Keys(T) /\ \A allowed \in filter : allowed \in Keys(T)
      OBVIOUS
    <3>2. \A allowed \in filter : Allows(allowed, key) <=> allowed \in {Everything, key}
      BY <1>2, <3>1, AllowedWithoutPrefix
    <3> QED
      BY <3>2
  <2> QED
    BY <1>2, <2>1 DEF FilterAnnotations
<1> QED
  BY <1>1, <1>2
-----------------------------------------------------------------------------
(***************************************************************************)
(* What the events and the lists of events show.                           *)
(***************************************************************************)

\* The annotations that may be shown.
Allowed == AllowedOf(UNION AnnotationSets, ServiceAnnotations)

\* The events that show no others, and what checkService may find.
SafeEvents ==
  [type : {"create", "update", "delete"}, object : Objects, metadata : SUBSET Allowed]
SafeChecks == [passed : BOOLEAN, addresses : SUBSET Addresses, metadata : SUBSET Allowed]

SafeLists == Seq(SafeEvents)

\* The registries that show no others.
SafeRegistries == UNION {[D -> SUBSET Allowed] : D \in SUBSET Objects}

LEMMA AllowedIsMetadata == SUBSET Allowed \subseteq Metadata
BY DEF Allowed, AllowedOf, Metadata

LEMMA SafeEventsAreEvents == SafeLists \subseteq Seq(Events)
<1>1. SafeEvents \subseteq Events
  BY AllowedIsMetadata DEF SafeEvents, Events
<1> QED
  BY <1>1 DEF SafeLists

\* What is kept of the annotations of any service may be shown.
LEMMA KeptIsAllowed ==
  ASSUME NEW annotations \in AnnotationSets
  PROVE  FilterAnnotations(annotations, ServiceAnnotations) \subseteq Allowed
<1>1. annotations \in SUBSET Keys(STRING) /\ ServiceAnnotations \in SUBSET Keys(STRING)
  BY ControllersAssumption DEF Keys
<1>2. FilterAnnotations(annotations, ServiceAnnotations)
        = AllowedOf(annotations, ServiceAnnotations)
  BY <1>1, FilterKeepsWhatIsAllowed
<1>3. AllowedOf(annotations, ServiceAnnotations) \subseteq Allowed
  BY DEF AllowedOf, Allowed
<1> QED
  BY <1>2, <1>3

LEMMA CheckTyped ==
  ASSUME dns \subseteq Addresses, NEW v \in Service \cup {Absent}
  PROVE  Check(v) \in SafeChecks
<1>1. Nothing \in SafeChecks
  BY DEF Nothing, SafeChecks
<1>2. CASE v = Absent
  BY <1>1, <1>2 DEF Check
<1>3. CASE v # Absent
  <2>1. v.annotations \in AnnotationSets /\ v.addresses \subseteq Addresses
    BY <1>3 DEF Service
  <2>2. AllAddresses(v) \subseteq Addresses
    BY <2>1 DEF AllAddresses
  <2>3. FilterAnnotations(v.annotations, ServiceAnnotations) \subseteq Allowed
    BY <2>1, KeptIsAllowed
  <2>4. [passed |-> TRUE, addresses |-> AllAddresses(v),
         metadata |-> FilterAnnotations(v.annotations, ServiceAnnotations)] \in SafeChecks
    BY <2>2, <2>3 DEF SafeChecks
  <2> QED
    BY <1>1, <2>4 DEF Check
<1> QED
  BY <1>2, <1>3

LEMMA ChecksTyped ==
  ASSUME dns \subseteq Addresses, NEW v \in Service \cup {Absent}, NEW mayFail \in BOOLEAN
  PROVE  Checks(v, mayFail) \subseteq SafeChecks
<1>1. Nothing \in SafeChecks
  BY DEF Nothing, SafeChecks
<1> QED
  BY <1>1, CheckTyped DEF Checks
-----------------------------------------------------------------------------
\* The objects and the single events.

LEMMA EventsTyped ==
  ASSUME NEW o \in Objects, NEW md \in SUBSET Allowed
  PROVE  /\ Create(o, md) \in SafeEvents
         /\ Update(o, md) \in SafeEvents
         /\ Delete(o) \in SafeEvents
         /\ Create(o, {}) \in SafeEvents
BY DEF Create, Update, Delete, SafeEvents

LEMMA EndpointsTyped ==
  ASSUME NEW s \in Services, NEW check \in SafeChecks
  PROVE  /\ EndpointsOf(s, check) \subseteq Objects
         /\ IsFiniteSet(EndpointsOf(s, check))
<1>1. check.addresses \subseteq Addresses
  BY DEF SafeChecks
<1>2. \A a \in check.addresses : <<s, a>> \in Services \X Addresses
  BY <1>1
<1>3. EndpointsOf(s, check) \subseteq Objects
  BY <1>2 DEF EndpointsOf, Objects
<1>4. IsFiniteSet(check.addresses)
  BY <1>1, ControllersAssumption, FS_Subset
<1> DEFINE f == [a \in check.addresses |-> <<s, a>>]
<1>5. f \in Surjection(check.addresses, EndpointsOf(s, check))
  BY DEF Surjection, EndpointsOf
<1>6. IsFiniteSet(EndpointsOf(s, check))
  BY <1>4, <1>5, FS_Surjection DEF ExistsSurjection
<1> QED
  BY <1>3, <1>6

LEMMA PathsTyped ==
  ASSUME NEW s \in Services
  PROVE  <<>> \in Objects /\ <<s>> \in Objects
BY DEF Objects

\* A list of events for the endpoints of a service.
LEMMA EndpointListTyped ==
  ASSUME NEW S \in SUBSET Objects, IsFiniteSet(S), NEW q \in SetToSeqs(S),
         NEW E \in [Objects -> SafeEvents]
  PROVE  [i \in DOMAIN q |-> E[q[i]]] \in SafeLists
<1>1. Cardinality(S) \in Nat /\ q \in [1..Cardinality(S) -> S]
  BY ListTyped
<1>2. [i \in DOMAIN q |-> E[q[i]]] \in [1..Cardinality(S) -> SafeEvents]
  BY <1>1
<1> QED
  BY <1>1, <1>2 DEF SafeLists

LEMMA AfterTwo ==
  ASSUME NEW a \in SafeEvents, NEW b \in SafeEvents, NEW q \in SafeLists
  PROVE  <<a, b>> \o q \in SafeLists
BY DEF SafeLists
-----------------------------------------------------------------------------
\* The lists of events that the controllers make.

LEMMA DeletedEndpointsTyped ==
  ASSUME NEW s \in Services, NEW check \in SafeChecks,
         NEW q \in Each(Delete, EndpointsOf(s, check))
  PROVE  q \in SafeLists
<1> DEFINE S == EndpointsOf(s, check)
           E == [o \in Objects |-> Delete(o)]
<1>1. S \subseteq Objects /\ IsFiniteSet(S)
  BY EndpointsTyped
<1>2. E \in [Objects -> SafeEvents]
  BY EventsTyped
<1>3. PICK p \in SetToSeqs(S) : q = [i \in DOMAIN p |-> Delete(p[i])]
  BY DEF Each
<1>4. \A i \in DOMAIN p : p[i] \in Objects
  BY <1>1, ListTyped
<1>5. q = [i \in DOMAIN p |-> E[p[i]]]
  BY <1>3, <1>4
<1> QED
  <2> HIDE DEF S, E
  <2> QED
    BY <1>1, <1>2, <1>5, EndpointListTyped

LEMMA DeletionTyped ==
  ASSUME NEW s \in Services, NEW check \in SafeChecks, NEW q \in Deletion(s, check)
  PROVE  q \in SafeLists
<1>1. PICK p \in Each(Delete, EndpointsOf(s, check)) : q = p \o <<Delete(<<s>>)>>
  BY DEF Deletion
<1>2. p \in SafeLists
  BY DeletedEndpointsTyped
<1>3. Delete(<<s>>) \in SafeEvents
  BY PathsTyped, EventsTyped
<1> QED
  BY <1>1, <1>2, <1>3 DEF SafeLists

LEMMA CreationTyped ==
  ASSUME NEW s \in Services, NEW check \in SafeChecks, NEW q \in Creation(s, check)
  PROVE  q \in SafeLists
<1> DEFINE S == EndpointsOf(s, check)
           E == [o \in Objects |-> Create(o, check.metadata)]
<1>1. S \subseteq Objects /\ IsFiniteSet(S)
  BY EndpointsTyped
<1>2. E \in [Objects -> SafeEvents]
  BY EventsTyped DEF SafeChecks
<1>3. PICK p \in SetToSeqs(S) :
        q = <<Create(<<>>, {}), Create(<<s>>, {})>>
              \o [i \in DOMAIN p |-> Create(p[i], check.metadata)]
  BY DEF Creation, Each
<1>4. \A i \in DOMAIN p : p[i] \in Objects
  BY <1>1, ListTyped
<1>5. [i \in DOMAIN p |-> Create(p[i], check.metadata)] = [i \in DOMAIN p |-> E[p[i]]]
  BY <1>4
<1>6. [i \in DOMAIN p |-> E[p[i]]] \in SafeLists
  <2> HIDE DEF S, E
  <2> QED
    BY <1>1, <1>2, EndpointListTyped
<1>7. Create(<<>>, {}) \in SafeEvents /\ Create(<<s>>, {}) \in SafeEvents
  BY PathsTyped, EventsTyped
<1> QED
  <2> HIDE DEF S, E
  <2> QED
    BY <1>3, <1>5, <1>6, <1>7, AfterTwo, Zenon

LEMMA ModificationTyped ==
  ASSUME NEW s \in Services, NEW old \in SafeChecks, NEW new \in SafeChecks,
         NEW q \in Modification(s, old, new)
  PROVE  q \in SafeLists
<1> DEFINE S == EndpointsOf(s, old)
           F(e) == IF e \in EndpointsOf(s, new) THEN Update(e, new.metadata) ELSE Delete(e)
           E == [o \in Objects |-> F(o)]
<1>1. S \subseteq Objects /\ IsFiniteSet(S)
  BY EndpointsTyped
<1>2. E \in [Objects -> SafeEvents]
  BY EventsTyped DEF SafeChecks
<1>3. PICK p \in SetToSeqs(S) :
        q = <<Create(<<>>, {}), Create(<<s>>, {})>> \o [i \in DOMAIN p |-> F(p[i])]
  BY DEF Modification, Each
<1>4. \A i \in DOMAIN p : p[i] \in Objects
  BY <1>1, ListTyped
<1>5. [i \in DOMAIN p |-> F(p[i])] = [i \in DOMAIN p |-> E[p[i]]]
  BY <1>4
<1>6. [i \in DOMAIN p |-> E[p[i]]] \in SafeLists
  <2> HIDE DEF S, E
  <2> QED
    BY <1>1, <1>2, EndpointListTyped
<1>7. Create(<<>>, {}) \in SafeEvents /\ Create(<<s>>, {}) \in SafeEvents
  BY PathsTyped, EventsTyped
<1> QED
  <2> HIDE DEF S, E, F
  <2> QED
    BY <1>3, <1>5, <1>6, <1>7, AfterTwo, Zenon

LEMMA ServiceEventsTyped ==
  ASSUME dns \subseteq Addresses, NEW mayFail \in BOOLEAN,
         NEW note \in [name : Services, old : Service \cup {Absent}, new : Service \cup {Absent}],
         NEW q \in ServiceEvents(note, mayFail)
  PROVE  q \in SafeLists
<1> DEFINE s == note.name
<1>0. <<>> \in SafeLists /\ s \in Services
  BY DEF SafeLists
<1>1. CASE q = <<>>
  BY <1>0, <1>1
<1>2. CASE q # <<>>
  <2>1. PICK old \in Checks(note.old, mayFail), new \in Checks(note.new, mayFail) :
          q \in CASE note.old = Absent -> IF new.passed THEN Creation(s, new) ELSE {<<>>}
                 [] note.old # Absent /\ note.new.deleting ->
                      IF note.old.deleting THEN {<<>>} ELSE Deletion(s, new)
                 [] note.old # Absent /\ ~note.new.deleting -> OnUpdate(s, old, new)
    BY <1>2 DEF ServiceEvents
  <2>2. old \in SafeChecks /\ new \in SafeChecks
    BY ChecksTyped
  <2>3. q \in Creation(s, new) \cup Deletion(s, new) \cup OnUpdate(s, old, new)
    BY <1>2, <2>1
  <2>4. OnUpdate(s, old, new)
          \subseteq {<<>>} \cup Deletion(s, old) \cup Creation(s, new) \cup Modification(s, old, new)
    BY <2>2 DEF OnUpdate, SafeChecks
  <2> QED
    BY <1>0, <1>2, <2>2, <2>3, <2>4, CreationTyped, DeletionTyped, ModificationTyped
<1> QED
  BY <1>1, <1>2

LEMMA OfServiceTyped ==
  ASSUME dns \subseteq Addresses, services \in [Services -> Service \cup {Absent}],
         NEW kind, NEW s \in Services, NEW q \in OfService(kind, s)
  PROVE  q \in SafeLists
<1>1. Check(services[s]) \in SafeChecks
  BY CheckTyped
<1>2. CASE kind # "create"
  BY <1>1, <1>2, DeletionTyped DEF OfService
<1>3. CASE kind = "create"
  <2>1. PICK p \in Each(Delete, EndpointsOf(s, Check(services[s]))) :
          q = <<Create(<<s>>, {})>> \o p
    BY <1>3 DEF OfService
  <2>2. p \in SafeLists
    BY <1>1, DeletedEndpointsTyped
  <2>3. Create(<<s>>, {}) \in SafeEvents
    BY PathsTyped, EventsTyped
  <2> QED
    BY <2>1, <2>2, <2>3 DEF SafeLists
<1> QED
  BY <1>2, <1>3

LEMMA NamespaceAndServicesTyped ==
  ASSUME dns \subseteq Addresses, services \in [Services -> Service \cup {Absent}],
         NEW kind, NEW q \in NamespaceAndServices(kind)
  PROVE  q \in SafeLists
<1>0. PICK found \in SUBSET Services :
        \E r \in UNION {Concatenations([i \in DOMAIN p |-> OfService(kind, p[i])]) :
                         p \in SetToSeqs(found)} :
          q = IF kind = "create" THEN <<Create(<<>>, {})>> \o r ELSE r \o <<Delete(<<>>)>>
  BY Zenon DEF NamespaceAndServices
<1>1. PICK p \in SetToSeqs(found) :
        \E r \in Concatenations([i \in DOMAIN p |-> OfService(kind, p[i])]) :
          q = IF kind = "create" THEN <<Create(<<>>, {})>> \o r ELSE r \o <<Delete(<<>>)>>
  BY <1>0
<1> DEFINE sets == [i \in DOMAIN p |-> OfService(kind, p[i])]
<1>2. PICK r \in Concatenations(sets) :
        q = IF kind = "create" THEN <<Create(<<>>, {})>> \o r ELSE r \o <<Delete(<<>>)>>
  BY <1>1
<1>3. Cardinality(found) \in Nat /\ p \in [1..Cardinality(found) -> found]
  BY ControllersAssumption, FS_Subset, ListTyped
<1>4. PICK f \in [DOMAIN sets -> UNION Range(sets)] :
        r = FlattenSeq(f) /\ \A i \in DOMAIN sets : f[i] \in sets[i]
  BY <1>2 DEF Concatenations
<1>5. \A i \in DOMAIN p : f[i] \in SafeLists
  <2>1. \A i \in DOMAIN p : p[i] \in Services /\ f[i] \in OfService(kind, p[i])
    BY <1>3, <1>4
  <2> QED
    BY <2>1, OfServiceTyped
<1>6. f \in [1..Cardinality(found) -> SafeLists]
  BY <1>3, <1>4, <1>5
<1>7. r \in SafeLists
  BY <1>3, <1>4, <1>6, FlattenTyped DEF SafeLists
<1>8. Create(<<>>, {}) \in SafeEvents /\ Delete(<<>>) \in SafeEvents
  BY EventsTyped DEF Objects
<1> QED
  BY <1>2, <1>7, <1>8 DEF SafeLists

LEMMA NamespaceEventsTyped ==
  ASSUME dns \subseteq Addresses, services \in [Services -> Service \cup {Absent}],
         NEW note \in [old : Labels \cup {Absent}, new : Labels \cup {Absent}],
         NEW q \in NamespaceEvents(note)
  PROVE  q \in SafeLists
<1>1. q = <<>> \/ q \in NamespaceAndServices("delete") \/ q \in NamespaceAndServices("create")
  BY DEF NamespaceEvents, Watches
<1>2. <<>> \in SafeLists
  BY DEF SafeLists
<1> QED
  BY <1>1, <1>2, NamespaceAndServicesTyped
-----------------------------------------------------------------------------
(***************************************************************************)
(* The invariant: what is on its way shows what may be shown, too.         *)
(***************************************************************************)
Notes == [name : Services, old : Service \cup {Absent}, new : Service \cup {Absent}]
NamespaceNotes == [old : Labels \cup {Absent}, new : Labels \cup {Absent}]

ClusterTyped ==
  /\ namespace \in Labels \cup {Absent}
  /\ services \in [Services -> Service \cup {Absent}]
  /\ dns \subseteq Addresses
  /\ changes \in 0..MaxChanges
NotesTyped == nsNotes \in Seq(NamespaceNotes) /\ svcNotes \in Seq(Notes)
OutTyped == nsOut \in SafeLists /\ svcOut \in SafeLists
ChannelTyped == channel \in SafeLists /\ Len(channel) <= ChanCap
RegistrySafe == registry \in SafeRegistries
HistoryTyped == faults \in 0..MaxFaults /\ whole \in BOOLEAN

SafeInv ==
  /\ ClusterTyped /\ NotesTyped /\ OutTyped /\ ChannelTyped
  /\ RegistrySafe /\ HistoryTyped

LEMMA SafeIsTyped == SafeInv => TypeOK
<1>1. RegistrySafe => Present \subseteq Objects /\ Range(registry) \subseteq Metadata
  BY AllowedIsMetadata DEF RegistrySafe, SafeRegistries, Present, Range
<1>2. OutTyped /\ ChannelTyped
        => nsOut \in Seq(Events) /\ svcOut \in Seq(Events) /\ channel \in Seq(Events)
  BY SafeEventsAreEvents DEF OutTyped, ChannelTyped
<1> QED
  BY <1>1, <1>2
  DEF SafeInv, TypeOK, ClusterTyped, NotesTyped, OutTyped, ChannelTyped, RegistrySafe,
      HistoryTyped, Notes, NamespaceNotes

LEMMA InitialNotesTyped ==
  ASSUME NEW state \in [Services -> Service \cup {Absent}], NEW q \in InitialNotes(state)
  PROVE  q \in Seq(Notes)
<1> DEFINE S == {s \in Services : state[s] # Absent}
<1>1. PICK p \in SetToSeqs(S) : q = [i \in DOMAIN p |-> NoteOf(p[i], Absent, state[p[i]])]
  BY DEF InitialNotes
<1>2. IsFiniteSet(S)
  BY ControllersAssumption, FS_Subset
<1>3. Cardinality(S) \in Nat /\ p \in [1..Cardinality(S) -> S]
  <2> HIDE DEF S
  <2> QED
    BY <1>2, ListTyped
<1>4. \A i \in DOMAIN p : NoteOf(p[i], Absent, state[p[i]]) \in Notes
  BY <1>3 DEF NoteOf, Notes
<1>5. q \in [1..Cardinality(S) -> Notes]
  <2> HIDE DEF S
  <2> QED
    BY <1>1, <1>3, <1>4
<1> QED
  <2> HIDE DEF S
  <2> QED
    BY <1>3, <1>5

\* Initially nothing is on its way.
LEMMA InitSafe == OperatorInit => SafeInv
<1> SUFFICES ASSUME OperatorInit
             PROVE  SafeInv
  OBVIOUS
<1>1. dns \subseteq Addresses
  BY DEF OperatorInit, Init
<1>2. svcNotes \in Seq(Notes)
  BY InitialNotesTyped DEF OperatorInit, Init
<1>3. registry \in SafeRegistries
  <2>1. registry \in [{} -> SUBSET Allowed]
    BY DEF OperatorInit
  <2> QED
    BY <2>1 DEF SafeRegistries
<1>4. nsOut \in SafeLists /\ svcOut \in SafeLists /\ channel \in SafeLists
  BY DEF OperatorInit, Init, SafeLists
<1>5. nsNotes = <<>> /\ Len(channel) = 0 /\ changes = 0 /\ faults = 0 /\ whole = TRUE
      /\ namespace \in Labels /\ services \in [Services -> Service \cup {Absent}]
  BY DEF OperatorInit, Init
<1>6. MaxChanges \in Nat /\ MaxFaults \in Nat /\ ChanCap \in Nat
  BY ControllersAssumption, OperatorAssumption
<1> QED
  BY <1>1, <1>2, <1>3, <1>4, <1>5, <1>6
  DEF SafeInv, ClusterTyped, NotesTyped, OutTyped, ChannelTyped, RegistrySafe, HistoryTyped

\* What an event does to a registry.
After(R, e) ==
  IF e.type = "delete"
  THEN IF \E c \in DOMAIN R : c # <<>> /\ Parent(c) = e.object THEN R
       ELSE [x \in DOMAIN R \ {e.object} |-> R[x]]
  ELSE IF e.object # <<>> /\ Parent(e.object) \notin DOMAIN R THEN R
       ELSE [x \in DOMAIN R \cup {e.object} |-> IF x = e.object THEN e.metadata ELSE R[x]]

LEMMA HandleIsAfter == Handle => registry' = After(registry, Head(channel))
BY Zenon DEF Handle, Registered, Deregistered, Restrict, Present, After

LEMMA AfterTyped ==
  ASSUME NEW R \in SafeRegistries, NEW e \in SafeEvents
  PROVE  After(R, e) \in SafeRegistries
<1>1. PICK D \in SUBSET Objects : R \in [D -> SUBSET Allowed]
  BY DEF SafeRegistries
<1>2. e.object \in Objects /\ e.metadata \in SUBSET Allowed
  BY DEF SafeEvents
<1>3. [x \in D \cup {e.object} |-> IF x = e.object THEN e.metadata ELSE R[x]]
        \in [D \cup {e.object} -> SUBSET Allowed]
  BY <1>1, <1>2
<1>4. [x \in D \ {e.object} |-> R[x]] \in [D \ {e.object} -> SUBSET Allowed]
  BY <1>1
<1>5. D \cup {e.object} \in SUBSET Objects /\ D \ {e.object} \in SUBSET Objects
  BY <1>2
<1> QED
  BY <1>1, <1>3, <1>4, <1>5 DEF After, SafeRegistries

\* The cluster changes.
LEMMA ChangeSafe ==
  ASSUME SafeInv,
         \/ \E s \in Services : \E new \in Service :
              ApplyService(s, new) /\ KeepsWholeIf(~Grows(s, new) /\ NamespaceControllerIdle)
         \/ \E s \in Services : MarkService(s) /\ KeepsWholeIf(TRUE)
         \/ \E s \in Services : RemoveService(s) /\ KeepsWholeIf(TRUE)
         \/ \E new \in Labels \cup {Absent} :
              ChangeNamespace(new) /\ KeepsWholeIf(~Enables(new) /\ ServiceControllerIdle)
         \/ \E new \in SUBSET Addresses : ChangeNames(new) /\ KeepsWholeIf(FALSE)
         \/ Resync /\ Told
         \/ Restart /\ Told
  PROVE  SafeInv'
<1> USE DEF SafeInv
<1>1. UNCHANGED <<registry, faults>> /\ whole' \in BOOLEAN
  BY DEF KeepsWholeIf, Told, NamespaceControllerIdle, HistoryTyped
<1>2. RegistrySafe' /\ HistoryTyped'
  BY <1>1 DEF RegistrySafe, HistoryTyped
<1>3. changes' \in 0..MaxChanges
  <2>1. Changing \/ changes' = changes
    BY DEF ApplyService, MarkService, RemoveService, ServiceChange, ChangeNamespace,
           ChangeNames, Resync, Restart
  <2> QED
    BY <2>1, ControllersAssumption DEF Changing, ClusterTyped
<1>4. ASSUME NEW s \in Services, NEW new \in Service \cup {Absent}, ServiceChange(s, new)
      PROVE  SafeInv'
  <2>1. NoteOf(s, services[s], new) \in Notes
    BY DEF NoteOf, Notes, ClusterTyped
  <2>2. NotesTyped'
    BY <1>4, <2>1 DEF ServiceChange, NotesTyped
  <2>3. ClusterTyped'
    BY <1>3, <1>4 DEF ServiceChange, ClusterTyped
  <2>4. OutTyped' /\ ChannelTyped'
    BY <1>4 DEF ServiceChange, OutTyped, ChannelTyped
  <2> QED
    BY <1>2, <2>2, <2>3, <2>4
<1>5. CASE \E s \in Services : \E new \in Service : ApplyService(s, new)
  BY <1>4, <1>5 DEF ApplyService
<1>6. CASE \E s \in Services : MarkService(s)
  <2>1. PICK s \in Services : MarkService(s)
    BY <1>6
  <2>2. services[s] \in Service
    BY <2>1 DEF MarkService, ClusterTyped
  <2>3. [services[s] EXCEPT !.deleting = TRUE] \in Service
    BY <2>2 DEF Service
  <2> QED
    BY <1>4, <2>1, <2>3 DEF MarkService
<1>7. CASE \E s \in Services : RemoveService(s)
  BY <1>4, <1>7 DEF RemoveService
<1>8. CASE \E new \in Labels \cup {Absent} : ChangeNamespace(new)
  <2>1. PICK new \in Labels \cup {Absent} : ChangeNamespace(new)
    BY <1>8
  <2>2. [old |-> namespace, new |-> new] \in NamespaceNotes
    BY DEF NamespaceNotes, ClusterTyped
  <2>3. NotesTyped'
    BY <2>1, <2>2 DEF ChangeNamespace, NotesTyped
  <2>4. ClusterTyped' /\ OutTyped' /\ ChannelTyped'
    BY <1>3, <2>1 DEF ChangeNamespace, ClusterTyped, OutTyped, ChannelTyped
  <2> QED
    BY <1>2, <2>3, <2>4
<1>9. CASE \E new \in SUBSET Addresses : ChangeNames(new)
  BY <1>2, <1>3, <1>9
  DEF ChangeNames, controllerVars, ClusterTyped, NotesTyped, OutTyped, ChannelTyped
<1>10. CASE Resync
  <2>1. PICK q \in InitialNotes(services) :
          svcNotes' = svcNotes \o [i \in DOMAIN q |-> [q[i] EXCEPT !.old = q[i].new]]
    BY <1>10 DEF Resync
  <2>2. q \in Seq(Notes)
    BY InitialNotesTyped DEF ClusterTyped
  <2>3. \A n \in Notes : [n EXCEPT !.old = n.new] \in Notes
    BY DEF Notes
  <2>4. [i \in DOMAIN q |-> [q[i] EXCEPT !.old = q[i].new]] \in Seq(Notes)
    BY <2>2, <2>3
  <2>5. svcNotes' \in Seq(Notes) /\ nsNotes' = nsNotes
    <3>1. \A a, b \in Seq(Notes) : a \o b \in Seq(Notes)
      OBVIOUS
    <3>2. svcNotes \in Seq(Notes) /\ nsNotes' = nsNotes
      BY <1>10 DEF Resync, NotesTyped
    <3> QED
      BY <2>1, <2>4, <3>1, <3>2, Zenon
  <2>6. NotesTyped' /\ ClusterTyped' /\ OutTyped' /\ ChannelTyped'
    BY <1>3, <1>10, <2>5 DEF Resync, NotesTyped, ClusterTyped, OutTyped, ChannelTyped
  <2> QED
    BY <1>2, <2>6
<1>11. CASE Restart
  <2>1. svcNotes' \in Seq(Notes)
    BY <1>11, InitialNotesTyped DEF Restart, ClusterTyped
  <2>2. NotesTyped'
    BY <1>11, <2>1 DEF Restart, NotesTyped
  <2>3. ClusterTyped' /\ OutTyped' /\ ChannelTyped'
    BY <1>3, <1>11, ControllersAssumption
    DEF Restart, ClusterTyped, OutTyped, ChannelTyped, SafeLists
  <2> QED
    BY <1>2, <2>2, <2>3
<1> QED
  BY <1>5, <1>6, <1>7, <1>8, <1>9, <1>10, <1>11

LEMMA FaultsTyped ==
  ASSUME HistoryTyped, Fault
  PROVE  HistoryTyped'
<1>1. faults' \in 0..MaxFaults
  BY OperatorAssumption DEF HistoryTyped, Fault
<1>2. whole' \in BOOLEAN
  BY Zenon DEF Fault
<1> QED
  BY <1>1, <1>2 DEF HistoryTyped

\* A controller looks at a change, or is unable to.
LEMMA LookSafe ==
  ASSUME SafeInv,
         \/ HandleService /\ KeepsWholeIf(LookupsSucceed(Head(svcNotes)))
         \/ HandleNamespace /\ KeepsWholeIf(TRUE)
         \/ HandleServiceFails /\ Fault
         \/ HandleNamespaceFails /\ Fault
  PROVE  SafeInv'
<1> USE DEF SafeInv
<1>1. UNCHANGED <<namespace, services, dns, changes, channel, registry>>
  BY DEF HandleService, HandleNamespace, HandleServiceFails, HandleNamespaceFails, Fault,
         KeepsWholeIf, clusterVars
<1>2. ClusterTyped' /\ ChannelTyped' /\ RegistrySafe'
  BY <1>1 DEF ClusterTyped, ChannelTyped, RegistrySafe
<1>3. HistoryTyped'
  BY FaultsTyped DEF KeepsWholeIf, HistoryTyped
<1>4. NotesTyped'
  <2>1. /\ nsNotes' = nsNotes \/ (nsNotes # <<>> /\ nsNotes' = Tail(nsNotes))
        /\ svcNotes' = svcNotes \/ (svcNotes # <<>> /\ svcNotes' = Tail(svcNotes))
    <3>1. CASE HandleService
      BY <3>1 DEF HandleService
    <3>2. CASE HandleNamespace
      BY <3>2 DEF HandleNamespace
    <3>3. CASE HandleServiceFails
      BY <3>3 DEF HandleServiceFails
    <3>4. CASE HandleNamespaceFails
      BY <3>4 DEF HandleNamespaceFails
    <3> QED
      BY <3>1, <3>2, <3>3, <3>4
  <2>2. \A S : \A q \in Seq(S) : q # <<>> => Tail(q) \in Seq(S)
    OBVIOUS
  <2> QED
    BY <2>1, <2>2 DEF NotesTyped
<1>5. CASE HandleService
  <2>1. Head(svcNotes) \in Notes
    BY <1>5 DEF HandleService, NotesTyped
  <2>2. svcOut' \in SafeLists
    BY <1>5, <2>1, ServiceEventsTyped DEF HandleService, ClusterTyped, Notes
  <2> QED
    BY <1>2, <1>3, <1>4, <1>5, <2>2 DEF HandleService, OutTyped
<1>6. CASE HandleNamespace
  <2>1. Head(nsNotes) \in NamespaceNotes
    BY <1>6 DEF HandleNamespace, NotesTyped
  <2>2. nsOut' \in SafeLists
    BY <1>6, <2>1, NamespaceEventsTyped DEF HandleNamespace, ClusterTyped, NamespaceNotes
  <2> QED
    BY <1>2, <1>3, <1>4, <1>6, <2>2 DEF HandleNamespace, OutTyped
<1>7. CASE HandleServiceFails \/ HandleNamespaceFails
  BY <1>2, <1>3, <1>4, <1>7 DEF HandleServiceFails, HandleNamespaceFails, OutTyped
<1> QED
  BY <1>5, <1>6, <1>7

\* An event is sent, dealt with or lost.
LEMMA EventSafe ==
  ASSUME SafeInv,
         \/ SendService /\ KeepsWholeIf(TRUE)
         \/ SendNamespace /\ KeepsWholeIf(TRUE)
         \/ Handle
         \/ Lose
  PROVE  SafeInv'
<1> USE DEF SafeInv
<1>1. UNCHANGED <<namespace, services, dns, changes, nsNotes, svcNotes>>
  BY DEF SendService, SendNamespace, Handle, Lose, Receive, clusterVars
<1>2. ClusterTyped' /\ NotesTyped'
  BY <1>1 DEF ClusterTyped, NotesTyped
<1>3. HistoryTyped'
  BY FaultsTyped DEF Handle, Lose, KeepsWholeIf, HistoryTyped
<1>4. OutTyped' /\ ChannelTyped'
  <2> USE ControllersAssumption DEF OutTyped, ChannelTyped, SafeLists
  <2>1. CASE SendService
    BY <2>1 DEF SendService
  <2>2. CASE SendNamespace
    BY <2>2 DEF SendNamespace
  <2>3. CASE channel # <<>> /\ Receive(Head(channel))
    BY <2>3 DEF Receive
  <2> QED
    BY <2>1, <2>2, <2>3 DEF Handle, Lose
<1>5. CASE KeepsWholeIf(TRUE) \/ Lose
  BY <1>2, <1>3, <1>4, <1>5 DEF KeepsWholeIf, Lose, Fault, RegistrySafe
<1>6. CASE Handle
  <2>1. Head(channel) \in SafeEvents
    BY <1>6 DEF Handle, ChannelTyped, SafeLists
  <2>2. RegistrySafe'
    BY <1>6, <2>1, HandleIsAfter, AfterTyped DEF RegistrySafe
  <2> QED
    BY <1>2, <1>3, <1>4, <2>2
<1> QED
  BY <1>5, <1>6

LEMMA NextSafe == SafeInv /\ [Next]_vars => SafeInv'
<1>1. ASSUME SafeInv, UNCHANGED vars
      PROVE  SafeInv'
  BY <1>1
  DEF SafeInv, vars, clusterVars, controllerVars, ClusterTyped, NotesTyped, OutTyped, ChannelTyped,
      RegistrySafe, HistoryTyped
<1>2. ASSUME SafeInv, Next
      PROVE  SafeInv'
  BY <1>1, <1>2, ChangeSafe, LookSafe, EventSafe DEF Next, Done
<1> QED
  BY <1>1, <1>2

\* What the state may be, whatever goes wrong.
THEOREM TypeCorrect == Spec => []TypeOK
  BY InitSafe, NextSafe, SafeIsTyped, PTL DEF Spec

\* No annotation that the setting serviceAnnotations does not allow is ever in the
\* registry, however the cluster changes and whatever is lost, fails or is done
\* twice: what is on its way to the registry never has one either.
THEOREM ExposesOnlyAllowedAlways == Spec => []ExposesOnlyAllowed
<1>1. SafeInv => ExposesOnlyAllowed
  <2>1. RegistrySafe => \A md \in Range(registry) : md \subseteq Allowed
    BY DEF RegistrySafe, SafeRegistries, Range
  <2> QED
    BY <2>1 DEF SafeInv, ExposesOnlyAllowed, Allowed
<1> QED
  BY InitSafe, NextSafe, <1>1, PTL DEF Spec
-----------------------------------------------------------------------------
\* The lengths of the lists of what is to be done.
LEMMA TailShorter ==
  ASSUME NEW S, NEW q \in Seq(S), q # <<>>
  PROVE  Len(Tail(q)) = Len(q) - 1 /\ Len(q) \in Nat \ {0}
OBVIOUS

LEMMA LengthsTyped ==
  ASSUME SafeInv
  PROVE  /\ Len(nsNotes) \in Nat /\ Len(svcNotes) \in Nat
         /\ Len(nsOut) \in Nat /\ Len(svcOut) \in Nat /\ Len(channel) \in Nat
BY DEF SafeInv, NotesTyped, OutTyped, ChannelTyped, SafeLists

\* A change of the cluster is counted.
LEMMA ClusterChangeCounts ==
  ASSUME SafeInv, Changing
  PROVE  changes' # changes
BY DEF SafeInv, HistoryTyped, Changing

LEMMA StepDiminishesWork ==
  ASSUME SafeInv, Next, changes' = changes, vars' # vars
  PROVE  \/ Work'.notes < Work.notes
         \/ Work'.notes = Work.notes /\ Work'.events < Work.events
<1>1. /\ Work.notes = Len(nsNotes) + Len(svcNotes)
      /\ Work.events = 2 * (Len(nsOut) + Len(svcOut)) + Len(channel)
      /\ Work'.notes = Len(nsNotes') + Len(svcNotes')
      /\ Work'.events = 2 * (Len(nsOut') + Len(svcOut')) + Len(channel')
  BY DEF Work
<1>2. /\ nsNotes \in Seq(NamespaceNotes) /\ svcNotes \in Seq(Notes)
      /\ nsOut \in Seq(SafeEvents) /\ svcOut \in Seq(SafeEvents) /\ channel \in Seq(SafeEvents)
  BY DEF SafeInv, NotesTyped, OutTyped, ChannelTyped, SafeLists
<1>3. CASE HandleService \/ HandleServiceFails
  <2>1. svcNotes # <<>> /\ svcNotes' = Tail(svcNotes) /\ nsNotes' = nsNotes
    BY <1>3 DEF HandleService, HandleServiceFails
  <2>2. Len(svcNotes') = Len(svcNotes) - 1
    BY <1>2, <2>1, TailShorter
  <2> QED
    BY <1>1, <2>1, <2>2, LengthsTyped
<1>4. CASE HandleNamespace \/ HandleNamespaceFails
  <2>1. nsNotes # <<>> /\ nsNotes' = Tail(nsNotes) /\ svcNotes' = svcNotes
    BY <1>4 DEF HandleNamespace, HandleNamespaceFails
  <2>2. Len(nsNotes') = Len(nsNotes) - 1
    BY <1>2, <2>1, TailShorter
  <2> QED
    BY <1>1, <2>1, <2>2, LengthsTyped
<1>5. CASE SendService
  <2>1. /\ svcOut # <<>> /\ svcOut' = Tail(svcOut) /\ channel' = Append(channel, Head(svcOut))
        /\ UNCHANGED <<nsNotes, svcNotes, nsOut>>
    BY <1>5 DEF SendService
  <2>2. Len(svcOut') = Len(svcOut) - 1
    BY <1>2, <2>1, TailShorter
  <2>3. Len(channel') = Len(channel) + 1
    BY <1>2, <2>1
  <2> QED
    BY <1>1, <2>1, <2>2, <2>3, LengthsTyped
<1>6. CASE SendNamespace
  <2>1. /\ nsOut # <<>> /\ nsOut' = Tail(nsOut) /\ channel' = Append(channel, Head(nsOut))
        /\ UNCHANGED <<nsNotes, svcNotes, svcOut>>
    BY <1>6 DEF SendNamespace
  <2>2. Len(nsOut') = Len(nsOut) - 1
    BY <1>2, <2>1, TailShorter
  <2>3. Len(channel') = Len(channel) + 1
    BY <1>2, <2>1
  <2> QED
    BY <1>1, <2>1, <2>2, <2>3, LengthsTyped
<1>7. CASE Handle \/ Lose
  <2>1. /\ channel # <<>> /\ channel' = Tail(channel)
        /\ UNCHANGED <<nsNotes, svcNotes, nsOut, svcOut>>
    BY <1>7 DEF Handle, Lose, Receive
  <2>2. Len(channel') = Len(channel) - 1
    BY <1>2, <2>1, TailShorter
  <2> QED
    BY <1>1, <2>1, <2>2, LengthsTyped
<1>8. ~Changing /\ ~Done
  BY ClusterChangeCounts DEF Done
<1> QED
  BY <1>3, <1>4, <1>5, <1>6, <1>7, <1>8
     DEF Next, ApplyService, MarkService, RemoveService, ServiceChange, ChangeNamespace, ChangeNames,
         Resync, Restart

\* The operator comes to rest: while the cluster does not change each step leaves less
\* to be done, in an order in which nothing can become less for ever (numbers of
\* changes to be looked at first, then of events).
THEOREM WorkDiminishesAlways == Spec => WorkDiminishes
<1>1. SafeInv /\ [Next]_vars =>
        [changes' = changes =>
           \/ Work'.notes < Work.notes
           \/ Work'.notes = Work.notes /\ Work'.events < Work.events]_vars
  BY StepDiminishesWork
<1> QED
  BY <1>1, InitSafe, NextSafe, PTL DEF Spec, WorkDiminishes
-----------------------------------------------------------------------------
(***************************************************************************)
(* Nobody waits for ever: whatever is to be looked at, to be sent or to be *)
(* handled, somebody can go on.                                            *)
(***************************************************************************)

LEMMA ListExists ==
  ASSUME NEW S, IsFiniteSet(S)
  PROVE  SetToSeqs(S) # {}
<1>1. PICK f : f \in Bijection(1..Cardinality(S), S)
  BY FS_CardinalityType DEF ExistsBijection
<1>2. f \in [1..Cardinality(S) -> S] /\ \A i, j \in 1..Cardinality(S) : f[i] = f[j] => i = j
  BY <1>1 DEF Bijection, Injection, IsInjective
<1>3. f \in SetToSeqs(S)
  BY <1>2 DEF SetToSeqs
<1> QED
  BY <1>3

\* For each service the code has a list to send.
LEMMA ServiceListsExist ==
  ASSUME NEW s \in Services, NEW old \in SafeChecks, NEW new \in SafeChecks
  PROVE  /\ Creation(s, new) # {} /\ Deletion(s, new) # {} /\ Deletion(s, old) # {}
         /\ Modification(s, old, new) # {} /\ OnUpdate(s, old, new) # {}
<1>1. PICK p : p \in SetToSeqs(EndpointsOf(s, old))
  BY EndpointsTyped, ListExists
<1>2. PICK q : q \in SetToSeqs(EndpointsOf(s, new))
  BY EndpointsTyped, ListExists
<1>3. Creation(s, new) # {}
  BY <1>2 DEF Creation, Each
<1>4. Deletion(s, new) # {} /\ Deletion(s, old) # {}
  BY <1>1, <1>2 DEF Deletion, Each
<1>5. Modification(s, old, new) # {}
  BY <1>1 DEF Modification, Each
<1>6. old.passed \in BOOLEAN /\ new.passed \in BOOLEAN
  BY DEF SafeChecks
<1>7. OnUpdate(s, old, new) # {}
  BY <1>3, <1>4, <1>5, <1>6 DEF OnUpdate
<1> QED
  BY <1>3, <1>4, <1>5, <1>7

\* The lists that are made of a change, after what the checks have found.
ListsOf(n, old, new) ==
  CASE n.old = Absent -> IF new.passed THEN Creation(n.name, new) ELSE {<<>>}
    [] n.old # Absent /\ n.new.deleting ->
         IF n.old.deleting THEN {<<>>} ELSE Deletion(n.name, new)
    [] n.old # Absent /\ ~n.new.deleting -> OnUpdate(n.name, old, new)

LEMMA ServiceEventsAre ==
  ASSUME NEW n, NEW mayFail, NEW q
  PROVE  q \in ServiceEvents(n, mayFail)
           <=> IF ~WatchedNow \/ n.new = Absent THEN q = <<>>
               ELSE \E old \in Checks(n.old, mayFail), new \in Checks(n.new, mayFail) :
                      q \in ListsOf(n, old, new)
<1>1. CASE ~WatchedNow \/ n.new = Absent
  BY <1>1 DEF ServiceEvents
<1>2. CASE WatchedNow /\ n.new # Absent
  <2>1. ServiceEvents(n, mayFail) =
          UNION {ListsOf(n, old, new) : old \in Checks(n.old, mayFail),
                                        new \in Checks(n.new, mayFail)}
    BY <1>2 DEF ServiceEvents, ListsOf
  <2> QED
    BY <1>2, <2>1
<1> QED
  BY <1>1, <1>2

LEMMA ServiceEventsExist ==
  ASSUME dns \subseteq Addresses,
         NEW n \in [name : Services, old : Service \cup {Absent}, new : Service \cup {Absent}]
  PROVE  ServiceEvents(n, TRUE) # {}
<1>1. PICK old \in SafeChecks, new \in SafeChecks : old = Check(n.old) /\ new = Check(n.new)
  BY CheckTyped
<1>2. old \in Checks(n.old, TRUE) /\ new \in Checks(n.new, TRUE)
  BY <1>1 DEF Checks
<1>3. PICK q : q \in ListsOf(n, old, new)
  BY ServiceListsExist DEF ListsOf
<1>4. CASE ~WatchedNow \/ n.new = Absent
  BY <1>4, ServiceEventsAre
<1>5. CASE WatchedNow /\ n.new # Absent
  BY <1>2, <1>3, <1>5, ServiceEventsAre
<1> QED
  BY <1>4, <1>5

LEMMA NamespaceAndServicesExist ==
  ASSUME dns \subseteq Addresses, services \in [Services -> Service \cup {Absent}], NEW kind
  PROVE  NamespaceAndServices(kind) # {}
<1> DEFINE found == {s \in Services : Published(services[s])}
<1>1. IsFiniteSet(found)
  BY ControllersAssumption, FS_Subset
<1>2. PICK p : p \in SetToSeqs(found)
  BY <1>1, ListExists
<1>3. \A i \in DOMAIN p : p[i] \in Services
  <2>1. \A i \in DOMAIN p : p[i] \in found
    <3> HIDE DEF found
    <3> QED
      BY <1>1, <1>2, ListTyped
  <2> QED
    BY <2>1
<1> DEFINE sets == [i \in DOMAIN p |-> OfService(kind, p[i])]
<1>4. \A i \in DOMAIN p : sets[i] # {}
  <2> SUFFICES ASSUME NEW i \in DOMAIN p
               PROVE  OfService(kind, p[i]) # {}
    OBVIOUS
  <2>1. PICK s \in Services : s = p[i]
    BY <1>3
  <2>2. PICK check \in SafeChecks : check = Check(services[s])
    BY CheckTyped
  <2>3. PICK q : q \in SetToSeqs(EndpointsOf(s, check))
    BY EndpointsTyped, ListExists
  <2>4. PICK d : d = [k \in DOMAIN q |-> Delete(q[k])]
    OBVIOUS
  <2>5. d \in Each(Delete, EndpointsOf(s, check))
    BY <2>3, <2>4 DEF Each
  <2>6. d \o <<Delete(<<s>>)>> \in Deletion(s, check)
    BY <2>5 DEF Deletion
  <2> QED
    BY <2>1, <2>2, <2>5, <2>6 DEF OfService
<1>5. PICK f : f = [i \in DOMAIN p |-> CHOOSE q \in sets[i] : TRUE]
  OBVIOUS
<1>6. DOMAIN sets = DOMAIN p /\ \A i \in DOMAIN p : f[i] \in sets[i]
  BY <1>4, <1>5
<1> HIDE DEF sets
<1>7. f \in [DOMAIN sets -> UNION Range(sets)]
  BY <1>5, <1>6 DEF Range
<1>8. FlattenSeq(f) \in Concatenations(sets)
  BY <1>6, <1>7, Zenon DEF Concatenations
<1>9. PICK q : q = IF kind = "create" THEN <<Create(<<>>, {})>> \o FlattenSeq(f)
                   ELSE FlattenSeq(f) \o <<Delete(<<>>)>>
  OBVIOUS
<1>10. FlattenSeq(f) \in UNION {Concatenations([i \in DOMAIN r |-> OfService(kind, r[i])]) :
                                  r \in SetToSeqs(found)}
  BY <1>2, <1>8 DEF sets
<1>11. found \in {g \in SUBSET {s \in Services : Published(services[s])} :
                   \A s \in Services : Published(services[s]) /\ ~services[s].byName => s \in g}
  OBVIOUS
<1> DEFINE lists(g) ==
      {IF kind = "create" THEN <<Create(<<>>, {})>> \o l ELSE l \o <<Delete(<<>>)>> :
         l \in UNION {Concatenations([i \in DOMAIN r |-> OfService(kind, r[i])]) :
                        r \in SetToSeqs(g)}}
<1>12. NamespaceAndServices(kind)
         = UNION {lists(g) : g \in {h \in SUBSET {s \in Services : Published(services[s])} :
                   \A s \in Services : Published(services[s]) /\ ~services[s].byName => s \in h}}
  BY DEF NamespaceAndServices
<1>13. q \in lists(found)
  BY <1>9, <1>10
<1> HIDE DEF found, lists
<1>14. q \in NamespaceAndServices(kind)
  BY <1>11, <1>12, <1>13
<1> QED
  BY <1>14

LEMMA NamespaceEventsExist ==
  ASSUME dns \subseteq Addresses, services \in [Services -> Service \cup {Absent}],
         NEW n \in NamespaceNotes
  PROVE  NamespaceEvents(n) # {}
<1>1. NamespaceAndServices("create") # {} /\ NamespaceAndServices("delete") # {}
  BY NamespaceAndServicesExist
<1>2. Watches(n.old) \in BOOLEAN /\ Watches(n.new) \in BOOLEAN
  BY DEF Watches
<1> QED
  BY <1>1, <1>2 DEF NamespaceEvents

\* The handler, one of the senders or one of the controllers can make its step: these
\* are the guards of Handle, SendService, SendNamespace, HandleService, HandleNamespace.
SomebodyCanGoOn ==
  \/ channel # <<>>
  \/ svcOut # <<>> /\ Len(channel) < ChanCap
  \/ nsOut # <<>> /\ Len(channel) < ChanCap
  \/ svcOut = <<>> /\ svcNotes # <<>> /\ ServiceEvents(Head(svcNotes), TRUE) # {}
  \/ nsOut = <<>> /\ nsNotes # <<>> /\ NamespaceEvents(Head(nsNotes)) # {}

\* As long as anything is to be done the operator can do it without the help of a fault
\* or a change of the cluster: with WorkDiminishesAlways it settles after each change,
\* provided that what can go on does.
THEOREM NeverStuck == Spec => [](Settled \/ SomebodyCanGoOn)
<1>1. ASSUME SafeInv, ~Settled
      PROVE  SomebodyCanGoOn
  <2>1. /\ dns \subseteq Addresses /\ services \in [Services -> Service \cup {Absent}]
        /\ nsNotes \in Seq(NamespaceNotes) /\ svcNotes \in Seq(Notes)
    BY <1>1 DEF SafeInv, ClusterTyped, NotesTyped
  <2>2. channel = <<>> => Len(channel) < ChanCap
    BY ControllersAssumption
  <2>3. CASE channel # <<>> \/ svcOut # <<>> \/ nsOut # <<>>
    BY <2>2, <2>3 DEF SomebodyCanGoOn
  <2>4. CASE svcOut = <<>> /\ svcNotes # <<>>
    <3>1. Head(svcNotes) \in Notes
      BY <2>1, <2>4
    <3>2. ServiceEvents(Head(svcNotes), TRUE) # {}
      BY <2>1, <3>1, ServiceEventsExist DEF Notes
    <3> QED
      BY <2>4, <3>2 DEF SomebodyCanGoOn
  <2>5. CASE nsOut = <<>> /\ nsNotes # <<>>
    <3>1. Head(nsNotes) \in NamespaceNotes
      BY <2>1, <2>5
    <3>2. NamespaceEvents(Head(nsNotes)) # {}
      BY <2>1, <3>1, NamespaceEventsExist
    <3> QED
      BY <2>5, <3>2 DEF SomebodyCanGoOn
  <2> QED
    BY <1>1, <2>3, <2>4, <2>5 DEF Settled, NamespaceControllerIdle, ServiceControllerIdle
<1> QED
  BY <1>1, InitSafe, NextSafe, PTL DEF Spec
=============================================================================
